----------------------------- MODULE JetPlaylist -----------------------------
(***************************************************************************)
(* What the segment queue of JET promises to the application: a playlist.  *)
(* Segments play in the order in which they were queued, one at a time,    *)
(* each once and as often again as its repeat count says (for ever when it *)
(* is negative); none is lost, none comes twice.                           *)
(***************************************************************************)
EXTENDS Integers, Sequences

CONSTANTS
    Capacity,   \* segments that can wait or play at once
    UserIDs,    \* names the application gives to its segments
    Repeats     \* repeat counts it asks for, negative for "for ever"

VARIABLES
    list,       \* the segments to be played, the one that plays first
    mode        \* what its head does: "waits", "plays" or "pauses"

vars == <<list, mode>>

TypeOK ==
    /\ list \in Seq([userID : UserIDs, repeatCount : Int]) /\ Len(list) <= Capacity
    /\ mode \in {"waits", "plays", "pauses"}

Init == list = <<>> /\ mode = "waits"

Queue(id, count) ==
    /\ Len(list) < Capacity
    /\ list' = Append(list, [userID |-> id, repeatCount |-> count])
    /\ UNCHANGED mode

Play ==
    /\ list # <<>> /\ mode # "plays"
    /\ mode' = "plays"
    /\ UNCHANGED list

Pause ==
    /\ mode = "plays"
    /\ mode' = "pauses"
    /\ UNCHANGED list

\* The head has come to its end and begins again.
Repeat ==
    /\ mode = "plays" /\ list[1].repeatCount # 0
    /\ list' = [list EXCEPT ![1].repeatCount = IF @ > 0 THEN @ - 1 ELSE @]
    /\ UNCHANGED mode

\* The head has come to its end for the last time.
Finish ==
    /\ mode = "plays" /\ list[1].repeatCount = 0
    /\ list' = Tail(list)
    /\ mode' = "waits"

Clear == list' = <<>> /\ mode' = "waits"

Next ==
    \/ \E id \in UserIDs, count \in Repeats : Queue(id, count)
    \/ Play
    \/ Pause
    \/ Repeat
    \/ Finish
    \/ Clear

Spec == Init /\ [][Next]_vars
=============================================================================
