------------------------------ MODULE SmfScore ------------------------------
(***************************************************************************)
(* What a player of MIDI files promises: the events of all tracks come in  *)
(* the order of their time, each once, and the song has ended when none is *)
(* left.  A song may be started again.                                     *)
(***************************************************************************)
EXTENDS Sequences

VARIABLES
    score,  \* the events of the song in the order of their time
    left,   \* those that are still to come
    ended   \* the player says the song is over

vars == <<score, left, ended>>

Init == left = score /\ ended = FALSE

Play ==
    /\ left # <<>>
    /\ left' = Tail(left)
    /\ ended' = (left' = <<>>)
    /\ UNCHANGED score

Restart == left' = score /\ ended' = FALSE /\ UNCHANGED score

Next == Play \/ Restart

Spec == Init /\ [][Next]_vars
=============================================================================
