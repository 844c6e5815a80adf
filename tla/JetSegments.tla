----------------------------- MODULE JetSegments -----------------------------
(***************************************************************************)
(* The segment queue of the JET engine (lib_src/jet.c): a ring of slots,   *)
(* each with a stream of its own.  The application queues segments, plays, *)
(* pauses and clears; JET_Process, at the end of each EAS_Render, looks at *)
(* the slots one after the other: it repeats or ends the segment that      *)
(* plays, starts the next one, prepares the one after it and closes those  *)
(* whose sound is over.                                                    *)
(*                                                                         *)
(* What is kept: the state of each slot and every transition of it, the    *)
(* indexes, the count, the PLAYING flag, the mute flags and their deferred *)
(* update.  What is abstracted: a stream is what EAS_State answers of it   *)
(* (module StreamTransport has the rest), a tick is any progress of it;    *)
(* the ring of JET events holds at most the LOOP_END marker of the segment *)
(* that plays, for JET_Process empties it in the frame that filled it.     *)
(***************************************************************************)
EXTENDS Integers, FiniteSets

CONSTANTS
    SEG_QUEUE_DEPTH,  \* slots of the ring
    UserIDs,          \* names the application gives to its segments
    Repeats,          \* repeat counts it asks for, negative for "for ever"
    MuteFlags,        \* sets of tracks it mutes; {} is none
    ClearsQueue,      \* before it opens another file, the application empties
                      \* the queue (JET_Clear_Queue, or JET_Shutdown)
    CanFail           \* a segment may fail to be opened or to be prepared

ASSUME SegmentAssumption ==
    /\ SEG_QUEUE_DEPTH \in Nat \ {0}
    /\ UserIDs \subseteq Nat
    /\ Repeats \subseteq Int
    /\ \A m \in MuteFlags : IsFiniteSet(m)
    /\ ClearsQueue \in BOOLEAN
    /\ CanFail \in BOOLEAN

VARIABLES
    file,         \* "none" before JET_Init, then "closed" or "open"
    state,        \* S_JET_SEGMENT.state
    entry,        \* S_JET_SEGMENT.userID and .repeatCount
    muteFlags,    \* S_JET_SEGMENT.muteFlags
    muteUpdate,   \* S_JET_SEGMENT.flags has JET_SEG_FLAG_MUTE_UPDATE
    stream,       \* what EAS_State answers of S_JET_SEGMENT.streamHandle
    muted,        \* the tracks muted in the stream
    playSegment, queueSegment, numQueuedSegments,
    playing,      \* S_JET_DATA.flags has JET_FLAGS_PLAYING
    call,         \* JET_Process in progress
    late,         \* a segment was queued while another one was stopping, or
                  \* could not be prepared when its turn came
    derailed,     \* a call to queue a segment failed half way
    quiet,        \* the application does nothing any more but render
    deferred      \* history: slots for which the application asked, with their
                  \* next repeat, for other mutes than their stream has

slots == <<state, entry, muteFlags, muteUpdate, stream, muted>>
queue == <<playSegment, queueSegment, numQueuedSegments, playing>>
host  == <<late, derailed, quiet, deferred>>
vars  == <<file, slots, queue, call, host>>

Slots == 0 .. SEG_QUEUE_DEPTH - 1

NextSegment(i) == (i + 1) % SEG_QUEUE_DEPTH

States  == {"CLOSED", "OPEN", "READY", "PLAYING", "PAUSED", "STOPPING"}
Streams == {"none", "open", "paused", "play", "stopping", "stopped"}
Entries == [userID : UserIDs \cup {0}, repeatCount : Int]

\* JET_Process: where it began, how many slots it has looked at, its flags.
Idle  == [step |-> "idle", first |-> 0, done |-> 0, endOfLoop |-> FALSE,
          startNext |-> FALSE, prepareNext |-> FALSE]
Calls == [step : {"idle", "process"}, first : Slots, done : 0 .. SEG_QUEUE_DEPTH,
          endOfLoop : BOOLEAN, startNext : BOOLEAN, prepareNext : BOOLEAN]

Zeroed == [userID |-> 0, repeatCount |-> 0]

TypeOK ==
    /\ file \in {"none", "closed", "open"}
    /\ state \in [Slots -> States]
    /\ entry \in [Slots -> Entries]
    /\ muteFlags \in [Slots -> MuteFlags \cup {{}}]
    /\ muteUpdate \in [Slots -> BOOLEAN]
    /\ stream \in [Slots -> Streams]
    /\ muted \in [Slots -> MuteFlags \cup {{}}]
    /\ playSegment \in Slots /\ queueSegment \in Slots
    /\ numQueuedSegments \in 0 .. SEG_QUEUE_DEPTH
    /\ playing \in BOOLEAN
    /\ call \in Calls
    /\ late \in BOOLEAN /\ derailed \in BOOLEAN /\ quiet \in BOOLEAN
    /\ deferred \subseteq Slots

Used    == {i \in Slots : stream[i] # "none"}
Waiting == {i \in Slots : state[i] \in {"OPEN", "READY", "PLAYING", "PAUSED"}}

Init ==
    /\ file = "none"
    /\ state = [i \in Slots |-> "CLOSED"]
    /\ entry = [i \in Slots |-> Zeroed]
    /\ muteFlags = [i \in Slots |-> {}]
    /\ muteUpdate = [i \in Slots |-> FALSE]
    /\ stream = [i \in Slots |-> "none"]
    /\ muted = [i \in Slots |-> {}]
    /\ playSegment = 0 /\ queueSegment = 0 /\ numQueuedSegments = 0
    /\ playing = FALSE
    /\ call = Idle
    /\ late = FALSE /\ derailed = FALSE /\ quiet = FALSE /\ deferred = {}

-----------------------------------------------------------------------------
(* Calls of the application, between frames.                               *)

Application == call = Idle /\ ~quiet

\* The data of JET is allocated and cleared.
JET_Init ==
    /\ Application /\ file = "none"
    /\ file' = "closed"
    /\ state' = [i \in Slots |-> "CLOSED"]
    /\ entry' = [i \in Slots |-> Zeroed]
    /\ muteFlags' = [i \in Slots |-> {}]
    /\ muteUpdate' = [i \in Slots |-> FALSE]
    /\ stream' = [i \in Slots |-> "none"]
    /\ muted' = [i \in Slots |-> {}]
    /\ playSegment' = 0 /\ queueSegment' = 0 /\ numQueuedSegments' = 0
    /\ playing' = FALSE
    /\ deferred' = {}
    /\ UNCHANGED <<call, late, derailed, quiet>>

JET_OpenFile ==
    /\ Application /\ file = "closed"
    /\ ClearsQueue => playSegment = queueSegment /\ ~playing
    /\ file' = "open"
    /\ UNCHANGED <<slots, queue, call, host>>

\* JET_CloseSegment for every slot with a stream.  What a closed slot keeps is
\* overwritten when it is used again, all but its flags.
CloseSegments ==
    /\ stream' = [i \in Slots |-> "none"]
    /\ state' = [i \in Slots |-> IF i \in Used THEN "CLOSED" ELSE state[i]]
    /\ numQueuedSegments' = numQueuedSegments - Cardinality(Used)
    /\ entry' = [i \in Slots |-> Zeroed]
    /\ muteFlags' = [i \in Slots |-> {}] /\ muted' = [i \in Slots |-> {}]
    /\ deferred' = {}
    /\ UNCHANGED muteUpdate

\* The indexes and the flag stay as they are.
JET_CloseFile ==
    /\ Application /\ file = "open"
    /\ CloseSegments
    /\ file' = "closed"
    /\ late' = FALSE /\ derailed' = FALSE
    /\ UNCHANGED <<playSegment, queueSegment, playing, call, quiet>>

\* JET_CloseFile, and the data of JET is freed.
JET_Shutdown ==
    /\ Application /\ file # "none"
    /\ CloseSegments
    /\ playing' = FALSE /\ playSegment' = 0 /\ queueSegment' = 0
    /\ file' = "none"
    /\ late' = FALSE /\ derailed' = FALSE
    /\ UNCHANGED <<call, quiet>>

\* Mutant of JET_Clear_Queue: the next segment is queued where it would have been.
Clear_QueueInPlace ==
    /\ Application /\ file # "none"
    /\ CloseSegments
    /\ playing' = FALSE
    /\ late' = FALSE /\ derailed' = FALSE
    /\ playSegment' = 0
    /\ UNCHANGED <<queueSegment, file, call, quiet>>

JET_Clear_Queue ==
    /\ Application /\ file # "none"
    /\ CloseSegments
    /\ playing' = FALSE
    /\ playSegment' = 0 /\ queueSegment' = 0
    /\ late' = FALSE /\ derailed' = FALSE
    /\ UNCHANGED <<file, call, quiet>>

\* JET_PrepareSegment: EAS_Prepare and EAS_Pause, "must be triggered by play or
\* end of previous segment".
PrepareSegment(i) ==
    /\ stream' = [stream EXCEPT ![i] = "paused"]
    /\ state' = [state EXCEPT ![i] = "READY"]

\* Mutant of PreparesNow: one segment too few is prepared.
PreparesFewer(n) == n < SEG_QUEUE_DEPTH - 1

\* "If less than SEG_QUEUE_DEPTH segments queued up, prepare file for playback."
PreparesNow(n) == n < SEG_QUEUE_DEPTH

JET_QueueSegment(id, count, mutes) ==
    LET i == queueSegment
    IN  /\ Application /\ file = "open"
        /\ stream[i] = "none"
        /\ entry' = [entry EXCEPT ![i] = [userID |-> id, repeatCount |-> count]]
        /\ muteFlags' = [muteFlags EXCEPT ![i] = mutes]
        /\ numQueuedSegments' = numQueuedSegments + 1
        /\ IF PreparesNow(numQueuedSegments + 1)
           THEN PrepareSegment(i)
           ELSE /\ stream' = [stream EXCEPT ![i] = "open"]
                /\ state' = [state EXCEPT ![i] = "OPEN"]
        /\ queueSegment' = NextSegment(i)
        /\ late' = (late \/ \E j \in Slots : state[j] = "STOPPING")
        /\ UNCHANGED <<file, muteUpdate, muted, playSegment, playing, call, derailed, quiet,
                       deferred>>

\* A segment that cannot be opened leaves the slot closed.  A later error, in
\* JET_PrepareSegment (a transposition beyond an octave is one, when the segment
\* is READY already) or in EAS_HWDupHandle, leaves the segment in the ring, open
\* and counted, but the place for the next one is not moved on.
JET_QueueSegmentFails(id, count, mutes) ==
    LET i == queueSegment
    IN  /\ CanFail
        /\ Application /\ file = "open"
        /\ stream[i] = "none"
        /\ entry' = [entry EXCEPT ![i] = [userID |-> id, repeatCount |-> count]]
        /\ muteFlags' = [muteFlags EXCEPT ![i] = mutes]
        /\ numQueuedSegments' = numQueuedSegments + 1
        /\ \/ PreparesNow(numQueuedSegments + 1) /\ PrepareSegment(i)
           \/ /\ stream' = [stream EXCEPT ![i] = "open"]
              /\ state' = [state EXCEPT ![i] = "OPEN"]
        /\ derailed' = TRUE
        /\ UNCHANGED <<file, muteUpdate, muted, playSegment, queueSegment, playing, call,
                       late, quiet, deferred>>

\* JET_StartPlayback for the slots of set: flags of none are not set.
StartPlayback(set) ==
    /\ stream' = [i \in Slots |-> IF i \in set THEN "play" ELSE stream[i]]
    /\ state' = [i \in Slots |-> IF i \in set THEN "PLAYING" ELSE state[i]]
    /\ muted' = [i \in Slots |-> IF i \in set /\ muteFlags[i] # {}
                                 THEN muteFlags[i] ELSE muted[i]]

\* "Resume all paused streams."
JET_Play ==
    LET set == {i \in Slots : \/ i = playSegment /\ state[i] = "READY"
                              \/ state[i] = "PAUSED"}
    IN  /\ Application /\ file # "none"
        /\ ~playing
        /\ set # {}
        /\ StartPlayback(set)
        /\ playing' = TRUE
        /\ UNCHANGED <<file, entry, muteFlags, muteUpdate, playSegment, queueSegment,
                       numQueuedSegments, call, host>>

\* For each segment that plays, the one at playSegment is paused: EAS_Pause
\* accepts a stream that plays.
JET_Pause ==
    /\ Application /\ file # "none"
    /\ playing
    /\ \E i \in Slots : state[i] = "PLAYING"
    /\ stream[playSegment] = "play"
    /\ stream' = [stream EXCEPT ![playSegment] = "paused"]
    /\ state' = [state EXCEPT ![playSegment] = "PAUSED"]
    /\ playing' = FALSE
    /\ UNCHANGED <<file, entry, muteFlags, muteUpdate, muted, playSegment, queueSegment,
                   numQueuedSegments, call, host>>

\* JET_SetMuteFlags and JET_SetMuteFlag, at once or (sync) with the next repeat.
JET_SetMuteFlags(mutes, sync) ==
    LET i == playSegment
    IN  /\ Application /\ file # "none"
        /\ IF sync THEN state[i] # "CLOSED" ELSE stream[i] # "none"
        /\ muteFlags' = [muteFlags EXCEPT ![i] = mutes]
        /\ muted' = [muted EXCEPT ![i] = IF sync THEN @ ELSE mutes]
        /\ muteUpdate' = [muteUpdate EXCEPT ![i] = @ \/ sync]
        /\ deferred' = IF sync /\ mutes # muted[i] THEN deferred \union {i}
                       ELSE deferred \ {i}
        /\ UNCHANGED <<file, state, entry, stream, queue, call, late, derailed, quiet>>

\* The application leaves a playlist to play: from here on it only renders.
Quiet ==
    /\ Application /\ playing /\ ~derailed
    /\ quiet' = TRUE
    /\ UNCHANGED <<file, slots, queue, call, late, derailed, deferred>>

-----------------------------------------------------------------------------
(* EAS_Render and the JET_Process at its end.                              *)

\* The streams play on: one ends when its last event is parsed and has
\* stopped when its voices have ended.
Progress(s) ==
    IF s = "play" THEN {"play", "stopping", "stopped"}
    ELSE IF s = "stopping" THEN {"stopping", "stopped"} ELSE {s}

EAS_Render ==
    /\ call = Idle /\ file # "none"
    /\ \E progress \in [Slots -> Streams], marker \in BOOLEAN :
          /\ \A i \in Slots : progress[i] \in Progress(stream[i])
          /\ marker => \E i \in Slots : state[i] = "PLAYING" /\ stream[i] = "play"
          /\ stream' = progress
          /\ call' = [Idle EXCEPT !.step = "process", !.first = playSegment,
                                  !.endOfLoop = marker /\ stream[playSegment] # "none"]
    /\ UNCHANGED <<file, state, entry, muteFlags, muteUpdate, muted, queue, host>>

\* The slot JET_Process looks at.
index == (call.first + call.done) % SEG_QUEUE_DEPTH
Looks(st) == call.step = "process" /\ call.done < SEG_QUEUE_DEPTH /\ state[index] = st
LooksOn == call' = [call EXCEPT !.done = @ + 1]

\* Mutant of AtEnd: the last event is not enough, the voices must have ended.
AtEndStopped == call.endOfLoop \/ stream[index] = "stopped"

AtEnd == call.endOfLoop \/ stream[index] \in {"stopping", "stopped"}

\* Mutant of Counted: no repeat is counted.
CountedNever(n) == n

\* The repeat count after one more time; a negative one stays.
Counted(n) == IF n > 0 THEN n - 1 ELSE n

\* Mutant of RepeatSegment: the mute flags are forgotten.
RepeatUnmuted ==
    /\ Looks("PLAYING") /\ AtEnd /\ entry[index].repeatCount # 0
    /\ stream' = [stream EXCEPT ![index] = "play"]
    /\ entry' = [entry EXCEPT ![index].repeatCount = Counted(@)]
    /\ muteUpdate' = [muteUpdate EXCEPT ![index] = FALSE]
    /\ deferred' = deferred \ {index}
    /\ LooksOn
    /\ UNCHANGED <<file, state, muteFlags, muted, queue, late, derailed, quiet>>

\* EAS_Locate to the beginning; a deferred update of the mute flags is due.
RepeatSegment ==
    /\ Looks("PLAYING") /\ AtEnd /\ entry[index].repeatCount # 0
    /\ stream' = [stream EXCEPT ![index] = "play"]
    /\ entry' = [entry EXCEPT ![index].repeatCount = Counted(@)]
    /\ muted' = [muted EXCEPT ![index] = IF muteUpdate[index] THEN muteFlags[index] ELSE @]
    /\ muteUpdate' = [muteUpdate EXCEPT ![index] = FALSE]
    /\ deferred' = deferred \ {index}
    /\ LooksOn
    /\ UNCHANGED <<file, state, muteFlags, queue, late, derailed, quiet>>

\* Mutant of EndSegment: the repeats that are left are forgotten.
EndSegmentEarly ==
    /\ Looks("PLAYING") /\ AtEnd
    /\ state' = [state EXCEPT ![index] = "STOPPING"]
    /\ playSegment' = NextSegment(index)
    /\ call' = [call EXCEPT !.done = @ + 1, !.startNext = TRUE]
    /\ UNCHANGED <<file, entry, muteFlags, muteUpdate, stream, muted, queueSegment,
                   numQueuedSegments, playing, host>>

\* "No repeat, start next segment."
EndSegment ==
    /\ Looks("PLAYING") /\ AtEnd /\ entry[index].repeatCount = 0
    /\ state' = [state EXCEPT ![index] = "STOPPING"]
    /\ playSegment' = NextSegment(index)
    /\ call' = [call EXCEPT !.done = @ + 1, !.startNext = TRUE]
    /\ UNCHANGED <<file, entry, muteFlags, muteUpdate, stream, muted, queueSegment,
                   numQueuedSegments, playing, host>>

\* JET_CloseSegment: "if playback has stopped, close the segment".
CloseSegment ==
    /\ Looks("STOPPING") /\ stream[index] = "stopped"
    /\ stream' = [stream EXCEPT ![index] = "none"]
    /\ state' = [state EXCEPT ![index] = "CLOSED"]
    /\ entry' = [entry EXCEPT ![index] = Zeroed]
    /\ muteFlags' = [muteFlags EXCEPT ![index] = {}]
    /\ muted' = [muted EXCEPT ![index] = {}]
    /\ numQueuedSegments' = numQueuedSegments - 1
    /\ deferred' = deferred \ {index}
    /\ LooksOn
    /\ UNCHANGED <<file, muteUpdate, playSegment, queueSegment, playing, late, derailed,
                   quiet>>

StartNext ==
    /\ Looks("READY") /\ call.startNext
    /\ StartPlayback({index})
    /\ call' = [call EXCEPT !.done = @ + 1, !.startNext = FALSE, !.prepareNext = TRUE]
    /\ UNCHANGED <<file, entry, muteFlags, muteUpdate, queue, host>>

PrepareNext ==
    /\ Looks("OPEN") /\ call.prepareNext
    /\ PrepareSegment(index)
    /\ call' = [call EXCEPT !.done = @ + 1, !.prepareNext = FALSE]
    /\ UNCHANGED <<file, entry, muteFlags, muteUpdate, muted, queue, host>>

\* JET_PrepareSegment fails, before the segment is READY or after; JET_Process
\* looks at no other slot.
PrepareFails ==
    /\ CanFail
    /\ Looks("OPEN") /\ call.prepareNext
    /\ PrepareSegment(index) \/ UNCHANGED <<stream, state>>
    /\ late' = TRUE
    /\ call' = Idle
    /\ UNCHANGED <<file, entry, muteFlags, muteUpdate, muted, queue, derailed, quiet, deferred>>

\* Nothing to do for this slot.
PassOver ==
    /\ \/ Looks("CLOSED") \/ Looks("PAUSED")
       \/ Looks("PLAYING") /\ ~AtEnd
       \/ Looks("STOPPING") /\ stream[index] # "stopped"
       \/ Looks("READY") /\ ~call.startNext
       \/ Looks("OPEN") /\ ~call.prepareNext
    /\ LooksOn
    /\ UNCHANGED <<file, slots, queue, host>>

\* "If out of segments, clear playing flag."
EndProcess ==
    /\ call.step = "process" /\ call.done = SEG_QUEUE_DEPTH
    /\ playing' = (playing /\ numQueuedSegments # 0)
    /\ call' = Idle
    /\ UNCHANGED <<file, slots, playSegment, queueSegment, numQueuedSegments, host>>

-----------------------------------------------------------------------------
HostNext ==
    \/ JET_Init
    \/ JET_OpenFile
    \/ JET_CloseFile
    \/ JET_Shutdown
    \/ JET_Clear_Queue
    \/ \E id \in UserIDs, count \in Repeats, mutes \in MuteFlags :
          \/ JET_QueueSegment(id, count, mutes)
          \/ JET_QueueSegmentFails(id, count, mutes)
    \/ JET_Play
    \/ JET_Pause
    \/ \E mutes \in MuteFlags, sync \in BOOLEAN : JET_SetMuteFlags(mutes, sync)
    \/ Quiet

JET_Process ==
    \/ RepeatSegment
    \/ EndSegment
    \/ CloseSegment
    \/ StartNext
    \/ PrepareNext
    \/ PrepareFails
    \/ PassOver
    \/ EndProcess

Next == HostNext \/ EAS_Render \/ JET_Process

Spec == Init /\ [][Next]_vars

\* The application goes on rendering, and a segment's stream comes to its end:
\* its file is finite and so are its voices.
FairSpec ==
    /\ Spec
    /\ WF_vars(EAS_Render \/ JET_Process)
    /\ \A i \in Slots : SF_vars(EAS_Render /\ stream[i] # "stopped" /\ stream'[i] = "stopped")

-----------------------------------------------------------------------------
(* Properties.                                                             *)

\* The count is that of the open streams, whatever fails, and a slot without one
\* is closed.
StreamsCounted ==
    /\ numQueuedSegments = Cardinality(Used)
    /\ \A i \in Slots : state[i] = "CLOSED" <=> stream[i] = "none"

\* ... and the segments to be played fill the slots from playSegment up to
\* queueSegment, every other slot is stopping or closed: a segment is queued
\* behind the others or not at all.  Where a call to queue one failed half way,
\* clearing the queue puts the ring right again.
Place(k) == (playSegment + k) % SEG_QUEUE_DEPTH
RingConsistent ==
    /\ StreamsCounted
    /\ ~derailed =>
          /\ Waiting = {Place(k) : k \in 0 .. Cardinality(Waiting) - 1}
          /\ file = "open" => queueSegment = Place(Cardinality(Waiting))

\* Between frames, a segment that plays has a stream that plays, and it is the
\* one at playSegment: JET_Pause pauses it, and EAS_Pause accepts the call.
PlayingStreamsPlay ==
    ~derailed =>
        \A i \in Slots : state[i] = "PLAYING" =>
            /\ call = Idle => stream[i] = "play" /\ i = playSegment
            /\ stream[i] \in {"play", "stopping", "stopped"}

\* The tracks muted in the stream of a segment that plays are those last asked
\* for it, unless they were asked for with its repeat, which it has not come to:
\* over pauses, repeats, and slots that are used again with what an earlier
\* segment has left in their flags.  What a segment that ends without a repeat
\* was asked for is lost; the manual says otherwise (SyncedMutesTaken).
MutesInForce ==
    \A i \in Slots :
        state[i] = "PLAYING" /\ i \notin deferred => muted[i] = muteFlags[i]

\* The application's view of the ring: the segments from playSegment on.
list == [k \in 1 .. Cardinality(Waiting) |-> entry[Place(k - 1)]]
mode == IF \E i \in Slots : state[i] = "PLAYING" THEN "plays"
        ELSE IF \E i \in Slots : state[i] = "PAUSED" THEN "pauses" ELSE "waits"
Playlist == INSTANCE JetPlaylist WITH Capacity <- SEG_QUEUE_DEPTH

\* The ring of slots, with segments opened, prepared, started and closed in
\* different calls and frames, is a playlist.
IsPlaylist == Playlist!Spec

\* While the engine plays, the segment at the head of the queue plays.
HeadPlays == playing /\ call = Idle /\ Waiting # {} => state[playSegment] = "PLAYING"

\* ... if no segment was queued while another one was stopping, and none failed:
\* the playlist goes on without a gap.
NotStranded == late \/ derailed \/ HeadPlays

\* A playlist left to play is played to its end, and every stream is closed.
PlaysOut ==
    (quiet /\ ~late /\ playing /\ \A i \in Waiting : entry[i].repeatCount >= 0)
        ~> numQueuedSegments = 0

-----------------------------------------------------------------------------
(* What the user manual says of the queue, and the code does not do.       *)

\* "As the segments complete playback, the next segment in the queue will begin
\* playing": while the engine plays, the segment at the head of the queue does
\* not wait for ever.
QueuedPlays ==
    (quiet /\ playing /\ state[playSegment] \in {"OPEN", "READY"})
        ~> state[playSegment] \notin {"OPEN", "READY"}

\* JET_SetMuteFlags: "If the sync parameter is true, the mute flags will be
\* updated at the start of the next segment."  The code keeps them with the
\* segment that plays: if that ends, the next one starts with its own.
SyncedMutesTaken ==
    [][\A i \in Slots :
         LET next == NextSegment(i)
         IN  /\ state[i] = "STOPPING" /\ i \in deferred /\ muted[i] # muteFlags[i]
             /\ state[next] = "READY" /\ state'[next] = "PLAYING"
             => muted'[next] = muteFlags[i]]_vars

\* ... nor does a segment always start with the flags asked for it: tracks that
\* were muted before it starts stay so if all are to sound from its start on.
StartTakesMutes ==
    [][\A i \in Slots :
         state[i] = "READY" /\ state'[i] = "PLAYING" => muted'[i] = muteFlags[i]]_vars

\* "If the segment is repeated, the flags will take effect the next time segment
\* is repeated."  A pause and JET_Play bring them into force before.
SyncedMutesWait ==
    [][\A i \in deferred :
         state[i] = "PAUSED" /\ state'[i] = "PLAYING" => muted'[i] = muted[i]]_vars
=============================================================================
