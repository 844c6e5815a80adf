-------------------------- MODULE JetSegmentsProofs --------------------------
(***************************************************************************)
(* Proofs about JetSegments: for a ring of the depth the code has, and any *)
(* identifiers, repeat counts and mute flags, the ring is a playlist; the  *)
(* mute flags are in force for rings of any depth.                         *)
(***************************************************************************)
EXTENDS JetSegments, Sequences, FiniteSetTheorems, TLAPS

(***************************************************************************)
(* The inductive invariant of the ring.                                    *)
(***************************************************************************)

\* SEG_QUEUE_DEPTH of jet.h, and an application that empties the queue before
\* it opens another file.
Engine == SEG_QUEUE_DEPTH = 3 /\ ClearsQueue

\* The types, all but the range of the count.
Typed ==
    /\ file \in {"none", "closed", "open"}
    /\ state \in [Slots -> States]
    /\ entry \in [Slots -> Entries]
    /\ muteFlags \in [Slots -> MuteFlags \cup {{}}]
    /\ muteUpdate \in [Slots -> BOOLEAN]
    /\ stream \in [Slots -> Streams]
    /\ muted \in [Slots -> MuteFlags \cup {{}}]
    /\ playSegment \in Slots /\ queueSegment \in Slots
    /\ playing \in BOOLEAN
    /\ call \in Calls
    /\ late \in BOOLEAN /\ derailed \in BOOLEAN /\ quiet \in BOOLEAN
    /\ deferred \subseteq Slots

\* The segments to be played come one behind the other, then the place for the
\* next.
Waits(i) == state[i] \in {"OPEN", "READY", "PLAYING", "PAUSED"}
FirstFree ==
    IF ~Waits(Place(0)) THEN Place(0)
    ELSE IF ~Waits(Place(1)) THEN Place(1)
    ELSE IF ~Waits(Place(2)) THEN Place(2) ELSE Place(0)
RingInv ==
    /\ Waits(Place(1)) => Waits(Place(0))
    /\ Waits(Place(2)) => Waits(Place(1))
    /\ file = "open" => queueSegment = FirstFree
    /\ file # "open" => \A i \in Slots : state[i] = "CLOSED"

\* Only the head plays or pauses; and behind a segment that was not prepared,
\* with one more before it, none is.
HeadInv ==
    /\ \A i \in Slots : state[i] \in {"PLAYING", "PAUSED"} => i = playSegment
    /\ state[playSegment] = "PLAYING" =>
          /\ playing
          /\ stream[playSegment] \in {"play", "stopping", "stopped"}
          /\ call.step = "idle" \/ call.done > 0 => stream[playSegment] = "play"
    /\ Waits(Place(0)) /\ state[Place(1)] = "OPEN" => state[Place(2)] # "READY"

\* JET_Process meets the head first; the segment behind one that ends is the
\* one that it starts, or none is.
CallInv ==
    /\ call.step = "idle" => call = Idle
    /\ call.step = "process" =>
          \/ playSegment = call.first
          \/ /\ playSegment = NextSegment(call.first) /\ call.done > 0
             /\ state[playSegment] = "PLAYING" => call.done > 1
    /\ call.startNext =>
          /\ playSegment = NextSegment(call.first) /\ call.done > 0 /\ playing
          /\ \A i \in Slots : state[i] \notin {"PLAYING", "PAUSED"}
          /\ \/ state[playSegment] = "READY" /\ call.done = 1
             \/ \A i \in Slots : state[i] # "READY"
    /\ call.prepareNext =>
          playSegment = NextSegment(call.first) /\ call.done > 1 /\ ~call.startNext

Sound == Typed /\ StreamsCounted /\ RingInv /\ HeadInv /\ CallInv

\* Where a call to queue a segment failed half way, the rest waits for the queue
\* to be cleared.
IInv == Typed /\ StreamsCounted /\ (derailed \/ Sound)

(***************************************************************************)
(* Types.                                                                  *)
(***************************************************************************)

LEMMA DepthIsNat ==
    ASSUME SegmentAssumption
    PROVE  /\ SEG_QUEUE_DEPTH \in Nat /\ SEG_QUEUE_DEPTH > 0 /\ 0 \in Slots
           /\ \A i \in Int : i % SEG_QUEUE_DEPTH \in Slots
BY DEF SegmentAssumption, Slots

LEMMA IdleIsCall ==
    ASSUME SegmentAssumption
    PROVE  Idle \in Calls
BY DepthIsNat DEF Idle, Calls

\* The flags of JET_Process as it looks at the next slot.
LEMMA CallGoesOn ==
    ASSUME SegmentAssumption, NEW c \in Calls, c.done < SEG_QUEUE_DEPTH
    PROVE  /\ [c EXCEPT !.done = @ + 1] \in Calls
           /\ [c EXCEPT !.done = @ + 1, !.startNext = TRUE] \in Calls
           /\ [c EXCEPT !.done = @ + 1, !.prepareNext = FALSE] \in Calls
           /\ [c EXCEPT !.done = @ + 1, !.startNext = FALSE, !.prepareNext = TRUE] \in Calls
<1>1. c.done + 1 \in 0 .. SEG_QUEUE_DEPTH
  BY DepthIsNat DEF Calls
<1>2. /\ c.endOfLoop \in BOOLEAN /\ c.startNext \in BOOLEAN /\ c.prepareNext \in BOOLEAN
      /\ TRUE \in BOOLEAN /\ FALSE \in BOOLEAN
  BY DEF Calls
<1>. QED BY <1>1, <1>2 DEF Calls

LEMMA InitTyped ==
    ASSUME SegmentAssumption, Init
    PROVE  Typed
<1>1. muteUpdate \in [Slots -> BOOLEAN]
  BY DEF Init
<1>2. state \in [Slots -> States] /\ stream \in [Slots -> Streams] /\ entry \in [Slots -> Entries]
  BY DEF Init, States, Streams, Entries, Zeroed
<1>3. /\ muteFlags \in [Slots -> MuteFlags \cup {{}}] /\ muted \in [Slots -> MuteFlags \cup {{}}]
  BY DEF Init
<1>4. /\ file = "none" /\ playSegment \in Slots /\ queueSegment \in Slots /\ call \in Calls
  BY DepthIsNat, IdleIsCall DEF Init
<1>5. /\ playing \in BOOLEAN /\ late \in BOOLEAN /\ derailed \in BOOLEAN /\ quiet \in BOOLEAN
      /\ deferred = {}
  BY DEF Init
<1>. QED BY <1>1, <1>2, <1>3, <1>4, <1>5 DEF Typed

LEMMA IndexIsSlot ==
    ASSUME SegmentAssumption, Typed
    PROVE  index \in Slots /\ call.done \in Nat /\ call.first \in Slots
<1>1. call.first \in Slots /\ call.done \in 0 .. SEG_QUEUE_DEPTH
  BY DEF Typed, Calls
<1>2. call.first + call.done \in Int
  BY <1>1, DepthIsNat DEF Slots
<1>. QED BY <1>1, <1>2, DepthIsNat DEF index

LEMMA TypedStep ==
    ASSUME SegmentAssumption, Typed, [Next]_vars
    PROVE  Typed'
<1> USE DEF Typed
<1>0. /\ index \in Slots /\ call.done \in Nat /\ call.first \in Slots
      /\ SEG_QUEUE_DEPTH \in Nat /\ 0 \in Slots
      /\ \A i \in Slots : NextSegment(i) \in Slots
  <2>1. \A i \in Slots : i + 1 \in Int
    BY DEF Slots
  <2>. QED BY <2>1, IndexIsSlot, DepthIsNat DEF NextSegment
<1>1. ASSUME CloseSegments PROVE /\ state' \in [Slots -> States] /\ stream' \in [Slots -> Streams]
                                 /\ entry' \in [Slots -> Entries]
                                 /\ muteFlags' \in [Slots -> MuteFlags \cup {{}}]
                                 /\ muted' \in [Slots -> MuteFlags \cup {{}}]
                                 /\ muteUpdate' = muteUpdate /\ deferred' = {}
  BY <1>1 DEF CloseSegments, States, Streams, Entries, Zeroed
<1>2. CASE JET_Init
  <2>1. muteUpdate' \in [Slots -> BOOLEAN]
    BY <1>2 DEF JET_Init
  <2>2. /\ state' \in [Slots -> States] /\ stream' \in [Slots -> Streams]
        /\ entry' \in [Slots -> Entries]
    BY <1>2 DEF JET_Init, States, Streams, Entries, Zeroed
  <2>3. /\ muteFlags' \in [Slots -> MuteFlags \cup {{}}] /\ muted' \in [Slots -> MuteFlags \cup {{}}]
    BY <1>2 DEF JET_Init
  <2>4. /\ file' = "closed" /\ playSegment' \in Slots /\ queueSegment' \in Slots
        /\ playing' \in BOOLEAN /\ deferred' = {} /\ UNCHANGED <<call, late, derailed, quiet>>
    BY <1>0, <1>2 DEF JET_Init
  <2>. QED BY <2>1, <2>2, <2>3, <2>4
<1>3. CASE JET_OpenFile
  BY <1>3 DEF JET_OpenFile, slots, queue, host
<1>4. CASE JET_CloseFile
  BY <1>1, <1>4 DEF JET_CloseFile
<1>5. CASE JET_Shutdown
  BY <1>0, <1>1, <1>5 DEF JET_Shutdown
<1>6. CASE JET_Clear_Queue
  BY <1>0, <1>1, <1>6 DEF JET_Clear_Queue
<1>7. ASSUME NEW id \in UserIDs, NEW count \in Repeats, NEW mutes \in MuteFlags,
             JET_QueueSegment(id, count, mutes)
      PROVE  Typed'
  BY <1>0, <1>7 DEF JET_QueueSegment, PrepareSegment, SegmentAssumption, States, Streams, Entries
<1>8. CASE JET_Play
  BY <1>8 DEF JET_Play, StartPlayback, host, States, Streams
<1>9. CASE JET_Pause
  BY <1>9 DEF JET_Pause, host, States, Streams
<1>10. ASSUME NEW mutes \in MuteFlags, NEW sync \in BOOLEAN, JET_SetMuteFlags(mutes, sync)
       PROVE  Typed'
  BY <1>10 DEF JET_SetMuteFlags, queue, host
<1>11. CASE Quiet
  BY <1>11 DEF Quiet, slots, queue
<1>12. CASE EAS_Render
  BY <1>12 DEF EAS_Render, queue, host, Calls, Idle
<1>13. CASE RepeatSegment
  BY <1>0, <1>13 DEF RepeatSegment, LooksOn, Looks, Counted, queue, host, Streams, Entries, Calls
<1>14. CASE EndSegment
  <2>1. call' \in Calls
    BY <1>14, CallGoesOn DEF EndSegment, Looks
  <2>. QED BY <1>0, <1>14, <2>1 DEF EndSegment, host, States
<1>15. CASE CloseSegment
  BY <1>0, <1>15 DEF CloseSegment, LooksOn, Looks, host, States, Streams, Entries, Zeroed, Calls
<1>16. CASE StartNext
  <2>1. call' \in Calls
    BY <1>16, CallGoesOn DEF StartNext, Looks
  <2>. QED BY <1>0, <1>16, <2>1 DEF StartNext, StartPlayback, queue, host, States, Streams
<1>17. CASE PrepareNext
  <2>1. call' \in Calls
    BY <1>17, CallGoesOn DEF PrepareNext, Looks
  <2>. QED BY <1>0, <1>17, <2>1 DEF PrepareNext, PrepareSegment, queue, host, States, Streams
<1>18. CASE PassOver
  BY <1>0, <1>18 DEF PassOver, LooksOn, Looks, slots, queue, host, Calls
<1>19. CASE EndProcess
  BY <1>0, <1>19 DEF EndProcess, Idle, slots, host, Calls
<1>20. CASE UNCHANGED vars
  BY <1>20 DEF vars, slots, queue, host
<1>21. ASSUME NEW id \in UserIDs, NEW count \in Repeats, NEW mutes \in MuteFlags,
              JET_QueueSegmentFails(id, count, mutes)
       PROVE  Typed'
  BY <1>0, <1>21 DEF JET_QueueSegmentFails, PrepareSegment, SegmentAssumption, States, Streams,
                     Entries
<1>22. CASE PrepareFails
  BY <1>0, <1>22, IdleIsCall DEF PrepareFails, PrepareSegment, queue, States, Streams
<1>. QED BY <1>2, <1>3, <1>4, <1>5, <1>6, <1>7, <1>8, <1>9, <1>10, <1>11, <1>12, <1>13, <1>14,
            <1>15, <1>16, <1>17, <1>18, <1>19, <1>20, <1>21, <1>22 DEF Next, HostNext, JET_Process

(***************************************************************************)
(* Mute flags, for a ring of any depth.                                    *)
(***************************************************************************)

\* A stream has its tracks muted as last asked for, or not yet; one that is
\* not there has none.  A change that waits for the repeat is known to the slot.
MutesOK(i) ==
    /\ stream[i] = "none" => muted[i] = {}
    /\ i \in deferred => muteUpdate[i]
    /\ i \notin deferred =>
          /\ muted[i] \in {{}, muteFlags[i]}
          /\ state[i] = "PLAYING" => muted[i] = muteFlags[i]
MutesInv == \A i \in Slots : MutesOK(i)

LEMMA MutesStep ==
    ASSUME SegmentAssumption, Typed, MutesInv, [Next]_vars
    PROVE  MutesInv'
<1> SUFFICES ASSUME NEW i \in Slots PROVE MutesOK(i)'
  BY DEF MutesInv
<1>0. /\ index \in Slots /\ MutesOK(i) /\ playSegment \in Slots /\ queueSegment \in Slots
      /\ state \in [Slots -> States] /\ stream \in [Slots -> Streams]
      /\ muteFlags \in [Slots -> MuteFlags \cup {{}}] /\ muted \in [Slots -> MuteFlags \cup {{}}]
      /\ muteUpdate \in [Slots -> BOOLEAN]
  BY IndexIsSlot DEF Typed, MutesInv
<1> USE DEF MutesOK, host
<1>1. CASE CloseSegments
  BY <1>1 DEF CloseSegments
<1>2. CASE JET_Init
  BY <1>2 DEF JET_Init
<1>3. CASE JET_OpenFile
  BY <1>0, <1>3 DEF JET_OpenFile, slots
<1>4. CASE JET_CloseFile
  BY <1>1, <1>4 DEF JET_CloseFile
<1>5. CASE JET_Shutdown
  BY <1>1, <1>5 DEF JET_Shutdown
<1>6. CASE JET_Clear_Queue
  BY <1>1, <1>6 DEF JET_Clear_Queue
<1>7. ASSUME NEW id \in UserIDs, NEW count \in Repeats, NEW mutes \in MuteFlags,
             JET_QueueSegment(id, count, mutes)
      PROVE  MutesOK(i)'
  BY <1>0, <1>7 DEF JET_QueueSegment, PrepareSegment
<1>8. CASE JET_Play
  BY <1>0, <1>8 DEF JET_Play, StartPlayback
<1>9. CASE JET_Pause
  BY <1>0, <1>9 DEF JET_Pause
<1>10. ASSUME NEW mutes \in MuteFlags, NEW sync \in BOOLEAN, JET_SetMuteFlags(mutes, sync)
       PROVE  MutesOK(i)'
  BY <1>0, <1>10 DEF JET_SetMuteFlags
<1>11. CASE Quiet
  BY <1>0, <1>11 DEF Quiet, slots
<1>12. CASE EAS_Render
  BY <1>0, <1>12 DEF EAS_Render, Progress
<1>13. CASE RepeatSegment
  BY <1>0, <1>13 DEF RepeatSegment
<1>14. CASE EndSegment
  BY <1>0, <1>14 DEF EndSegment
<1>15. CASE CloseSegment
  BY <1>0, <1>15 DEF CloseSegment
<1>16. CASE StartNext
  BY <1>0, <1>16 DEF StartNext, StartPlayback
<1>17. CASE PrepareNext
  BY <1>0, <1>17 DEF PrepareNext, PrepareSegment
<1>18. CASE PassOver
  BY <1>0, <1>18 DEF PassOver, slots
<1>19. CASE EndProcess
  BY <1>0, <1>19 DEF EndProcess, slots
<1>20. CASE UNCHANGED vars
  BY <1>0, <1>20 DEF vars, slots
<1>21. ASSUME NEW id \in UserIDs, NEW count \in Repeats, NEW mutes \in MuteFlags,
              JET_QueueSegmentFails(id, count, mutes)
       PROVE  MutesOK(i)'
  BY <1>0, <1>21 DEF JET_QueueSegmentFails, PrepareSegment
<1>22. CASE PrepareFails
  BY <1>0, <1>22 DEF PrepareFails, PrepareSegment, Looks
<1>. QED BY <1>2, <1>3, <1>4, <1>5, <1>6, <1>7, <1>8, <1>9, <1>10, <1>11, <1>12, <1>13, <1>14,
            <1>15, <1>16, <1>17, <1>18, <1>19, <1>20, <1>21, <1>22 DEF Next, HostNext, JET_Process

\* Whenever the application mutes tracks, before the segment is prepared or
\* while it plays or is paused, and over its repeats: the tracks muted in a
\* stream that plays are those asked for it, but for a change that waits for the
\* repeat and that the segment was asked for itself, not one before it in the
\* slot (JET_SetMuteFlags, JET_StartPlayback, JET_Process).
THEOREM MutesFollow == Spec => []MutesInForce
<1>1. SegmentAssumption
  BY SegmentAssumption
<1>2. Init => Typed /\ MutesInv
  BY <1>1, InitTyped DEF Init, MutesInv, MutesOK
<1>3. Typed /\ MutesInv /\ [Next]_vars => Typed' /\ MutesInv'
  BY <1>1, TypedStep, MutesStep
<1>4. MutesInv => MutesInForce
  BY DEF MutesInv, MutesOK, MutesInForce
<1>. QED BY <1>2, <1>3, <1>4, PTL DEF Spec

(***************************************************************************)
(* The ring has three places.                                              *)
(***************************************************************************)

LEMMA Circle ==
    ASSUME Engine
    PROVE  /\ Slots = {0, 1, 2} /\ SEG_QUEUE_DEPTH = 3
           /\ NextSegment(0) = 1 /\ NextSegment(1) = 2 /\ NextSegment(2) = 0
           /\ \A s \in Slots : /\ s % SEG_QUEUE_DEPTH = s
                               /\ (s + 0) % SEG_QUEUE_DEPTH = s
                               /\ (s + 1) % SEG_QUEUE_DEPTH = NextSegment(s)
                               /\ (s + 2) % SEG_QUEUE_DEPTH = NextSegment(NextSegment(s))
<1>1. SEG_QUEUE_DEPTH = 3 /\ Slots = {0, 1, 2}
  BY DEF Engine, Slots
<1>2. /\ 0 % 3 = 0 /\ 1 % 3 = 1 /\ 2 % 3 = 2 /\ 3 % 3 = 0 /\ 4 % 3 = 1
  OBVIOUS
<1>3. NextSegment(0) = 1 /\ NextSegment(1) = 2 /\ NextSegment(2) = 0
  BY <1>1, <1>2 DEF NextSegment
<1>4. ASSUME NEW s \in Slots
      PROVE  /\ s % SEG_QUEUE_DEPTH = s
             /\ (s + 0) % SEG_QUEUE_DEPTH = s
             /\ (s + 1) % SEG_QUEUE_DEPTH = NextSegment(s)
             /\ (s + 2) % SEG_QUEUE_DEPTH = NextSegment(NextSegment(s))
  <2>1. CASE s = 0
    BY <1>1, <1>2, <1>3, <2>1
  <2>2. CASE s = 1
    BY <1>1, <1>2, <1>3, <2>2
  <2>3. CASE s = 2
    BY <1>1, <1>2, <1>3, <2>3
  <2>. QED BY <1>1, <2>1, <2>2, <2>3
<1>. QED BY <1>1, <1>3, <1>4

\* The three places from any slot on.
LEMMA Around ==
    ASSUME Engine, NEW s \in Slots
    PROVE  /\ NextSegment(s) \in Slots /\ NextSegment(NextSegment(s)) \in Slots
           /\ NextSegment(NextSegment(NextSegment(s))) = s
           /\ s # NextSegment(s) /\ s # NextSegment(NextSegment(s))
           /\ NextSegment(s) # NextSegment(NextSegment(s))
           /\ \A i \in Slots : \/ i = s \/ i = NextSegment(s)
                               \/ i = NextSegment(NextSegment(s))
<1>1. CASE s = 0
  BY <1>1, Circle
<1>2. CASE s = 1
  BY <1>2, Circle
<1>3. CASE s = 2
  BY <1>3, Circle
<1>. QED BY <1>1, <1>2, <1>3, Circle

LEMMA SlotsFinite ==
    ASSUME SegmentAssumption, NEW S \in SUBSET Slots
    PROVE  /\ IsFiniteSet(S) /\ Cardinality(S) \in 0 .. SEG_QUEUE_DEPTH
<1>1. IsFiniteSet(Slots) /\ Cardinality(Slots) = SEG_QUEUE_DEPTH
  <2>1. 0 \in Int /\ SEG_QUEUE_DEPTH - 1 \in Int /\ SEG_QUEUE_DEPTH - 1 >= 0
    BY DepthIsNat
  <2>2. IsFiniteSet(0 .. SEG_QUEUE_DEPTH - 1)
        /\ Cardinality(0 .. SEG_QUEUE_DEPTH - 1) = (SEG_QUEUE_DEPTH - 1) - 0 + 1
    BY <2>1, FS_Interval
  <2>. QED BY <2>1, <2>2, DepthIsNat DEF Slots
<1>2. IsFiniteSet(S) /\ Cardinality(S) <= Cardinality(Slots)
  BY <1>1, FS_Subset
<1>3. Cardinality(S) \in Nat
  BY <1>2, FS_CardinalityType
<1>. QED BY <1>1, <1>2, <1>3, DepthIsNat

(***************************************************************************)
(* The count of the streams.                                               *)
(***************************************************************************)

LEMMA UsedStep ==
    ASSUME SegmentAssumption, Typed, StreamsCounted, [Next]_vars
    PROVE  StreamsCounted'
<1> DEFINE Closed(i) == state[i] = "CLOSED" <=> stream[i] = "none"
<1>0. /\ index \in Slots /\ playSegment \in Slots /\ queueSegment \in Slots
      /\ state \in [Slots -> States] /\ stream \in [Slots -> Streams]
      /\ \A i \in Slots : Closed(i)
      /\ numQueuedSegments = Cardinality(Used) /\ numQueuedSegments \in Int
      /\ IsFiniteSet(Used) /\ Used \in SUBSET Slots
  <2>1. Used \in SUBSET Slots
    BY DEF Used
  <2>. QED BY <2>1, SlotsFinite, IndexIsSlot, DepthIsNat DEF Typed, StreamsCounted
<1>1. ASSUME Used' = Used, numQueuedSegments' = numQueuedSegments, \A i \in Slots : Closed(i)'
      PROVE  StreamsCounted'
  BY <1>0, <1>1 DEF StreamsCounted
<1>2. ASSUME stream' = [i \in Slots |-> "none"], state' = [i \in Slots |-> "CLOSED"],
             numQueuedSegments' = 0
      PROVE  StreamsCounted'
  <2>1. Used' = {}
    BY <1>2 DEF Used
  <2>2. Cardinality({}) = 0
    BY FS_EmptySet
  <2>. QED BY <1>2, <2>1, <2>2 DEF StreamsCounted
<1>3. ASSUME CloseSegments PROVE StreamsCounted'
  <2>1. state' = [i \in Slots |-> "CLOSED"]
    BY <1>0, <1>3 DEF CloseSegments, Used
  <2>2. numQueuedSegments' = 0
    BY <1>0, <1>3 DEF CloseSegments
  <2>. QED BY <1>2, <1>3, <2>1, <2>2 DEF CloseSegments
<1>4. ASSUME UNCHANGED <<state, stream, numQueuedSegments>> PROVE StreamsCounted'
  BY <1>4 DEF StreamsCounted, Used
<1>5. CASE JET_Init
  BY <1>2, <1>5 DEF JET_Init
<1>6. CASE JET_OpenFile \/ Quiet \/ PassOver \/ EndProcess \/ UNCHANGED vars
  BY <1>4, <1>6 DEF JET_OpenFile, Quiet, PassOver, EndProcess, vars, slots, queue
<1>7. CASE JET_CloseFile \/ JET_Shutdown \/ JET_Clear_Queue
  BY <1>3, <1>7 DEF JET_CloseFile, JET_Shutdown, JET_Clear_Queue
<1>8. ASSUME NEW id \in UserIDs, NEW count \in Repeats, NEW mutes \in MuteFlags,
             JET_QueueSegment(id, count, mutes)
      PROVE  StreamsCounted'
  <2>1. /\ \A i \in Slots : Closed(i)'
        /\ Used' = Used \cup {queueSegment} /\ queueSegment \notin Used
    BY <1>0, <1>8 DEF JET_QueueSegment, PrepareSegment, Used
  <2>2. Cardinality(Used \cup {queueSegment}) = Cardinality(Used) + 1
    BY <1>0, <2>1, FS_AddElement
  <2>3. numQueuedSegments' = numQueuedSegments + 1
    BY <1>8 DEF JET_QueueSegment
  <2>. QED BY <1>0, <2>1, <2>2, <2>3 DEF StreamsCounted
<1>9. CASE JET_Play
  BY <1>0, <1>1, <1>9 DEF JET_Play, StartPlayback, Used
<1>10. CASE JET_Pause
  BY <1>0, <1>1, <1>10 DEF JET_Pause, Used
<1>11. ASSUME NEW mutes \in MuteFlags, NEW sync \in BOOLEAN, JET_SetMuteFlags(mutes, sync)
       PROVE  StreamsCounted'
  BY <1>4, <1>11 DEF JET_SetMuteFlags, queue
<1>12. CASE EAS_Render
  BY <1>0, <1>1, <1>12 DEF EAS_Render, Progress, Used, queue
<1>13. CASE RepeatSegment
  BY <1>0, <1>1, <1>13 DEF RepeatSegment, Looks, Used, queue
<1>14. CASE EndSegment
  BY <1>0, <1>1, <1>14 DEF EndSegment, Looks, Used
<1>15. CASE CloseSegment
  <2>1. /\ \A i \in Slots : Closed(i)'
        /\ Used' = Used \ {index} /\ index \in Used
    BY <1>0, <1>15 DEF CloseSegment, Used
  <2>2. Cardinality(Used \ {index}) = Cardinality(Used) - 1
    BY <1>0, <2>1, FS_RemoveElement
  <2>3. numQueuedSegments' = numQueuedSegments - 1
    BY <1>15 DEF CloseSegment
  <2>. QED BY <1>0, <2>1, <2>2, <2>3 DEF StreamsCounted
<1>16. CASE StartNext
  BY <1>0, <1>1, <1>16 DEF StartNext, StartPlayback, Looks, Used, queue
<1>17. CASE PrepareNext
  BY <1>0, <1>1, <1>17 DEF PrepareNext, PrepareSegment, Looks, Used, queue
<1>18. ASSUME NEW id \in UserIDs, NEW count \in Repeats, NEW mutes \in MuteFlags,
              JET_QueueSegmentFails(id, count, mutes)
       PROVE  StreamsCounted'
  <2>1. /\ \A i \in Slots : Closed(i)'
        /\ Used' = Used \cup {queueSegment} /\ queueSegment \notin Used
    BY <1>0, <1>18 DEF JET_QueueSegmentFails, PrepareSegment, Used
  <2>2. Cardinality(Used \cup {queueSegment}) = Cardinality(Used) + 1
    BY <1>0, <2>1, FS_AddElement
  <2>3. numQueuedSegments' = numQueuedSegments + 1
    BY <1>18 DEF JET_QueueSegmentFails
  <2>. QED BY <1>0, <2>1, <2>2, <2>3 DEF StreamsCounted
<1>19. CASE PrepareFails
  BY <1>0, <1>1, <1>19 DEF PrepareFails, PrepareSegment, Looks, Used, queue
<1>. QED BY <1>5, <1>6, <1>7, <1>8, <1>9, <1>10, <1>11, <1>12, <1>13, <1>14,
            <1>15, <1>16, <1>17, <1>18, <1>19 DEF Next, HostNext, JET_Process

(***************************************************************************)
(* The steps of the engine.                                                *)
(***************************************************************************)

\* The places, and the slot JET_Process looks at, by name.
LEMMA Places ==
    ASSUME SegmentAssumption, Engine, Typed
    PROVE  \E p \in Slots, q \in Slots, r \in Slots :
              /\ p # q /\ p # r /\ q # r /\ Slots = {p, q, r}
              /\ p = playSegment /\ Place(0) = p /\ Place(1) = q /\ Place(2) = r
              /\ NextSegment(p) = q /\ NextSegment(q) = r /\ NextSegment(r) = p
              /\ (p + 0) % SEG_QUEUE_DEPTH = p /\ (p + 1) % SEG_QUEUE_DEPTH = q
              /\ (p + 2) % SEG_QUEUE_DEPTH = r
              /\ (q + 0) % SEG_QUEUE_DEPTH = q /\ (q + 1) % SEG_QUEUE_DEPTH = r
              /\ (q + 2) % SEG_QUEUE_DEPTH = p
<1>. DEFINE q == NextSegment(playSegment)
            r == NextSegment(q)
<1>1. playSegment \in Slots
  BY DEF Typed
<1>2. q \in Slots /\ r \in Slots /\ NextSegment(r) = playSegment
      /\ playSegment # q /\ playSegment # r /\ q # r
  BY <1>1, Around
<1>3. Slots = {playSegment, q, r}
  <2>1. \A i \in Slots : i = playSegment \/ i = q \/ i = r
    BY <1>1, Around
  <2>. QED BY <1>1, <1>2, <2>1
<1>4. Place(0) = playSegment /\ Place(1) = q /\ Place(2) = r
  BY <1>1, Circle DEF Place
<1>5. /\ (q + 0) % SEG_QUEUE_DEPTH = q /\ (q + 1) % SEG_QUEUE_DEPTH = r
      /\ (q + 2) % SEG_QUEUE_DEPTH = NextSegment(r)
  BY <1>2, Circle
<1>. QED BY <1>1, <1>2, <1>3, <1>4, <1>5, Circle

\* Where JET_Process is, from where it began.
LEMMA IndexPlaces ==
    ASSUME SegmentAssumption, Engine, Typed
    PROVE  /\ call.done \in 0 .. 3 /\ call.first \in Slots
           /\ call.done = 0 => index = call.first
           /\ call.done = 1 => index = NextSegment(call.first)
           /\ call.done = 2 => index = NextSegment(NextSegment(call.first))
<1>1. call.first \in Slots /\ call.done \in 0 .. 3
  BY Circle DEF Typed, Calls
<1>. QED BY <1>1, Circle DEF index

\* A segment prepared behind one that is not: at most one slot was used.
LEMMA TwoUsed ==
    ASSUME SegmentAssumption, NEW i \in Used, NEW j \in Used, i # j
    PROVE  Cardinality(Used) >= 2
<1>1. Used \in SUBSET Slots
  BY DEF Used
<1>2. IsFiniteSet({i}) /\ Cardinality({i}) = 1
  BY FS_Singleton
<1>3. IsFiniteSet({i} \cup {j}) /\ Cardinality({i} \cup {j}) = 1 + 1
  BY <1>2, FS_AddElement
<1>4. IsFiniteSet(Used) /\ Cardinality(Used) \in Int
  BY <1>1, SlotsFinite, DepthIsNat
<1>5. Cardinality({i} \cup {j}) <= Cardinality(Used)
  <2>1. {i} \cup {j} \subseteq Used
    OBVIOUS
  <2>. QED BY <1>4, <2>1, FS_Subset
<1>. QED BY <1>3, <1>4, <1>5

LEMMA OneUsed ==
    ASSUME SegmentAssumption, NEW i \in Used
    PROVE  Cardinality(Used) # 0
<1>1. Used \in SUBSET Slots
  BY DEF Used
<1>2. IsFiniteSet(Used)
  BY <1>1, SlotsFinite
<1>. QED BY <1>2, FS_EmptySet

\* The invariant of the ring, the head and the call after every step.
LEMMA RingStep ==
    ASSUME SegmentAssumption, Engine, Sound, [Next]_vars, ~derailed'
    PROVE  RingInv' /\ HeadInv' /\ CallInv'
<1>p. PICK p \in Slots, q \in Slots, r \in Slots :
         /\ p # q /\ p # r /\ q # r /\ Slots = {p, q, r}
         /\ p = playSegment /\ Place(0) = p /\ Place(1) = q /\ Place(2) = r
         /\ NextSegment(p) = q /\ NextSegment(q) = r /\ NextSegment(r) = p
         /\ (p + 0) % SEG_QUEUE_DEPTH = p /\ (p + 1) % SEG_QUEUE_DEPTH = q
         /\ (p + 2) % SEG_QUEUE_DEPTH = r
         /\ (q + 0) % SEG_QUEUE_DEPTH = q /\ (q + 1) % SEG_QUEUE_DEPTH = r
         /\ (q + 2) % SEG_QUEUE_DEPTH = p
  BY Places DEF Sound
<1>t. /\ state \in [Slots -> States] /\ stream \in [Slots -> Streams]
      /\ playSegment \in Slots /\ queueSegment \in Slots
      /\ file \in {"none", "closed", "open"}
      /\ numQueuedSegments = Cardinality(Used)
      /\ \A i \in Slots : state[i] = "CLOSED" <=> stream[i] = "none"
  BY DEF Sound, Typed, StreamsCounted
<1>c. /\ call.done \in 0 .. 3 /\ call.first \in Slots /\ index \in Slots
      /\ call.done = 0 => index = call.first
      /\ call.done = 1 => index = NextSegment(call.first)
      /\ call.done = 2 => index = NextSegment(NextSegment(call.first))
      /\ SEG_QUEUE_DEPTH = 3 /\ call \in Calls
      /\ call.step = "idle" \/ call.step = "process"
  BY IndexPlaces, IndexIsSlot, Circle DEF Sound, Typed, Calls
\* The invariant, of the places by name.
<1>r. /\ Waits(q) => Waits(p)
      /\ Waits(r) => Waits(q)
      /\ file = "open" => queueSegment = IF ~Waits(p) THEN p ELSE IF ~Waits(q) THEN q
                                         ELSE IF ~Waits(r) THEN r ELSE p
      /\ file # "open" => \A i \in Slots : state[i] = "CLOSED"
  BY <1>p DEF Sound, RingInv, FirstFree
<1>h. /\ \A i \in Slots : state[i] \in {"PLAYING", "PAUSED"} => i = p
      /\ state[p] = "PLAYING" =>
            /\ playing
            /\ stream[p] \in {"play", "stopping", "stopped"}
            /\ call.step = "idle" \/ call.done > 0 => stream[p] = "play"
      /\ Waits(p) /\ state[q] = "OPEN" => state[r] # "READY"
  BY <1>p DEF Sound, HeadInv
<1>i. /\ call.step = "idle" => call = Idle
      /\ call.step = "process" =>
            \/ p = call.first
            \/ /\ p = NextSegment(call.first) /\ call.done > 0
               /\ state[p] = "PLAYING" => call.done > 1
      /\ call.startNext =>
            /\ p = NextSegment(call.first) /\ call.done > 0 /\ playing
            /\ \A i \in Slots : state[i] \notin {"PLAYING", "PAUSED"}
            /\ \/ state[p] = "READY" /\ call.done = 1
               \/ \A i \in Slots : state[i] # "READY"
      /\ call.prepareNext =>
            p = NextSegment(call.first) /\ call.done > 1 /\ ~call.startNext
  BY <1>p DEF Sound, CallInv
\* The places and the invariant where the head stays.
<1>u. ASSUME playSegment' = p
      PROVE  Place(0)' = p /\ Place(1)' = q /\ Place(2)' = r
  BY <1>p, <1>u DEF Place
<1>f. Idle.step = "idle" /\ ~Idle.startNext /\ ~Idle.prepareNext
  BY DEF Idle
\* Empty rings.
<1>e. ASSUME state' = [i \in Slots |-> "CLOSED"], playSegment' \in Slots,
             file' = "open" => queueSegment' = playSegment',
             call = Idle, call' = call
      PROVE  RingInv' /\ HeadInv' /\ CallInv'
  <2>1. \A i \in Slots : state'[i] = "CLOSED"
    BY <1>e
  <2>2. Place(0)' = playSegment' /\ Place(0)' \in Slots /\ Place(1)' \in Slots /\ Place(2)' \in Slots
    BY <1>e, Circle, Around DEF Place
  <2>3. RingInv'
    BY <1>e, <2>1, <2>2 DEF RingInv, FirstFree, Waits
  <2>4. HeadInv'
    BY <1>e, <2>1, <2>2 DEF HeadInv, Waits
  <2>5. CallInv'
    BY <1>e, <1>f DEF CallInv
  <2>. QED BY <2>3, <2>4, <2>5
<1>s. ASSUME CloseSegments PROVE state' = [i \in Slots |-> "CLOSED"]
  BY <1>t, <1>s DEF CloseSegments, Used
<1>1. CASE JET_Init
  BY <1>1, <1>e, DepthIsNat DEF JET_Init, Application
<1>2. CASE JET_OpenFile
  <2>1. /\ \A i \in Slots : state'[i] = "CLOSED"
        /\ playSegment' = p /\ queueSegment' = p /\ file' = "open" /\ call' = Idle
    BY <1>2, <1>p, <1>r DEF JET_OpenFile, Engine, Application, slots, queue
  <2>2. RingInv'
    BY <1>p, <1>u, <2>1 DEF RingInv, FirstFree, Waits
  <2>3. HeadInv'
    BY <1>p, <1>u, <2>1 DEF HeadInv, Waits
  <2>4. CallInv'
    BY <2>1, <1>f DEF CallInv
  <2>. QED BY <2>2, <2>3, <2>4
<1>3. CASE JET_CloseFile
  BY <1>3, <1>e, <1>s, <1>t DEF JET_CloseFile, Application
<1>4. CASE JET_Shutdown
  BY <1>4, <1>e, <1>s, DepthIsNat DEF JET_Shutdown, Application
<1>5. CASE JET_Clear_Queue
  BY <1>5, <1>e, <1>s, DepthIsNat DEF JET_Clear_Queue, Application
<1>6. ASSUME NEW id \in UserIDs, NEW count \in Repeats, NEW mutes \in MuteFlags,
             JET_QueueSegment(id, count, mutes)
      PROVE  RingInv' /\ HeadInv' /\ CallInv'
  <2>1. /\ playSegment' = p /\ file' = file /\ file = "open" /\ call' = Idle /\ call = Idle
        /\ playing' = playing /\ queueSegment' = NextSegment(queueSegment)
        /\ stream[queueSegment] = "none"
    BY <1>6, <1>p DEF JET_QueueSegment, Application
  <2>2. /\ ~Waits(queueSegment) /\ state[queueSegment] = "CLOSED"
        /\ queueSegment = IF ~Waits(p) THEN p ELSE IF ~Waits(q) THEN q ELSE r
    BY <2>1, <1>p, <1>t, <1>r DEF Waits
  <2>3. PICK st \in {"READY", "OPEN"} :
           /\ state' = [state EXCEPT ![queueSegment] = st]
           /\ st = "READY" <=> PreparesNow(numQueuedSegments + 1)
    BY <1>6 DEF JET_QueueSegment, PrepareSegment
  <2>4. \A i \in Slots : i # queueSegment => stream'[i] = stream[i]
    BY <1>6, <1>t DEF JET_QueueSegment, PrepareSegment
  <2>5. ASSUME Waits(p), Waits(q) PROVE st # "READY"
    <3>1. p \in Used /\ q \in Used
      BY <2>5, <1>p, <1>t DEF Used, Waits
    <3>2. Cardinality(Used) >= 2
      BY <3>1, <1>p, TwoUsed
    <3>3. Used \in SUBSET Slots
      BY DEF Used
    <3>4. Cardinality(Used) \in Int
      BY <3>3, SlotsFinite, DepthIsNat
    <3>. QED BY <2>3, <3>2, <3>4, <1>t, <1>c DEF PreparesNow
  <2>6. /\ state'[queueSegment] = st /\ \A i \in Slots : i # queueSegment => state'[i] = state[i]
    BY <2>3, <1>t
  <2>7. RingInv'
    <3>1. CASE queueSegment = p
      BY <3>1, <2>1, <2>2, <2>3, <2>6, <1>p, <1>r, <1>u DEF RingInv, FirstFree, Waits
    <3>2. CASE queueSegment = q
      BY <3>2, <2>1, <2>2, <2>3, <2>6, <1>p, <1>r, <1>u DEF RingInv, FirstFree, Waits
    <3>3. CASE queueSegment = r
      BY <3>3, <2>1, <2>2, <2>3, <2>6, <1>p, <1>r, <1>u DEF RingInv, FirstFree, Waits
    <3>. QED BY <3>1, <3>2, <3>3, <1>p, <1>t
  <2>8. HeadInv'
    BY <2>1, <2>2, <2>3, <2>4, <2>5, <2>6, <1>p, <1>r, <1>h, <1>u, <1>t DEF HeadInv, Waits
  <2>9. CallInv'
    BY <2>1, <1>f DEF CallInv
  <2>. QED BY <2>7, <2>8, <2>9
<1>7. CASE JET_Play
  <2>1. /\ playSegment' = p /\ file' = file /\ queueSegment' = queueSegment /\ call' = Idle
        /\ playing' = TRUE
        /\ \A i \in Slots : Waits(i)' <=> Waits(i)
        /\ \A i \in Slots : state'[i] # state[i] => i = p /\ state'[i] = "PLAYING" /\ stream'[i] = "play"
        /\ \A i \in Slots : state'[i] = state[i] => stream'[i] = stream[i] \/ stream'[i] = "play"
        /\ \A i \in Slots : state[i] = "CLOSED" <=> state'[i] = "CLOSED"
    BY <1>7, <1>p, <1>t, <1>h DEF JET_Play, StartPlayback, Application, Waits
  <2>2. RingInv'
    BY <2>1, <1>p, <1>r, <1>u DEF RingInv, FirstFree
  <2>3. HeadInv'
    BY <2>1, <1>p, <1>r, <1>h, <1>u, <1>t, <1>7 DEF HeadInv, JET_Play
  <2>4. CallInv'
    BY <2>1, <1>f DEF CallInv
  <2>. QED BY <2>2, <2>3, <2>4
<1>8. CASE JET_Pause
  <2>1. /\ playSegment' = p /\ file' = file /\ queueSegment' = queueSegment /\ call' = Idle
        /\ state[p] = "PLAYING" /\ state'[p] = "PAUSED"
        /\ \A i \in Slots : i # p => state'[i] = state[i] /\ stream'[i] = stream[i]
    BY <1>8, <1>p, <1>t, <1>h DEF JET_Pause, Application
  <2>2. RingInv'
    BY <2>1, <1>p, <1>r, <1>u DEF RingInv, FirstFree, Waits
  <2>3. HeadInv'
    BY <2>1, <1>p, <1>h, <1>u DEF HeadInv, Waits
  <2>4. CallInv'
    BY <2>1, <1>f DEF CallInv
  <2>. QED BY <2>2, <2>3, <2>4
\* Steps that leave the ring as it is.
<1>k. ASSUME UNCHANGED <<state, stream, file, playSegment, queueSegment, playing, call>>
      PROVE  RingInv' /\ HeadInv' /\ CallInv'
  BY <1>k DEF RingInv, HeadInv, CallInv, FirstFree, Waits, Place, Sound
<1>9. ASSUME NEW mutes \in MuteFlags, NEW sync \in BOOLEAN, JET_SetMuteFlags(mutes, sync)
      PROVE  RingInv' /\ HeadInv' /\ CallInv'
  BY <1>9, <1>k DEF JET_SetMuteFlags, queue
<1>10. CASE Quiet \/ UNCHANGED vars
  BY <1>10, <1>k DEF Quiet, vars, slots, queue
<1>11. CASE EAS_Render
  <2>1. /\ UNCHANGED <<file, state, playSegment, queueSegment, playing>>
        /\ \A i \in Slots : stream'[i] \in Progress(stream[i])
        /\ call'.step = "process" /\ call'.first = playSegment /\ call'.done = 0
        /\ ~call'.startNext /\ ~call'.prepareNext /\ call = Idle
    BY <1>11, <1>t DEF EAS_Render, queue, Idle
  <2>2. RingInv'
    BY <2>1, <1>p, <1>r, <1>u DEF RingInv, FirstFree, Waits
  <2>3. HeadInv'
    BY <2>1, <1>p, <1>h, <1>u DEF HeadInv, Waits, Progress
  <2>4. CallInv'
    BY <2>1, <1>p DEF CallInv
  <2>. QED BY <2>2, <2>3, <2>4
\* JET_Process has looked at one slot more.
<1>o. call.step = "process" /\ call.done < 3 =>
         \/ p = call.first /\ call.done = 0 /\ index = p
         \/ p = call.first /\ call.done = 1 /\ index = q
         \/ p = call.first /\ call.done = 2 /\ index = r
         \/ r = call.first /\ call.done = 1 /\ index = p
         \/ r = call.first /\ call.done = 2 /\ index = q
  BY <1>p, <1>c, <1>i
<1>l. LooksOn => /\ call'.step = call.step /\ call'.first = call.first
                 /\ call'.done = call.done + 1 /\ call'.endOfLoop = call.endOfLoop
                 /\ call'.startNext = call.startNext /\ call'.prepareNext = call.prepareNext
  BY <1>c DEF LooksOn, Calls
\* Steps that change the stream of the slot looked at, or its state to closed.
<1>v. ASSUME LooksOn, call.step = "process", call.done < 3,
             UNCHANGED <<file, playSegment, queueSegment, playing>>,
             \A i \in Slots : i # index => state'[i] = state[i] /\ stream'[i] = stream[i],
             \/ state'[index] = state[index]
             \/ state[index] = "STOPPING" /\ state'[index] = "CLOSED",
             state[index] = "PLAYING" => stream'[index] = "play",
             ~(state[index] = "READY" /\ call.startNext)
      PROVE  RingInv' /\ HeadInv' /\ CallInv'
  <2>1. \A i \in Slots : \/ state'[i] = state[i]
                         \/ state[i] = "STOPPING" /\ state'[i] = "CLOSED"
    BY <1>v
  <2>2. RingInv'
    BY <2>1, <1>v, <1>p, <1>r, <1>u DEF RingInv, FirstFree, Waits
  <2>3. HeadInv'
    BY <2>1, <1>v, <1>l, <1>o, <1>p, <1>h, <1>c, <1>u DEF HeadInv, Waits
  <2>4. CallInv'
    <3>1. /\ call'.step = "process" /\ call'.first = call.first /\ playSegment' = p
          /\ call'.done = call.done + 1 /\ playing' = playing
          /\ call'.startNext = call.startNext /\ call'.prepareNext = call.prepareNext
      BY <1>v, <1>l, <1>p
    <3>2. /\ \/ p = call.first
             \/ p = NextSegment(call.first) /\ call.done > 0
          /\ p # call.first /\ state'[p] = "PLAYING" => call'.done > 1
      BY <2>1, <3>1, <1>v, <1>i, <1>c
    <3>3. ASSUME call.startNext
          PROVE  /\ p = NextSegment(call.first) /\ call.done > 0 /\ playing
                 /\ \A i \in Slots : state'[i] \notin {"PLAYING", "PAUSED"}
                 /\ \A i \in Slots : state'[i] # "READY"
      <4>1. /\ p = NextSegment(call.first) /\ call.done > 0 /\ playing
            /\ \A i \in Slots : state[i] \notin {"PLAYING", "PAUSED"}
            /\ \/ state[p] = "READY" /\ call.done = 1
               \/ \A i \in Slots : state[i] # "READY"
        BY <3>3, <1>i
      <4>2. call.done = 1 => index = p
        BY <4>1, <1>c
      <4>3. \A i \in Slots : state[i] # "READY"
        BY <3>3, <4>1, <4>2, <1>v
      <4>. QED BY <2>1, <4>1, <4>3
    <3>4. call.prepareNext => p = NextSegment(call.first) /\ call.done > 1 /\ ~call.startNext
      BY <1>i
    <3>. QED BY <3>1, <3>2, <3>3, <3>4, <1>c DEF CallInv
  <2>. QED BY <2>2, <2>3, <2>4
<1>12. CASE RepeatSegment
  BY <1>12, <1>v, <1>t, <1>c DEF RepeatSegment, Looks, queue
<1>13. CASE EndSegment
  <2>1. /\ index = p /\ p = call.first /\ call.done = 0 /\ call.step = "process"
        /\ state[p] = "PLAYING" /\ playing
    BY <1>13, <1>h, <1>o, <1>c, <1>i, <1>p DEF EndSegment, Looks
  <2>2. /\ UNCHANGED <<file, queueSegment, playing>> /\ playSegment' = q
        /\ state'[p] = "STOPPING" /\ \A i \in Slots : i # p => state'[i] = state[i]
        /\ Place(0)' = q /\ Place(1)' = r /\ Place(2)' = p
    BY <1>13, <2>1, <1>p, <1>t DEF EndSegment, Place
  <2>3. call'.step = "process" /\ call'.first = p /\ call'.done = 1
        /\ call'.startNext /\ call'.prepareNext = call.prepareNext /\ ~call.prepareNext
    BY <1>13, <2>1, <1>c, <1>i DEF EndSegment, Calls
  <2>4. RingInv'
    BY <2>1, <2>2, <1>p, <1>r DEF RingInv, FirstFree, Waits
  <2>5. HeadInv'
    BY <2>1, <2>2, <1>p, <1>h DEF HeadInv, Waits
  <2>6. CallInv'
    BY <2>1, <2>2, <2>3, <1>p, <1>h, <1>r DEF CallInv, Waits, Sound, Typed, States
  <2>. QED BY <2>4, <2>5, <2>6
<1>14. CASE CloseSegment
  BY <1>14, <1>v, <1>t, <1>c DEF CloseSegment, Looks
<1>15. CASE StartNext
  <2>1. /\ index = p /\ r = call.first /\ call.done = 1 /\ call.step = "process"
        /\ state[p] = "READY" /\ playing
    BY <1>15, <1>o, <1>c, <1>i, <1>p DEF StartNext, Looks
  <2>2. /\ UNCHANGED <<file, playSegment, queueSegment, playing>>
        /\ state'[p] = "PLAYING" /\ stream'[p] = "play"
        /\ \A i \in Slots : i # p => state'[i] = state[i] /\ stream'[i] = stream[i]
    BY <1>15, <2>1, <1>p, <1>t DEF StartNext, StartPlayback, queue
  <2>3. call'.step = "process" /\ call'.first = r /\ call'.done = 2
        /\ ~call'.startNext /\ call'.prepareNext
    BY <1>15, <2>1, <1>c DEF StartNext, Calls
  <2>4. RingInv'
    BY <2>1, <2>2, <1>p, <1>r, <1>u DEF RingInv, FirstFree, Waits
  <2>5. HeadInv'
    BY <2>1, <2>2, <2>3, <1>p, <1>h, <1>u DEF HeadInv, Waits
  <2>6. CallInv'
    BY <2>1, <2>2, <2>3, <1>p DEF CallInv
  <2>. QED BY <2>4, <2>5, <2>6
<1>16. CASE PrepareNext
  <2>1. /\ index = q /\ r = call.first /\ call.done = 2 /\ call.step = "process"
        /\ state[q] = "OPEN" /\ ~call.startNext
    BY <1>16, <1>o, <1>c, <1>i, <1>p DEF PrepareNext, Looks
  <2>2. /\ UNCHANGED <<file, playSegment, queueSegment, playing>>
        /\ state'[q] = "READY"
        /\ \A i \in Slots : i # q => state'[i] = state[i] /\ stream'[i] = stream[i]
    BY <1>16, <2>1, <1>p, <1>t DEF PrepareNext, PrepareSegment, queue
  <2>3. call'.step = "process" /\ call'.first = r /\ call'.done = 3
        /\ ~call'.startNext /\ ~call'.prepareNext
    BY <1>16, <2>1, <1>c DEF PrepareNext, Calls
  <2>4. RingInv'
    BY <2>1, <2>2, <1>p, <1>r, <1>u DEF RingInv, FirstFree, Waits
  <2>5. HeadInv'
    BY <2>1, <2>2, <2>3, <1>p, <1>h, <1>u DEF HeadInv, Waits
  <2>6. CallInv'
    BY <2>1, <2>2, <2>3, <1>p DEF CallInv
  <2>. QED BY <2>4, <2>5, <2>6
<1>17. CASE PassOver
  <2>1. ~(state[index] = "READY" /\ call.startNext)
    BY <1>17 DEF PassOver, Looks
  <2>2. state[index] = "PLAYING" => stream[index] = "play"
    BY <1>17, <1>h, <1>c, <1>t DEF PassOver, Looks, AtEnd
  <2>. QED BY <1>17, <2>1, <2>2, <1>v, <1>c DEF PassOver, Looks, slots, queue
<1>18. CASE EndProcess
  <2>1. /\ UNCHANGED <<file, state, stream, playSegment, queueSegment>>
        /\ playing' = (playing /\ numQueuedSegments # 0)
        /\ call' = Idle /\ call.done = 3
    BY <1>18, <1>c DEF EndProcess, slots
  <2>2. ASSUME state[p] = "PLAYING" PROVE playing' /\ stream[p] = "play"
    <3>1. p \in Used
      BY <2>2, <1>t DEF Used
    <3>2. Cardinality(Used) # 0
      BY <3>1, OneUsed
    <3>3. playing /\ numQueuedSegments # 0
      BY <2>2, <3>2, <1>t, <1>h
    <3>4. playing'
      BY <2>1, <3>3, Zenon
    <3>5. stream[p] = "play"
      BY <2>1, <2>2, <1>h
    <3>. QED BY <3>4, <3>5
  <2>3. RingInv'
    BY <2>1, <1>p, <1>r, <1>u DEF RingInv, FirstFree, Waits
  <2>4. HeadInv'
    BY <2>1, <2>2, <1>p, <1>h, <1>u DEF HeadInv, Waits
  <2>5. CallInv'
    BY <2>1, <1>f DEF CallInv
  <2>. QED BY <2>3, <2>4, <2>5
<1>19. ASSUME NEW id \in UserIDs, NEW count \in Repeats, NEW mutes \in MuteFlags,
              JET_QueueSegmentFails(id, count, mutes)
       PROVE  FALSE
  BY <1>19 DEF JET_QueueSegmentFails
<1>20. CASE PrepareFails
  <2>1. /\ index = q /\ state[q] = "OPEN"
    BY <1>20, <1>o, <1>c, <1>i, <1>p DEF PrepareFails, Looks
  <2>2. /\ UNCHANGED <<file, playSegment, queueSegment, playing>> /\ call' = Idle
        /\ state'[q] \in {"OPEN", "READY"}
        /\ \A i \in Slots : i # q => state'[i] = state[i] /\ stream'[i] = stream[i]
    BY <1>20, <2>1, <1>p, <1>t DEF PrepareFails, PrepareSegment, queue
  <2>3. state[p] = "PLAYING" => stream[p] = "play"
    BY <1>20, <1>h, <1>i, <1>c DEF PrepareFails, Looks
  <2>4. RingInv'
    BY <2>1, <2>2, <1>p, <1>r, <1>u DEF RingInv, FirstFree, Waits
  <2>5. HeadInv'
    BY <2>1, <2>2, <2>3, <1>p, <1>h, <1>u DEF HeadInv, Waits
  <2>6. CallInv'
    BY <2>2, <1>f DEF CallInv
  <2>. QED BY <2>4, <2>5, <2>6
<1>. QED BY <1>1, <1>2, <1>3, <1>4, <1>5, <1>6, <1>7, <1>8, <1>9, <1>10, <1>11, <1>12, <1>13,
            <1>14, <1>15, <1>16, <1>17, <1>18, <1>19, <1>20 DEF Next, HostNext, JET_Process

\* The calls that put the ring right again.
LEMMA Recovers ==
    ASSUME [Next]_vars, derailed, ~derailed'
    PROVE  \/ JET_CloseFile
           \/ JET_Shutdown
           \/ JET_Clear_Queue
<1>1. \/ JET_CloseFile
      \/ JET_Shutdown
      \/ JET_Clear_Queue
      \/ derailed'
  BY DEF Next, HostNext, JET_Process, vars, host, JET_Init, JET_OpenFile, JET_QueueSegment,
         JET_QueueSegmentFails, JET_Play, JET_Pause, JET_SetMuteFlags, Quiet, EAS_Render,
         RepeatSegment, EndSegment, CloseSegment, StartNext, PrepareNext, PrepareFails, PassOver,
         EndProcess
<1>. QED BY <1>1

\* The ring is right when every slot is closed.
LEMMA RecoveredRing ==
    ASSUME SegmentAssumption, Engine, Typed, StreamsCounted,
           JET_CloseFile \/ JET_Shutdown \/ JET_Clear_Queue
    PROVE  RingInv' /\ HeadInv' /\ CallInv'
<1>1. \A i \in Slots : state'[i] = "CLOSED"
  <2>1. CloseSegments
    BY DEF JET_CloseFile, JET_Shutdown, JET_Clear_Queue
  <2>2. state \in [Slots -> States] /\ \A i \in Slots : i \notin Used => state[i] = "CLOSED"
    BY DEF Typed, StreamsCounted, Used
  <2>. QED BY <2>1, <2>2 DEF CloseSegments
<1>2. /\ playSegment' \in Slots /\ call' = Idle
      /\ file' = "open" => queueSegment' = playSegment'
  BY DepthIsNat DEF JET_CloseFile, JET_Shutdown, JET_Clear_Queue, Application, Typed
<1>3. Place(0)' = playSegment' /\ Place(0)' \in Slots /\ Place(1)' \in Slots /\ Place(2)' \in Slots
  BY <1>2, Circle, Around DEF Place
<1>4. RingInv'
  BY <1>1, <1>2, <1>3 DEF RingInv, FirstFree, Waits
<1>5. HeadInv'
  BY <1>1, <1>2, <1>3 DEF HeadInv, Waits
<1>6. CallInv'
  BY <1>2 DEF CallInv, Idle
<1>. QED BY <1>4, <1>5, <1>6

(***************************************************************************)
(* The theorems of the ring.                                               *)
(***************************************************************************)

LEMMA InitCounted ==
    ASSUME Init
    PROVE  StreamsCounted
<1>1. Used = {}
  BY DEF Init, Used
<1>2. Cardinality({}) = 0
  BY FS_EmptySet
<1>. QED BY <1>1, <1>2 DEF Init, StreamsCounted

LEMMA InitInv ==
    ASSUME SegmentAssumption, Engine, Init
    PROVE  Sound
<1>1. Typed
  BY InitTyped
<1>2. StreamsCounted
  BY InitCounted
<1>3. \A i \in Slots : state[i] = "CLOSED"
  BY DEF Init
<1>4. \A k \in 0 .. 2 : Place(k) \in Slots
  BY <1>1, Circle, Around DEF Place, Typed
<1>5. RingInv /\ HeadInv
  BY <1>1, <1>3, <1>4 DEF Init, RingInv, HeadInv, Waits, Typed
<1>6. CallInv
  BY DEF Init, CallInv, Idle
<1>. QED BY <1>1, <1>2, <1>5, <1>6 DEF Sound

\* The count is that of the open streams and a slot without one is closed, for
\* rings of any depth, whatever fails and whether or not the queue is cleared
\* (JET_QueueSegment, JET_CloseSegment, JET_Process).
THEOREM StreamsAreCounted == Spec => [](Typed /\ StreamsCounted)
<1>1. SegmentAssumption
  BY SegmentAssumption
<1>2. Init => Typed /\ StreamsCounted
  BY <1>1, InitTyped, InitCounted
<1>3. Typed /\ StreamsCounted /\ [Next]_vars => Typed' /\ StreamsCounted'
  BY <1>1, TypedStep, UsedStep
<1>. QED BY <1>2, <1>3, PTL DEF Spec

\* Every index is a slot, and the count is never above the depth of the ring
\* (JET_QueueSegment, JET_CloseSegment).
THEOREM SegmentTypes == Spec => []TypeOK
<1>1. SegmentAssumption
  BY SegmentAssumption
<1>2. Typed /\ StreamsCounted => TypeOK
  <2>1. Used \in SUBSET Slots
    BY DEF Used
  <2>. QED BY <1>1, <2>1, SlotsFinite DEF StreamsCounted, Typed, TypeOK
<1>. QED BY <1>2, StreamsAreCounted, PTL

\* The invariant of the segment queue holds in every state: a call that fails half
\* way suspends the order of the ring, and clearing the queue restores it
\* (JET_QueueSegment, JET_Clear_Queue, JET_CloseFile, JET_Shutdown).
THEOREM QueueInvariant == ASSUME Engine PROVE Spec => []IInv
<1>1. SegmentAssumption
  BY SegmentAssumption
<1>2. Init => IInv
  BY <1>1, InitInv DEF IInv, Sound
<1>3. ASSUME IInv, [Next]_vars PROVE IInv'
  <2>1. Typed' /\ StreamsCounted'
    BY <1>1, <1>3, TypedStep, UsedStep DEF IInv
  <2>2. ASSUME ~derailed' PROVE RingInv' /\ HeadInv' /\ CallInv'
    <3>1. CASE derailed
      BY <1>1, <1>3, <2>2, <3>1, Recovers, RecoveredRing DEF IInv
    <3>2. CASE ~derailed
      BY <1>1, <1>3, <2>2, <3>2, RingStep DEF IInv
    <3>. QED BY <3>1, <3>2
  <2>. QED BY <2>1, <2>2 DEF IInv, Sound
<1>. QED BY <1>2, <1>3, PTL DEF Spec

\* The slots that wait, by their places from playSegment on.
FirstPlaces(n) == {Place(k) : k \in 0 .. n - 1}
LEMMA WaitingPlaces ==
    ASSUME SegmentAssumption, Engine, Sound
    PROVE  \E n \in 0 .. 3 :
              /\ Cardinality(Waiting) = n /\ Waiting = FirstPlaces(n)
              /\ \A k \in 0 .. 2 : Waits(Place(k)) <=> k < n
              /\ FirstFree = Place(n)
<1>p. PICK p \in Slots, q \in Slots, r \in Slots :
         /\ p # q /\ p # r /\ q # r /\ Slots = {p, q, r}
         /\ p = playSegment /\ Place(0) = p /\ Place(1) = q /\ Place(2) = r
  BY Places DEF Sound
<1>r. /\ Waits(q) => Waits(p)
      /\ Waits(r) => Waits(q)
  BY <1>p DEF Sound, RingInv
<1>w. Waiting = {i \in Slots : Waits(i)}
  BY DEF Waiting, Waits
<1>3. Place(3) = p
  BY <1>p, Circle DEF Place
<1>c. /\ Cardinality({}) = 0 /\ Cardinality({p}) = 1
      /\ Cardinality({p} \cup {q}) = 2 /\ Cardinality({p} \cup {q} \cup {r}) = 3
  <2>1. IsFiniteSet({p}) /\ Cardinality({p}) = 1 /\ Cardinality({}) = 0
    BY FS_Singleton, FS_EmptySet
  <2>2. q \notin {p} /\ r \notin {p} \cup {q}
    BY <1>p
  <2>3. IsFiniteSet({p} \cup {q}) /\ Cardinality({p} \cup {q}) = Cardinality({p}) + 1
    BY <2>1, <2>2, FS_AddElement
  <2>4. Cardinality({p} \cup {q} \cup {r}) = Cardinality({p} \cup {q}) + 1
    BY <2>2, <2>3, FS_AddElement
  <2>5. Cardinality({p} \cup {q}) = 2
    BY <2>1, <2>3
  <2>6. Cardinality({p} \cup {q} \cup {r}) = 3
    BY <2>4, <2>5
  <2>. QED BY <2>1, <2>5, <2>6
<1>k. /\ 0 .. -1 = {} /\ 0 .. 0 = {0} /\ 0 .. 1 = {0, 1} /\ 0 .. 2 = {0, 1, 2}
  OBVIOUS
<1>4. CASE ~Waits(p)
  <2>1. Waiting = {} /\ FirstPlaces(0) = {}
    BY <1>4, <1>p, <1>r, <1>w, <1>k DEF FirstPlaces
  <2>. QED BY <1>4, <2>1, <1>p, <1>r, <1>c, <1>k DEF FirstFree
<1>5. CASE Waits(p) /\ ~Waits(q)
  <2>1. Waiting = {p} /\ FirstPlaces(1) = {p}
    BY <1>5, <1>p, <1>r, <1>w, <1>k DEF FirstPlaces
  <2>. QED BY <1>5, <2>1, <1>p, <1>r, <1>c, <1>k DEF FirstFree
<1>6. CASE Waits(q) /\ ~Waits(r)
  <2>1. Waiting = {p} \cup {q} /\ FirstPlaces(2) = {p} \cup {q}
    BY <1>6, <1>p, <1>r, <1>w, <1>k DEF FirstPlaces
  <2>. QED BY <1>6, <2>1, <1>p, <1>r, <1>c, <1>k DEF FirstFree
<1>7. CASE Waits(r)
  <2>1. Waiting = {p} \cup {q} \cup {r} /\ FirstPlaces(3) = {p} \cup {q} \cup {r}
    BY <1>7, <1>p, <1>r, <1>w, <1>k DEF FirstPlaces
  <2>. QED BY <1>7, <2>1, <1>p, <1>r, <1>c, <1>k, <1>3 DEF FirstFree
<1>. QED BY <1>4, <1>5, <1>6, <1>7, <1>r

\* Segments are played in the order of their slots and queued behind the last
\* one, and every open stream is counted once: however queueing, playing,
\* pausing, clearing and JET_Process follow one another and whichever segment
\* cannot be prepared, but where a call to queue one failed half way and the
\* queue was not cleared since (JET_QueueSegment, JET_CloseSegment, JET_Process).
THEOREM RingHolds == ASSUME Engine PROVE Spec => []RingConsistent
<1>1. SegmentAssumption
  BY SegmentAssumption
<1>2. ASSUME Sound
      PROVE  /\ Waiting = {Place(k) : k \in 0 .. Cardinality(Waiting) - 1}
             /\ file = "open" => queueSegment = Place(Cardinality(Waiting))
  <2>1. PICK n \in 0 .. 3 : Cardinality(Waiting) = n /\ Waiting = FirstPlaces(n) /\ FirstFree = Place(n)
    BY <1>1, <1>2, WaitingPlaces
  <2>2. Waiting = {Place(k) : k \in 0 .. Cardinality(Waiting) - 1}
    BY <2>1 DEF FirstPlaces
  <2>3. file = "open" => queueSegment = Place(Cardinality(Waiting))
    BY <1>2, <2>1 DEF Sound, RingInv
  <2>. QED BY <2>2, <2>3
<1>3. IInv => RingConsistent
  BY <1>2 DEF IInv, RingConsistent
<1>. QED BY <1>3, QueueInvariant, PTL

\* A segment that plays has a stream that plays and is the one JET_Pause pauses
\* (JET_Pause, JET_StartPlayback, JET_Process).
THEOREM PlayingIsHeard == ASSUME Engine PROVE Spec => []PlayingStreamsPlay
<1>1. IInv => PlayingStreamsPlay
  BY DEF IInv, Sound, HeadInv, PlayingStreamsPlay, Idle
<1>. QED BY <1>1, QueueInvariant, PTL

(***************************************************************************)
(* The ring is a playlist.                                                 *)
(***************************************************************************)

\* The segments that wait are the first of the ring.
Ordered ==
    \E n \in 0 .. 3 : /\ Cardinality(Waiting) = n
                      /\ \A k \in 0 .. 2 : Waits(Place(k)) <=> k < n

\* What the playlist is in terms of the slots, before and after a step.
Shape ==
    \E p \in Slots, q \in Slots, r \in Slots, n \in 0 .. 3 :
       /\ p # q /\ p # r /\ q # r /\ Slots = {p, q, r}
       /\ p = playSegment /\ NextSegment(p) = q /\ NextSegment(q) = r /\ NextSegment(r) = p
       /\ n > 0 <=> Waits(p)
       /\ n > 1 <=> Waits(q)
       /\ n > 2 <=> Waits(r)
       /\ list = [k \in 1 .. n |-> IF k = 1 THEN entry[p] ELSE IF k = 2 THEN entry[q] ELSE entry[r]]
       /\ mode = IF state[p] = "PLAYING" THEN "plays"
                 ELSE IF state[p] = "PAUSED" THEN "pauses" ELSE "waits"

LEMMA ShapeHolds ==
    ASSUME SegmentAssumption, Engine, Sound
    PROVE  Shape
<1>1. PICK p \in Slots, q \in Slots, r \in Slots :
         /\ p # q /\ p # r /\ q # r /\ Slots = {p, q, r}
         /\ p = playSegment /\ Place(0) = p /\ Place(1) = q /\ Place(2) = r
         /\ NextSegment(p) = q /\ NextSegment(q) = r /\ NextSegment(r) = p
  BY Places DEF Sound
<1>2. PICK n \in 0 .. 3 : Cardinality(Waiting) = n /\ \A k \in 0 .. 2 : Waits(Place(k)) <=> k < n
  BY WaitingPlaces
<1>3. /\ n > 0 <=> Waits(p)
      /\ n > 1 <=> Waits(q)
      /\ n > 2 <=> Waits(r)
  BY <1>1, <1>2
<1>4. list = [k \in 1 .. n |-> IF k = 1 THEN entry[p] ELSE IF k = 2 THEN entry[q] ELSE entry[r]]
  <2>1. list = [k \in 1 .. n |-> entry[Place(k - 1)]]
    BY <1>2 DEF list
  <2>2. ASSUME NEW k \in 1 .. n
        PROVE  entry[Place(k - 1)] = IF k = 1 THEN entry[p] ELSE IF k = 2 THEN entry[q] ELSE entry[r]
    <3>1. CASE k = 1
      BY <3>1, <1>1
    <3>2. CASE k = 2
      BY <3>2, <1>1
    <3>3. CASE k = 3
      BY <3>3, <1>1
    <3>. QED BY <3>1, <3>2, <3>3
  <2>. QED BY <2>1, <2>2
<1>5. mode = IF state[p] = "PLAYING" THEN "plays"
             ELSE IF state[p] = "PAUSED" THEN "pauses" ELSE "waits"
  BY <1>1 DEF mode, Sound, HeadInv
<1>. QED BY <1>1, <1>3, <1>4, <1>5 DEF Shape

LEMMA PlaylistStep ==
    ASSUME SegmentAssumption, Engine, ~CanFail, Sound, Shape, Shape', [Next]_vars
    PROVE  [Playlist!Next]_(Playlist!vars)
<1>p. PICK p \in Slots, q \in Slots, r \in Slots, n \in 0 .. 3 :
       /\ p # q /\ p # r /\ q # r /\ Slots = {p, q, r}
       /\ p = playSegment /\ NextSegment(p) = q /\ NextSegment(q) = r /\ NextSegment(r) = p
       /\ n > 0 <=> Waits(p)
       /\ n > 1 <=> Waits(q)
       /\ n > 2 <=> Waits(r)
       /\ list = [k \in 1 .. n |-> IF k = 1 THEN entry[p] ELSE IF k = 2 THEN entry[q] ELSE entry[r]]
       /\ mode = IF state[p] = "PLAYING" THEN "plays"
                 ELSE IF state[p] = "PAUSED" THEN "pauses" ELSE "waits"
  BY DEF Shape
<1>x. PICK u \in Slots, v \in Slots, w \in Slots, m \in 0 .. 3 :
       /\ u = playSegment' /\ NextSegment(u) = v /\ NextSegment(v) = w
       /\ m > 0 <=> Waits(u)'
       /\ m > 1 <=> Waits(v)'
       /\ m > 2 <=> Waits(w)'
       /\ list' = [k \in 1 .. m |-> IF k = 1 THEN entry'[u] ELSE IF k = 2 THEN entry'[v] ELSE entry'[w]]
       /\ mode' = IF state'[u] = "PLAYING" THEN "plays"
                  ELSE IF state'[u] = "PAUSED" THEN "pauses" ELSE "waits"
  BY DEF Shape
<1>t. /\ state \in [Slots -> States] /\ stream \in [Slots -> Streams] /\ entry \in [Slots -> Entries]
      /\ playSegment \in Slots /\ queueSegment \in Slots /\ index \in Slots
      /\ \A i \in Slots : state[i] = "CLOSED" <=> stream[i] = "none"
      /\ \A i \in Slots : state[i] \in {"PLAYING", "PAUSED"} => i = p
      /\ state[p] = "PLAYING" => playing
  BY <1>p, IndexIsSlot DEF Sound, Typed, StreamsCounted, HeadInv
<1>u. ASSUME playSegment' = playSegment PROVE u = p /\ v = q /\ w = r
  BY <1>u, <1>p, <1>x
\* Steps the application does not see.
<1>s. ASSUME playSegment' = playSegment,
             \A i \in Slots : Waits(i)' <=> Waits(i),
             \A i \in Slots : Waits(i) => entry'[i] = entry[i],
             \A i \in Slots : \A st \in {"PLAYING", "PAUSED"} : state'[i] = st <=> state[i] = st
      PROVE  UNCHANGED <<list, mode>>
  <2>1. m = n
    BY <1>s, <1>u, <1>p, <1>x
  <2>2. mode' = mode
    BY <1>s, <1>u, <1>p, <1>x
  <2>3. /\ n > 0 => entry'[p] = entry[p]
        /\ n > 1 => entry'[q] = entry[q]
        /\ n > 2 => entry'[r] = entry[r]
    BY <1>s, <1>p
  <2>4. \A k \in 1 .. n :
           (IF k = 1 THEN entry'[u] ELSE IF k = 2 THEN entry'[v] ELSE entry'[w])
           = (IF k = 1 THEN entry[p] ELSE IF k = 2 THEN entry[q] ELSE entry[r])
    BY <2>3, <1>s, <1>u
  <2>. QED BY <2>1, <2>2, <2>4, <1>p, <1>x
<1>n. ASSUME UNCHANGED <<playSegment, state, entry>> PROVE UNCHANGED <<list, mode>>
  BY <1>n, <1>s DEF Waits
\* Everything is closed.
<1>e. ASSUME state' = [i \in Slots |-> "CLOSED"] PROVE Playlist!Clear
  <2>1. m = 0 /\ mode' = "waits"
    BY <1>e, <1>x DEF Waits
  <2>2. list' = <<>>
    BY <2>1, <1>x
  <2>. QED BY <2>1, <2>2 DEF Playlist!Clear
<1>c. ASSUME CloseSegments PROVE state' = [i \in Slots |-> "CLOSED"]
  BY <1>t, <1>c DEF CloseSegments, Used
<1>1. CASE JET_Init \/ JET_CloseFile \/ JET_Shutdown \/ JET_Clear_Queue
  <2>1. state' = [i \in Slots |-> "CLOSED"]
    BY <1>1, <1>c DEF JET_Init, JET_CloseFile, JET_Shutdown, JET_Clear_Queue
  <2>. QED BY <2>1, <1>e DEF Playlist!Next
<1>2. CASE JET_OpenFile \/ Quiet \/ PassOver \/ EndProcess \/ UNCHANGED vars \/ EAS_Render
  <2>1. UNCHANGED <<playSegment, state, entry>>
    BY <1>2 DEF JET_OpenFile, Quiet, PassOver, EndProcess, EAS_Render, vars, slots, queue
  <2>. QED BY <2>1, <1>n DEF Playlist!vars
<1>3. ASSUME NEW mutes \in MuteFlags, NEW sync \in BOOLEAN, JET_SetMuteFlags(mutes, sync)
      PROVE  [Playlist!Next]_(Playlist!vars)
  <2>1. UNCHANGED <<playSegment, state, entry>>
    BY <1>3 DEF JET_SetMuteFlags, queue
  <2>. QED BY <2>1, <1>n DEF Playlist!vars
<1>4. ASSUME NEW id \in UserIDs, NEW count \in Repeats, NEW mutes \in MuteFlags,
             JET_QueueSegment(id, count, mutes)
      PROVE  [Playlist!Next]_(Playlist!vars)
  <2>. DEFINE new == [userID |-> id, repeatCount |-> count]
  <2>1. /\ playSegment' = playSegment /\ file = "open" /\ ~Waits(queueSegment)
        /\ entry' = [entry EXCEPT ![queueSegment] = new]
        /\ \A i \in Slots : i # queueSegment => state'[i] = state[i]
        /\ state'[queueSegment] \in {"OPEN", "READY"} /\ state[queueSegment] = "CLOSED"
    BY <1>4, <1>t DEF JET_QueueSegment, PrepareSegment, Waits
  <2>2. queueSegment = IF n = 0 THEN p ELSE IF n = 1 THEN q ELSE r
    <3>1. queueSegment = FirstFree /\ Place(0) = p /\ Place(1) = q /\ Place(2) = r
      BY <2>1, <1>p, Circle DEF Sound, RingInv, Place
    <3>. QED BY <3>1, <2>1, <1>p DEF FirstFree
  <2>3. n < 3
    BY <2>1, <2>2, <1>p
  <2>4. /\ u = p /\ v = q /\ w = r
        /\ \A i \in Slots : Waits(i)' <=> Waits(i) \/ i = queueSegment
    BY <2>1, <1>u DEF Waits
  <2>5. m = n + 1
    BY <2>2, <2>3, <2>4, <1>p, <1>x
  <2>6. mode' = mode
    BY <2>1, <2>4, <1>p, <1>x, <1>t
  <2>7. list' = Append(list, new)
    <3>1. list \in Seq(Entries) /\ Len(list) = n
      BY <1>p, <1>t
    <3>2. Append(list, new) = [k \in 1 .. n + 1 |-> IF k = n + 1 THEN new ELSE list[k]]
      BY <3>1
    <3>3. list' = [k \in 1 .. n + 1 |-> IF k = 1 THEN entry'[p] ELSE IF k = 2 THEN entry'[q]
                                        ELSE entry'[r]]
      BY <2>4, <2>5, <1>x
    <3>4. /\ entry'[queueSegment] = new
          /\ \A i \in Slots : i # queueSegment => entry'[i] = entry[i]
      BY <2>1, <1>t
    <3>5. ASSUME NEW k \in 1 .. n + 1
          PROVE  (IF k = 1 THEN entry'[p] ELSE IF k = 2 THEN entry'[q] ELSE entry'[r])
                 = IF k = n + 1 THEN new ELSE list[k]
      <4>1. CASE n = 0
        BY <4>1, <2>2, <3>4
      <4>2. CASE n = 1
        <5>1. queueSegment = q /\ entry'[p] = entry[p] /\ k \in {1, 2}
          BY <4>2, <2>2, <3>4, <1>p
        <5>. QED BY <5>1, <4>2, <3>4, <1>p
      <4>3. CASE n = 2
        <5>1. queueSegment = r /\ entry'[p] = entry[p] /\ entry'[q] = entry[q] /\ k \in {1, 2, 3}
          BY <4>3, <2>2, <3>4, <1>p
        <5>. QED BY <5>1, <4>3, <3>4, <1>p
      <4>. QED BY <4>1, <4>2, <4>3, <2>3
    <3>. QED BY <3>2, <3>3, <3>5
  <2>8. Len(list) < SEG_QUEUE_DEPTH
    BY <2>3, <1>p, Circle
  <2>9. Playlist!Queue(id, count)
    BY <2>6, <2>7, <2>8 DEF Playlist!Queue
  <2>. QED BY <2>9 DEF Playlist!Next
\* The head of the list.
<1>l. ASSUME n > 0 PROVE list # <<>> /\ list[1] = entry[p]
  BY <1>l, <1>p
<1>5. ASSUME playSegment' = playSegment, entry' = entry, \A i \in Slots : Waits(i)' <=> Waits(i)
      PROVE  list' = list
  <2>1. m = n /\ u = p /\ v = q /\ w = r
    BY <1>5, <1>u, <1>p, <1>x
  <2>. QED BY <2>1, <1>5, <1>p, <1>x
<1>6. CASE JET_Play
  <2>1. /\ playSegment' = playSegment /\ entry' = entry /\ ~playing
        /\ \A i \in Slots : Waits(i)' <=> Waits(i)
        /\ state'[p] = "PLAYING" /\ Waits(p)
    BY <1>6, <1>p, <1>t DEF JET_Play, StartPlayback, Waits
  <2>2. mode # "plays" /\ mode' = "plays"
    BY <2>1, <1>u, <1>p, <1>x, <1>t
  <2>3. Playlist!Play
    BY <2>1, <2>2, <1>5, <1>l, <1>p DEF Playlist!Play
  <2>. QED BY <2>3 DEF Playlist!Next
<1>7. CASE JET_Pause
  <2>1. /\ playSegment' = playSegment /\ entry' = entry
        /\ state[p] = "PLAYING" /\ state'[p] = "PAUSED"
        /\ \A i \in Slots : i # p => state'[i] = state[i]
    BY <1>7, <1>p, <1>t DEF JET_Pause
  <2>2. \A i \in Slots : Waits(i)' <=> Waits(i)
    BY <2>1 DEF Waits
  <2>3. mode = "plays" /\ mode' = "pauses"
    BY <2>1, <1>u, <1>p, <1>x
  <2>4. Playlist!Pause
    BY <2>1, <2>2, <2>3, <1>5 DEF Playlist!Pause
  <2>. QED BY <2>4 DEF Playlist!Next
<1>8. CASE RepeatSegment
  <2>1. /\ playSegment' = playSegment /\ state' = state /\ index = p
        /\ state[p] = "PLAYING" /\ entry[p].repeatCount # 0
        /\ entry' = [entry EXCEPT ![p].repeatCount = Counted(@)]
    BY <1>8, <1>p, <1>t DEF RepeatSegment, Looks, queue
  <2>2. /\ m = n /\ u = p /\ v = q /\ w = r /\ n > 0 /\ mode = "plays" /\ mode' = "plays"
    BY <2>1, <1>u, <1>p, <1>x DEF Waits
  <2>3. /\ entry'[p] = [entry[p] EXCEPT !.repeatCount = Counted(entry[p].repeatCount)]
        /\ entry'[q] = entry[q] /\ entry'[r] = entry[r]
    BY <2>1, <1>p, <1>t
  <2>4. list[1] = entry[p]
    BY <2>2, <1>l
  <2>5. list' = [list EXCEPT ![1] = entry'[p]]
    <3>1. [list EXCEPT ![1] = entry'[p]] = [k \in 1 .. n |-> IF k = 1 THEN entry'[p] ELSE list[k]]
      BY <1>p
    <3>2. \A k \in 1 .. n : (IF k = 1 THEN entry'[p] ELSE list[k])
                            = IF k = 1 THEN entry'[p] ELSE IF k = 2 THEN entry'[q] ELSE entry'[r]
      BY <2>3, <1>p
    <3>. QED BY <3>1, <3>2, <2>2, <1>x
  <2>6. [list EXCEPT ![1].repeatCount = IF @ > 0 THEN @ - 1 ELSE @] = [list EXCEPT ![1] = entry'[p]]
    BY <2>3, <2>4 DEF Counted
  <2>7. Playlist!Repeat
    BY <2>1, <2>2, <2>4, <2>5, <2>6 DEF Playlist!Repeat
  <2>. QED BY <2>7 DEF Playlist!Next
<1>9. CASE EndSegment
  <2>1. /\ index = p /\ playSegment' = q /\ entry' = entry
        /\ state[p] = "PLAYING" /\ entry[p].repeatCount = 0 /\ state'[p] = "STOPPING"
        /\ \A i \in Slots : i # p => state'[i] = state[i]
    BY <1>9, <1>p, <1>t DEF EndSegment, Looks
  <2>2. u = q /\ v = r /\ w = p
    BY <2>1, <1>p, <1>x
  <2>3. m = n - 1 /\ n > 0 /\ mode = "plays" /\ mode' = "waits"
    BY <2>1, <2>2, <1>p, <1>x, <1>t DEF Waits
  <2>4. list' = Tail(list)
    <3>1. list \in Seq(Entries) /\ Len(list) = n
      BY <1>p, <1>t
    <3>2. Tail(list) = [k \in 1 .. n - 1 |-> list[k + 1]]
      <4>1. n \in Nat /\ n > 0
        BY <2>3
      <4>2. list # <<>>
        BY <3>1, <4>1
      <4>3. /\ Tail(list) \in Seq(Entries) /\ Len(Tail(list)) = n - 1
            /\ \A k \in 1 .. n - 1 : Tail(list)[k] = list[k + 1]
        BY <3>1, <4>1, <4>2
      <4>4. ASSUME NEW t \in Seq(Entries) PROVE t = [k \in 1 .. Len(t) |-> t[k]]
        OBVIOUS
      <4>5. Tail(list) = [k \in 1 .. n - 1 |-> Tail(list)[k]]
        BY <4>3, <4>4
      <4>. QED BY <4>3, <4>5
    <3>3. list' = [k \in 1 .. n - 1 |-> IF k = 1 THEN entry[q] ELSE IF k = 2 THEN entry[r]
                                        ELSE entry[p]]
      BY <2>1, <2>2, <2>3, <1>x
    <3>4. ASSUME NEW k \in 1 .. n - 1
          PROVE  (IF k = 1 THEN entry[q] ELSE IF k = 2 THEN entry[r] ELSE entry[p]) = list[k + 1]
      <4>1. k \in {1, 2} /\ k + 1 \in 1 .. n
        OBVIOUS
      <4>. QED BY <4>1, <1>p
    <3>. QED BY <3>2, <3>3, <3>4
  <2>5. list[1].repeatCount = 0
    BY <2>1, <2>3, <1>l
  <2>6. Playlist!Finish
    BY <2>3, <2>4, <2>5 DEF Playlist!Finish
  <2>. QED BY <2>6 DEF Playlist!Next
<1>10. CASE CloseSegment
  <2>1. /\ playSegment' = playSegment /\ state[index] = "STOPPING" /\ state'[index] = "CLOSED"
        /\ \A i \in Slots : i # index => state'[i] = state[i] /\ entry'[i] = entry[i]
    BY <1>10, <1>t DEF CloseSegment, Looks
  <2>. QED BY <2>1, <1>s DEF Waits, Playlist!vars
<1>11. CASE StartNext
  <2>1. /\ playSegment' = playSegment /\ entry' = entry
        /\ state[index] = "READY" /\ state'[index] = "PLAYING"
        /\ \A i \in Slots : i # index => state'[i] = state[i]
    BY <1>11, <1>t DEF StartNext, StartPlayback, Looks, queue
  <2>2. index = p
    <3>1. /\ call.startNext /\ state[index] = "READY" /\ call.done \in 0 .. 3
      BY <1>11, IndexPlaces DEF StartNext, Looks, Sound
    <3>2. call.done = 1 /\ p = NextSegment(call.first)
      BY <3>1, <1>p, <1>t DEF Sound, CallInv
    <3>. QED BY <3>2, IndexPlaces DEF Sound
  <2>3. \A i \in Slots : Waits(i)' <=> Waits(i)
    BY <2>1 DEF Waits
  <2>4. n > 0 /\ mode # "plays" /\ mode' = "plays"
    BY <2>1, <2>2, <1>u, <1>p, <1>x DEF Waits
  <2>5. Playlist!Play
    BY <2>1, <2>3, <2>4, <1>5, <1>l DEF Playlist!Play
  <2>. QED BY <2>5 DEF Playlist!Next
<1>12. CASE PrepareNext
  <2>1. /\ playSegment' = playSegment /\ entry' = entry
        /\ state[index] = "OPEN" /\ state'[index] = "READY"
        /\ \A i \in Slots : i # index => state'[i] = state[i]
    BY <1>12, <1>t DEF PrepareNext, PrepareSegment, Looks, queue
  <2>. QED BY <2>1, <1>s DEF Waits, Playlist!vars
<1>13. ~PrepareFails /\ \A id, count, mutes : ~JET_QueueSegmentFails(id, count, mutes)
  BY DEF PrepareFails, JET_QueueSegmentFails
<1>. QED BY <1>1, <1>2, <1>3, <1>4, <1>6, <1>7, <1>8, <1>9, <1>10, <1>11, <1>12, <1>13
         DEF Next, HostNext, JET_Process

\* Where nothing can fail, nothing derails the ring.
LEMMA StaysSound ==
    ASSUME ~CanFail, ~derailed, [Next]_vars
    PROVE  ~derailed'
BY DEF Next, HostNext, JET_Process, vars, host, JET_Init, JET_OpenFile, JET_CloseFile,
       JET_Shutdown, JET_Clear_Queue, JET_QueueSegment, JET_QueueSegmentFails, JET_Play,
       JET_Pause, JET_SetMuteFlags, Quiet, EAS_Render, RepeatSegment, EndSegment, CloseSegment,
       StartNext, PrepareNext, PrepareFails, PassOver, EndProcess

\* A ring of the depth the code has, with segments opened, prepared, started and
\* closed in different calls and frames, is the playlist of JetPlaylist: none is
\* lost, comes twice or out of turn, whatever is queued with whatever repeat
\* counts, if every segment can be opened and prepared (JET_QueueSegment,
\* JET_Process).
THEOREM RingIsPlaylist == ASSUME Engine, ~CanFail PROVE Spec => IsPlaylist
<1>1. SegmentAssumption
  BY SegmentAssumption
<1>2. Sound => Shape
  BY <1>1, ShapeHolds
<1>3. Init => Playlist!Init
  <2>1. ASSUME Init PROVE list = <<>> /\ mode = "waits"
    <3>1. PICK p \in Slots, n \in 0 .. 3 :
             /\ n > 0 <=> Waits(p)
             /\ \E q, r \in Slots :
                   list = [k \in 1 .. n |-> IF k = 1 THEN entry[p] ELSE IF k = 2 THEN entry[q]
                                            ELSE entry[r]]
             /\ mode = IF state[p] = "PLAYING" THEN "plays"
                       ELSE IF state[p] = "PAUSED" THEN "pauses" ELSE "waits"
      BY <1>1, <1>2, <2>1, InitInv DEF Shape
    <3>2. ~Waits(p) /\ state[p] = "CLOSED"
      BY <2>1 DEF Init, Waits
    <3>. QED BY <3>1, <3>2
  <2>. QED BY <2>1 DEF Playlist!Init
<1>4. Sound /\ Shape /\ Shape' /\ [Next]_vars => [Playlist!Next]_(Playlist!vars)
  BY <1>1, PlaylistStep
<1>5. Init => ~derailed
  BY DEF Init
<1>6. ~derailed /\ [Next]_vars => ~derailed'
  BY StaysSound
<1>7. IInv /\ ~derailed => Sound
  BY DEF IInv
<1>. QED BY <1>2, <1>3, <1>4, <1>5, <1>6, <1>7, QueueInvariant, PTL
         DEF Spec, IsPlaylist, Playlist!Spec

(***************************************************************************)
(* No segment is stranded.                                                 *)
(***************************************************************************)

\* Where nothing was queued behind a segment that was stopping, and every segment
\* could be prepared when its turn came, the head of the
\* queue is prepared, and so is the segment behind it but in the very steps in
\* which JET_Process goes over from one to the other; while the engine plays,
\* the head plays or is the slot that JET_Process starts next.
LateInv ==
    /\ state[playSegment] = "PAUSED" => ~playing
    /\ call.step = "idle" /\ playing /\ file = "open" => \E i \in Slots : state[i] # "CLOSED"
    /\ ~late =>
          /\ state[Place(0)] # "OPEN"
          /\ state[Place(1)] = "OPEN" =>
                \/ call.startNext /\ call.done = 1
                \/ call.prepareNext /\ call.done = 2
          /\ playing /\ Waits(Place(0)) =>
                \/ state[Place(0)] = "PLAYING"
                \/ call.startNext /\ call.done = 1

LEMMA LateStep ==
    ASSUME SegmentAssumption, Engine, Sound, LateInv, [Next]_vars, ~derailed'
    PROVE  LateInv'
<1>p. PICK p \in Slots, q \in Slots, r \in Slots :
         /\ p # q /\ p # r /\ q # r /\ Slots = {p, q, r}
         /\ p = playSegment /\ Place(0) = p /\ Place(1) = q /\ Place(2) = r
         /\ NextSegment(p) = q /\ NextSegment(q) = r /\ NextSegment(r) = p
  <2>1. \E p, q, r \in Slots :
         /\ p # q /\ p # r /\ q # r /\ Slots = {p, q, r}
         /\ p = playSegment /\ Place(0) = p /\ Place(1) = q /\ Place(2) = r
         /\ NextSegment(p) = q /\ NextSegment(q) = r /\ NextSegment(r) = p
    BY Places DEF Sound
  <2>. QED BY <2>1
<1>t. /\ state \in [Slots -> States] /\ stream \in [Slots -> Streams]
      /\ playSegment \in Slots /\ queueSegment \in Slots
      /\ numQueuedSegments = Cardinality(Used)
      /\ \A i \in Slots : state[i] = "CLOSED" <=> stream[i] = "none"
  BY DEF Sound, Typed, StreamsCounted
<1>c. /\ call.done \in 0 .. 3 /\ call.first \in Slots /\ index \in Slots
      /\ call.done = 0 => index = call.first
      /\ call.done = 1 => index = NextSegment(call.first)
      /\ call.done = 2 => index = NextSegment(NextSegment(call.first))
      /\ SEG_QUEUE_DEPTH = 3 /\ call \in Calls
  BY IndexPlaces, IndexIsSlot, Circle DEF Sound, Typed
<1>r. /\ Waits(q) => Waits(p)
      /\ file = "open" => queueSegment = IF ~Waits(p) THEN p ELSE IF ~Waits(q) THEN q
                                         ELSE IF ~Waits(r) THEN r ELSE p
      /\ \A i \in Slots : state[i] \in {"PLAYING", "PAUSED"} => i = p
  BY <1>p DEF Sound, RingInv, HeadInv, FirstFree
<1>i. /\ call.step = "idle" => call = Idle
      /\ call.step = "process" => p = call.first \/ p = NextSegment(call.first)
      /\ call.step = "process" /\ p # call.first => call.done > 0
      /\ call.step = "process" /\ p # call.first /\ state[p] = "PLAYING" => call.done > 1
      /\ call.startNext =>
            /\ p = NextSegment(call.first) /\ call.done > 0
            /\ \A i \in Slots : state[i] \notin {"PLAYING", "PAUSED"}
      /\ call.prepareNext => p = NextSegment(call.first) /\ call.done > 1
  BY <1>p DEF Sound, CallInv
<1>l. /\ state[p] = "PAUSED" => ~playing
      /\ call.step = "idle" /\ playing /\ file = "open" => \E i \in Slots : state[i] # "CLOSED"
      /\ ~late =>
            /\ state[p] # "OPEN"
            /\ state[q] = "OPEN" => \/ call.startNext /\ call.done = 1
                                    \/ call.prepareNext /\ call.done = 2
            /\ playing /\ Waits(p) => \/ state[p] = "PLAYING"
                                      \/ call.startNext /\ call.done = 1
  BY <1>p DEF LateInv
<1>u. ASSUME playSegment' = p PROVE Place(0)' = p /\ Place(1)' = q
  BY <1>u, <1>p DEF Place
<1>f. Idle.step = "idle" /\ ~Idle.startNext /\ ~Idle.prepareNext
  BY DEF Idle
<1>e. ASSUME state' = [i \in Slots |-> "CLOSED"], playSegment' \in Slots, file' = "open" => ~playing'
      PROVE  LateInv'
  <2>1. Place(0)' \in Slots /\ Place(1)' \in Slots
    BY <1>e, Circle, Around DEF Place
  <2>. QED BY <2>1, <1>e DEF LateInv, Waits
<1>s. ASSUME CloseSegments PROVE state' = [i \in Slots |-> "CLOSED"]
  BY <1>t, <1>s DEF CloseSegments, Used
<1>k. ASSUME UNCHANGED <<state, file, playSegment, playing, call, late>> PROVE LateInv'
  BY <1>k DEF LateInv, Waits, Place
<1>1. CASE JET_Init
  BY <1>1, <1>e, DepthIsNat DEF JET_Init
<1>2. CASE JET_OpenFile
  <2>1. UNCHANGED <<state, playSegment, playing, call, late>> /\ ~playing
    BY <1>2 DEF JET_OpenFile, Engine, slots, queue, host
  <2>. QED BY <2>1, <1>p, <1>l, <1>u DEF LateInv, Waits
<1>3. CASE JET_CloseFile
  BY <1>3, <1>e, <1>s, <1>t DEF JET_CloseFile
<1>4. CASE JET_Shutdown
  BY <1>4, <1>e, <1>s, DepthIsNat DEF JET_Shutdown
<1>5. CASE JET_Clear_Queue
  BY <1>5, <1>e, <1>s, DepthIsNat DEF JET_Clear_Queue
<1>6. ASSUME NEW id \in UserIDs, NEW count \in Repeats, NEW mutes \in MuteFlags,
             JET_QueueSegment(id, count, mutes)
      PROVE  LateInv'
  <2>1. /\ playSegment' = p /\ file' = file /\ file = "open" /\ call' = Idle /\ call = Idle
        /\ playing' = playing
        /\ state[queueSegment] = "CLOSED" /\ state'[queueSegment] \in {"READY", "OPEN"}
        /\ \A i \in Slots : i # queueSegment => state'[i] = state[i]
    BY <1>6, <1>p, <1>t DEF JET_QueueSegment, PrepareSegment, Application
  <2>2. PreparesNow(numQueuedSegments + 1) => state'[queueSegment] = "READY"
    BY <1>6, <1>t DEF JET_QueueSegment, PrepareSegment
  <2>3. ~late' => ~late /\ \A j \in Slots : state[j] # "STOPPING"
    BY <1>6 DEF JET_QueueSegment
  <2>4. queueSegment = IF ~Waits(p) THEN p ELSE IF ~Waits(q) THEN q ELSE r
    BY <2>1, <1>p, <1>r DEF Waits
  <2>5. CASE ~late'
    <3>1. \A i \in Slots : Waits(i) \/ state[i] = "CLOSED"
      BY <2>3, <2>5, <1>t DEF Waits, States
    <3>2. CASE ~Waits(p)
      <4>1. \A i \in Slots : state[i] = "CLOSED"
        BY <3>1, <3>2, <1>p, <1>r DEF Sound, RingInv
      <4>2. Used = {} /\ Cardinality({}) = 0
        BY <4>1, <1>t, FS_EmptySet DEF Used
      <4>3. state'[p] = "READY" /\ ~playing
        BY <2>1, <2>2, <2>4, <3>2, <4>1, <4>2, <1>t, <1>c, <1>l, <1>f DEF PreparesNow
      <4>. QED BY <2>1, <2>4, <3>2, <4>1, <4>3, <1>u, <1>p DEF LateInv
    <3>3. CASE Waits(p) /\ ~Waits(q)
      <4>1. state[r] = "CLOSED" /\ state[q] = "CLOSED" /\ state[p] # "CLOSED"
        BY <3>1, <3>3, <1>p DEF Sound, RingInv, Waits
      <4>2. Used = {p} /\ Cardinality({p}) = 1
        BY <4>1, <1>t, <1>p, FS_Singleton DEF Used
      <4>3. state'[q] = "READY"
        BY <2>2, <2>4, <3>3, <4>2, <1>t, <1>c DEF PreparesNow
      <4>4. state'[p] = state[p] /\ state[p] # "OPEN" /\ (playing => state[p] = "PLAYING")
        BY <2>1, <2>3, <2>4, <2>5, <3>3, <1>p, <1>l, <1>f
      <4>. QED BY <2>1, <2>5, <4>1, <4>3, <4>4, <1>u, <1>p, <1>l DEF LateInv, Waits
    <3>4. CASE Waits(p) /\ Waits(q)
      <4>1. state'[p] = state[p] /\ state'[q] = state[q]
        BY <2>1, <2>4, <3>4, <1>p
      <4>2. state[p] # "OPEN" /\ state[q] # "OPEN" /\ (playing => state[p] = "PLAYING")
        BY <2>1, <2>3, <2>5, <3>4, <1>l, <1>f
      <4>3. state[p] # "CLOSED"
        BY <3>4 DEF Waits
      <4>. QED BY <2>1, <2>5, <4>1, <4>2, <4>3, <1>u, <1>p, <1>l DEF LateInv, Waits
    <3>. QED BY <3>2, <3>3, <3>4
  <2>6. CASE late'
    <3>1. state'[queueSegment] \notin {"CLOSED", "PAUSED"}
      BY <2>1
    <3>2. state'[p] = "PAUSED" => ~playing
      BY <2>1, <3>1, <1>p, <1>l
    <3>. QED BY <2>1, <2>6, <3>1, <3>2, <1>t DEF LateInv
  <2>. QED BY <2>5, <2>6
<1>7. CASE JET_Play
  <2>1. /\ playSegment' = p /\ file' = file /\ call' = Idle /\ call = Idle /\ late' = late
        /\ state'[p] = "PLAYING" /\ \A i \in Slots : i # p => state'[i] = state[i]
    BY <1>7, <1>p, <1>t, <1>r DEF JET_Play, StartPlayback, Application, host
  <2>. QED BY <2>1, <1>p, <1>l, <1>u, <1>f DEF LateInv
<1>8. CASE JET_Pause
  <2>1. /\ playSegment' = p /\ file' = file /\ call' = call /\ late' = late
        /\ state'[p] = "PAUSED" /\ \A i \in Slots : i # p => state'[i] = state[i]
        /\ playing' = FALSE
    BY <1>8, <1>p, <1>t DEF JET_Pause, host
  <2>. QED BY <2>1, <1>p, <1>l, <1>u DEF LateInv
<1>9. ASSUME NEW mutes \in MuteFlags, NEW sync \in BOOLEAN, JET_SetMuteFlags(mutes, sync)
      PROVE  LateInv'
  BY <1>9, <1>k DEF JET_SetMuteFlags, queue, host
<1>10. CASE Quiet \/ UNCHANGED vars
  BY <1>10, <1>k DEF Quiet, vars, slots, queue, host
<1>11. CASE EAS_Render
  <2>1. /\ UNCHANGED <<file, state, playSegment, playing, late>> /\ call = Idle
        /\ call'.step = "process"
    BY <1>11 DEF EAS_Render, queue, host, Idle
  <2>. QED BY <2>1, <1>p, <1>l, <1>u, <1>f DEF LateInv, Waits
\* JET_Process has looked at a slot and there was nothing to start or prepare.
<1>o. LooksOn => /\ call'.step = call.step /\ call'.done = call.done + 1
                 /\ call'.startNext = call.startNext /\ call'.prepareNext = call.prepareNext
  BY <1>c DEF LooksOn, Calls
<1>v. ASSUME LooksOn, call.step = "process", call.done < 3,
             UNCHANGED <<file, playSegment, playing, late>>,
             \A i \in Slots : i # index => state'[i] = state[i],
             \/ state'[index] = state[index]
             \/ state[index] = "STOPPING" /\ state'[index] = "CLOSED",
             ~(state[index] = "READY" /\ call.startNext),
             ~(state[index] = "OPEN" /\ call.prepareNext)
      PROVE  LateInv'
  <2>1. \A i \in Slots : \/ state'[i] = state[i]
                         \/ state[i] = "STOPPING" /\ state'[i] = "CLOSED"
    BY <1>v
  <2>2. /\ playSegment' = p /\ call'.step = "process"
        /\ state'[p] = "PAUSED" => ~playing'
    BY <2>1, <1>v, <1>o, <1>p, <1>l
  <2>3. CASE ~late
    <3>1. call.startNext /\ call.done = 1 => index = p /\ ~Waits(p)
      BY <2>3, <1>v, <1>c, <1>i, <1>l DEF Waits
    <3>2. call.prepareNext /\ call.done = 2 => index = q /\ state[q] # "OPEN"
      BY <1>v, <1>c, <1>i, <1>p
    <3>3. state[q] # "OPEN"
      BY <2>3, <3>1, <3>2, <1>l, <1>r DEF Waits
    <3>4. playing /\ Waits(p) => state[p] = "PLAYING"
      BY <2>3, <3>1, <1>l
    <3>5. Waits(p)' <=> Waits(p)
      BY <2>1 DEF Waits
    <3>. QED BY <2>1, <2>2, <2>3, <3>3, <3>4, <3>5, <1>v, <1>u, <1>l, <1>p DEF LateInv, Waits
  <2>4. CASE late
    BY <2>2, <2>4, <1>v DEF LateInv
  <2>. QED BY <2>3, <2>4
<1>12. CASE RepeatSegment
  BY <1>12, <1>v, <1>c DEF RepeatSegment, Looks, queue, host
<1>13. CASE EndSegment
  <2>1. /\ index = p /\ p = call.first /\ call.done = 0 /\ state[p] = "PLAYING"
    BY <1>13, <1>r, <1>c, <1>i, <1>p DEF EndSegment, Looks
  <2>2. /\ UNCHANGED <<file, playing, late>> /\ playSegment' = q
        /\ \A i \in Slots : i # p => state'[i] = state[i]
        /\ Place(0)' = q /\ Place(1)' = r
    BY <1>13, <2>1, <1>p, <1>t, Circle DEF EndSegment, Place, host
  <2>3. call'.step = "process" /\ call'.done = 1 /\ call'.startNext
    BY <1>13, <2>1, <1>c DEF EndSegment, Looks, Calls
  <2>4. ~late => state[q] # "OPEN"
    BY <2>1, <1>l
  <2>. QED BY <2>1, <2>2, <2>3, <2>4, <1>p, <1>r DEF LateInv
<1>14. CASE CloseSegment
  BY <1>14, <1>v, <1>t, <1>c DEF CloseSegment, Looks, host
<1>15. CASE StartNext
  <2>1. index = p /\ p = NextSegment(call.first) /\ call.done = 1 /\ state[p] = "READY"
    <3>1. call.startNext /\ state[index] = "READY"
      BY <1>15 DEF StartNext, Looks
    <3>. QED BY <3>1, <1>c, <1>i, <1>p DEF Sound, CallInv
  <2>2. /\ UNCHANGED <<file, playSegment, playing, late>>
        /\ state'[p] = "PLAYING" /\ \A i \in Slots : i # p => state'[i] = state[i]
    BY <1>15, <2>1, <1>p, <1>t DEF StartNext, StartPlayback, queue, host
  <2>3. call'.step = "process" /\ call'.done = 2 /\ call'.prepareNext
    BY <1>15, <2>1, <1>c DEF StartNext, Looks, Calls
  <2>. QED BY <2>1, <2>2, <2>3, <1>p, <1>u DEF LateInv
<1>16. CASE PrepareNext
  <2>1. /\ index = q /\ call.step = "process" /\ state[q] = "OPEN" /\ ~call.startNext
    <3>1. call.prepareNext /\ call.done < 3 /\ state[index] = "OPEN" /\ call.step = "process"
      BY <1>16, <1>c DEF PrepareNext, Looks
    <3>2. call.done = 2 /\ p = NextSegment(call.first)
      BY <3>1, <1>c, <1>i
    <3>. QED BY <3>1, <3>2, <1>c, <1>p DEF Sound, CallInv
  <2>2. /\ UNCHANGED <<file, playSegment, playing, late>> /\ call'.step = "process"
        /\ state'[q] = "READY" /\ \A i \in Slots : i # q => state'[i] = state[i]
    BY <1>16, <2>1, <1>p, <1>t, <1>c DEF PrepareNext, PrepareSegment, queue, host, Calls
  <2>. QED BY <2>1, <2>2, <1>p, <1>l, <1>u DEF LateInv, Waits
<1>17. CASE PassOver
  <2>1. /\ ~(state[index] = "READY" /\ call.startNext)
        /\ ~(state[index] = "OPEN" /\ call.prepareNext)
    BY <1>17 DEF PassOver, Looks
  <2>. QED BY <1>17, <2>1, <1>v, <1>c DEF PassOver, Looks, slots, queue, host
<1>18. CASE EndProcess
  <2>1. /\ UNCHANGED <<file, state, playSegment, late>> /\ call.done = 3
        /\ playing' = (playing /\ numQueuedSegments # 0)
    BY <1>18, <1>c DEF EndProcess, slots, host
  <2>2. ASSUME playing' PROVE playing /\ \E i \in Slots : state[i] # "CLOSED"
    <3>1. playing /\ numQueuedSegments # 0
      BY <2>1, <2>2, Zenon
    <3>2. Used # {}
      BY <3>1, <1>t, FS_EmptySet
    <3>. QED BY <3>1, <3>2, <1>t DEF Used
  <2>. QED BY <2>1, <2>2, <1>p, <1>l, <1>u DEF LateInv, Waits
<1>19. ASSUME NEW id \in UserIDs, NEW count \in Repeats, NEW mutes \in MuteFlags,
              JET_QueueSegmentFails(id, count, mutes)
       PROVE  FALSE
  BY <1>19 DEF JET_QueueSegmentFails
<1>20. CASE PrepareFails
  <2>1. /\ UNCHANGED <<file, playSegment, playing>> /\ late'
        /\ state[index] = "OPEN" /\ state'[index] \in {"OPEN", "READY"}
        /\ \A i \in Slots : i # index => state'[i] = state[i]
    BY <1>20, <1>t DEF PrepareFails, PrepareSegment, Looks, queue
  <2>2. state'[p] = "PAUSED" => ~playing
    BY <2>1, <1>p, <1>l
  <2>3. \E i \in Slots : state'[i] # "CLOSED"
    BY <2>1, <1>c
  <2>. QED BY <2>1, <2>2, <2>3, <1>p DEF LateInv
<1>. QED BY <1>1, <1>2, <1>3, <1>4, <1>5, <1>6, <1>7, <1>8, <1>9, <1>10, <1>11, <1>12, <1>13,
            <1>14, <1>15, <1>16, <1>17, <1>18, <1>19, <1>20 DEF Next, HostNext, JET_Process

\* Nothing is stranded in a queue that was cleared.
LEMMA RecoveredHead ==
    ASSUME SegmentAssumption, Engine, Typed, StreamsCounted,
           JET_CloseFile \/ JET_Shutdown \/ JET_Clear_Queue
    PROVE  LateInv'
<1>1. \A i \in Slots : state'[i] = "CLOSED"
  <2>1. CloseSegments
    BY DEF JET_CloseFile, JET_Shutdown, JET_Clear_Queue
  <2>2. state \in [Slots -> States] /\ \A i \in Slots : i \notin Used => state[i] = "CLOSED"
    BY DEF Typed, StreamsCounted, Used
  <2>. QED BY <2>1, <2>2 DEF CloseSegments
<1>2. playSegment' \in Slots /\ (file' = "open" => ~playing')
  BY DepthIsNat DEF JET_CloseFile, JET_Shutdown, JET_Clear_Queue, Typed
<1>3. Place(0)' \in Slots /\ Place(1)' \in Slots
  BY <1>2, Circle, Around DEF Place
<1>. QED BY <1>1, <1>2, <1>3 DEF LateInv, Waits

\* If no segment was queued while another one was stopping and none failed, the
\* playlist goes on without a gap: between frames, while the engine plays, the
\* segment at the head of the queue plays (JET_QueueSegment, JET_Process).
THEOREM NeverStranded == ASSUME Engine PROVE Spec => []NotStranded
<1> DEFINE HeadOK == derailed \/ LateInv
<1>1. SegmentAssumption
  BY SegmentAssumption
<1>2. Init => LateInv
  <2>1. ASSUME Init PROVE LateInv
    <3>1. Place(0) \in Slots /\ Place(1) \in Slots
      BY <1>1, <2>1, Circle, Around, DepthIsNat DEF Place, Init
    <3>. QED BY <2>1, <3>1 DEF Init, LateInv, Waits
  <2>. QED BY <2>1
<1>3. ASSUME IInv, HeadOK, [Next]_vars, ~derailed' PROVE LateInv'
  <2>1. CASE derailed
    BY <1>1, <1>3, <2>1, Recovers, RecoveredHead DEF IInv
  <2>2. CASE ~derailed
    BY <1>1, <1>3, <2>2, LateStep DEF IInv
  <2>. QED BY <2>1, <2>2
<1>4. Sound /\ LateInv => NotStranded
  <2>1. ASSUME Sound, LateInv, ~late, playing, call = Idle, Waiting # {}
        PROVE  state[playSegment] = "PLAYING"
    <3>1. PICK n \in 0 .. 3 : /\ Waiting = FirstPlaces(n)
                              /\ \A k \in 0 .. 2 : Waits(Place(k)) <=> k < n
      BY <1>1, <2>1, WaitingPlaces
    <3>2. n # 0
      BY <2>1, <3>1 DEF FirstPlaces
    <3>3. Waits(Place(0)) /\ Place(0) = playSegment
      BY <2>1, <3>1, <3>2, Circle DEF Place, Sound, Typed
    <3>4. ~Idle.startNext
      BY DEF Idle
    <3>. QED BY <2>1, <3>3, <3>4 DEF LateInv
  <2>. QED BY <2>1 DEF NotStranded, HeadPlays
<1>5. Init => HeadOK
  BY <1>2
<1>6. IInv /\ HeadOK /\ [Next]_vars => HeadOK'
  BY <1>3
<1>7. IInv /\ HeadOK => NotStranded
  BY <1>4 DEF IInv, NotStranded
<1> HIDE DEF HeadOK
<1>. QED BY <1>5, <1>6, <1>7, QueueInvariant, PTL DEF Spec
==============================================================================
