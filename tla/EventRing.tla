----------------------------- MODULE EventRing -----------------------------
(***************************************************************************)
(* The rings of events of jet.c, S_JET_DATA.jetEventQueue and              *)
(* .appEventQueue: JET_WriteQueue and JET_ReadQueue.  One slot stays empty *)
(* to tell a full ring from an empty one.  JetClips has two of them.       *)
(***************************************************************************)
EXTENDS Naturals, Sequences

CONSTANTS
    queueSize,  \* JET_EVENT_QUEUE_SIZE, APP_EVENT_QUEUE_SIZE
    Events,     \* what JET_Event writes
    NoEvent     \* the content of a slot never written

\* The indexes are EAS_U8.  A module that has rings assumes it of each of them.
RingAssumption == queueSize \in 1 .. 255

VARIABLES
    queue,      \* pEventQueue
    readIndex,  \* *pReadIndex
    writeIndex, \* *pWriteIndex
    event       \* *pEvent: what the last JET_ReadQueue returned

vars == <<queue, readIndex, writeIndex, event>>

Indexes == 0 .. queueSize - 1

Init ==
    /\ queue = [i \in Indexes |-> NoEvent]
    /\ readIndex = 0
    /\ writeIndex = 0
    /\ event = NoEvent

IncQueueIndex(i) == IF i + 1 = queueSize THEN 0 ELSE i + 1

\* Mutant: overflow is not checked.
WriteQueueOver(e) ==
    /\ queue' = [queue EXCEPT ![writeIndex] = e]
    /\ writeIndex' = IncQueueIndex(writeIndex)
    /\ UNCHANGED <<readIndex, event>>

WriteQueue(e) ==
    /\ IF IncQueueIndex(writeIndex) = readIndex
       THEN UNCHANGED <<queue, writeIndex>>
       ELSE /\ queue' = [queue EXCEPT ![writeIndex] = e]
            /\ writeIndex' = IncQueueIndex(writeIndex)
    /\ UNCHANGED <<readIndex, event>>

ReadQueue ==
    /\ readIndex # writeIndex
    /\ event' = queue[readIndex]
    /\ readIndex' = IncQueueIndex(readIndex)
    /\ UNCHANGED <<queue, writeIndex>>

Next == (\E e \in Events : WriteQueue(e)) \/ ReadQueue

Spec == Init /\ [][Next]_vars

-----------------------------------------------------------------------------
(* The ring as a queue.                                                    *)

Held == IF readIndex <= writeIndex
        THEN writeIndex - readIndex
        ELSE writeIndex + queueSize - readIndex

\* The slot of the k-th event that waits.
Slot(k) == IF readIndex + k <= queueSize
           THEN readIndex + k - 1
           ELSE readIndex + k - 1 - queueSize

Contents == [k \in 1 .. Held |-> queue[Slot(k)]]

Fifo == INSTANCE EventFifo WITH Capacity <- queueSize - 1,
                                fifo <- Contents, given <- event

TypeOK ==
    /\ queue \in [Indexes -> Events \cup {NoEvent}]
    /\ readIndex \in Indexes
    /\ writeIndex \in Indexes
    /\ event \in Events \cup {NoEvent}

\* The ring hands on the events in the order they came and drops those that
\* find it full: JET_WriteQueue and JET_ReadQueue are a bounded queue.
IsFifo == Fifo!Spec
=============================================================================
