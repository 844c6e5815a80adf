----------------------------- MODULE EventFifo -----------------------------
(***************************************************************************)
(* What the users of a ring of events rely on: events come out in the      *)
(* order in which they went in, and one that comes when Capacity of them   *)
(* wait is dropped.                                                        *)
(***************************************************************************)
EXTENDS Naturals, Sequences

CONSTANTS
    Events,     \* what may be queued
    NoEvent,    \* what the reader has before its first event
    Capacity    \* how many may wait

VARIABLES
    fifo,       \* the events that wait, the oldest first
    given       \* the last event that was read

vars == <<fifo, given>>

Init == fifo = <<>> /\ given = NoEvent

Write(e) ==
    /\ Len(fifo) < Capacity
    /\ fifo' = Append(fifo, e)
    /\ UNCHANGED given

Read ==
    /\ fifo # <<>>
    /\ given' = Head(fifo)
    /\ fifo' = Tail(fifo)

Next == (\E e \in Events : Write(e)) \/ Read

Spec == Init /\ [][Next]_vars
=============================================================================
