----------------------------- MODULE EventQueue -----------------------------
(***************************************************************************)
(* What the deferred-event mailbox promises its users: a bounded FIFO of   *)
(* events with a saturating count of the events that found it full.        *)
(* Producers never block; the one consumer sees accepted events exactly    *)
(* once and in the order in which they were accepted.                      *)
(***************************************************************************)
EXTENDS Integers, Sequences

CONSTANTS
  Event,       \* the events a producer can post
  Capacity,    \* how many accepted events may wait
  MaxDropped   \* where the drop counter saturates

VARIABLES
  queue,       \* accepted events that have not been taken, oldest first
  dropped      \* events refused because the queue was full

vars == <<queue, dropped>>

TypeOK ==
  /\ queue \in Seq(Event)
  /\ Len(queue) <= Capacity
  /\ dropped \in 0..MaxDropped

Init ==
  /\ queue = <<>>
  /\ dropped = 0

Accept(e) ==
  /\ Len(queue) < Capacity
  /\ queue' = Append(queue, e)
  /\ UNCHANGED dropped

Refuse ==
  /\ Len(queue) = Capacity
  /\ dropped' = IF dropped = MaxDropped THEN dropped ELSE dropped + 1
  /\ UNCHANGED queue

Take ==
  /\ queue # <<>>
  /\ queue' = Tail(queue)
  /\ UNCHANGED dropped

Next == Refuse \/ Take \/ \E e \in Event : Accept(e)

Spec == Init /\ [][Next]_vars

(* The consumer keeps draining, so no accepted event waits for ever. *)
FairSpec == Spec /\ WF_vars(Take)

=============================================================================
