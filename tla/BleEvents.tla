----------------------------- MODULE BleEvents -----------------------------
(***************************************************************************)
(* The two native queues of pico_ble.c.  The stack's callbacks put scan    *)
(* reports, GATT results and writes in the ordinary queue and everything a *)
(* program cannot do without in the critical one; a program takes from the *)
(* critical queue only when the ordinary one is empty.                     *)
(***************************************************************************)
EXTENDS Integers, Sequences

CONSTANTS
  Capacity,          \* BLE_QUEUE_SIZE
  CriticalCapacity   \* entries of critical_events

ASSUME QueueAssumption ==
  Capacity \in Nat \ {0} /\ CriticalCapacity \in Nat \ {0}

VARIABLES
  ordinary, critical,  \* the queues, oldest event first
  missed               \* whether a critical event was dropped; dropped_events,
                       \* which counts what both queues refuse, is left out

queues == <<ordinary, critical, missed>>

(* Where the program is in a call. *)
At(place) == [at |-> place]

QueuesOK(Event) ==
  /\ ordinary \in Seq(Event) /\ Len(ordinary) <= Capacity
  /\ critical \in Seq(Event) /\ Len(critical) <= CriticalCapacity
  /\ missed \in BOOLEAN

EmptyQueues ==
  /\ ordinary = <<>> /\ critical = <<>> /\ missed = FALSE

ResetQueues ==
  /\ ordinary' = <<>> /\ critical' = <<>> /\ missed' = FALSE
DiscardEvents ==
  /\ ordinary' = <<>> /\ critical' = <<>> /\ UNCHANGED missed

Stored == Len(ordinary) < Capacity

QueueEvent(e) ==
  /\ ordinary' = IF Stored THEN Append(ordinary, e) ELSE ordinary
  /\ UNCHANGED <<critical, missed>>

Pushed(q, e) == IF Len(q) < CriticalCapacity THEN Append(q, e) ELSE q

QueueCriticalEvent(e) ==
  /\ critical' = Pushed(critical, e)
  /\ missed' = (missed \/ Len(critical) >= CriticalCapacity)
  /\ UNCHANGED ordinary

-----------------------------------------------------------------------------
(* The first two branches of take_event. *)

Waiting == ordinary # <<>> \/ critical # <<>>

(* A fault: the critical events overtake the ordinary ones. *)
BadCriticalFirst == critical # <<>>

CriticalFirst == ordinary = <<>>

Oldest == IF CriticalFirst THEN Head(critical) ELSE Head(ordinary)

PopOldest ==
  /\ IF CriticalFirst THEN critical' = Tail(critical) /\ UNCHANGED ordinary
     ELSE ordinary' = Tail(ordinary) /\ UNCHANGED critical
  /\ UNCHANGED missed

=============================================================================
