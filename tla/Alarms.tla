------------------------------- MODULE Alarms -------------------------------
(***************************************************************************)
(* The alarm slots of pico_runtime.c: a fixed table of slots behind        *)
(* generation-checked handles, each backed by an alarm of the SDK's pool   *)
(* whose callback runs as an interrupt of core 0.  Every call runs with    *)
(* interrupts disabled and is one action.  A program may keep a handle as  *)
(* long as it likes and use it after its alarm is gone.                    *)
(***************************************************************************)
EXTENDS Integers, Sequences

CONSTANTS
  Slots,          \* BMX_PICO_ALARM_CAPACITY
  Base,           \* 2^8: the slot number is the handle's low byte
  MaxGeneration,  \* 0x7fffff: the last generation before the counter wraps
  MaxPending,     \* UINT32_MAX: where an event count saturates
  AlarmId,        \* identifiers of the SDK's pool, used again and again
  NoId,           \* alarm_id 0
  MaxUses,        \* bound: how often the table is asked for a slot
  MaxUnseen       \* bound: expiries a program leaves unseen

ASSUME AlarmAssumption ==
  /\ Slots \in Nat \ {0} /\ Base \in Nat /\ Slots < Base
  /\ MaxGeneration \in Nat \ {0} /\ MaxPending \in Nat \ {0}
  /\ MaxUses \in Nat /\ MaxUnseen \in Nat
  /\ NoId \notin AlarmId

VARIABLES
  slot,     \* bmx_pico_alarm_slots
  alarm,    \* the pool: which slot an outstanding alarm calls back, or 0
  issued,   \* every handle returned so far, with the expiries not yet taken
  holder,   \* which entry of issued holds a slot, 0 before the first
  uses      \* how often each slot has been handed out

vars == <<slot, alarm, issued, holder, uses>>

Slot == 1 .. Slots

SlotState ==
  [state : {"free", "armed", "fired"}, pending : 0 .. MaxPending,
   generation : 0 .. MaxGeneration, id : AlarmId \cup {NoId},
   interval : {0, 1}]

Issue ==
  [handle : Nat, slot : Slot, use : 1 .. MaxUses, unseen : 0 .. MaxUnseen]

TypeOK ==
  /\ slot \in [Slot -> SlotState]
  /\ alarm \in [AlarmId -> Slot \cup {0}]
  /\ issued \in Seq(Issue)
  /\ holder \in [Slot -> 0 .. Len(issued)]
  /\ uses \in [Slot -> 0 .. MaxUses]

Init ==
  /\ slot = [i \in Slot |-> [state |-> "free", pending |-> 0, generation |-> 0,
                             id |-> NoId, interval |-> 0]]
  /\ alarm = [id \in AlarmId |-> 0]
  /\ issued = <<>>
  /\ holder = [i \in Slot |-> 0]
  /\ uses = [i \in Slot |-> 0]

-----------------------------------------------------------------------------
(* Handles. *)

Handle(i, g) == g * Base + i

(* A fault: the generation is not compared. *)
BadNamed(handle) ==
  LET i == handle % Base IN
  IF i \in Slot THEN (IF slot[i].state # "free" THEN i ELSE 0) ELSE 0

(* The slot a handle names, or 0: bmx_pico_alarm_slot. *)
Named(handle) ==
  LET i == handle % Base
      g == handle \div Base
  IN IF i \in Slot /\ g # 0
     THEN (IF slot[i].generation = g /\ slot[i].state # "free" THEN i ELSE 0)
     ELSE 0

(* A fault: the generation wraps to 0, which no handle may carry. *)
BadNextGeneration(g) == (g + 1) % (MaxGeneration + 1)

NextGeneration(g) == IF g + 1 > MaxGeneration THEN 1 ELSE g + 1

-----------------------------------------------------------------------------
(* bmx_pico_alarm_schedule: the first free slot, a new generation, and an  *)
(* alarm of the pool.  The pool refuses when it is full or when the time   *)
(* has passed before the alarm is in place.                                *)

FirstFree(i) ==
  /\ slot[i].state = "free"
  /\ \A j \in Slot : j < i => slot[j].state # "free"
  /\ uses[i] < MaxUses

(* A fault: the events of the slot's last user are kept. *)
BadPrepared(i, interval, id) ==
  [state |-> "armed", pending |-> slot[i].pending,
   generation |-> NextGeneration(slot[i].generation), id |-> id,
   interval |-> interval]

Prepared(i, interval, id) ==
  [state |-> "armed", pending |-> 0,
   generation |-> NextGeneration(slot[i].generation), id |-> id,
   interval |-> interval]

(* What the schedule leaves behind: a new entry of issued for slot i. *)
Returned(i) ==
  /\ uses' = [uses EXCEPT ![i] = @ + 1]
  /\ issued' = Append(issued, [handle |-> Handle(i, slot'[i].generation),
                               slot |-> i, use |-> uses[i] + 1, unseen |-> 0])
  /\ holder' = [holder EXCEPT ![i] = Len(issued) + 1]

(* A fault: alarm_id is reset after the alarm has been added. *)
BadScheduled(i, interval, id) ==
  /\ FirstFree(i) /\ alarm[id] = 0
  /\ slot' = [slot EXCEPT ![i] = Prepared(i, interval, NoId)]
  /\ alarm' = [alarm EXCEPT ![id] = i]
  /\ Returned(i)

Scheduled(i, interval, id) ==
  /\ FirstFree(i) /\ alarm[id] = 0
  /\ slot' = [slot EXCEPT ![i] = Prepared(i, interval, id)]
  /\ alarm' = [alarm EXCEPT ![id] = i]
  /\ Returned(i)

ScheduleRefused(i, interval) ==
  /\ FirstFree(i)
  /\ slot' = [slot EXCEPT ![i] =
                [Prepared(i, interval, NoId) EXCEPT !.state = "free"]]
  /\ uses' = [uses EXCEPT ![i] = @ + 1]
  /\ UNCHANGED <<alarm, issued, holder>>

(* bmx_pico_alarm_cancel, with any handle the program ever got; the pool   *)
(* cancels the alarm if it still has it.                                   *)
Cancel(n) ==
  LET i == Named(issued[n].handle) IN
  /\ i # 0
  /\ \/ /\ slot[i].state = "fired"
        /\ slot' = [slot EXCEPT ![i].state = "free"]
        /\ UNCHANGED alarm
     \/ /\ slot[i].state = "armed" /\ slot[i].id # NoId
        /\ alarm[slot[i].id] # 0
        /\ slot' = [slot EXCEPT ![i].state = "free"]
        /\ alarm' = [alarm EXCEPT ![slot[i].id] = 0]
  /\ UNCHANGED <<issued, holder, uses>>

(* bmx_pico_alarm_take_events; taking a fired alarm frees its slot. *)
Taken(i) ==
  [slot[i] EXCEPT !.pending = 0,
                  !.state = IF slot[i].state = "fired" THEN "free" ELSE slot[i].state]

TakeEvents(n) ==
  LET i == Named(issued[n].handle) IN
  /\ i # 0
  /\ slot' = [slot EXCEPT ![i] = Taken(i)]
  /\ issued' = [issued EXCEPT ![n].unseen = 0]
  /\ UNCHANGED <<alarm, holder, uses>>

-----------------------------------------------------------------------------
(* bmx_pico_alarm_callback of a slot's own alarm. *)
Expired(i) ==
  LET counted == IF slot[i].pending = MaxPending THEN MaxPending
                 ELSE slot[i].pending + 1
  IN IF slot[i].interval > 0 THEN [slot[i] EXCEPT !.pending = counted]
     ELSE [slot[i] EXCEPT !.pending = counted, !.id = NoId, !.state = "fired"]

(* The time of an alarm has come; the pool keeps a repeating one. *)
Expire(id) ==
  LET i == alarm[id]
      n == holder[i]
  IN
  /\ i # 0
  /\ IF slot[i].state = "armed" /\ slot[i].id = id
     THEN /\ issued[n].unseen < MaxUnseen
          /\ slot' = [slot EXCEPT ![i] = Expired(i)]
          /\ issued' = [issued EXCEPT ![n].unseen = @ + 1]
          /\ alarm' = IF slot[i].interval > 0 THEN alarm
                      ELSE [alarm EXCEPT ![id] = 0]
     ELSE /\ alarm' = [alarm EXCEPT ![id] = 0]
          /\ UNCHANGED <<slot, issued>>
  /\ UNCHANGED <<holder, uses>>

Next ==
  \/ \E i \in Slot, interval \in {0, 1} :
       ScheduleRefused(i, interval) \/ \E id \in AlarmId : Scheduled(i, interval, id)
  \/ \E n \in DOMAIN issued : Cancel(n) \/ TakeEvents(n)
  \/ \E id \in AlarmId : Expire(id)

Spec == Init /\ [][Next]_vars

-----------------------------------------------------------------------------
(* Properties. *)

(* A slot is armed exactly while the pool holds its alarm, and the pool    *)
(* holds no alarm of any earlier user of a slot.                           *)
AlarmMatchesSlot ==
  /\ \A id \in AlarmId : alarm[id] # 0 =>
       slot[alarm[id]].state = "armed" /\ slot[alarm[id]].id = id
  /\ \A i \in Slot : slot[i].state = "armed" =>
       slot[i].id # NoId /\ alarm[slot[i].id] = i

(* A handle never names another alarm than the one it was returned for,    *)
(* until the generation counter of its slot has gone round once.           *)
HandleNamesItsAlarm ==
  \A n \in DOMAIN issued :
    LET i == Named(issued[n].handle) IN
      i # 0 => holder[i] = n \/ uses[i] - issued[n].use >= MaxGeneration

(* No slot is stranded: a slot in use is named by the handle that was      *)
(* returned for it, so that the program can cancel or consume its alarm.   *)
SlotReachable ==
  \A i \in Slot : slot[i].state # "free" =>
    holder[i] # 0 /\ Named(issued[holder[i]].handle) = i

Shared(n) == \E m \in DOMAIN issued : m # n /\ issued[m].handle = issued[n].handle

(* The events a handle reports are the expiries of its own alarm since the *)
(* last time they were taken, up to saturation: none is lost when a slot   *)
(* changes hands, and none comes from its last user.                       *)
ExpiriesReported ==
  \A n \in DOMAIN issued :
    LET i == Named(issued[n].handle) IN
      (i # 0 /\ ~Shared(n)) =>
        slot[i].pending = IF issued[n].unseen > MaxPending
                          THEN MaxPending ELSE issued[n].unseen

=============================================================================
