---------------------------- MODULE AlarmsProofs ----------------------------
(***************************************************************************)
(* Proofs about the parts of Alarms' run: the alarms for any number of     *)
(* slots, any range of generations and any pool; the calendar alarm for    *)
(* any bounds; the arithmetic of CivilDates for every year from 1; the     *)
(* PWM pins for any pins, slices, clock and frequencies.                   *)
(*                                                                         *)
(* That a handle names only its own alarm is not inductive by itself.  The *)
(* invariant adds what a handle is made of (Handles), how the generation   *)
(* of a slot has moved since a handle was returned (Ages), that no two     *)
(* handles stem from the same use of a slot (Distinct), and that a slot in *)
(* use belongs to the handle of its latest use (Holding).                  *)
(***************************************************************************)
EXTENDS Alarms, Calendar, PwmPins, CivilDates, FiniteSetTheorems, TLAPS

Gen(n) == issued[n].handle \div Base

Handles ==
  \A n \in DOMAIN issued :
    Gen(n) \in 1 .. MaxGeneration /\ issued[n].handle = Handle(issued[n].slot, Gen(n))

Age(n) == uses[issued[n].slot] - issued[n].use

Ages ==
  \A n \in DOMAIN issued :
    /\ Age(n) >= 0
    /\ Age(n) < MaxGeneration =>
         slot[issued[n].slot].generation =
           IF Gen(n) + Age(n) > MaxGeneration THEN Gen(n) + Age(n) - MaxGeneration
           ELSE Gen(n) + Age(n)

Distinct ==
  \A m, n \in DOMAIN issued :
    issued[m].slot = issued[n].slot /\ issued[m].use = issued[n].use => m = n

Holding ==
  \A i \in Slot :
    slot[i].state # "free" =>
      /\ holder[i] \in DOMAIN issued
      /\ issued[holder[i]].slot = i /\ issued[holder[i]].use = uses[i]

Counts ==
  \A i \in Slot :
    slot[i].state # "free" /\ ~Shared(holder[i]) =>
      slot[i].pending = IF issued[holder[i]].unseen > MaxPending
                        THEN MaxPending ELSE issued[holder[i]].unseen

Inv == TypeOK /\ AlarmMatchesSlot /\ Handles /\ Ages /\ Distinct /\ Holding /\ Counts

-----------------------------------------------------------------------------
(* What the proofs use of the constants. *)
LEMMA ConstantFacts ==
  /\ Slots \in Nat \ {0} /\ Base \in Nat \ {0} /\ Slots < Base
  /\ MaxGeneration \in Nat \ {0} /\ MaxPending \in Nat \ {0}
  /\ MaxUses \in Nat /\ MaxUnseen \in Nat
  /\ NoId \notin AlarmId
  BY AlarmAssumption

(* A handle is decoded to what it was made of. *)
LEMMA Decode ==
  ASSUME NEW i \in Slot, NEW g \in Nat
  PROVE  Handle(i, g) \in Nat /\ Handle(i, g) % Base = i /\ Handle(i, g) \div Base = g
<1>1. i \in 0 .. Base - 1 /\ i \in Nat
  BY ConstantFacts DEF Slot
<1>2. g * Base \in Nat
  BY ConstantFacts
<1>3. (g * Base + i) % Base = i
  BY <1>1, ConstantFacts
<1>4. (g * Base + i) \div Base = g
  BY <1>1, ConstantFacts
<1>q. QED BY <1>1, <1>2, <1>3, <1>4 DEF Handle

(* Generations stay between 1 and the last one. *)
LEMMA GenerationType ==
  ASSUME NEW g \in 0 .. MaxGeneration
  PROVE  NextGeneration(g) \in 1 .. MaxGeneration
  BY ConstantFacts DEF NextGeneration

(* The fields of a slot, and of a slot prepared for its next alarm.        *)
LEMMA SlotFields ==
  ASSUME TypeOK, NEW i \in Slot
  PROVE  /\ slot[i] \in SlotState
         /\ slot[i].state \in {"free", "armed", "fired"}
         /\ slot[i].pending \in 0 .. MaxPending
         /\ slot[i].generation \in 0 .. MaxGeneration
         /\ slot[i].id \in AlarmId \cup {NoId}
         /\ slot[i].interval \in {0, 1}
  BY DEF TypeOK, SlotState

LEMMA PreparedType ==
  ASSUME TypeOK, NEW i \in Slot, NEW interval \in {0, 1}, NEW id \in AlarmId \cup {NoId}
  PROVE  /\ NextGeneration(slot[i].generation) \in 1 .. MaxGeneration
         /\ Prepared(i, interval, id) \in SlotState
         /\ [Prepared(i, interval, id) EXCEPT !.state = "free"] \in SlotState
<1>1. NextGeneration(slot[i].generation) \in 1 .. MaxGeneration
  BY SlotFields, GenerationType
<1>q. QED BY <1>1, ConstantFacts DEF Prepared, SlotState

(* A handle that names anything names a slot. *)
LEMMA NamedType == ASSUME NEW h, Named(h) # 0 PROVE Named(h) \in Slot
  BY DEF Named

(* What a callback makes of its slot. *)
LEMMA ExpiredType ==
  ASSUME TypeOK, NEW i \in Slot PROVE Expired(i) \in SlotState
<1> DEFINE counted == IF slot[i].pending = MaxPending THEN MaxPending
                      ELSE slot[i].pending + 1
<1>1. slot[i] \in SlotState /\ counted \in 0 .. MaxPending
  BY SlotFields, ConstantFacts
<1>2. Expired(i) = IF slot[i].interval > 0 THEN [slot[i] EXCEPT !.pending = counted]
                   ELSE [slot[i] EXCEPT !.pending = counted, !.id = NoId, !.state = "fired"]
  BY DEF Expired
<1> HIDE DEF counted
<1>q. QED BY <1>1, <1>2 DEF SlotState

LEMMA TakenType ==
  ASSUME TypeOK, NEW i \in Slot
  PROVE  Taken(i) \in SlotState
<1> DEFINE state == IF slot[i].state = "fired" THEN "free" ELSE slot[i].state
<1>1. slot[i] \in SlotState /\ state \in {"free", "armed", "fired"}
  BY SlotFields
<1>2. 0 \in 0 .. MaxPending
  BY ConstantFacts
<1> HIDE DEF state
<1>3. [slot[i] EXCEPT !.pending = 0, !.state = state] \in SlotState
  BY <1>1, <1>2 DEF SlotState
<1>q. QED BY <1>3 DEF Taken, state

(* The count of expiries an entry of issued has seen may change. *)
LEMMA IssuedType ==
  ASSUME TypeOK, NEW n \in DOMAIN issued, NEW k \in 0 .. MaxUnseen
  PROVE  /\ [issued EXCEPT ![n].unseen = k] \in Seq(Issue)
         /\ Len([issued EXCEPT ![n].unseen = k]) = Len(issued)
         /\ DOMAIN [issued EXCEPT ![n].unseen = k] = DOMAIN issued
<1>1. issued[n] \in Issue
  BY DEF TypeOK
<1>2. [issued[n] EXCEPT !.unseen = k] \in Issue
  BY <1>1 DEF Issue
<1>q. QED BY <1>1, <1>2 DEF TypeOK

LEMMA IssueFields ==
  ASSUME TypeOK, NEW n \in DOMAIN issued
  PROVE  /\ issued[n] \in Issue
         /\ issued[n].handle \in Nat /\ issued[n].slot \in Slot
         /\ issued[n].use \in 1 .. MaxUses /\ issued[n].unseen \in 0 .. MaxUnseen
<1>1. issued[n] \in Issue
  BY DEF TypeOK
<1>q. QED BY <1>1 DEF Issue

(* Every variable keeps the type of the C object it stands for. *)
LEMMA TypeInit == Init => TypeOK
  BY ConstantFacts DEF Init, TypeOK, SlotState, Slot

LEMMA TypeStep == TypeOK /\ Holding /\ [Next]_vars => TypeOK'
<1> SUFFICES ASSUME TypeOK, Holding, [Next]_vars PROVE TypeOK'
  OBVIOUS
<1> USE DEF TypeOK
<1>1. ASSUME NEW i \in Slot, NEW interval \in {0, 1}, NEW id \in AlarmId,
             Scheduled(i, interval, id)
      PROVE  TypeOK'
  <2>1. slot' \in [Slot -> SlotState] /\ slot'[i] = Prepared(i, interval, id)
    BY <1>1, PreparedType DEF Scheduled
  <2>2. uses' \in [Slot -> 0 .. MaxUses] /\ uses[i] + 1 \in 1 .. MaxUses
    BY <1>1, ConstantFacts DEF Scheduled, Returned, FirstFree
  <2>3. Handle(i, slot'[i].generation) \in Nat
    <3>1. slot'[i].generation = NextGeneration(slot[i].generation)
      BY <2>1 DEF Prepared
    <3>2. NextGeneration(slot[i].generation) \in Nat
      <4>1. NextGeneration(slot[i].generation) \in 1 .. MaxGeneration
        BY PreparedType
      <4>q. QED BY <4>1, ConstantFacts
    <3>q. QED BY <3>1, <3>2, Decode
  <2>4. issued' \in Seq(Issue) /\ Len(issued') = Len(issued) + 1
    BY <1>1, <2>2, <2>3, ConstantFacts DEF Scheduled, Returned, Issue
  <2>5. holder' \in [Slot -> 0 .. Len(issued')]
    BY <1>1, <2>4 DEF Scheduled, Returned
  <2>6. alarm' \in [AlarmId -> Slot \cup {0}]
    BY <1>1 DEF Scheduled
  <2>q. QED BY <2>1, <2>2, <2>4, <2>5, <2>6
<1>2. ASSUME NEW i \in Slot, NEW interval \in {0, 1}, ScheduleRefused(i, interval)
      PROVE  TypeOK'
  <2>1. slot' \in [Slot -> SlotState]
    BY <1>2, PreparedType DEF ScheduleRefused
  <2>2. uses' \in [Slot -> 0 .. MaxUses]
    BY <1>2, ConstantFacts DEF ScheduleRefused, FirstFree
  <2>q. QED BY <1>2, <2>1, <2>2 DEF ScheduleRefused
<1>3. ASSUME NEW n \in DOMAIN issued, Cancel(n) PROVE TypeOK'
  <2>1. PICK i \in Slot :
          /\ slot' = [slot EXCEPT ![i].state = "free"]
          /\ alarm' = alarm \/ alarm' = [alarm EXCEPT ![slot[i].id] = 0]
    BY <1>3, NamedType DEF Cancel
  <2>2. slot' \in [Slot -> SlotState]
    BY <2>1, SlotFields DEF SlotState
  <2>q. QED BY <1>3, <2>1, <2>2 DEF Cancel
<1>4. ASSUME NEW n \in DOMAIN issued, TakeEvents(n) PROVE TypeOK'
  <2>1. PICK i \in Slot :
          slot' = [slot EXCEPT ![i] = Taken(i)]
    BY <1>4, NamedType DEF TakeEvents
  <2>2. slot' \in [Slot -> SlotState]
    BY <2>1, TakenType
  <2>3. issued' \in Seq(Issue) /\ Len(issued') = Len(issued)
          /\ DOMAIN issued' = DOMAIN issued
    <3>1. 0 \in 0 .. MaxUnseen /\ issued' = [issued EXCEPT ![n].unseen = 0]
      BY <1>4, ConstantFacts DEF TakeEvents
    <3>q. QED BY <3>1, IssuedType
  <2>q. QED BY <1>4, <2>2, <2>3 DEF TakeEvents
<1>5. ASSUME NEW id \in AlarmId, Expire(id) PROVE TypeOK'
  <2> DEFINE i == alarm[id]
  <2>a. i \in Slot
    BY <1>5 DEF Expire
  <2>b. /\ slot' = slot \/ slot' = [slot EXCEPT ![i] = Expired(i)]
        /\ alarm' = alarm \/ alarm' = [alarm EXCEPT ![id] = 0]
    BY <1>5 DEF Expire
  <2>1. slot' \in [Slot -> SlotState] /\ alarm' \in [AlarmId -> Slot \cup {0}]
    <3>1. Expired(i) \in SlotState
      BY <2>a, ExpiredType
    <3>q. QED BY <2>a, <2>b, <3>1
  <2>2. CASE UNCHANGED issued
    BY <1>5, <2>1, <2>2 DEF Expire
  <2>3. CASE ~UNCHANGED issued
    <3>1. PICK n \in DOMAIN issued :
            /\ issued[n].unseen < MaxUnseen
            /\ issued' = [issued EXCEPT ![n].unseen = issued[n].unseen + 1]
      <4>1. /\ slot[i].state = "armed"
            /\ issued[holder[i]].unseen < MaxUnseen
            /\ issued' = [issued EXCEPT ![holder[i]].unseen = issued[holder[i]].unseen + 1]
        BY <1>5, <2>3 DEF Expire
      <4>2. holder[i] \in DOMAIN issued
        BY <2>a, <4>1 DEF Holding
      <4>q. QED BY <4>1, <4>2
    <3>2. issued[n].unseen + 1 \in 0 .. MaxUnseen
      <4>1. issued[n] \in Issue
        OBVIOUS
      <4>2. issued[n].unseen \in 0 .. MaxUnseen
        BY <4>1 DEF Issue
      <4>3. issued[n].unseen < MaxUnseen
        BY <3>1
      <4>q. QED BY <4>2, <4>3, ConstantFacts
    <3>3. issued' \in Seq(Issue) /\ Len(issued') = Len(issued)
            /\ DOMAIN issued' = DOMAIN issued
      BY <3>1, <3>2, IssuedType
    <3>q. QED BY <1>5, <2>1, <3>1, <3>3 DEF Expire
  <2>q. QED BY <2>2, <2>3
<1>6. CASE UNCHANGED vars
  BY <1>6 DEF vars
<1>q. QED BY <1>1, <1>2, <1>3, <1>4, <1>5, <1>6 DEF Next

-----------------------------------------------------------------------------
(* Slots and the pool agree: whoever frees a slot or an alarm frees both.  *)
LEMMA MatchStep == TypeOK /\ AlarmMatchesSlot /\ [Next]_vars => AlarmMatchesSlot'
<1> SUFFICES ASSUME TypeOK, AlarmMatchesSlot, [Next]_vars PROVE AlarmMatchesSlot'
  OBVIOUS
<1> USE DEF AlarmMatchesSlot
<1>0. 0 \notin Slot /\ NoId \notin AlarmId
  BY ConstantFacts DEF Slot
<1>1. ASSUME NEW i \in Slot, NEW interval \in {0, 1}, NEW id \in AlarmId,
             Scheduled(i, interval, id)
      PROVE  AlarmMatchesSlot'
  <2>1. /\ slot[i].state = "free" /\ alarm[id] = 0
        /\ alarm' = [alarm EXCEPT ![id] = i]
        /\ \A j \in Slot \ {i} : slot'[j] = slot[j]
        /\ slot'[i].state = "armed" /\ slot'[i].id = id
    BY <1>1 DEF Scheduled, FirstFree, Prepared, TypeOK
  <2>8. ASSUME NEW k \in AlarmId, alarm'[k] # 0
        PROVE  slot'[alarm'[k]].state = "armed" /\ slot'[alarm'[k]].id = k
    <3>1. alarm[k] \in Slot \cup {0}
      BY DEF TypeOK
    <3>q. QED BY <1>0, <2>8, <3>1, <2>1 DEF TypeOK
  <2>9. ASSUME NEW j \in Slot, slot'[j].state = "armed"
        PROVE  slot'[j].id # NoId /\ alarm'[slot'[j].id] = j
    <3>1. slot[j].id \in AlarmId \cup {NoId} /\ slot[j].state \in {"free", "armed", "fired"}
      BY SlotFields
    <3>q. QED BY <1>0, <2>9, <3>1, <2>1 DEF TypeOK
  <2>q. QED BY <2>8, <2>9
<1>2. ASSUME NEW i \in Slot, NEW interval \in {0, 1}, ScheduleRefused(i, interval)
      PROVE  AlarmMatchesSlot'
  <2>1. /\ slot[i].state = "free" /\ alarm' = alarm
        /\ \A j \in Slot \ {i} : slot'[j] = slot[j]
        /\ slot'[i].state = "free"
    BY <1>2 DEF ScheduleRefused, FirstFree, Prepared, TypeOK
  <2>8. ASSUME NEW k \in AlarmId, alarm'[k] # 0
        PROVE  slot'[alarm'[k]].state = "armed" /\ slot'[alarm'[k]].id = k
    <3>1. alarm[k] \in Slot \cup {0}
      BY DEF TypeOK
    <3>q. QED BY <1>0, <2>8, <3>1, <2>1 DEF TypeOK
  <2>9. ASSUME NEW j \in Slot, slot'[j].state = "armed"
        PROVE  slot'[j].id # NoId /\ alarm'[slot'[j].id] = j
    <3>1. slot[j].id \in AlarmId \cup {NoId} /\ slot[j].state \in {"free", "armed", "fired"}
      BY SlotFields
    <3>q. QED BY <1>0, <2>9, <3>1, <2>1 DEF TypeOK
  <2>q. QED BY <2>8, <2>9
<1>3. ASSUME NEW n \in DOMAIN issued, Cancel(n) PROVE AlarmMatchesSlot'
  <2>1. PICK i \in Slot :
          /\ \A j \in Slot \ {i} : slot'[j] = slot[j]
          /\ slot'[i].state = "free"
          /\ \/ slot[i].state = "fired" /\ alarm' = alarm
             \/ slot[i].state = "armed" /\ alarm' = [alarm EXCEPT ![slot[i].id] = 0]
    <3>1. PICK i \in Slot :
            /\ slot' = [slot EXCEPT ![i].state = "free"]
            /\ \/ slot[i].state = "fired" /\ alarm' = alarm
               \/ slot[i].state = "armed" /\ alarm' = [alarm EXCEPT ![slot[i].id] = 0]
      BY <1>3, NamedType DEF Cancel
    <3>2. slot'[i].state = "free" /\ \A j \in Slot \ {i} : slot'[j] = slot[j]
      BY <3>1, SlotFields DEF TypeOK, SlotState
    <3>q. QED BY <3>1, <3>2
  <2>8. ASSUME NEW k \in AlarmId, alarm'[k] # 0
        PROVE  slot'[alarm'[k]].state = "armed" /\ slot'[alarm'[k]].id = k
    <3>1. alarm[k] \in Slot \cup {0}
      BY DEF TypeOK
    <3>2. alarm'[k] = alarm[k] /\ alarm[k] \in Slot
      BY <2>1, <2>8, <3>1 DEF TypeOK
    <3>3. slot[alarm[k]].state = "armed" /\ slot[alarm[k]].id = k
      BY <1>0, <3>2, ConstantFacts DEF Slot
    <3>4. alarm[k] # i
      BY <2>1, <2>8, <3>2, <3>3 DEF TypeOK
    <3>q. QED BY <2>1, <3>2, <3>3, <3>4
  <2>9. ASSUME NEW j \in Slot, slot'[j].state = "armed"
        PROVE  slot'[j].id # NoId /\ alarm'[slot'[j].id] = j
    <3>1. slot[j].id \in AlarmId \cup {NoId} /\ slot[j].state \in {"free", "armed", "fired"}
      BY SlotFields
    <3>q. QED BY <1>0, <2>9, <3>1, <2>1 DEF TypeOK
  <2>q. QED BY <2>8, <2>9
<1>4. ASSUME NEW n \in DOMAIN issued, TakeEvents(n) PROVE AlarmMatchesSlot'
  <2>1. PICK i \in Slot : slot' = [slot EXCEPT ![i] = Taken(i)] /\ alarm' = alarm
    BY <1>4, NamedType DEF TakeEvents
  <2>2. /\ \A j \in Slot \ {i} : slot'[j] = slot[j]
        /\ slot'[i].id = slot[i].id
        /\ slot'[i].state = IF slot[i].state = "fired" THEN "free" ELSE slot[i].state
    BY <2>1, SlotFields DEF Taken, TypeOK, SlotState
  <2>q. QED BY <1>0, <2>1, <2>2, SlotFields DEF TypeOK
<1>5. ASSUME NEW id \in AlarmId, Expire(id) PROVE AlarmMatchesSlot'
  <2> DEFINE i == alarm[id]
  <2>1. i \in Slot /\ slot[i].state = "armed" /\ slot[i].id = id
    BY <1>5 DEF Expire, TypeOK
  <2>2. /\ slot' = [slot EXCEPT ![i] = Expired(i)]
        /\ alarm' = IF slot[i].interval > 0 THEN alarm ELSE [alarm EXCEPT ![id] = 0]
    BY <1>5, <2>1 DEF Expire
  <2>3. \/ /\ slot'[i].state = "armed" /\ slot'[i].id = id /\ alarm' = alarm
        \/ slot'[i].state = "fired" /\ alarm' = [alarm EXCEPT ![id] = 0]
    BY <2>1, <2>2, SlotFields DEF Expired, TypeOK, SlotState
  <2>4. \A j \in Slot \ {i} : slot'[j] = slot[j]
    BY <2>1, <2>2 DEF TypeOK
  <2>8. ASSUME NEW k \in AlarmId, alarm'[k] # 0
        PROVE  slot'[alarm'[k]].state = "armed" /\ slot'[alarm'[k]].id = k
    <3>1. alarm[k] \in Slot \cup {0}
      BY DEF TypeOK
    <3>2. CASE k = id
      BY <1>0, <2>8, <3>2, <2>1, <2>3 DEF TypeOK
    <3>3. CASE k # id
      <4>1. alarm'[k] = alarm[k] /\ alarm[k] # i /\ alarm[k] \in Slot
        BY <2>1, <2>3, <2>8, <3>1, <3>3 DEF TypeOK
      <4>2. slot[alarm[k]].state = "armed" /\ slot[alarm[k]].id = k
        BY <1>0, <4>1
      <4>3. slot'[alarm[k]] = slot[alarm[k]]
        BY <2>4, <4>1
      <4>q. QED BY <4>1, <4>2, <4>3
    <3>q. QED BY <3>2, <3>3
  <2>9. ASSUME NEW j \in Slot, slot'[j].state = "armed"
        PROVE  slot'[j].id # NoId /\ alarm'[slot'[j].id] = j
    <3>1. slot[j].id \in AlarmId \cup {NoId} /\ slot[j].state \in {"free", "armed", "fired"}
      BY SlotFields
    <3>2. CASE j = i
      BY <1>0, <2>1, <2>3, <2>9, <3>2
    <3>3. CASE j # i
      <4>1. slot'[j] = slot[j] /\ slot[j].state = "armed"
        BY <2>4, <2>9, <3>3
      <4>2. slot[j].id \in AlarmId /\ slot[j].id # NoId /\ alarm[slot[j].id] = j
        BY <1>0, <3>1, <4>1
      <4>3. slot[j].id # id
        BY <3>3, <4>2
      <4>q. QED BY <2>3, <4>1, <4>2, <4>3 DEF TypeOK
    <3>q. QED BY <3>2, <3>3
  <2>q. QED BY <2>8, <2>9
<1>6. CASE UNCHANGED vars
  BY <1>6 DEF vars
<1>q. QED BY <1>1, <1>2, <1>3, <1>4, <1>5, <1>6 DEF Next

(* Every step hands out a slot, with or without a handle, or leaves all    *)
(* generations and all handles as they are.                                *)
Uses(i) ==
  /\ i \in Slot /\ slot[i].state = "free"
  /\ uses'[i] = uses[i] + 1
  /\ slot'[i].generation = NextGeneration(slot[i].generation)
  /\ \A j \in Slot \ {i} : uses'[j] = uses[j] /\ slot'[j] = slot[j]

Keeps ==
  \A n \in DOMAIN issued :
    /\ issued'[n].handle = issued[n].handle
    /\ issued'[n].slot = issued[n].slot /\ issued'[n].use = issued[n].use

Hands(i) ==
  LET m == Len(issued) + 1 IN
  /\ Uses(i) /\ Keeps
  /\ DOMAIN issued' = DOMAIN issued \cup {m} /\ m \notin DOMAIN issued
  /\ issued'[m].handle = Handle(i, NextGeneration(slot[i].generation))
  /\ issued'[m].slot = i /\ issued'[m].use = uses[i] + 1
  /\ holder'[i] = m /\ \A j \in Slot \ {i} : holder'[j] = holder[j]

Wastes(i) ==
  /\ Uses(i) /\ Keeps
  /\ DOMAIN issued' = DOMAIN issued /\ holder' = holder
  /\ slot'[i].state = "free"

Stays ==
  /\ Keeps /\ DOMAIN issued' = DOMAIN issued
  /\ holder' = holder /\ uses' = uses
  /\ \A j \in Slot : /\ slot'[j].generation = slot[j].generation
                     /\ slot'[j].state # "free" => slot[j].state # "free"

LEMMA StepKinds ==
  ASSUME TypeOK, Holding, [Next]_vars
  PROVE  Stays \/ \E i \in Slot : Hands(i) \/ Wastes(i)
<1>1. ASSUME NEW i \in Slot, NEW interval \in {0, 1}, NEW id \in AlarmId,
             Scheduled(i, interval, id)
      PROVE  Hands(i)
  <2>1. Uses(i)
    BY <1>1 DEF Uses, Scheduled, Returned, FirstFree, Prepared, TypeOK
  <2> DEFINE m == Len(issued) + 1
             e == [handle |-> Handle(i, slot'[i].generation), slot |-> i,
                   use |-> uses[i] + 1, unseen |-> 0]
  <2>2. issued' = Append(issued, e)
    BY <1>1 DEF Scheduled, Returned
  <2>3. /\ DOMAIN issued' = DOMAIN issued \cup {m} /\ m \notin DOMAIN issued
        /\ issued'[m] = e
        /\ \A n \in DOMAIN issued : issued'[n] = issued[n]
    <3> HIDE DEF e
    <3>q. QED BY <2>2 DEF TypeOK
  <2>4. holder'[i] = m /\ \A j \in Slot \ {i} : holder'[j] = holder[j]
    BY <1>1 DEF Scheduled, Returned, TypeOK
  <2>5. slot'[i].generation = NextGeneration(slot[i].generation)
    BY <2>1 DEF Uses
  <2>q. QED BY <2>1, <2>3, <2>4, <2>5 DEF Hands, Keeps
<1>2. ASSUME NEW i \in Slot, NEW interval \in {0, 1}, ScheduleRefused(i, interval)
      PROVE  Wastes(i)
  <2>1. Uses(i) /\ slot'[i].state = "free"
    BY <1>2 DEF Uses, ScheduleRefused, FirstFree, Prepared, TypeOK
  <2>q. QED BY <1>2, <2>1 DEF Wastes, Keeps, ScheduleRefused
<1>3. ASSUME NEW n \in DOMAIN issued, Cancel(n) PROVE Stays
  <2>1. PICK i \in Slot : slot' = [slot EXCEPT ![i].state = "free"]
    BY <1>3, NamedType DEF Cancel
  <2>2. \A j \in Slot : /\ slot'[j].generation = slot[j].generation
                        /\ slot'[j].state # "free" => slot[j].state # "free"
    BY <2>1, SlotFields DEF TypeOK, SlotState
  <2>q. QED BY <1>3, <2>2 DEF Cancel, Stays, Keeps
<1>4. ASSUME NEW n \in DOMAIN issued, TakeEvents(n) PROVE Stays
  <2>1. PICK i \in Slot : slot' = [slot EXCEPT ![i] = Taken(i)]
    BY <1>4, NamedType DEF TakeEvents
  <2>2. \A j \in Slot : /\ slot'[j].generation = slot[j].generation
                        /\ slot'[j].state # "free" => slot[j].state # "free"
    BY <2>1, SlotFields DEF Taken, TypeOK, SlotState
  <2>3. issued' = [issued EXCEPT ![n].unseen = 0]
    BY <1>4 DEF TakeEvents
  <2>4. Keeps /\ DOMAIN issued' = DOMAIN issued
    BY <2>3, IssueFields DEF Keeps
  <2>q. QED BY <1>4, <2>2, <2>4 DEF TakeEvents, Stays
<1>5. ASSUME NEW id \in AlarmId, Expire(id) PROVE Stays
  <2> DEFINE i == alarm[id]
  <2>1. i \in Slot /\ (slot' = slot \/ (slot[i].state = "armed"
                                       /\ slot' = [slot EXCEPT ![i] = Expired(i)]))
    BY <1>5 DEF Expire, TypeOK
  <2>2. \A j \in Slot : /\ slot'[j].generation = slot[j].generation
                        /\ slot'[j].state # "free" => slot[j].state # "free"
    <3>1. Expired(i).generation = slot[i].generation
      BY <2>1, SlotFields DEF Expired, SlotState
    <3>q. QED BY <2>1, <3>1 DEF TypeOK
  <2>3. Keeps /\ DOMAIN issued' = DOMAIN issued
    <3>1. CASE issued' = issued
      BY <3>1 DEF Keeps
    <3>2. CASE issued' # issued
      <4>1. PICK k \in Nat : issued' = [issued EXCEPT ![k].unseen = issued[k].unseen + 1]
        BY <1>5, <2>1, <3>2 DEF Expire, TypeOK
      <4>q. QED BY <4>1, IssueFields DEF Keeps
    <3>q. QED BY <3>1, <3>2
  <2>q. QED BY <1>5, <2>2, <2>3 DEF Expire, Stays
<1>6. CASE UNCHANGED vars
  BY <1>6 DEF vars, Stays, Keeps
<1>q. QED BY <1>1, <1>2, <1>3, <1>4, <1>5, <1>6 DEF Next

-----------------------------------------------------------------------------
(* A slot in use belongs to the handle of its latest use.                  *)
LEMMA HoldingStep == TypeOK /\ Holding /\ [Next]_vars => Holding'
<1> SUFFICES ASSUME TypeOK, Holding, [Next]_vars, NEW j \in Slot, slot'[j].state # "free"
             PROVE  /\ holder'[j] \in DOMAIN issued'
                    /\ issued'[holder'[j]].slot = j /\ issued'[holder'[j]].use = uses'[j]
  BY DEF Holding
<1>1. CASE Stays
  BY <1>1 DEF Stays, Keeps, Holding
<1>2. ASSUME NEW i \in Slot, Hands(i) \/ Wastes(i)
      PROVE  /\ holder'[j] \in DOMAIN issued'
             /\ issued'[holder'[j]].slot = j /\ issued'[holder'[j]].use = uses'[j]
  <2>1. CASE j = i
    BY <1>2, <2>1 DEF Hands, Wastes, Uses
  <2>2. CASE j # i
    <3>1. uses'[j] = uses[j] /\ slot'[j] = slot[j] /\ holder'[j] = holder[j]
      BY <1>2, <2>2 DEF Hands, Wastes, Uses
    <3>2. holder[j] \in DOMAIN issued
            /\ issued[holder[j]].slot = j /\ issued[holder[j]].use = uses[j]
      BY <3>1 DEF Holding
    <3>q. QED BY <1>2, <3>1, <3>2 DEF Hands, Wastes, Keeps
  <2>q. QED BY <2>1, <2>2
<1>q. QED BY <1>1, <1>2, StepKinds

(* Handles are well formed.                                                *)
LEMMA HandlesStep == TypeOK /\ Holding /\ Handles /\ [Next]_vars => Handles'
<1> SUFFICES ASSUME TypeOK, Holding, Handles, [Next]_vars, NEW n \in DOMAIN issued'
             PROVE  /\ Gen(n)' \in 1 .. MaxGeneration
                    /\ issued'[n].handle = Handle(issued'[n].slot, Gen(n)')
  BY DEF Handles
<1>1. CASE n \in DOMAIN issued /\ Keeps
  BY <1>1 DEF Keeps, Handles, Gen
<1>2. ASSUME NEW i \in Slot, Hands(i), n \notin DOMAIN issued
      PROVE  /\ Gen(n)' \in 1 .. MaxGeneration
             /\ issued'[n].handle = Handle(issued'[n].slot, Gen(n)')
  <2>1. NextGeneration(slot[i].generation) \in 1 .. MaxGeneration
    BY SlotFields, GenerationType
  <2>2. /\ issued'[n].slot = i
        /\ issued'[n].handle = Handle(i, NextGeneration(slot[i].generation))
    BY <1>2 DEF Hands
  <2>3. Gen(n)' = NextGeneration(slot[i].generation)
    <3>1. NextGeneration(slot[i].generation) \in Nat
      BY <2>1, ConstantFacts
    <3>q. QED BY <2>2, <3>1, Decode DEF Gen
  <2>q. QED BY <2>1, <2>2, <2>3
<1>q. QED BY <1>1, <1>2, StepKinds DEF Stays, Hands, Wastes

(* No two handles stem from the same use of a slot: a new use is later     *)
(* than every use before it.                                               *)
LEMMA DistinctStep ==
  TypeOK /\ Holding /\ Ages /\ Distinct /\ [Next]_vars => Distinct'
<1> SUFFICES ASSUME TypeOK, Holding, Ages, Distinct, [Next]_vars,
                    NEW m \in DOMAIN issued', NEW n \in DOMAIN issued',
                    issued'[m].slot = issued'[n].slot, issued'[m].use = issued'[n].use
             PROVE  m = n
  BY DEF Distinct
<1>1. CASE m \in DOMAIN issued /\ n \in DOMAIN issued /\ Keeps
  BY <1>1 DEF Keeps, Distinct
<1>2. ASSUME NEW i \in Slot, Hands(i), NEW k \in DOMAIN issued,
             issued'[k].slot = i
      PROVE  issued'[k].use # uses[i] + 1
  <2>1. issued[k].slot = i /\ issued'[k].use = issued[k].use
    BY <1>2 DEF Hands, Keeps
  <2>2. uses[i] - issued[k].use >= 0 /\ issued[k].use \in Int /\ uses[i] \in Int
    BY <2>1, IssueFields, ConstantFacts DEF Ages, Age, TypeOK
  <2>q. QED BY <2>1, <2>2
<1>3. ASSUME NEW i \in Slot, Hands(i) PROVE m = n
  <2>1. CASE m \in DOMAIN issued /\ n \in DOMAIN issued
    BY <1>1, <1>3, <2>1 DEF Hands
  <2>2. CASE m \notin DOMAIN issued /\ n \notin DOMAIN issued
    BY <1>3, <2>2 DEF Hands
  <2>3. CASE m \in DOMAIN issued /\ n \notin DOMAIN issued
    BY <1>2, <1>3, <2>3 DEF Hands
  <2>4. CASE m \notin DOMAIN issued /\ n \in DOMAIN issued
    BY <1>2, <1>3, <2>4 DEF Hands
  <2>q. QED BY <2>1, <2>2, <2>3, <2>4
<1>q. QED BY <1>1, <1>3, StepKinds DEF Stays, Wastes

(* How the generation of a slot moves away from that of an old handle.     *)
LEMMA Aging ==
  ASSUME NEW g \in 1 .. MaxGeneration, NEW d \in Nat, d + 1 < MaxGeneration
  PROVE  NextGeneration(IF g + d > MaxGeneration THEN g + d - MaxGeneration ELSE g + d)
           = IF g + (d + 1) > MaxGeneration THEN g + (d + 1) - MaxGeneration ELSE g + (d + 1)
  BY ConstantFacts DEF NextGeneration

LEMMA AgesStep ==
  TypeOK /\ Holding /\ Handles /\ Ages /\ [Next]_vars => Ages'
<1> DEFINE Fits(n) ==
      /\ Age(n) >= 0
      /\ Age(n) < MaxGeneration =>
           slot[issued[n].slot].generation =
             IF Gen(n) + Age(n) > MaxGeneration THEN Gen(n) + Age(n) - MaxGeneration
             ELSE Gen(n) + Age(n)
<1> SUFFICES ASSUME TypeOK, Holding, Handles, Ages, [Next]_vars, NEW n \in DOMAIN issued'
             PROVE  Fits(n)'
  BY DEF Ages
<1>1. CASE Stays
  BY <1>1, IssueFields DEF Stays, Keeps, Ages, Age, Gen
<1>2. ASSUME NEW i \in Slot, Uses(i), Keeps, n \in DOMAIN issued PROVE Fits(n)'
  <2>1. /\ issued'[n].slot = issued[n].slot /\ issued[n].slot \in Slot
        /\ issued'[n].use = issued[n].use
        /\ Gen(n)' = Gen(n) /\ Gen(n) \in 1 .. MaxGeneration
    BY <1>2, IssueFields DEF Keeps, Gen, Handles
  <2>2. Age(n) \in Nat
    <3>1. uses[issued[n].slot] \in Int /\ issued[n].use \in Int
      BY <1>2, <2>1, IssueFields, ConstantFacts DEF TypeOK
    <3>q. QED BY <1>2, <3>1 DEF Ages, Age
  <2>3. CASE issued[n].slot # i
    <3>1. Age(n)' = Age(n) /\ slot'[issued[n].slot] = slot[issued[n].slot]
      BY <1>2, <2>1, <2>3 DEF Age, Uses
    <3>q. QED BY <1>2, <2>1, <3>1 DEF Ages
  <2>4. CASE issued[n].slot = i
    <3>1. Age(n)' = Age(n) + 1
      <4>1. uses[i] \in Int /\ issued[n].use \in Int
        BY IssueFields, <1>2, ConstantFacts DEF TypeOK
      <4>q. QED BY <1>2, <2>1, <2>4, <4>1 DEF Age, Uses
    <3>2. slot'[i].generation = NextGeneration(slot[i].generation)
      BY <1>2 DEF Uses
    <3>3. ASSUME Age(n) + 1 < MaxGeneration
          PROVE  slot[i].generation =
                   IF Gen(n) + Age(n) > MaxGeneration THEN Gen(n) + Age(n) - MaxGeneration
                   ELSE Gen(n) + Age(n)
      BY <1>2, <2>2, <2>4, <3>3, ConstantFacts DEF Ages
    <3> HIDE DEF Ages
    <3>q. QED BY <2>1, <2>2, <2>4, <3>1, <3>2, <3>3, Aging
  <2>q. QED BY <2>3, <2>4
<1>3. ASSUME NEW i \in Slot, Hands(i), n \notin DOMAIN issued PROVE Fits(n)'
  <2>1. NextGeneration(slot[i].generation) \in 1 .. MaxGeneration
    BY SlotFields, GenerationType
  <2>2. /\ issued'[n].slot = i /\ issued'[n].use = uses[i] + 1 /\ uses'[i] = uses[i] + 1
        /\ issued'[n].handle = Handle(i, NextGeneration(slot[i].generation))
        /\ slot'[i].generation = NextGeneration(slot[i].generation)
    BY <1>3 DEF Hands, Uses
  <2>3. Gen(n)' = NextGeneration(slot[i].generation)
    <3>1. NextGeneration(slot[i].generation) \in Nat
      BY <2>1, ConstantFacts
    <3>q. QED BY <2>2, <3>1, Decode DEF Gen
  <2>4. Age(n)' = 0
    <3>1. uses[i] \in Int
      BY ConstantFacts DEF TypeOK
    <3>q. QED BY <2>2, <3>1 DEF Age
  <2>q. QED BY <2>1, <2>2, <2>3, <2>4, ConstantFacts
<1>4. ASSUME NEW i \in Slot, Hands(i) \/ Wastes(i) PROVE Fits(n)'
  BY <1>2, <1>3, <1>4 DEF Hands, Wastes
<1> HIDE DEF Fits
<1>q. QED BY <1>1, <1>4, StepKinds

-----------------------------------------------------------------------------
(* What a handle that resolves says, and what the holder of a slot says.   *)
LEMMA NamedFacts ==
  ASSUME TypeOK, Handles, NEW n \in DOMAIN issued, NEW i, i # 0,
         i = Named(issued[n].handle)
  PROVE  /\ i \in Slot /\ slot[i].state # "free"
         /\ issued[n].slot = i /\ slot[i].generation = Gen(n)
         /\ issued[n].handle = Handle(i, slot[i].generation)
<1>1. issued[n].slot \in Slot /\ Gen(n) \in Nat
        /\ issued[n].handle = Handle(issued[n].slot, Gen(n))
  BY IssueFields, ConstantFacts DEF Handles
<1>2. /\ issued[n].handle % Base = issued[n].slot
      /\ issued[n].handle \div Base = Gen(n)
  BY <1>1, Decode
<1>3. /\ i = issued[n].slot /\ slot[i].generation = Gen(n) /\ slot[i].state # "free"
  BY <1>1, <1>2 DEF Named
<1>q. QED BY <1>1, <1>3

LEMMA HolderFacts ==
  ASSUME TypeOK, Handles, Ages, Holding, NEW i \in Slot, slot[i].state # "free"
  PROVE  /\ holder[i] \in DOMAIN issued /\ holder[i] # 0
         /\ issued[holder[i]].slot = i /\ Age(holder[i]) = 0
         /\ Gen(holder[i]) = slot[i].generation
         /\ issued[holder[i]].handle = Handle(i, slot[i].generation)
<1> DEFINE h == holder[i]
<1>1. h \in DOMAIN issued /\ issued[h].slot = i /\ issued[h].use = uses[i]
  BY DEF Holding
<1>2. h # 0
  BY <1>1 DEF TypeOK
<1>3. Age(h) = 0
  <2>1. uses[i] \in Int
    BY ConstantFacts DEF TypeOK
  <2>q. QED BY <1>1, <2>1 DEF Age
<1>4. Gen(h) \in 1 .. MaxGeneration /\ issued[h].handle = Handle(i, Gen(h))
  BY <1>1 DEF Handles
<1>5. slot[i].generation = Gen(h)
  BY <1>1, <1>3, <1>4, ConstantFacts DEF Ages
<1>q. QED BY <1>1, <1>2, <1>3, <1>4, <1>5

(* A handle nobody else was given names the slot its alarm holds.          *)
LEMMA UnsharedHolds ==
  ASSUME TypeOK, Handles, Ages, Holding, NEW n \in DOMAIN issued, NEW i, i # 0,
         i = Named(issued[n].handle), ~Shared(n) \/ ~Shared(holder[i])
  PROVE  holder[i] = n
<1>1. i \in Slot /\ slot[i].state # "free"
        /\ issued[n].handle = Handle(i, slot[i].generation)
  BY NamedFacts
<1>2. holder[i] \in DOMAIN issued
        /\ issued[holder[i]].handle = Handle(i, slot[i].generation)
  BY <1>1, HolderFacts
<1>q. QED BY <1>1, <1>2 DEF Shared

(* The event count of a slot in use counts its holder's unseen expiries.   *)
Count(k) == IF k > MaxPending THEN MaxPending ELSE k

LEMMA CountsStep == Inv /\ [Next]_vars => Counts'
<1> SUFFICES ASSUME Inv, [Next]_vars, NEW j \in Slot,
                    slot'[j].state # "free", ~Shared(holder[j])'
             PROVE  slot'[j].pending = Count(issued'[holder'[j]].unseen)
  BY DEF Counts, Count
<1> USE DEF Inv
<1>0. ASSUME slot[j].state # "free", ~Shared(holder[j])
      PROVE  slot[j].pending = Count(issued[holder[j]].unseen)
  BY <1>0 DEF Counts, Count
<1>9. ASSUME Keeps, DOMAIN issued \subseteq DOMAIN issued', holder'[j] = holder[j],
             slot[j].state # "free"
      PROVE  ~Shared(holder[j])
  <2>1. holder[j] \in DOMAIN issued
    BY <1>9 DEF Holding
  <2>q. QED BY <1>9, <2>1 DEF Shared, Keeps
<1>1. ASSUME NEW i \in Slot, NEW interval \in {0, 1}, NEW id \in AlarmId,
             Scheduled(i, interval, id)
      PROVE  slot'[j].pending = Count(issued'[holder'[j]].unseen)
  <2> DEFINE m == Len(issued) + 1
             e == [handle |-> Handle(i, slot'[i].generation), slot |-> i,
                   use |-> uses[i] + 1, unseen |-> 0]
  <2>1. /\ issued' = Append(issued, e)
        /\ holder' = [holder EXCEPT ![i] = m]
        /\ slot' = [slot EXCEPT ![i] = Prepared(i, interval, id)]
    BY <1>1 DEF Scheduled, Returned
  <2>2. issued'[m].unseen = 0 /\ \A n \in DOMAIN issued : issued'[n] = issued[n]
    <3>1. issued'[m] = e /\ \A n \in DOMAIN issued : issued'[n] = issued[n]
      <4> HIDE DEF e
      <4>q. QED BY <2>1 DEF TypeOK
    <3>q. QED BY <3>1
  <2>3. CASE j = i
    <3>1. slot'[j].pending = 0 /\ holder'[j] = m
      BY <2>1, <2>3 DEF Prepared, TypeOK
    <3>q. QED BY <2>2, <3>1, ConstantFacts DEF Count
  <2>4. CASE j # i
    <3>1. slot'[j] = slot[j] /\ holder'[j] = holder[j]
      BY <2>1, <2>4 DEF TypeOK
    <3>2. holder[j] \in DOMAIN issued
      BY <3>1 DEF Holding
    <3>3. Keeps /\ DOMAIN issued \subseteq DOMAIN issued'
      <4>1. DOMAIN issued \subseteq DOMAIN issued'
        <5> HIDE DEF e
        <5>q. QED BY <2>1 DEF TypeOK
      <4>q. QED BY <2>2, <4>1 DEF Keeps
    <3>q. QED BY <1>0, <1>9, <2>2, <3>1, <3>2, <3>3
  <2>q. QED BY <2>3, <2>4
<1>2. ASSUME NEW i \in Slot, NEW interval \in {0, 1}, ScheduleRefused(i, interval)
      PROVE  slot'[j].pending = Count(issued'[holder'[j]].unseen)
  <2>1. j # i /\ slot'[j] = slot[j] /\ issued' = issued /\ holder' = holder
    BY <1>2 DEF ScheduleRefused, Prepared, TypeOK
  <2>q. QED BY <1>0, <1>9, <2>1 DEF Keeps
<1>3. ASSUME NEW n \in DOMAIN issued, Cancel(n)
      PROVE  slot'[j].pending = Count(issued'[holder'[j]].unseen)
  <2>1. PICK i \in Slot : slot' = [slot EXCEPT ![i].state = "free"]
    BY <1>3, NamedType DEF Cancel
  <2>2. j # i /\ slot'[j] = slot[j] /\ issued' = issued /\ holder' = holder
    BY <1>3, <2>1, SlotFields DEF Cancel, TypeOK, SlotState
  <2>q. QED BY <1>0, <1>9, <2>2 DEF Keeps
<1>4. ASSUME NEW n \in DOMAIN issued, TakeEvents(n)
      PROVE  slot'[j].pending = Count(issued'[holder'[j]].unseen)
  <2> DEFINE i == Named(issued[n].handle)
  <2>1. /\ i # 0 /\ i \in Slot /\ holder' = holder
        /\ slot' = [slot EXCEPT ![i] = Taken(i)]
        /\ issued' = [issued EXCEPT ![n].unseen = 0]
    BY <1>4, NamedType DEF TakeEvents
  <2>2. /\ Keeps /\ DOMAIN issued' = DOMAIN issued /\ issued'[n].unseen = 0
        /\ \A k \in DOMAIN issued \ {n} : issued'[k] = issued[k]
    BY <2>1, IssueFields DEF Keeps, Issue
  <2>3. CASE j = i
    <3>1. slot'[j].pending = 0 /\ slot[j].state # "free"
      BY <2>1, <2>3, SlotFields DEF Taken, TypeOK, SlotState
    <3>2. ~Shared(holder[j])
      BY <1>9, <2>1, <2>2, <3>1
    <3>3. holder[j] = n
      BY <2>1, <2>3, <3>2, UnsharedHolds
    <3>q. QED BY <2>1, <2>2, <3>1, <3>3, ConstantFacts DEF Count
  <2>4. CASE j # i
    <3>1. slot'[j] = slot[j] /\ holder'[j] = holder[j]
      BY <2>1, <2>4 DEF TypeOK
    <3>2. holder[j] \in DOMAIN issued /\ issued[holder[j]].slot = j
      BY <3>1 DEF Holding
    <3>3. issued[n].slot = i
      BY <2>1, NamedFacts
    <3>q. QED BY <1>0, <1>9, <2>2, <2>4, <3>1, <3>2, <3>3
  <2>q. QED BY <2>3, <2>4
<1>5. ASSUME NEW id \in AlarmId, Expire(id)
      PROVE  slot'[j].pending = Count(issued'[holder'[j]].unseen)
  <2> DEFINE i == alarm[id]
             n == holder[i]
  <2>1. i \in Slot /\ slot[i].state = "armed" /\ slot[i].id = id /\ holder' = holder
    BY <1>5 DEF Expire, TypeOK, AlarmMatchesSlot
  <2>2. /\ slot' = [slot EXCEPT ![i] = Expired(i)]
        /\ issued' = [issued EXCEPT ![n].unseen = @ + 1]
    BY <1>5, <2>1 DEF Expire
  <2>3. n \in DOMAIN issued /\ issued[n].slot = i
    BY <2>1 DEF Holding
  <2>4. /\ Keeps /\ DOMAIN issued' = DOMAIN issued
        /\ issued'[n].unseen = issued[n].unseen + 1
        /\ \A k \in DOMAIN issued \ {n} : issued'[k] = issued[k]
    <3> HIDE DEF n
    <3>q. QED BY <2>2, <2>3, IssueFields DEF Keeps, Issue
  <2>5. CASE j = i
    <3>1. slot[i].pending = Count(issued[n].unseen)
      BY <1>0, <1>9, <2>1, <2>4, <2>5
    <3>2. slot'[j].pending = IF slot[i].pending = MaxPending THEN MaxPending
                             ELSE slot[i].pending + 1
      BY <2>1, <2>2, <2>5, SlotFields DEF Expired, TypeOK, SlotState
    <3>3. issued[n].unseen \in Nat
      BY <2>3, IssueFields, ConstantFacts
    <3>4. issued'[holder'[j]].unseen = issued[n].unseen + 1
      BY <2>1, <2>4, <2>5
    <3>q. QED BY <3>1, <3>2, <3>3, <3>4, ConstantFacts DEF Count
  <2>6. CASE j # i
    <3>1. slot'[j] = slot[j] /\ holder'[j] = holder[j]
      BY <2>1, <2>2, <2>6 DEF TypeOK
    <3>2. holder[j] \in DOMAIN issued /\ issued[holder[j]].slot = j
      BY <3>1 DEF Holding
    <3>q. QED BY <1>0, <1>9, <2>3, <2>4, <2>6, <3>1, <3>2
  <2>q. QED BY <2>5, <2>6
<1>6. CASE UNCHANGED vars
  BY <1>0, <1>6, <1>9 DEF vars, Keeps
<1>q. QED BY <1>1, <1>2, <1>3, <1>4, <1>5, <1>6 DEF Next

-----------------------------------------------------------------------------
LEMMA InvInit == Init => Inv
<1> SUFFICES ASSUME Init PROVE Inv
  OBVIOUS
<1>1. TypeOK
  BY TypeInit
<1>2. DOMAIN issued = {} /\ \A i \in Slot : slot[i].state = "free"
  BY DEF Init
<1>3. AlarmMatchesSlot
  BY <1>2 DEF Init, AlarmMatchesSlot
<1>q. QED BY <1>1, <1>2, <1>3 DEF Inv, Handles, Ages, Distinct, Holding, Counts

(* Init establishes the invariant and every step preserves it.             *)
THEOREM Invariance == Spec => []Inv
<1>1. Inv /\ [Next]_vars => Inv'
  BY TypeStep, MatchStep, HandlesStep, AgesStep, DistinctStep, HoldingStep, CountsStep
     DEF Inv
<1>q. QED BY InvInit, <1>1, PTL DEF Spec

(* The slots, the pool's alarms and the handles keep their C types.        *)
THEOREM TypeCorrect == Spec => []TypeOK
<1>1. Inv => TypeOK
  BY DEF Inv
<1>q. QED BY Invariance, <1>1, PTL

(* The table and the SDK's pool never disagree about which alarms run.     *)
THEOREM SlotsMatchPool == Spec => []AlarmMatchesSlot
<1>1. Inv => AlarmMatchesSlot
  BY DEF Inv
<1>q. QED BY Invariance, <1>1, PTL

(* A stale handle reaches a newer alarm only after a whole round of        *)
(* generations: within a round, equal generations mean equal uses.         *)
THEOREM StaleHandlesSafe == Spec => []HandleNamesItsAlarm
<1>1. Inv => HandleNamesItsAlarm
  <2> SUFFICES ASSUME Inv, NEW n \in DOMAIN issued, NEW i,
                      i = Named(issued[n].handle), i # 0,
                      ~(uses[i] - issued[n].use >= MaxGeneration)
               PROVE  holder[i] = n
    BY DEF HandleNamesItsAlarm
  <2> USE DEF Inv
  <2>1. i \in Slot /\ slot[i].state # "free"
          /\ issued[n].slot = i /\ slot[i].generation = Gen(n)
    BY NamedFacts
  <2>2. Gen(n) \in 1 .. MaxGeneration
    BY DEF Handles
  <2>3. Age(n) \in Int /\ uses[i] \in Int /\ issued[n].use \in Int
    BY <2>1, IssueFields, ConstantFacts DEF TypeOK, Age
  <2>4. Age(n) = 0
    <3>1. Age(n) >= 0 /\ Age(n) < MaxGeneration
      BY <2>1, <2>3, ConstantFacts DEF Ages, Age
    <3>2. Gen(n) = IF Gen(n) + Age(n) > MaxGeneration THEN Gen(n) + Age(n) - MaxGeneration
                   ELSE Gen(n) + Age(n)
      BY <2>1, <3>1 DEF Ages
    <3>q. QED BY <2>2, <2>3, <3>1, <3>2, ConstantFacts
  <2>5. issued[n].use = uses[i]
    BY <2>1, <2>3, <2>4 DEF Age
  <2>6. holder[i] \in DOMAIN issued
          /\ issued[holder[i]].slot = i /\ issued[holder[i]].use = uses[i]
    BY <2>1 DEF Holding
  <2>q. QED BY <2>1, <2>5, <2>6 DEF Distinct
<1>q. QED BY Invariance, <1>1, PTL

(* Whatever the generation has come to, a slot in use can be cancelled or  *)
(* consumed through the handle that was returned for it.                   *)
THEOREM NoSlotStranded == Spec => []SlotReachable
<1>1. Inv => SlotReachable
  <2> SUFFICES ASSUME Inv, NEW i \in Slot, slot[i].state # "free"
               PROVE  holder[i] # 0 /\ Named(issued[holder[i]].handle) = i
    BY DEF SlotReachable
  <2> USE DEF Inv
  <2>1. /\ holder[i] \in DOMAIN issued /\ holder[i] # 0
        /\ Gen(holder[i]) = slot[i].generation
        /\ issued[holder[i]].handle = Handle(i, slot[i].generation)
    BY HolderFacts
  <2>2. slot[i].generation \in Nat /\ slot[i].generation # 0
    <3>1. slot[i].generation \in 1 .. MaxGeneration
      BY <2>1 DEF Handles
    <3>q. QED BY <3>1, ConstantFacts
  <2>3. /\ Handle(i, slot[i].generation) % Base = i
        /\ Handle(i, slot[i].generation) \div Base = slot[i].generation
    BY <2>2, Decode
  <2>q. QED BY <2>1, <2>2, <2>3, ConstantFacts DEF Named
<1>q. QED BY Invariance, <1>1, PTL

(* Expiries are reported to their own handle, exactly, up to saturation.   *)
THEOREM ExpiriesExact == Spec => []ExpiriesReported
<1>1. Inv => ExpiriesReported
  <2> SUFFICES ASSUME Inv, NEW n \in DOMAIN issued, NEW i,
                      i = Named(issued[n].handle), i # 0, ~Shared(n)
               PROVE  slot[i].pending = Count(issued[n].unseen)
    BY DEF ExpiriesReported, Count
  <2> USE DEF Inv
  <2>1. i \in Slot /\ slot[i].state # "free"
    BY NamedFacts
  <2>2. holder[i] = n
    BY UnsharedHolds
  <2>q. QED BY <2>1, <2>2 DEF Counts, Count
<1>q. QED BY Invariance, <1>1, PTL

-----------------------------------------------------------------------------
(* The count keeps up with the alarms that came due because an alarm comes *)
(* due once: the timer holds none that did, and the one about to replace   *)
(* it is new.                                                              *)
CalendarTyped ==
  /\ running \in BOOLEAN /\ quiet \in BOOLEAN
  /\ step \in {"idle", "arm", "clear"}
  /\ count \in Nat /\ armed \in 0 .. count /\ events \in Nat
  /\ due \subseteq 1 .. count

DueOnce ==
  /\ armed \notin due
  /\ step = "arm" => count \notin due /\ armed < count
  /\ step = "clear" => armed = 0
  /\ quiet => armed = 0 /\ events = 0 /\ step # "arm"

CalendarInv == CalendarTyped /\ DueOnce /\ DueAlarmsCounted

LEMMA DueFinite ==
  ASSUME count \in Nat, due \subseteq 1 .. count
  PROVE  IsFiniteSet(due) /\ Cardinality(due) \in Nat
<1>1. IsFiniteSet(1 .. count) BY FS_Interval
<1>2. IsFiniteSet(due) BY <1>1, FS_Subset
<1>3. QED BY <1>2, FS_CardinalityType

LEMMA CalendarStep == ASSUME CalendarInv, [CalendarNext]_calendarVars PROVE CalendarInv'
<1> USE CalendarAssumption DEF CalendarInv, CalendarTyped, DueOnce, Idle
<1>0. Cardinality({}) = 0 BY FS_EmptySet
<1>1. CASE Handler
  <2>1. CalendarTyped' /\ DueOnce'
    BY <1>1 DEF Handler, Counted, Disarm
  <2>2. Cardinality(due') = Cardinality(due) + 1
    BY <1>1, DueFinite, FS_AddElement DEF Handler
  <2>3. DueAlarmsCounted'
    BY <1>1, <2>1, <2>2, DueFinite DEF Handler, Counted, Disarm, DueAlarmsCounted
  <2>4. QED BY <2>1, <2>3
<1>2. CASE Start BY <1>2 DEF Start, DueAlarmsCounted
<1>3. CASE SetAlarm
  <2>0. quiet' \in BOOLEAN BY <1>3 DEF SetAlarm
  <2>1. CalendarTyped' BY <1>3, <2>0 DEF SetAlarm
  <2>2. DueOnce' BY <1>3 DEF SetAlarm
  <2>3. DueAlarmsCounted' BY <1>0, <1>3 DEF SetAlarm, DueAlarmsCounted
  <2>4. QED BY <2>1, <2>2, <2>3
<1>4. CASE Arm BY <1>4 DEF Arm, DueAlarmsCounted
<1>5. CASE DisableAlarm BY <1>5 DEF DisableAlarm, DueAlarmsCounted
<1>6. CASE Stop
  <2>1. running' \in BOOLEAN BY <1>6 DEF Stop
  <2>2. QED BY <1>6, <2>1 DEF Stop, DueAlarmsCounted
<1>7. CASE Clear BY <1>0, <1>7 DEF Clear, DueAlarmsCounted
<1>8. CASE Take BY <1>0, <1>8 DEF Take, DueAlarmsCounted
<1>9. CASE UNCHANGED calendarVars BY <1>9 DEF calendarVars, DueAlarmsCounted
<1>10. QED
  BY <1>1, <1>2, <1>3, <1>4, <1>5, <1>6, <1>7, <1>8, <1>9 DEF CalendarNext

(* The count a program takes is the number of alarms that came due since   *)
(* it last took or gave them up, up to saturation, and an alarm given up   *)
(* leaves nothing behind (bmx_pico_calendar_alarm_handler and the calls).  *)
THEOREM DueAlarmsExact == CalendarSpec => []DueAlarmsCounted
<1>1. CalendarInit => CalendarInv
  <2> SUFFICES ASSUME CalendarInit PROVE CalendarInv OBVIOUS
  <2>0. running \in BOOLEAN /\ quiet \in BOOLEAN BY DEF CalendarInit
  <2>1. CalendarTyped /\ DueOnce BY <2>0 DEF CalendarInit, CalendarTyped, DueOnce
  <2>2. Cardinality(due) = 0 BY FS_EmptySet DEF CalendarInit
  <2>3. DueAlarmsCounted BY <2>2, CalendarAssumption DEF CalendarInit, DueAlarmsCounted
  <2>4. QED BY <2>1, <2>3 DEF CalendarInv
<1>2. CalendarInv /\ [CalendarNext]_calendarVars => CalendarInv'
  BY CalendarStep
<1>3. CalendarInv => DueAlarmsCounted BY DEF CalendarInv
<1>4. QED BY <1>1, <1>2, <1>3, PTL DEF CalendarSpec

-----------------------------------------------------------------------------
(* The days before a March year, and those of its months before a month.   *)
DaysBefore(y) ==
  LET r == y - (y \div 400) * 400
  IN (y \div 400) * 146097 + r * 365 + r \div 4 - r \div 100
Epoch == 719468
MonthDays(m) == (153 * m + 2) \div 5

LEMMA DaysOf ==
  ASSUME NEW y \in Nat \ {0}, NEW m \in 1 .. 12, NEW d \in Nat
  PROVE  DaysFromCivil(Date(y, m, d)) =
           IF m <= 2 THEN DaysBefore(y - 1) + (MonthDays(m + 9) + d - 1) - Epoch
           ELSE DaysBefore(y) + (MonthDays(m - 3) + d - 1) - Epoch
<1>1. Date(y, m, d).year = y /\ Date(y, m, d).month = m /\ Date(y, m, d).day = d
  BY SMT DEF Date
<1>2. MarchYear(Date(y, m, d)) = (IF m <= 2 THEN y - 1 ELSE y)
      /\ MarchMonth(Date(y, m, d)) = (IF m <= 2 THEN m + 9 ELSE m - 3)
  BY SMT, <1>1 DEF MarchYear, MarchMonth
<1> DEFINE x == Date(y, m, d)
           yy == MarchYear(x)
           n == MarchMonth(x)
<1>3. yy \in Nat BY SMT, <1>2
<1>4. Quot(IF yy >= 0 THEN yy ELSE yy - 399, 400) = yy \div 400
  BY SMT, <1>3 DEF Quot
<1>5. n \in Nat BY SMT, <1>2
<1>6. DaysFromCivil(x) = DaysBefore(yy) + (MonthDays(n) + d - 1) - Epoch
  <2> DEFINE e == yy \div 400
             r == yy - e * 400
             doy == (153 * n + 2) \div 5 + d - 1
  <2>1. e \in Int /\ r \in Int BY SMT, <1>3
  <2>2. DaysFromCivil(x) = e * 146097 + (r * 365 + r \div 4 - r \div 100 + doy) - Epoch
    BY SMT, <1>1, <1>4 DEF DaysFromCivil, Epoch
  <2>3. DaysBefore(yy) = e * 146097 + r * 365 + r \div 4 - r \div 100
    BY SMT DEF DaysBefore
  <2>4. MonthDays(n) \in Int /\ doy = MonthDays(n) + d - 1 BY SMT, <1>5 DEF MonthDays
  <2>5. r \div 4 \in Int /\ r \div 100 \in Int /\ Epoch \in Int BY SMT, <2>1 DEF Epoch
  <2> HIDE DEF e, r, doy
  <2>6. QED BY SMT, <2>1, <2>2, <2>3, <2>4, <2>5
<1>7. QED BY SMT, <1>2, <1>6

LEMMA YearLength ==
  ASSUME NEW y \in Nat \ {0}
  PROVE  DaysBefore(y) = DaysBefore(y - 1) + (IF Leap(y) THEN 366 ELSE 365)
<1> DEFINE e == y \div 400
           r == y % 400
<1>1. e \in Int /\ r \in 0 .. 399 /\ y = e * 400 + r
  BY SMT
<1>2. DaysBefore(y) = e * 146097 + r * 365 + r \div 4 - r \div 100
  BY SMT, <1>1 DEF DaysBefore
<1>3. y % 4 = r % 4 /\ y % 100 = r % 100
  BY SMT, <1>1
<1>4. CASE r = 0
  <2>1. Leap(y) BY SMT, <1>4 DEF Leap
  <2>2. (y - 1) \div 400 = e - 1 BY SMT, <1>1, <1>4
  <2>3. DaysBefore(y - 1) = (e - 1) * 146097 + 399 * 365 + 399 \div 4 - 399 \div 100
    BY SMT, <1>1, <1>4, <2>2 DEF DaysBefore
  <2>4. QED BY SMT, <1>1, <1>2, <1>4, <2>1, <2>3
<1>5. CASE r # 0
  <2>1. (y - 1) \div 400 = e BY SMT, <1>1, <1>5
  <2>2. DaysBefore(y - 1) = e * 146097 + (r - 1) * 365 + (r - 1) \div 4 - (r - 1) \div 100
    BY SMT, <1>1, <1>5, <2>1 DEF DaysBefore
  <2>3. Leap(y) <=> (r % 4 = 0 /\ r % 100 # 0)
    BY SMT, <1>3, <1>5 DEF Leap
  <2>4. r \div 4 = (r - 1) \div 4 + (IF r % 4 = 0 THEN 1 ELSE 0)
    BY SMT, <1>1, <1>5
  <2>5. r \div 100 = (r - 1) \div 100 + (IF r % 100 = 0 THEN 1 ELSE 0)
    BY SMT, <1>1, <1>5
  <2>6. r % 100 = 0 => r % 4 = 0 BY SMT, <1>1
  <2> HIDE DEF e, r
  <2>7. QED BY SMT, <1>1, <1>2, <2>2, <2>3, <2>4, <2>5, <2>6
<1>6. QED BY SMT, <1>4, <1>5

(* The day after any date has the next number.                             *)
THEOREM NextDayCounted ==
  ASSUME NEW y \in Nat \ {0}, NEW m \in 1 .. 12, NEW d \in 1 .. DaysInMonth(y, m)
  PROVE  DaysFromCivil(NextDay(Date(y, m, d))) = DaysFromCivil(Date(y, m, d)) + 1
<1> DEFINE x == Date(y, m, d)
<1>0. DaysInMonth(y, m) \in 28 .. 31 BY SMT DEF DaysInMonth
<1>1. x.year = y /\ x.month = m /\ x.day = d BY SMT DEF Date
<1>2. DaysBefore(y) \in Int /\ DaysBefore(y - 1) \in Int BY SMT DEF DaysBefore
<1>3. /\ \A k \in 0 .. 11 : MonthDays(k) \in Nat
      /\ MonthDays(0) = 0 /\ MonthDays(1) = 31 /\ MonthDays(2) = 61
      /\ MonthDays(3) = 92 /\ MonthDays(4) = 122 /\ MonthDays(5) = 153
      /\ MonthDays(6) = 184 /\ MonthDays(7) = 214 /\ MonthDays(8) = 245
      /\ MonthDays(9) = 275 /\ MonthDays(10) = 306 /\ MonthDays(11) = 337
  BY SMT DEF MonthDays
<1> y + 1 \in Nat \ {0} /\ Epoch \in Int BY DEF Epoch
<1>8. ASSUME NEW k \in 1 .. 12, NEW c \in Nat
      PROVE  DaysFromCivil(Date(y, k, c)) =
               IF k <= 2 THEN DaysBefore(y - 1) + (MonthDays(k + 9) + c - 1) - Epoch
               ELSE DaysBefore(y) + (MonthDays(k - 3) + c - 1) - Epoch
  BY DaysOf
<1>9. DaysFromCivil(Date(y + 1, 1, 1)) = DaysBefore(y) + (MonthDays(10) + 1 - 1) - Epoch
  <2>1. DaysFromCivil(Date(y + 1, 1, 1)) = DaysBefore(y + 1 - 1) + (MonthDays(1 + 9) + 1 - 1) - Epoch
    BY DaysOf
  <2>2. y + 1 - 1 = y /\ 1 + 9 = 10 BY SMT
  <2>3. QED BY SMT, <2>1, <2>2
<1>4. CASE d < DaysInMonth(y, m)
  <2>1. NextDay(x) = Date(y, m, d + 1) BY SMT, <1>1, <1>4 DEF NextDay, Date
  <2>2. CASE m <= 2
    <3>1. MonthDays(m + 9) \in Nat BY SMT, <1>3, <2>2
    <3>2. QED BY SMT, <1>0, <1>2, <2>1, <2>2, <3>1, <1>8
  <2>3. CASE m > 2
    <3>1. MonthDays(m - 3) \in Nat BY SMT, <1>3, <2>3
    <3>2. QED BY SMT, <1>0, <1>2, <2>1, <2>3, <3>1, <1>8
  <2>4. QED BY SMT, <2>2, <2>3
<1>5. CASE d = DaysInMonth(y, m) /\ m < 12
  <2>1. NextDay(x) = Date(y, m + 1, 1) BY SMT, <1>0, <1>1, <1>5 DEF NextDay
  <2>2. CASE m = 1
    <3>1. d = 31 BY SMT, <1>5, <2>2 DEF DaysInMonth
    <3>2. DaysFromCivil(x) = DaysBefore(y - 1) + (306 + 31 - 1) - Epoch
      BY <1>3, <1>8, <2>2, <3>1
    <3>3. DaysFromCivil(Date(y, 2, 1)) = DaysBefore(y - 1) + (337 + 1 - 1) - Epoch
      BY <1>3, <1>8
    <3>4. QED BY <1>2, <2>1, <2>2, <3>2, <3>3
  <2>3. CASE m = 2
    <3>1. d = (IF Leap(y) THEN 29 ELSE 28) BY SMT, <1>5, <2>3 DEF DaysInMonth
    <3>2. DaysBefore(y) = DaysBefore(y - 1) + (IF Leap(y) THEN 366 ELSE 365)
      BY SMT, YearLength
    <3>3. DaysFromCivil(x) = DaysBefore(y - 1) + (337 + d - 1) - Epoch
      BY SMT, <1>0, <1>3, <2>3, <1>8
    <3>4. DaysFromCivil(Date(y, 3, 1)) = DaysBefore(y) + (0 + 1 - 1) - Epoch
      BY SMT, <1>3, <1>8
    <3>5. QED BY SMT, <1>2, <2>1, <2>3, <3>1, <3>2, <3>3, <3>4
  <2>4. CASE m > 2
    <3>1. MonthDays(m + 1 - 3) = MonthDays(m - 3) + d
      BY SMT, <1>0, <1>3, <1>5, <2>4 DEF DaysInMonth
    <3>2. MonthDays(m - 3) \in Nat BY SMT, <1>3, <2>4, <1>5
    <3>3. QED BY SMT, <1>0, <1>2, <1>5, <2>1, <2>4, <3>1, <3>2, <1>8
  <2>5. QED BY SMT, <2>2, <2>3, <2>4
<1>6. CASE d = DaysInMonth(y, m) /\ m = 12
  <2>1. NextDay(x) = Date(y + 1, 1, 1) BY SMT, <1>0, <1>1, <1>6 DEF NextDay
  <2>2. d = 31 BY SMT, <1>6 DEF DaysInMonth
  <2>3. DaysFromCivil(x) = DaysBefore(y) + (275 + 31 - 1) - Epoch
    BY SMT, <1>3, <1>6, <2>2, <1>8
  <2>4. DaysFromCivil(Date(y + 1, 1, 1)) = DaysBefore(y) + (306 + 1 - 1) - Epoch
    BY SMT, <1>3, <1>9
  <2>5. QED BY SMT, <1>2, <2>1, <2>3, <2>4
<1>7. QED BY SMT, <1>0, <1>4, <1>5, <1>6

(* The year is found again from the days of its era.                       *)
DaysOfEra(r, day) == r * 365 + r \div 4 - r \div 100 + day

LEMMA YearFound ==
  ASSUME NEW r \in Nat, r <= 399, NEW day \in Nat, day <= 365, day = 365 => Leap(r + 1)
  PROVE  /\ DaysOfEra(r, day) \in Nat /\ DaysOfEra(r, day) <= 146096
         /\ YearOfEra(DaysOfEra(r, day)) = r
<1> DEFINE c == r \div 100
           a == (r % 100) \div 4
           b == r % 4
           days == DaysOfEra(r, day)
<1>1. c \in 0 .. 3 /\ a \in 0 .. 24 /\ b \in 0 .. 3 /\ r = 100 * c + 4 * a + b
  BY SMT
<1>2. r \div 4 = 25 * c + a
  BY SMT
<1>3. days = 36524 * c + 1461 * a + 365 * b + day
  BY SMT, <1>1, <1>2 DEF DaysOfEra
<1>4. day = 365 => b = 3 /\ (a = 24 => c = 3)
  BY SMT DEF Leap
<1> HIDE DEF a, b, c, days
<1>5. days \in Nat /\ days <= 146096
  <2>1. day = 365 \/ day <= 364 BY SMT
  <2>2. days \in Int /\ days >= 0 BY SMT, <1>1, <1>3
  <2>3. CASE day <= 364
    <3>1. 36524 * c <= 109572 /\ 1461 * a <= 35064 /\ 365 * b <= 1095 BY SMT, <1>1
    <3>2. days <= 146095 BY SMT, <1>1, <1>3, <2>3, <3>1
    <3>3. QED BY SMT, <2>2, <3>2
  <2>4. CASE day = 365
    <3>1. 36524 * c <= 109572 /\ 1461 * a <= 35064 /\ b = 3 BY SMT, <1>1, <1>4, <2>4
    <3>2. days <= 146096 BY SMT, <1>1, <1>3, <2>4, <3>1
    <3>3. QED BY SMT, <2>2, <3>2
  <2>5. QED BY SMT, <2>1, <2>3, <2>4
<1>6. days \div 146096 = (IF days = 146096 THEN 1 ELSE 0)
  BY SMT, <1>5
<1>7. days \div 36524 = c + (IF days = 146096 THEN 1 ELSE 0)
  BY SMT, <1>1, <1>3, <1>4
<1> DEFINE e == days - days \div 1460 + c
<1>8. e - 365 * r \in 0 .. 364
  BY SMT, <1>1, <1>3, <1>4
<1>9. YearOfEra(days) = e \div 365
  BY SMT, <1>1, <1>5, <1>6, <1>7 DEF YearOfEra
<1>10. e \div 365 = r
  <2>1. e \in Int BY SMT, <1>1, <1>5
  <2> HIDE DEF e
  <2>2. PICK k \in 0 .. 364 : e = 365 * r + k BY SMT, <1>8, <2>1
  <2>3. QED BY SMT, <2>2
<1>11. QED BY SMT, <1>5, <1>9, <1>10 DEF days

(* The number of a day in its March year.                                  *)
DayOfYear(n, d) == MonthDays(n) + d - 1

(* The number of a date leads back to it, in every year.                   *)
THEOREM DateFound ==
  ASSUME NEW y \in Nat \ {0}, NEW m \in 1 .. 12, NEW d \in 1 .. DaysInMonth(y, m)
  PROVE  CivilFromDays(DaysFromCivil(Date(y, m, d))) = Date(y, m, d)
<1> DEFINE n == IF m <= 2 THEN m + 9 ELSE m - 3
           yy == IF m <= 2 THEN y - 1 ELSE y
           e == yy \div 400
           r == yy % 400
           day == DayOfYear(n, d)
           days == DaysOfEra(r, day)
           all == DaysFromCivil(Date(y, m, d))
<1>1. /\ n \in 0 .. 11 /\ d \in Nat /\ d >= 1
      /\ d <= IF n \in {1, 3, 6, 8} THEN 30 ELSE IF n = 11 THEN 29 ELSE 31
      /\ n = 11 /\ d = 29 => Leap(y)
  BY SMT DEF DaysInMonth
<1>2. day \in Nat /\ day <= 365 /\ (day = 365 => n = 11 /\ d = 29) /\ (5 * day + 2) \div 153 = n
  <2> HIDE DEF n
  <2>1. CASE n \in 0 .. 3 BY SMT, <1>1, <2>1 DEF MonthDays, DayOfYear
  <2>2. CASE n \in 4 .. 7 BY SMT, <1>1, <2>2 DEF MonthDays, DayOfYear
  <2>3. CASE n \in 8 .. 11 BY SMT, <1>1, <2>3 DEF MonthDays, DayOfYear
  <2>4. QED BY SMT, <1>1, <2>1, <2>2, <2>3
<1>3. yy \in Nat /\ e \in Nat /\ r \in Nat /\ r <= 399 /\ yy = e * 400 + r
  BY SMT
<1>4. day = 365 => Leap(r + 1)
  <2>1. SUFFICES ASSUME day = 365 PROVE Leap(r + 1)
    OBVIOUS
  <2>2. Leap(y) /\ y = e * 400 + (r + 1) BY SMT, <1>1, <1>2, <1>3, <2>1
  <2>3. QED BY SMT, <1>3, <2>2 DEF Leap
<1>5. days \in Nat /\ days <= 146096 /\ YearOfEra(days) = r
  <2> HIDE DEF r, day
  <2>1. QED BY YearFound, <1>2, <1>3, <1>4
<1>6. all + Epoch = e * 146097 + days
  <2>1. DaysBefore(yy) = e * 146097 + (days - day)
    BY SMT, <1>2, <1>3 DEF DaysBefore, DaysOfEra
  <2>2. d \in Nat BY <1>1
  <2>3. all = DaysBefore(yy) + day - Epoch
    BY DaysOf, <2>2 DEF DayOfYear
  <2>4. Epoch \in Int BY DEF Epoch
  <2> HIDE DEF e, r, day, days, all, yy
  <2>5. QED BY SMT, <1>2, <1>3, <1>5, <2>1, <2>3, <2>4
<1>7. days - (365 * r + r \div 4 - r \div 100) = day
  BY SMT, <1>2, <1>3 DEF DaysOfEra
<1>8. day - (153 * n + 2) \div 5 + 1 = d
  BY SMT, <1>1 DEF DayOfYear, MonthDays
<1>9. LET mm == IF n < 10 THEN n + 3 ELSE n - 9
      IN mm = m /\ r + e * 400 + (IF mm <= 2 THEN 1 ELSE 0) = y
  BY SMT, <1>3
<1> HIDE DEF n, e, r, day, days, all, yy
<1>10. CivilFromDays(all) = DateInEra(e, days)
  <2> DEFINE number == all + 719468
  <2>1. number = e * 146097 + days BY SMT, <1>6 DEF Epoch
  <2>2. number \in Int /\ number >= 0 /\ number \div 146097 = e
    BY SMT, <1>3, <1>5, <2>1
  <2>3. Quot(IF number >= 0 THEN number ELSE number - 146096, 146097) = e
    BY SMT, <2>2 DEF Quot
  <2>4. number - e * 146097 = days BY SMT, <1>3, <1>5, <2>1
  <2>5. CivilFromDays(all) =
          LET era == Quot(IF number >= 0 THEN number ELSE number - 146096, 146097)
          IN DateInEra(era, number - era * 146097)
    BY SMT DEF CivilFromDays
  <2> HIDE DEF number
  <2>6. QED BY SMT, <2>3, <2>4, <2>5
<1>11. DateInEra(e, days) = DateInYear(e, r, day)
  BY SMT, <1>5, <1>7 DEF DateInEra
<1>12. DateInYear(e, r, day) = Date(y, m, d)
  <2> DEFINE mm == IF n < 10 THEN n + 3 ELSE n - 9
  <2>1. DateInYear(e, r, day) =
          Date(r + e * 400 + (IF mm <= 2 THEN 1 ELSE 0), mm, day - (153 * n + 2) \div 5 + 1)
    BY SMT, <1>2 DEF DateInYear
  <2>2. QED BY <1>8, <1>9, <2>1
<1>13. QED BY SMT, <1>10, <1>11, <1>12 DEF all

LEMMA DivUnique ==
  ASSUME NEW C \in Nat \ {0}, NEW q \in Int, NEW r \in Int, 0 <= r, r < C
  PROVE  (q * C + r) \div C = q
  OBVIOUS

(* C divides toward zero, so a time before 1970 is corrected by a day.     *)
LEMMA DayFound ==
  ASSUME DaySeconds \in Nat \ {0}, NEW n \in Int, NEW s \in Nat, s < DaySeconds
  PROVE  FromEpoch(n * DaySeconds + s) = [date |-> CivilFromDays(n), second |-> s]
<1> DEFINE C == DaySeconds
           t == n * C + s
           within == Remainder(t, C)
           day == Quot(t, C)
<1>0. t \in Int OBVIOUS
<1>1. within = t - C * day BY DEF Remainder
<1>2. FromEpoch(t) =
        IF within < 0 THEN [date |-> CivilFromDays(day - 1), second |-> within + C]
        ELSE [date |-> CivilFromDays(day), second |-> within]
  BY DEF FromEpoch
<1>3. CASE n >= 0
  <2>1. n * C >= 0 BY <1>3
  <2>2. t >= 0 BY <2>1
  <2>3. day = n BY <1>0, <2>2, DivUnique DEF Quot
  <2>4. within = s BY <1>1, <2>3
  <2>5. QED BY <1>2, <2>3, <2>4
<1>4. CASE n < 0 /\ s = 0
  <2>1. t < 0
    <3>1. (-n) * C > 0 BY <1>4
    <3>2. QED BY <1>4, <3>1
  <2>2. -t = (-n) * C + 0 BY <1>4
  <2>3. (-t) \div C = -n
    <3>1. -n \in Int /\ 0 \in Int /\ 0 <= 0 /\ 0 < C BY <1>4
    <3>2. ((-n) * C + 0) \div C = -n BY <3>1, DivUnique
    <3>3. QED BY <2>2, <3>2
  <2>4. day = n BY <1>0, <2>1, <2>3 DEF Quot
  <2>5. within = s BY <1>1, <1>4, <2>4
  <2>6. QED BY <1>2, <2>4, <2>5
<1>5. CASE n < 0 /\ s > 0
  <2>0. -n - 1 >= 0 /\ -n - 1 \in Int BY <1>5
  <2>1. (-n - 1) * C >= 0 BY <2>0
  <2>2. -t = (-n - 1) * C + (C - s) BY <1>5
  <2>3. t < 0 BY <1>0, <1>5, <2>1, <2>2
  <2>4. (-t) \div C = -n - 1
    <3>1. C - s \in Int /\ 0 <= C - s /\ C - s < C BY <1>5
    <3>2. ((-n - 1) * C + (C - s)) \div C = -n - 1 BY <2>0, <3>1, DivUnique
    <3>3. QED BY <2>2, <3>2
  <2>5. day = n + 1 BY <1>0, <2>3, <2>4 DEF Quot
  <2>6. within = s - C
    <3>1. C * (n + 1) = n * C + C OBVIOUS
    <3>2. QED BY <1>1, <2>5, <3>1
  <2>7. within < 0 /\ within + C = s /\ day - 1 = n BY <2>5, <2>6
  <2>8. QED BY <1>2, <2>7
<1>6. QED BY <1>3, <1>4, <1>5

(* The time of a date leads back to it, before 1970 too.                   *)
THEOREM TimeFound ==
  ASSUME DaySeconds \in Nat \ {0},
         NEW y \in Nat \ {0}, NEW m \in 1 .. 12, NEW d \in 1 .. DaysInMonth(y, m),
         NEW s \in Nat, s < DaySeconds
  PROVE  FromEpoch(ToEpoch(Date(y, m, d), s, 0)) = [date |-> Date(y, m, d), second |-> s]
<1>1. DaysFromCivil(Date(y, m, d)) \in Int
  <2>1. d \in Nat BY DEF DaysInMonth
  <2>2. DaysBefore(y) \in Int /\ DaysBefore(y - 1) \in Int BY SMT DEF DaysBefore
  <2>3. Epoch \in Int BY DEF Epoch
  <2>4. m <= 2 => MonthDays(m + 9) \in Int BY SMT DEF MonthDays
  <2>5. m > 2 => MonthDays(m - 3) \in Int BY SMT DEF MonthDays
  <2>6. QED BY <2>1, <2>2, <2>3, <2>4, <2>5, DaysOf
<1>2. ToEpoch(Date(y, m, d), s, 0) = DaysFromCivil(Date(y, m, d)) * DaySeconds + s
  BY <1>1 DEF ToEpoch
<1>3. QED BY <1>1, <1>2, DayFound, DateFound

-----------------------------------------------------------------------------
(* The PWM pins: Good says what the tables and registers hold between      *)
(* calls.  Each call is a function of the whole state, so there is a lemma *)
(* for each part of a call and each call: it keeps Good, it keeps the wave *)
(* of every other pin, and unless it is refused it makes the wave of its   *)
(* own pin the one asked for.                                              *)
Index == 0 .. Slices - 1
PinRecord == [configured : BOOLEAN, enabled : BOOLEAN, inverted : BOOLEAN, duty : Nat]
SliceRecord ==
  [used : [Channels -> BOOLEAN], pin : [Channels -> Nat], requested : Nat, frequency : Int]
Registers ==
  [divider : Int, period : Int, on : BOOLEAN,
   level : [Channels -> Int], inverted : [Channels -> BOOLEAN]]
Functions == {"none", "pwm", "sio"}

PwmTyped(s) ==
  s \in [pin : [Pins -> PinRecord], slice : [Index -> SliceRecord],
         hw : [Index -> Registers], function : [Pins -> Functions], ret : Int]

(* The tables of pins and slices agree: a channel is used by the pin that  *)
(* is configured for it.                                                   *)
Holder(s, g) ==
  s.slice[SliceOf(g)].used[Channel(g)] /\ s.slice[SliceOf(g)].pin[Channel(g)] = g
Tables(s) ==
  /\ \A g \in Pins :
       /\ s.pin[g].configured <=> Holder(s, g)
       /\ s.pin[g].configured <=> s.function[g] = "pwm"
       /\ ~s.pin[g].configured => s.pin[g] = NoPin
  /\ \A i \in Index, c \in Channels : s.slice[i].used[c] =>
       LET g == s.slice[i].pin[c] IN g \in Pins /\ SliceOf(g) = i /\ Channel(g) = c

(* A slice in use has the divider and period of its frequency.             *)
InUse(s, i) == \E c \in Channels : s.slice[i].used[c]
Clocked(s) ==
  \A i \in Index :
    /\ InUse(s, i) =>
         /\ s.slice[i].requested \in Frequencies
         /\ s.slice[i].frequency = Achieved(s.slice[i].requested)
         /\ s.hw[i].divider = Divider(s.slice[i].requested)
         /\ s.hw[i].period = Period(s.slice[i].requested)
    /\ ~InUse(s, i) => s.slice[i].requested = 0 /\ s.slice[i].frequency = 0

(* The registers say what the tables say.                                  *)
On(s, i) == \E c \in Channels : s.slice[i].used[c] /\ s.pin[s.slice[i].pin[c]].enabled
Inverted(s, i, c) == s.slice[i].used[c] /\ s.pin[s.slice[i].pin[c]].inverted
LevelOf(s, g) ==
  IF s.pin[g].enabled THEN Level(s.pin[g].duty, s.hw[SliceOf(g)].period) ELSE 0
Programmed(s) ==
  /\ \A i \in Index :
       /\ s.hw[i].on <=> On(s, i)
       /\ \A c \in Channels : s.hw[i].inverted[c] <=> Inverted(s, i, c)
  /\ \A g \in Pins : s.pin[g].configured =>
       s.hw[SliceOf(g)].level[Channel(g)] = LevelOf(s, g)

Good(s) == PwmTyped(s) /\ Tables(s) /\ Clocked(s) /\ Programmed(s)

(* What a pin puts out by the tables is what was asked of it.              *)
Wave(s, g) ==
  IF s.pin[g].configured
  THEN [frequency |-> s.slice[SliceOf(g)].requested, duty |-> s.pin[g].duty,
        inverted |-> s.pin[g].inverted, on |-> s.pin[g].enabled]
  ELSE NoWave

PwmInv == Good(State) /\ asked = [g \in Pins |-> Wave(State, g)]

-----------------------------------------------------------------------------
LEMMA Places ==
  ASSUME NEW g \in Pins
  PROVE  /\ SliceOf(g) \in Index /\ Channel(g) \in Channels /\ g \in Nat
         /\ 1 - Channel(g) \in Channels /\ 1 - Channel(g) # Channel(g)
         /\ \A c \in Channels : c = Channel(g) \/ c = 1 - Channel(g)
<1>1. g \in Nat /\ Slices \in Nat \ {0} BY PwmAssumption
<1>2. g \div 2 \in Int BY <1>1
<1>3. (g \div 2) % Slices \in 0 .. Slices - 1 BY <1>1, <1>2
<1>4. Channel(g) = 0 \/ Channel(g) = 1 BY <1>1 DEF Channel
<1>5. QED BY <1>1, <1>3, <1>4 DEF SliceOf, Index, Channels

LEMMA LevelType ==
  ASSUME NEW duty \in Nat, NEW period \in Int PROVE Level(duty, period) \in Int
<1>1. Top - 1 \in Nat \ {0} BY PwmAssumption
<1>2. (Top - 1) \div 2 \in Int BY <1>1
<1>3. duty * period + (Top - 1) \div 2 \in Int BY <1>2
<1>4. (duty * period + (Top - 1) \div 2) \div (Top - 1) \in Int
  <2> DEFINE n == duty * period + (Top - 1) \div 2
             k == Top - 1
  <2> HIDE DEF n, k
  <2>1. n \in Int /\ k \in Nat \ {0} BY <1>1, <1>3 DEF n, k
  <2>2. n \div k \in Int BY <2>1
  <2>3. QED BY <2>2 DEF n, k
<1>5. QED BY <1>1, <1>4 DEF Level, Least

LEMMA Product == ASSUME NEW a \in Nat \ {0}, NEW b \in Nat \ {0} PROVE a * b \in Nat \ {0}
<1>1. a * b >= b
  <2>1. (a - 1) * b >= 0 OBVIOUS
  <2>2. (a - 1) * b = a * b - b OBVIOUS
  <2>3. QED BY <2>1, <2>2
<1>2. QED BY <1>1

LEMMA FrequencyTypes ==
  ASSUME NEW f \in Frequencies
  PROVE  /\ f \in Nat \ {0}
         /\ Divider(f) \in Nat \ {0} /\ Period(f) \in Nat \ {0} /\ Achieved(f) \in Int
<1>1. /\ f \in Nat \ {0} /\ Top \in Nat \ {0} /\ One \in Nat \ {0}
      /\ MaxDivider \in Nat \ {0} /\ Clock16 \in Nat
  BY PwmAssumption
<1>2. f * Top \in Nat \ {0} BY <1>1, Product
<1>3. (Clock16 + f * Top - 1) \div (f * Top) \in Int BY <1>1, <1>2
<1>4. Divider(f) \in Nat \ {0} BY <1>1, <1>3 DEF Divider, Least, Most
<1>5. f * Divider(f) \in Nat \ {0} BY <1>1, <1>4, Product
<1>6. Clock16 \div (f * Divider(f)) \in Int BY <1>1, <1>5
<1>7. Period(f) \in Nat \ {0} BY <1>1, <1>6 DEF Period, Least, Most
<1>8. Divider(f) * Period(f) \in Nat \ {0} BY <1>4, <1>7, Product
<1>9. Achieved(f) \in Int BY <1>1, <1>8 DEF Achieved
<1>10. QED BY <1>1, <1>4, <1>7, <1>9

-----------------------------------------------------------------------------
(* What the parts of a call do to the registers of a slice.                *)
SameTables(s, t) ==
  t.pin = s.pin /\ t.slice = s.slice /\ t.function = s.function /\ t.ret = s.ret
Elsewhere(s, t, i) == \A j \in Index : j # i => t.hw[j] = s.hw[j]
SameRate(s, t, i) == t.hw[i].divider = s.hw[i].divider /\ t.hw[i].period = s.hw[i].period

Rewrite(s, i, r) == [s EXCEPT !.hw[i] = r]

LEMMA Rewritten ==
  ASSUME NEW s, PwmTyped(s), NEW i \in Index, NEW r \in Registers
  PROVE  /\ PwmTyped(Rewrite(s, i, r)) /\ SameTables(s, Rewrite(s, i, r))
         /\ Elsewhere(s, Rewrite(s, i, r), i) /\ Rewrite(s, i, r).hw[i] = r
<1> DEFINE t == Rewrite(s, i, r)
<1> USE DEF Rewrite
<1>1. /\ t.hw = [s.hw EXCEPT ![i] = r] /\ t.pin = s.pin /\ t.slice = s.slice
      /\ t.function = s.function /\ t.ret = s.ret
  BY DEF PwmTyped
<1>2. t.hw \in [Index -> Registers] BY <1>1 DEF PwmTyped
<1>3. PwmTyped(t) BY <1>1, <1>2 DEF PwmTyped
<1>4. QED BY <1>1, <1>3 DEF PwmTyped, SameTables, Elsewhere

LEMMA DutyApplied ==
  ASSUME NEW s, PwmTyped(s), NEW g \in Pins, NEW t, t = ApplyDuty(s, g)
  PROVE  /\ PwmTyped(t) /\ SameTables(s, t) /\ Elsewhere(s, t, SliceOf(g))
         /\ SameRate(s, t, SliceOf(g))
         /\ t.hw[SliceOf(g)].on = s.hw[SliceOf(g)].on
         /\ t.hw[SliceOf(g)].inverted = s.hw[SliceOf(g)].inverted
         /\ t.hw[SliceOf(g)].level[Channel(g)] = LevelOf(s, g)
         /\ t.hw[SliceOf(g)].level[1 - Channel(g)] = s.hw[SliceOf(g)].level[1 - Channel(g)]
<1> DEFINE i == SliceOf(g)
<1>1. i \in Index /\ Channel(g) \in Channels /\ 1 - Channel(g) \in Channels
        /\ 1 - Channel(g) # Channel(g)
  BY Places
<1>2. LevelOf(s, g) \in Int
  BY <1>1, LevelType DEF PwmTyped, PinRecord, Registers, LevelOf
<1> DEFINE r == [s.hw[i] EXCEPT !.level[Channel(g)] = LevelOf(s, g)]
<1>3. t = Rewrite(s, i, r)
  BY DEF Rewrite, ApplyDuty, LevelOf
<1> HIDE DEF i
<1>4. /\ r \in Registers /\ r.divider = s.hw[i].divider /\ r.period = s.hw[i].period
      /\ r.on = s.hw[i].on /\ r.inverted = s.hw[i].inverted
      /\ r.level[Channel(g)] = LevelOf(s, g)
      /\ r.level[1 - Channel(g)] = s.hw[i].level[1 - Channel(g)]
  BY <1>1, <1>2 DEF PwmTyped, Registers
<1> HIDE DEF r
<1>5. PwmTyped(t) /\ SameTables(s, t) /\ Elsewhere(s, t, i) /\ t.hw[i] = r
  BY <1>1, <1>3, <1>4, Rewritten
<1>6. QED BY <1>4, <1>5 DEF SameRate, i

LEMMA PolarityApplied ==
  ASSUME NEW s, PwmTyped(s), NEW i \in Index, NEW t, t = ApplyPolarity(s, i)
  PROVE  /\ PwmTyped(t) /\ SameTables(s, t) /\ Elsewhere(s, t, i) /\ SameRate(s, t, i)
         /\ t.hw[i].on = s.hw[i].on /\ t.hw[i].level = s.hw[i].level
         /\ \A c \in Channels : t.hw[i].inverted[c] <=> Inverted(s, i, c)
<1> DEFINE v == [c \in Channels |-> Inverted(s, i, c)]
<1>1. v \in [Channels -> BOOLEAN] BY DEF Inverted
<1> DEFINE r == [s.hw[i] EXCEPT !.inverted = v]
<1>2. t = Rewrite(s, i, r)
  BY DEF Rewrite, ApplyPolarity, Inverted
<1>3. \A c \in Channels : v[c] <=> Inverted(s, i, c) OBVIOUS
<1> HIDE DEF v
<1>4. /\ r \in Registers /\ r.divider = s.hw[i].divider /\ r.period = s.hw[i].period
      /\ r.on = s.hw[i].on /\ r.level = s.hw[i].level /\ r.inverted = v
  BY <1>1 DEF PwmTyped, Registers
<1> HIDE DEF r
<1>5. PwmTyped(t) /\ SameTables(s, t) /\ Elsewhere(s, t, i) /\ t.hw[i] = r
  BY <1>2, <1>4, Rewritten
<1>6. QED BY <1>3, <1>4, <1>5 DEF SameRate

LEMMA EnabledUpdated ==
  ASSUME NEW s, PwmTyped(s), NEW i \in Index, NEW t, t = UpdateEnabled(s, i)
  PROVE  /\ PwmTyped(t) /\ SameTables(s, t) /\ Elsewhere(s, t, i) /\ SameRate(s, t, i)
         /\ t.hw[i].level = s.hw[i].level /\ t.hw[i].inverted = s.hw[i].inverted
         /\ t.hw[i].on <=> On(s, i)
<1> DEFINE v == On(s, i)
<1>1. v \in BOOLEAN BY DEF On
<1> DEFINE r == [s.hw[i] EXCEPT !.on = v]
<1>2. t = Rewrite(s, i, r)
  BY DEF Rewrite, UpdateEnabled, On
<1>3. v <=> On(s, i) OBVIOUS
<1> HIDE DEF v
<1>4. /\ r \in Registers /\ r.divider = s.hw[i].divider /\ r.period = s.hw[i].period
      /\ r.inverted = s.hw[i].inverted /\ r.level = s.hw[i].level /\ r.on = v
  BY <1>1 DEF PwmTyped, Registers
<1> HIDE DEF r
<1>5. PwmTyped(t) /\ SameTables(s, t) /\ Elsewhere(s, t, i) /\ t.hw[i] = r
  BY <1>2, <1>4, Rewritten
<1>6. QED BY <1>3, <1>4, <1>5 DEF SameRate

LEMMA FrequencySet ==
  ASSUME NEW s, PwmTyped(s), NEW i \in Index, NEW f \in Frequencies,
         NEW t, t = SetFrequency(s, i, f)
  PROVE  /\ PwmTyped(t) /\ t.ret = Achieved(f)
         /\ t.pin = s.pin /\ t.slice = s.slice /\ t.function = s.function
         /\ Elsewhere(s, t, i)
         /\ t.hw[i].divider = Divider(f) /\ t.hw[i].period = Period(f)
         /\ t.hw[i].on = s.hw[i].on /\ t.hw[i].level = s.hw[i].level
         /\ t.hw[i].inverted = s.hw[i].inverted
<1>1. Divider(f) \in Int /\ Period(f) \in Int /\ Achieved(f) \in Int BY FrequencyTypes
<1> DEFINE r == [s.hw[i] EXCEPT !.divider = Divider(f), !.period = Period(f)]
           u == Rewrite(s, i, r)
<1>2. t = [u EXCEPT !.ret = Achieved(f)]
  <2>1. u = [s EXCEPT !.hw[i].divider = Divider(f), !.hw[i].period = Period(f)]
    BY DEF PwmTyped, Rewrite
  <2>2. QED BY <2>1 DEF SetFrequency, Returns, Achieved
<1>3. /\ r \in Registers /\ r.divider = Divider(f) /\ r.period = Period(f)
      /\ r.on = s.hw[i].on /\ r.level = s.hw[i].level /\ r.inverted = s.hw[i].inverted
  BY <1>1 DEF PwmTyped, Registers
<1>4. PwmTyped(u) /\ SameTables(s, u) /\ Elsewhere(s, u, i) /\ u.hw[i] = r
  <2> HIDE DEF r
  <2>1. QED BY <1>3, Rewritten
<1> HIDE DEF r, u
<1>5. /\ PwmTyped(t) /\ t.ret = Achieved(f) /\ t.hw = u.hw
      /\ t.pin = u.pin /\ t.slice = u.slice /\ t.function = u.function
  BY <1>1, <1>2, <1>4 DEF PwmTyped
<1>6. QED BY <1>3, <1>4, <1>5 DEF SameTables, Elsewhere
-----------------------------------------------------------------------------
(* A call that changes pin g touches no other slice.                       *)
SamePins(s, t, g) == \A h \in Pins : h # g => t.pin[h] = s.pin[h]

LEMMA Fields ==
  ASSUME NEW s, PwmTyped(s)
  PROVE  /\ s.pin \in [Pins -> PinRecord] /\ s.slice \in [Index -> SliceRecord]
         /\ s.hw \in [Index -> Registers] /\ s.function \in [Pins -> Functions]
         /\ s.ret \in Int
  BY DEF PwmTyped

LEMMA Apart ==
  ASSUME NEW s, Tables(s), NEW g \in Pins, NEW h \in Pins, g # h,
         s.pin[g].configured, s.pin[h].configured, SliceOf(h) = SliceOf(g)
  PROVE  Channel(h) = 1 - Channel(g)
<1>1. Holder(s, g) /\ Holder(s, h) BY DEF Tables
<1>2. Channel(h) # Channel(g) BY <1>1 DEF Holder
<1>3. QED BY <1>2, Places

LEMMA OtherSlices ==
  ASSUME NEW s, NEW t, Tables(s), NEW g \in Pins, SamePins(s, t, g),
         NEW j \in Index, j # SliceOf(g), t.slice[j] = s.slice[j]
  PROVE  /\ On(t, j) <=> On(s, j)
         /\ \A c \in Channels : Inverted(t, j, c) <=> Inverted(s, j, c)
<1>1. ASSUME NEW c \in Channels, s.slice[j].used[c]
      PROVE  t.pin[s.slice[j].pin[c]] = s.pin[s.slice[j].pin[c]]
  <2>1. s.slice[j].pin[c] \in Pins /\ SliceOf(s.slice[j].pin[c]) = j
    BY <1>1 DEF Tables
  <2>2. QED BY <2>1 DEF SamePins
<1>2. QED BY <1>1 DEF On, Inverted

LEMMA TablesKept ==
  ASSUME NEW s, NEW t, Tables(s), NEW g \in Pins, SamePins(s, t, g),
         t.slice = s.slice, t.function = s.function,
         s.pin[g].configured, t.pin[g].configured
  PROVE  Tables(t)
<1>1. ASSUME NEW h \in Pins
      PROVE  /\ t.pin[h].configured <=> s.pin[h].configured
             /\ ~t.pin[h].configured => t.pin[h] = s.pin[h]
  BY DEF SamePins
<1>2. QED BY <1>1 DEF Tables, Holder

LEMMA ClockedKept ==
  ASSUME NEW s, NEW t, Clocked(s), t.slice = s.slice,
         \A j \in Index : SameRate(s, t, j)
  PROVE  Clocked(t)
  BY DEF Clocked, InUse, SameRate

Repin(s, g, p) == [s EXCEPT !.pin[g] = p]

LEMMA Repinned ==
  ASSUME NEW s, PwmTyped(s), NEW g \in Pins, NEW p \in PinRecord
  PROVE  LET t == Repin(s, g, p)
         IN /\ PwmTyped(t) /\ t.hw = s.hw /\ t.slice = s.slice /\ t.function = s.function
            /\ t.ret = s.ret /\ t.pin[g] = p /\ SamePins(s, t, g)
<1> DEFINE t == Repin(s, g, p)
<1> USE DEF Repin
<1>1. /\ t.pin = [s.pin EXCEPT ![g] = p] /\ t.hw = s.hw /\ t.slice = s.slice
      /\ t.function = s.function /\ t.ret = s.ret
  BY DEF PwmTyped
<1>2. PwmTyped(t) BY <1>1 DEF PwmTyped
<1>3. QED BY <1>1, <1>2 DEF PwmTyped, SamePins

LEMMA Answered ==
  ASSUME NEW s, PwmTyped(s), NEW r \in Int
  PROVE  /\ PwmTyped(Returns(s, r)) /\ Returns(s, r).ret = r
         /\ Returns(s, r).pin = s.pin /\ Returns(s, r).slice = s.slice
         /\ Returns(s, r).hw = s.hw /\ Returns(s, r).function = s.function
  BY DEF PwmTyped, Returns

LEMMA GoodSame ==
  ASSUME NEW s, NEW t, Good(s), PwmTyped(t),
         t.pin = s.pin, t.slice = s.slice, t.hw = s.hw, t.function = s.function
  PROVE  Good(t)
<1>1. Tables(t) BY DEF Good, Tables, Holder
<1>2. Clocked(t) BY DEF Good, Clocked, InUse
<1>3. Programmed(t) BY DEF Good, Programmed, On, Inverted, LevelOf
<1>4. QED BY <1>1, <1>2, <1>3 DEF Good

(* The three calls that change one field of a configured pin.              *)
Changed(s, t, g, p) ==
  /\ Good(t) /\ t.ret = 1 /\ t.slice = s.slice /\ t.function = s.function
  /\ t.pin[g] = p /\ SamePins(s, t, g)

LEMMA PolaritySet ==
  ASSUME NEW s, Good(s), NEW g \in Pins, s.pin[g].configured, NEW b \in BOOLEAN
  PROVE  Changed(s, SetPinPolarity(s, g, b), g, [s.pin[g] EXCEPT !.inverted = b])
<1> DEFINE i == SliceOf(g)
           p == [s.pin[g] EXCEPT !.inverted = b]
           u == Repin(s, g, p)
           v == ApplyPolarity(u, i)
           t == Returns(v, 1)
<1>0. PwmTyped(s) /\ Tables(s) /\ Clocked(s) /\ Programmed(s) /\ i \in Index
  BY Places DEF Good
<1>1. /\ p \in PinRecord /\ p.configured = s.pin[g].configured /\ p.configured
      /\ p.enabled = s.pin[g].enabled /\ p.duty = s.pin[g].duty /\ p.inverted = b
  BY <1>0, Fields DEF PinRecord
<1>2. SetPinPolarity(s, g, b) = t
  <2>1. u = [s EXCEPT !.pin[g].inverted = b] BY DEF Repin
  <2>2. QED BY <2>1 DEF SetPinPolarity
<1>3. /\ PwmTyped(u) /\ u.hw = s.hw /\ u.slice = s.slice /\ u.function = s.function
      /\ u.pin[g] = p /\ SamePins(s, u, g)
  <2> HIDE DEF p
  <2>1. QED BY <1>0, <1>1, Repinned
<1> HIDE DEF i, p, u
<1>4. /\ PwmTyped(v) /\ SameTables(u, v) /\ Elsewhere(u, v, i) /\ SameRate(u, v, i)
      /\ v.hw[i].on = u.hw[i].on /\ v.hw[i].level = u.hw[i].level
      /\ \A c \in Channels : v.hw[i].inverted[c] <=> Inverted(u, i, c)
  BY <1>0, <1>3, PolarityApplied
<1> HIDE DEF v
<1>5. Tables(v) /\ SamePins(s, v, g)
  <2>1. SamePins(s, v, g) /\ v.pin[g] = p /\ v.slice = s.slice /\ v.function = s.function
    BY <1>3, <1>4 DEF SameTables, SamePins
  <2>2. QED BY <1>0, <1>1, <2>1, TablesKept
<1>6. Clocked(v)
  <2>1. \A j \in Index : SameRate(s, v, j)
    BY <1>3, <1>4 DEF SameRate, Elsewhere
  <2>2. QED BY <1>0, <1>3, <1>4, <2>1, ClockedKept DEF SameTables
<1>7. Programmed(v)
  <2>1. ASSUME NEW j \in Index, j # i
        PROVE  (v.hw[j].on <=> On(v, j))
               /\ \A c \in Channels : v.hw[j].inverted[c] <=> Inverted(v, j, c)
    <3>1. v.hw[j] = s.hw[j] /\ v.slice[j] = s.slice[j]
      BY <1>3, <1>4, <2>1 DEF Elsewhere, SameTables
    <3>2. /\ On(v, j) <=> On(s, j)
          /\ \A c \in Channels : Inverted(v, j, c) <=> Inverted(s, j, c)
      BY <1>0, <1>5, <2>1, <3>1, OtherSlices DEF i
    <3>3. QED BY <1>0, <3>1, <3>2 DEF Programmed
  <2>2. ASSUME NEW h \in Pins
        PROVE  v.pin[h].enabled = s.pin[h].enabled /\ v.pin[h].duty = s.pin[h].duty
               /\ v.pin[h].configured = s.pin[h].configured
    <3>1. v.pin[h] = IF h = g THEN p ELSE s.pin[h]
      BY <1>3, <1>4 DEF SamePins, SameTables
    <3>2. CASE h = g BY <1>1, <3>1, <3>2
    <3>3. CASE h # g BY <3>1, <3>3
    <3>4. QED BY <3>2, <3>3
  <2>3. v.hw[i].on <=> On(v, i)
    <3>1. On(v, i) <=> On(s, i)
      BY <1>0, <1>3, <1>4, <2>2 DEF On, SameTables, Tables
    <3>2. QED BY <1>0, <1>3, <1>4, <3>1 DEF Programmed
  <2>4. \A c \in Channels : v.hw[i].inverted[c] <=> Inverted(v, i, c)
    BY <1>4 DEF Inverted, SameTables
  <2>5. ASSUME NEW h \in Pins, v.pin[h].configured
        PROVE  v.hw[SliceOf(h)].level[Channel(h)] = LevelOf(v, h)
    <3>1. v.hw[SliceOf(h)].level = s.hw[SliceOf(h)].level
          /\ v.hw[SliceOf(h)].period = s.hw[SliceOf(h)].period
      BY <1>3, <1>4, Places DEF Elsewhere, SameRate
    <3>2. LevelOf(v, h) = LevelOf(s, h) BY <2>2, <3>1 DEF LevelOf
    <3>3. QED BY <1>0, <2>2, <2>5, <3>1, <3>2 DEF Programmed
  <2>6. QED BY <2>1, <2>3, <2>4, <2>5 DEF Programmed
<1>8. Good(v) BY <1>4, <1>5, <1>6, <1>7 DEF Good
<1>9. Good(t) /\ t.ret = 1 /\ t.pin = v.pin /\ t.slice = v.slice /\ t.function = v.function
  BY <1>4, <1>8, Answered, GoodSame
<1>10. QED
  BY <1>2, <1>3, <1>4, <1>5, <1>9 DEF Changed, SameTables, SamePins, p

(* The level of a changed pin is programmed anew, that of its neighbour    *)
(* stays.                                                                  *)
Levels(s) ==
  \A h \in Pins : s.pin[h].configured => s.hw[SliceOf(h)].level[Channel(h)] = LevelOf(s, h)
Switched(s, j) ==
  /\ s.hw[j].on <=> On(s, j)
  /\ \A c \in Channels : s.hw[j].inverted[c] <=> Inverted(s, j, c)

LEMMA ProgrammedParts ==
  ASSUME NEW s PROVE Programmed(s) <=> Levels(s) /\ \A j \in Index : Switched(s, j)
  BY DEF Programmed, Levels, Switched

LEMMA SwitchedElsewhere ==
  ASSUME NEW s, NEW v, Tables(s), Programmed(s), NEW g \in Pins, SamePins(s, v, g),
         NEW j \in Index, j # SliceOf(g), v.slice[j] = s.slice[j], v.hw[j] = s.hw[j]
  PROVE  Switched(v, j)
<1>1. /\ On(v, j) <=> On(s, j)
      /\ \A c \in Channels : Inverted(v, j, c) <=> Inverted(s, j, c)
  BY OtherSlices
<1>2. QED BY <1>1 DEF Switched, Programmed

LEMMA Relevelled ==
  ASSUME NEW s, Good(s), NEW g \in Pins, s.pin[g].configured,
         NEW u, PwmTyped(u), u.hw = s.hw, u.slice = s.slice, u.function = s.function,
         SamePins(s, u, g), u.pin[g].configured
  PROVE  LET v == ApplyDuty(u, g)
             i == SliceOf(g)
         IN /\ PwmTyped(v) /\ Tables(v) /\ Clocked(v) /\ Levels(v)
            /\ v.pin = u.pin /\ v.slice = s.slice /\ v.function = s.function
            /\ v.ret = u.ret
            /\ v.hw[i].on = s.hw[i].on /\ v.hw[i].inverted = s.hw[i].inverted
            /\ \A j \in Index : j # i => Switched(v, j)
<1> DEFINE v == ApplyDuty(u, g)
           i == SliceOf(g)
           c == Channel(g)
<1>0. /\ PwmTyped(s) /\ Tables(s) /\ Clocked(s) /\ Programmed(s)
      /\ i \in Index /\ c \in Channels
  BY Places DEF Good
<1>1. /\ PwmTyped(v) /\ SameTables(u, v) /\ Elsewhere(u, v, i) /\ SameRate(u, v, i)
      /\ v.hw[i].on = u.hw[i].on /\ v.hw[i].inverted = u.hw[i].inverted
      /\ v.hw[i].level[c] = LevelOf(u, g) /\ v.hw[i].level[1 - c] = u.hw[i].level[1 - c]
  BY DutyApplied
<1> HIDE DEF v, i, c
<1>2. SamePins(s, v, g) /\ v.slice = s.slice /\ v.function = s.function
  BY <1>1 DEF SameTables, SamePins
<1>3. Tables(v) BY <1>0, <1>1, <1>2, TablesKept DEF SameTables
<1>4. \A j \in Index : SameRate(s, v, j) BY <1>1 DEF SameRate, Elsewhere
<1>5. Clocked(v) BY <1>0, <1>2, <1>4, ClockedKept
<1>6. ASSUME NEW h \in Pins, v.pin[h].configured
      PROVE  v.hw[SliceOf(h)].level[Channel(h)] = LevelOf(v, h)
  <2>1. CASE h = g
    BY <1>1, <2>1 DEF LevelOf, SameTables, SameRate, i, c
  <2>2. CASE h # g
    <3>1. v.pin[h] = s.pin[h] /\ s.pin[h].configured /\ SliceOf(h) \in Index
      BY <1>2, <1>6, <2>2, Places DEF SamePins
    <3>2. s.hw[SliceOf(h)].level[Channel(h)] = LevelOf(s, h)
      BY <1>0, <3>1 DEF Programmed
    <3>3. LevelOf(v, h) = LevelOf(s, h)
      BY <1>4, <3>1 DEF LevelOf, SameRate
    <3>4. CASE SliceOf(h) = i
      <4>1. Channel(h) = 1 - c BY <1>0, <2>2, <3>1, <3>4, Apart DEF i, c
      <4>2. QED BY <1>1, <3>2, <3>3, <3>4, <4>1
    <3>5. CASE SliceOf(h) # i BY <1>1, <3>1, <3>2, <3>3, <3>5 DEF Elsewhere
    <3>6. QED BY <3>4, <3>5
  <2>3. QED BY <2>1, <2>2
<1>7. ASSUME NEW j \in Index, j # i PROVE Switched(v, j)
  <2>1. v.hw[j] = s.hw[j] BY <1>1, <1>7 DEF Elsewhere
  <2>2. QED BY <1>0, <1>2, <1>7, <2>1, SwitchedElsewhere DEF i
<1>8. QED BY <1>1, <1>2, <1>3, <1>5, <1>6, <1>7 DEF Levels, SameTables, v, i

LEMMA DutySet ==
  ASSUME NEW s, Good(s), NEW g \in Pins, s.pin[g].configured, NEW duty \in Nat
  PROVE  Changed(s, SetPinDuty(s, g, duty), g, [s.pin[g] EXCEPT !.duty = duty])
<1> DEFINE i == SliceOf(g)
           p == [s.pin[g] EXCEPT !.duty = duty]
           u == Repin(s, g, p)
           v == ApplyDuty(u, g)
           t == Returns(v, 1)
<1>0. PwmTyped(s) /\ Tables(s) /\ Programmed(s) /\ i \in Index
  BY Places DEF Good
<1>1. /\ p \in PinRecord /\ p.configured /\ p.enabled = s.pin[g].enabled
      /\ p.inverted = s.pin[g].inverted
  BY <1>0, Fields DEF PinRecord
<1>2. SetPinDuty(s, g, duty) = t
  <2>1. u = [s EXCEPT !.pin[g].duty = duty] BY DEF Repin
  <2>2. QED BY <2>1 DEF SetPinDuty
<1>3. /\ PwmTyped(u) /\ u.hw = s.hw /\ u.slice = s.slice /\ u.function = s.function
      /\ u.pin[g] = p /\ SamePins(s, u, g)
  <2> HIDE DEF p
  <2>1. QED BY <1>0, <1>1, Repinned
<1> HIDE DEF i, p, u
<1>4. /\ PwmTyped(v) /\ Tables(v) /\ Clocked(v) /\ Levels(v)
      /\ v.pin = u.pin /\ v.slice = s.slice /\ v.function = s.function
      /\ v.hw[i].on = s.hw[i].on /\ v.hw[i].inverted = s.hw[i].inverted
      /\ \A j \in Index : j # i => Switched(v, j)
  BY <1>1, <1>3, Relevelled DEF i
<1> HIDE DEF v
<1>5. ASSUME NEW h \in Pins
      PROVE  v.pin[h].enabled = s.pin[h].enabled /\ v.pin[h].inverted = s.pin[h].inverted
  <2>1. v.pin[h] = IF h = g THEN p ELSE s.pin[h] BY <1>3, <1>4 DEF SamePins
  <2>2. CASE h = g BY <1>1, <2>1, <2>2
  <2>3. CASE h # g BY <2>1, <2>3
  <2>4. QED BY <2>2, <2>3
<1>6. Switched(v, i)
  <2>1. ASSUME NEW c \in Channels, s.slice[i].used[c] PROVE s.slice[i].pin[c] \in Pins
    BY <1>0, <2>1 DEF Tables
  <2>2. On(v, i) <=> On(s, i) BY <1>4, <1>5, <2>1 DEF On
  <2>3. \A c \in Channels : Inverted(v, i, c) <=> Inverted(s, i, c)
    BY <1>4, <1>5, <2>1 DEF Inverted
  <2>4. QED BY <1>0, <1>4, <2>2, <2>3 DEF Switched, Programmed
<1>7. Good(v) BY <1>4, <1>6, ProgrammedParts DEF Good
<1>8. Good(t) /\ t.ret = 1 /\ t.pin = v.pin /\ t.slice = v.slice /\ t.function = v.function
  BY <1>4, <1>7, Answered, GoodSame
<1>9. QED BY <1>2, <1>3, <1>4, <1>8 DEF Changed, SamePins, p

LEMMA EnabledSet ==
  ASSUME NEW s, Good(s), NEW g \in Pins, s.pin[g].configured, NEW b \in BOOLEAN
  PROVE  Changed(s, SetPinEnabled(s, g, b), g, [s.pin[g] EXCEPT !.enabled = b])
<1> DEFINE i == SliceOf(g)
           p == [s.pin[g] EXCEPT !.enabled = b]
           u == Repin(s, g, p)
           v == ApplyDuty(u, g)
           x == UpdateEnabled(v, i)
           t == Returns(x, 1)
<1>0. PwmTyped(s) /\ Tables(s) /\ Programmed(s) /\ i \in Index
  BY Places DEF Good
<1>1. p \in PinRecord /\ p.configured /\ p.inverted = s.pin[g].inverted
  BY <1>0, Fields DEF PinRecord
<1>2. SetPinEnabled(s, g, b) = t
  <2>1. u = [s EXCEPT !.pin[g].enabled = b] BY DEF Repin
  <2>2. QED BY <2>1 DEF SetPinEnabled
<1>3. /\ PwmTyped(u) /\ u.hw = s.hw /\ u.slice = s.slice /\ u.function = s.function
      /\ u.pin[g] = p /\ SamePins(s, u, g)
  <2> HIDE DEF p
  <2>1. QED BY <1>0, <1>1, Repinned
<1> HIDE DEF p, u
<1>4. /\ PwmTyped(v) /\ Tables(v) /\ Clocked(v) /\ Levels(v)
      /\ v.pin = u.pin /\ v.slice = s.slice /\ v.function = s.function
      /\ v.hw[i].inverted = s.hw[i].inverted
      /\ \A j \in Index : j # i => Switched(v, j)
  BY <1>1, <1>3, Relevelled
<1> HIDE DEF v, i
<1>5. /\ PwmTyped(x) /\ SameTables(v, x) /\ Elsewhere(v, x, i) /\ SameRate(v, x, i)
      /\ x.hw[i].level = v.hw[i].level /\ x.hw[i].inverted = v.hw[i].inverted
      /\ x.hw[i].on <=> On(v, i)
  BY <1>0, <1>4, EnabledUpdated
<1> HIDE DEF x
<1>6. \A j \in Index : /\ SameRate(v, x, j) /\ x.hw[j].level = v.hw[j].level
                       /\ x.hw[j].inverted = v.hw[j].inverted
  BY <1>5 DEF Elsewhere, SameRate
<1>7. Tables(x) /\ Clocked(x)
  BY <1>4, <1>5, <1>6, ClockedKept DEF SameTables, Tables, Holder
<1>8. Levels(x)
  BY <1>4, <1>5, <1>6, Places DEF Levels, LevelOf, SameTables, SameRate
<1>9. Switched(x, i)
  <2>1. ASSUME NEW h \in Pins PROVE x.pin[h].inverted = s.pin[h].inverted
    <3>1. x.pin[h] = IF h = g THEN p ELSE s.pin[h]
      BY <1>3, <1>4, <1>5 DEF SamePins, SameTables
    <3>2. CASE h = g BY <1>1, <3>1, <3>2
    <3>3. CASE h # g BY <3>1, <3>3
    <3>4. QED BY <3>2, <3>3
  <2>2. \A c \in Channels : Inverted(x, i, c) <=> Inverted(s, i, c)
    BY <1>0, <1>4, <1>5, <2>1 DEF Inverted, SameTables, Tables
  <2>3. x.hw[i].on <=> On(x, i) BY <1>5 DEF On, SameTables
  <2>4. QED BY <1>0, <1>4, <1>5, <2>2, <2>3 DEF Switched, Programmed
<1>10. ASSUME NEW j \in Index, j # i PROVE Switched(x, j)
  BY <1>4, <1>5, <1>10 DEF Switched, On, Inverted, SameTables, Elsewhere
<1>11. Good(x) BY <1>5, <1>7, <1>8, <1>9, <1>10, ProgrammedParts DEF Good
<1>12. Good(t) /\ t.ret = 1 /\ t.pin = x.pin /\ t.slice = x.slice /\ t.function = x.function
  BY <1>5, <1>11, Answered, GoodSame
<1>13. QED BY <1>2, <1>3, <1>4, <1>5, <1>12 DEF Changed, SamePins, SameTables, p

-----------------------------------------------------------------------------
(* The tables of a slice and of one of its pins are written together.      *)
Retable(s, i, x, g, place, p) ==
  [s EXCEPT !.slice[i] = x, !.function[g] = place, !.pin[g] = p]

LEMMA Retabled ==
  ASSUME NEW s, PwmTyped(s), NEW i \in Index, NEW g \in Pins, NEW x \in SliceRecord,
         NEW place \in Functions, NEW p \in PinRecord
  PROVE  LET t == Retable(s, i, x, g, place, p)
         IN /\ PwmTyped(t) /\ t.hw = s.hw /\ t.ret = s.ret
            /\ t.slice[i] = x /\ \A j \in Index : j # i => t.slice[j] = s.slice[j]
            /\ t.pin[g] = p /\ SamePins(s, t, g)
            /\ t.function[g] = place
            /\ \A h \in Pins : h # g => t.function[h] = s.function[h]
<1> DEFINE t == Retable(s, i, x, g, place, p)
<1> USE DEF Retable
<1>1. /\ t.slice = [s.slice EXCEPT ![i] = x] /\ t.pin = [s.pin EXCEPT ![g] = p]
      /\ t.function = [s.function EXCEPT ![g] = place] /\ t.hw = s.hw /\ t.ret = s.ret
  BY DEF PwmTyped
<1>2. PwmTyped(t) BY <1>1 DEF PwmTyped
<1>3. QED BY <1>1, <1>2 DEF PwmTyped, SamePins

(* The tables still agree when only the entries of g change.               *)
Rest(s, t, g) ==
  LET i == SliceOf(g)
      c == 1 - Channel(g)
  IN /\ SamePins(s, t, g)
     /\ \A h \in Pins : h # g => t.function[h] = s.function[h]
     /\ \A j \in Index : j # i => t.slice[j] = s.slice[j]
     /\ t.slice[i].used[c] = s.slice[i].used[c]
     /\ t.slice[i].pin[c] = s.slice[i].pin[c]
Own(t, g) ==
  LET i == SliceOf(g)
      c == Channel(g)
  IN /\ t.slice[i].used[c] => t.slice[i].pin[c] = g
     /\ t.pin[g].configured <=> t.slice[i].used[c]
     /\ t.pin[g].configured <=> t.function[g] = "pwm"
     /\ ~t.pin[g].configured => t.pin[g] = NoPin

LEMMA TablesChanged ==
  ASSUME NEW s, NEW t, Tables(s), NEW g \in Pins, Rest(s, t, g), Own(t, g),
         s.slice[SliceOf(g)].used[Channel(g)] => s.slice[SliceOf(g)].pin[Channel(g)] = g
  PROVE  Tables(t)
<1> DEFINE i == SliceOf(g)
           c == Channel(g)
<1>0. /\ i \in Index /\ c \in Channels /\ 1 - c \in Channels /\ 1 - c # c
      /\ \A d \in Channels : d = c \/ d = 1 - c
  BY Places
<1>1. ASSUME NEW h \in Pins
      PROVE  /\ t.pin[h].configured <=> Holder(t, h)
             /\ t.pin[h].configured <=> t.function[h] = "pwm"
             /\ ~t.pin[h].configured => t.pin[h] = NoPin
  <2>1. CASE h = g BY <2>1 DEF Own, Holder
  <2>2. CASE h # g
    <3>0. t.pin[h] = s.pin[h] /\ t.function[h] = s.function[h]
      BY <2>2 DEF Rest, SamePins
    <3>1. CASE SliceOf(h) # i
      BY <2>2, <3>0, <3>1, Places DEF Rest, Tables, Holder
    <3>2. CASE SliceOf(h) = i /\ Channel(h) = 1 - c
      BY <2>2, <3>0, <3>2 DEF Rest, Tables, Holder
    <3>3. CASE SliceOf(h) = i /\ Channel(h) = c
      BY <2>2, <3>0, <3>3 DEF Own, Tables, Holder
    <3>4. QED BY <1>0, <3>1, <3>2, <3>3, Places
  <2>3. QED BY <2>1, <2>2
<1>2. ASSUME NEW j \in Index, NEW d \in Channels, t.slice[j].used[d]
      PROVE  LET h == t.slice[j].pin[d] IN h \in Pins /\ SliceOf(h) = j /\ Channel(h) = d
  <2>1. CASE j # i BY <1>2, <2>1 DEF Rest, Tables
  <2>2. CASE j = i /\ d = c BY <1>2, <2>2 DEF Own
  <2>3. CASE j = i /\ d = 1 - c BY <1>0, <1>2, <2>3 DEF Rest, Tables
  <2>4. QED BY <1>0, <2>1, <2>2, <2>3
<1>3. QED BY <1>1, <1>2 DEF Tables

LEMMA LevelsKept ==
  ASSUME NEW s, NEW t, Levels(s), NEW g \in Pins, SamePins(s, t, g),
         t.pin[g].configured => t.hw[SliceOf(g)].level[Channel(g)] = LevelOf(t, g),
         \A h \in Pins : h # g /\ s.pin[h].configured =>
           /\ t.hw[SliceOf(h)].level[Channel(h)] = s.hw[SliceOf(h)].level[Channel(h)]
           /\ t.hw[SliceOf(h)].period = s.hw[SliceOf(h)].period
  PROVE  Levels(t)
<1>1. ASSUME NEW h \in Pins, t.pin[h].configured
      PROVE  t.hw[SliceOf(h)].level[Channel(h)] = LevelOf(t, h)
  <2>1. CASE h # g
    <3>1. t.pin[h] = s.pin[h] /\ s.pin[h].configured BY <1>1, <2>1 DEF SamePins
    <3>2. LevelOf(t, h) = LevelOf(s, h) BY <2>1, <3>1 DEF LevelOf
    <3>3. QED BY <2>1, <3>1, <3>2 DEF Levels
  <2>2. CASE h = g BY <1>1, <2>2
  <2>3. QED BY <2>1, <2>2
<1>2. QED BY <1>1 DEF Levels

-----------------------------------------------------------------------------
(* A call that is refused leaves the state; another one keeps the wave of  *)
(* every other pin.                                                        *)
Untouched(s, t) ==
  /\ t.pin = s.pin /\ t.slice = s.slice /\ t.hw = s.hw /\ t.function = s.function
  /\ t.ret = 0 /\ Good(t)
OthersKept(s, t, g) == \A h \in Pins : h # g => Wave(t, h) = Wave(s, h)

LEMMA WavesKept ==
  ASSUME NEW s, NEW t, NEW g \in Pins, Rest(s, t, g),
         \A h \in Pins : h # g /\ s.pin[h].configured /\ SliceOf(h) = SliceOf(g) =>
           t.slice[SliceOf(g)].requested = s.slice[SliceOf(g)].requested
  PROVE  OthersKept(s, t, g)
<1>1. ASSUME NEW h \in Pins, h # g, s.pin[h].configured
      PROVE  t.slice[SliceOf(h)].requested = s.slice[SliceOf(h)].requested
  <2>1. CASE SliceOf(h) = SliceOf(g) BY <1>1, <2>1
  <2>2. CASE SliceOf(h) # SliceOf(g) BY <2>2, Places DEF Rest
  <2>3. QED BY <2>1, <2>2
<1>2. ASSUME NEW h \in Pins, h # g PROVE Wave(t, h) = Wave(s, h)
  <2>1. t.pin[h] = s.pin[h] BY <1>2 DEF Rest, SamePins
  <2>2. CASE s.pin[h].configured BY <1>1, <1>2, <2>1, <2>2 DEF Wave
  <2>3. CASE ~s.pin[h].configured BY <2>1, <2>3 DEF Wave
  <2>4. QED BY <2>2, <2>3
<1>3. QED BY <1>2 DEF OthersKept

LEMMA Refused == ASSUME NEW s, Good(s) PROVE Untouched(s, Returns(s, 0))
  BY Answered, GoodSame DEF Good, Untouched

LEMMA InUseClocked ==
  ASSUME NEW s, Good(s), Reachable, NEW i \in Index
  PROVE  /\ InUse(s, i) =>
              /\ s.slice[i].requested \in Frequencies
              /\ s.slice[i].frequency = Achieved(s.slice[i].requested)
              /\ s.hw[i].divider = Divider(s.slice[i].requested)
              /\ s.hw[i].period = Period(s.slice[i].requested)
         /\ ~InUse(s, i) => s.slice[i].requested = 0
         /\ s.slice[i].frequency # 0 <=> InUse(s, i)
  BY DEF Good, Clocked, Reachable

(* bmx_pico_pwm_set_pin_frequency: refused while the other channel has     *)
(* another frequency.                                                      *)
LEMMA FrequencyAsked ==
  ASSUME NEW s, Good(s), Reachable, NEW g \in Pins, s.pin[g].configured,
         NEW f \in Frequencies, NEW r, r = SetPinFrequency(s, g, f)
  PROVE  \/ Untouched(s, r)
         \/ /\ r.ret # 0 /\ Good(r) /\ r.pin = s.pin
            /\ r.slice[SliceOf(g)].requested = f /\ OthersKept(s, r, g)
<1> DEFINE i == SliceOf(g)
           c == Channel(g)
           a == SetFrequency(s, i, f)
<1>0. /\ PwmTyped(s) /\ Tables(s) /\ Clocked(s) /\ Programmed(s)
      /\ i \in Index /\ c \in Channels /\ 1 - c \in Channels /\ 1 - c # c
      /\ \A d \in Channels : d = c \/ d = 1 - c
  BY Places DEF Good
<1>1. s.slice[i].used[c] /\ s.slice[i].pin[c] = g /\ s.function[g] = "pwm" /\ InUse(s, i)
  BY <1>0 DEF Tables, Holder, InUse
<1>2. CASE s.slice[i].used[1 - c] /\ s.slice[i].requested # f
  <2>1. r = Returns(s, 0) BY <1>2 DEF SetPinFrequency, OtherUsed
  <2>2. QED BY <2>1, Refused
<1>3. CASE s.slice[i].requested = f
  <2>1. r = Returns(s, s.slice[i].frequency) BY <1>3 DEF SetPinFrequency
  <2>2. s.slice[i].frequency \in Int /\ s.slice[i].frequency # 0
    BY <1>0, <1>1, Fields, InUseClocked DEF SliceRecord
  <2>3. /\ PwmTyped(r) /\ r.ret # 0
        /\ r.pin = s.pin /\ r.slice = s.slice /\ r.hw = s.hw /\ r.function = s.function
    BY <1>0, <2>1, <2>2, Answered
  <2>4. Good(r) BY <2>3, GoodSame
  <2>5. OthersKept(s, r, g) BY <2>3 DEF OthersKept, Wave
  <2>6. QED BY <1>3, <2>3, <2>4, <2>5
<1>4. CASE ~s.slice[i].used[1 - c] /\ s.slice[i].requested # f
  <2>1. /\ PwmTyped(a) /\ a.ret = Achieved(f) /\ a.ret # 0
        /\ a.pin = s.pin /\ a.slice = s.slice /\ a.function = s.function
        /\ Elsewhere(s, a, i)
        /\ a.hw[i].divider = Divider(f) /\ a.hw[i].period = Period(f)
        /\ a.hw[i].on = s.hw[i].on /\ a.hw[i].inverted = s.hw[i].inverted
    BY <1>0, FrequencySet DEF Reachable
  <2> DEFINE x == [a.slice[i] EXCEPT !.requested = f, !.frequency = a.ret]
             b == Retable(a, i, x, g, a.function[g], a.pin[g])
             v == ApplyDuty(b, g)
  <2>2. b = [a EXCEPT !.slice[i].requested = f, !.slice[i].frequency = a.ret]
    <3>1. /\ [a.function EXCEPT ![g] = a.function[g]] = a.function
          /\ [a.pin EXCEPT ![g] = a.pin[g]] = a.pin
      BY <2>1, Fields
    <3>2. b = [a EXCEPT !.slice[i] = x] BY <2>1, <3>1 DEF Retable, PwmTyped
    <3>3. QED BY <3>2
  <2>3. r = Rescale(b, g)
    <3> HIDE DEF b, a
    <3>1. QED BY <1>4, <2>1, <2>2 DEF SetPinFrequency, OtherUsed, a
  <2>4. /\ x \in SliceRecord /\ x.used = s.slice[i].used /\ x.pin = s.slice[i].pin
        /\ x.requested = f /\ x.frequency = Achieved(f)
        /\ a.function[g] \in Functions /\ a.pin[g] \in PinRecord
    <3>1. a.slice[i] \in SliceRecord /\ a.slice[i] = s.slice[i] BY <1>0, <2>1, Fields
    <3>2. f \in Nat /\ a.ret \in Int /\ a.ret = Achieved(f) BY <2>1, FrequencyTypes
    <3>3. a.function[g] \in Functions /\ a.pin[g] \in PinRecord BY <2>1, Fields
    <3> HIDE DEF a
    <3>4. QED BY <3>1, <3>2, <3>3 DEF SliceRecord
  <2>5. /\ PwmTyped(b) /\ b.hw = a.hw
        /\ b.slice[i] = x /\ \A j \in Index : j # i => b.slice[j] = s.slice[j]
        /\ b.pin = s.pin /\ b.function = s.function
    <3> HIDE DEF x, a
    <3>1. /\ PwmTyped(b) /\ b.hw = a.hw /\ b.slice[i] = x
          /\ \A j \in Index : j # i => b.slice[j] = a.slice[j]
          /\ b.pin[g] = a.pin[g] /\ SamePins(a, b, g) /\ b.function[g] = a.function[g]
          /\ \A h \in Pins : h # g => b.function[h] = a.function[h]
      BY <1>0, <2>1, <2>4, Retabled
    <3> HIDE DEF b
    <3>2. b.pin = a.pin /\ b.function = a.function
      BY <2>1, <3>1, Fields DEF SamePins
    <3>3. QED BY <2>1, <3>1, <3>2
  <2> HIDE DEF x, b
  <2>6. r = v
    <3>1. b.slice[i].used[c] /\ b.slice[i].pin[c] = g /\ ~b.slice[i].used[1 - c]
      BY <1>1, <1>4, <2>4, <2>5
    <3>2. c = 0 \/ c = 1 BY <1>0 DEF Channels
    <3>3. CASE c = 0 BY <2>3, <3>1, <3>3 DEF Rescale
    <3>4. CASE c = 1 BY <2>3, <3>1, <3>4 DEF Rescale
    <3>5. QED BY <3>2, <3>3, <3>4
  <2>7. /\ PwmTyped(v) /\ SameTables(b, v) /\ Elsewhere(b, v, i) /\ SameRate(b, v, i)
        /\ v.hw[i].on = b.hw[i].on /\ v.hw[i].inverted = b.hw[i].inverted
        /\ v.hw[i].level[c] = LevelOf(b, g)
    BY <2>5, DutyApplied
  <2> HIDE DEF v, a
  <2>8. /\ v.pin = s.pin /\ v.function = s.function /\ v.slice[i] = x
        /\ \A j \in Index : j # i => v.slice[j] = s.slice[j] /\ v.hw[j] = s.hw[j]
        /\ v.hw[i].divider = Divider(f) /\ v.hw[i].period = Period(f)
        /\ v.hw[i].on = s.hw[i].on /\ v.hw[i].inverted = s.hw[i].inverted
        /\ v.hw[i].level[c] = LevelOf(v, g) /\ v.ret = b.ret
    BY <2>1, <2>5, <2>7 DEF SameTables, Elsewhere, SameRate, LevelOf
  <2>9. ASSUME NEW h \in Pins, h # g, s.pin[h].configured PROVE SliceOf(h) # i
    BY <1>0, <1>1, <1>4, <2>9, Apart DEF Tables, Holder
  <2>10. Rest(s, v, g) /\ Own(v, g)
    BY <1>0, <1>1, <2>4, <2>8 DEF Rest, Own, SamePins, Tables, Holder
  <2>11. Tables(v) BY <1>0, <1>1, <2>10, TablesChanged
  <2>12. Clocked(v)
    <3>1. ASSUME NEW j \in Index, j # i
          PROVE  v.slice[j] = s.slice[j] /\ v.hw[j] = s.hw[j]
      BY <2>8, <3>1
    <3>2. /\ v.slice[i].requested = f /\ v.slice[i].frequency = Achieved(f)
          /\ v.slice[i].used[c]
      BY <1>1, <2>4, <2>8
    <3>3. QED BY <1>0, <2>8, <3>1, <3>2 DEF Clocked, InUse
  <2>13. Levels(v)
    <3>1. ASSUME NEW h \in Pins, h # g, s.pin[h].configured
          PROVE  v.hw[SliceOf(h)] = s.hw[SliceOf(h)]
      BY <2>8, <2>9, <3>1, Places
    <3>2. QED BY <1>0, <2>8, <2>10, <3>1, LevelsKept, ProgrammedParts DEF Rest
  <2>14. ASSUME NEW j \in Index PROVE Switched(v, j)
    <3>1. CASE j = i
      BY <1>0, <2>4, <2>8, <3>1 DEF Switched, On, Inverted, Programmed
    <3>2. CASE j # i
      BY <1>0, <2>8, <2>10, <3>2, SwitchedElsewhere DEF Rest
    <3>3. QED BY <3>1, <3>2
  <2>15. Good(v) BY <2>7, <2>11, <2>12, <2>13, <2>14, ProgrammedParts DEF Good
  <2>16. OthersKept(s, v, g) BY <2>9, <2>10, WavesKept
  <2>17. v.ret # 0 
    <3>1. v.ret = a.ret BY <2>2, <2>7, <2>1 DEF SameTables, PwmTyped
    <3>2. QED BY <2>1, <3>1
  <2>18. QED BY <2>4, <2>6, <2>8, <2>15, <2>16, <2>17
<1>5. QED BY <1>2, <1>3, <1>4

-----------------------------------------------------------------------------
LEMMA Resettled ==
  ASSUME NEW s, PwmTyped(s), NEW i \in Index,
         NEW r, r = UpdateEnabled(ApplyPolarity(s, i), i)
  PROVE  /\ PwmTyped(r) /\ SameTables(s, r) /\ Elsewhere(s, r, i) /\ SameRate(s, r, i)
         /\ r.hw[i].level = s.hw[i].level /\ Switched(r, i)
<1> DEFINE a == ApplyPolarity(s, i)
<1>1. /\ PwmTyped(a) /\ SameTables(s, a) /\ Elsewhere(s, a, i) /\ SameRate(s, a, i)
      /\ a.hw[i].level = s.hw[i].level
      /\ \A c \in Channels : a.hw[i].inverted[c] <=> Inverted(s, i, c)
  BY PolarityApplied
<1>2. r = UpdateEnabled(a, i) OBVIOUS
<1> HIDE DEF a
<1>3. /\ PwmTyped(r) /\ SameTables(a, r) /\ Elsewhere(a, r, i) /\ SameRate(a, r, i)
      /\ r.hw[i].level = a.hw[i].level /\ r.hw[i].inverted = a.hw[i].inverted
      /\ r.hw[i].on <=> On(a, i)
  BY <1>1, <1>2, EnabledUpdated
<1>4. /\ r.hw[i].on <=> On(r, i)
      /\ \A c \in Channels : r.hw[i].inverted[c] <=> Inverted(r, i, c)
  BY <1>1, <1>3 DEF On, Inverted, SameTables
<1>5. QED
  BY <1>1, <1>3, <1>4 DEF SameTables, Elsewhere, SameRate, Switched

LEMMA Settled ==
  ASSUME NEW s, PwmTyped(s), NEW g \in Pins, NEW i, i = SliceOf(g), NEW c, c = Channel(g),
         NEW r, r = UpdateEnabled(ApplyDuty(ApplyPolarity(s, i), g), i)
  PROVE  /\ PwmTyped(r) /\ SameTables(s, r) /\ Elsewhere(s, r, i) /\ SameRate(s, r, i)
         /\ r.hw[i].level[c] = LevelOf(r, g) /\ r.hw[i].level[1 - c] = s.hw[i].level[1 - c]
         /\ Switched(r, i)
<1> DEFINE a == ApplyPolarity(s, i)
           b == ApplyDuty(a, g)
<1>0. i \in Index BY Places
<1>1. /\ PwmTyped(a) /\ SameTables(s, a) /\ Elsewhere(s, a, i) /\ SameRate(s, a, i)
      /\ a.hw[i].level = s.hw[i].level
      /\ \A d \in Channels : a.hw[i].inverted[d] <=> Inverted(s, i, d)
  BY <1>0, PolarityApplied
<1> HIDE DEF a
<1>2. /\ PwmTyped(b) /\ SameTables(a, b) /\ Elsewhere(a, b, i) /\ SameRate(a, b, i)
      /\ b.hw[i].inverted = a.hw[i].inverted
      /\ b.hw[i].level[c] = LevelOf(a, g) /\ b.hw[i].level[1 - c] = a.hw[i].level[1 - c]
  BY <1>1, DutyApplied
<1>3. r = UpdateEnabled(b, i) BY DEF a
<1> HIDE DEF b
<1>4. /\ PwmTyped(r) /\ SameTables(b, r) /\ Elsewhere(b, r, i) /\ SameRate(b, r, i)
      /\ r.hw[i].level = b.hw[i].level /\ r.hw[i].inverted = b.hw[i].inverted
      /\ r.hw[i].on <=> On(b, i)
  BY <1>0, <1>2, <1>3, EnabledUpdated
<1>5. /\ r.hw[i].on <=> On(r, i)
      /\ \A d \in Channels : r.hw[i].inverted[d] <=> Inverted(r, i, d)
  <2>1. r.pin = s.pin /\ r.slice = s.slice /\ b.pin = s.pin /\ b.slice = s.slice
    BY <1>1, <1>2, <1>4 DEF SameTables
  <2>2. r.hw[i].on <=> On(r, i) BY <1>4, <2>1 DEF On
  <2>3. ASSUME NEW d \in Channels PROVE r.hw[i].inverted[d] <=> Inverted(r, i, d)
    BY <1>1, <1>2, <1>4, <2>1 DEF Inverted
  <2>4. QED BY <2>2, <2>3
<1>6. LevelOf(r, g) = LevelOf(a, g)
  BY <1>2, <1>4 DEF LevelOf, SameTables, SameRate
<1>7. QED
  BY <1>1, <1>2, <1>4, <1>5, <1>6 DEF SameTables, Elsewhere, SameRate, Switched

(* bmx_pico_pwm_deinit_pin. *)
LEMMA Released ==
  ASSUME NEW s, Good(s), NEW g \in Pins, s.pin[g].configured,
         NEW r, r = Release(s, g)
  PROVE  r.ret = 1 /\ Good(r) /\ Wave(r, g) = NoWave /\ OthersKept(s, r, g)
<1> DEFINE i == SliceOf(g)
           c == Channel(g)
           other == s.slice[i].used[1 - c]
<1>0. /\ PwmTyped(s) /\ Tables(s) /\ Clocked(s) /\ Programmed(s)
      /\ i \in Index /\ c \in Channels /\ 1 - c \in Channels /\ 1 - c # c
      /\ \A d \in Channels : d = c \/ d = 1 - c
  BY Places DEF Good
<1>1. s.slice[i].used[c] /\ s.slice[i].pin[c] = g /\ InUse(s, i)
  BY <1>0 DEF Tables, Holder, InUse
<1> DEFINE r0 == [s.hw[i] EXCEPT !.level[c] = 0]
           a == Rewrite(s, i, r0)
           x == [s.slice[i] EXCEPT !.used[c] = FALSE]
           b == Retable(a, i, x, g, s.function[g], NoPin)
           u == UpdateEnabled(ApplyPolarity(b, i), i)
           v == IF other THEN u
                ELSE [u EXCEPT !.slice[i].frequency = 0, !.slice[i].requested = 0]
           y == IF other THEN x ELSE [x EXCEPT !.frequency = 0, !.requested = 0]
           w == Retable(u, i, y, g, "sio", NoPin)
<1>2. /\ r0 \in Registers /\ r0.divider = s.hw[i].divider /\ r0.period = s.hw[i].period
      /\ r0.level[1 - c] = s.hw[i].level[1 - c]
  <2>1. s.hw[i] \in Registers BY <1>0, Fields
  <2> HIDE DEF i, c
  <2>2. QED BY <1>0, <2>1 DEF Registers
<1>3. /\ x \in SliceRecord /\ ~x.used[c] /\ x.used[1 - c] = other
      /\ x.pin = s.slice[i].pin /\ x.requested = s.slice[i].requested
      /\ x.frequency = s.slice[i].frequency
  <2>1. s.slice[i] \in SliceRecord BY <1>0, Fields
  <2> HIDE DEF i, c
  <2>2. QED BY <1>0, <2>1 DEF SliceRecord
<1>4. NoPin \in PinRecord /\ "sio" \in Functions /\ s.function[g] \in Functions
  BY <1>0, Fields DEF NoPin, PinRecord, Functions
<1>5. /\ PwmTyped(a) /\ SameTables(s, a) /\ Elsewhere(s, a, i) /\ a.hw[i] = r0
  <2> HIDE DEF r0
  <2>1. QED BY <1>0, <1>2, Rewritten
<1>6. b = [s EXCEPT !.hw[i].level[c] = 0, !.pin[g] = NoPin, !.slice[i].used[c] = FALSE]
  <2>1. a = [s EXCEPT !.hw[i].level[c] = 0] BY DEF Rewrite
  <2>2. [a.function EXCEPT ![g] = s.function[g]] = a.function
    BY <1>0, <1>5, Fields DEF SameTables
  <2>3. b = [a EXCEPT !.pin[g] = NoPin, !.slice[i] = x]
    <3> HIDE DEF a, x
    <3>1. QED BY <1>5, <2>2 DEF Retable, PwmTyped
  <2>4. QED BY <1>0, <2>1, <2>3, <1>5 DEF PwmTyped, SameTables
<1>7. /\ PwmTyped(b) /\ b.hw = a.hw /\ b.slice[i] = x
      /\ \A j \in Index : j # i => b.slice[j] = s.slice[j]
      /\ b.pin[g] = NoPin /\ SamePins(s, b, g)
      /\ \A h \in Pins : h # g => b.function[h] = s.function[h]
  <2> HIDE DEF a, x
  <2>1. QED BY <1>0, <1>3, <1>4, <1>5, Retabled DEF SameTables, SamePins
<1> HIDE DEF a, b
<1>8. /\ PwmTyped(u) /\ SameTables(b, u) /\ Elsewhere(b, u, i) /\ SameRate(b, u, i)
      /\ u.hw[i].level = b.hw[i].level /\ Switched(u, i)
  BY <1>0, <1>7, Resettled
<1>9. r = Returns([v EXCEPT !.function[g] = "sio"], 1)
  <2> DEFINE b0 == [s EXCEPT !.hw[i].level[c] = 0, !.pin[g] = NoPin,
                             !.slice[i].used[c] = FALSE]
             u0 == UpdateEnabled(ApplyPolarity(b0, i), i)
             v0 == IF other THEN u0
                   ELSE [u0 EXCEPT !.slice[i].frequency = 0, !.slice[i].requested = 0]
  <2>1. r = Returns([v0 EXCEPT !.function[g] = "sio"], 1)
    BY DEF Release, OtherUsed
  <2>2. b0 = b BY <1>6
  <2> HIDE DEF b0
  <2>3. u0 = u BY <2>2
  <2> HIDE DEF u0, u
  <2>4. v0 = v BY <2>3
  <2> HIDE DEF v0, v
  <2>5. QED BY <2>1, <2>4
<1> HIDE DEF u
<1>10. [v EXCEPT !.function[g] = "sio"] = w
  <2>1. [u.pin EXCEPT ![g] = NoPin] = u.pin /\ [u.slice EXCEPT ![i] = x] = u.slice
    <3> HIDE DEF x
    <3>1. QED BY <1>0, <1>7, <1>8, Fields DEF SameTables
  <2>2. u.slice[i] = x BY <1>7, <1>8 DEF SameTables
  <2>3. CASE other
    <3> HIDE DEF x
    <3>1. QED BY <2>1, <2>3, <1>8 DEF Retable, PwmTyped
  <2>4. CASE ~other
    <3> HIDE DEF x, other, i, c
    <3>1. v = [u EXCEPT !.slice[i] = y] BY <2>2, <2>4
    <3> HIDE DEF v, y
    <3>2. QED BY <2>1, <3>1, <1>8 DEF Retable, PwmTyped
  <2>5. QED BY <2>3, <2>4
<1>11. /\ y \in SliceRecord /\ y.used = x.used /\ y.pin = x.pin
       /\ other => y = x
       /\ ~other => y.requested = 0 /\ y.frequency = 0
  <2> HIDE DEF x, other
  <2>1. CASE other BY <1>3, <2>1
  <2>2. CASE ~other
    <3>1. y = [x EXCEPT !.frequency = 0, !.requested = 0] BY <2>2
    <3> HIDE DEF y
    <3>2. x \in SliceRecord BY <1>3
    <3>3. y = [used |-> x.used, pin |-> x.pin, requested |-> 0, frequency |-> 0]
      BY <3>1, <3>2 DEF SliceRecord
    <3>4. y \in SliceRecord BY <3>2, <3>3 DEF SliceRecord
    <3>5. QED BY <2>2, <3>3, <3>4
  <2>3. QED BY <2>1, <2>2
<1> HIDE DEF y, r0, v
<1>12. /\ PwmTyped(w) /\ w.hw = u.hw /\ w.slice[i] = y
       /\ \A j \in Index : j # i => w.slice[j] = s.slice[j]
       /\ w.pin[g] = NoPin /\ SamePins(s, w, g) /\ w.function[g] = "sio"
       /\ \A h \in Pins : h # g => w.function[h] = s.function[h]
  BY <1>0, <1>4, <1>7, <1>8, <1>11, Retabled DEF SameTables, SamePins
<1> HIDE DEF w, x
<1>13. Rest(s, w, g) /\ Own(w, g)
  BY <1>0, <1>3, <1>11, <1>12 DEF Rest, Own, NoPin
<1>14. Tables(w) BY <1>0, <1>1, <1>13, TablesChanged
<1>15. /\ \A j \in Index : j # i => w.hw[j] = s.hw[j]
       /\ w.hw[i].divider = s.hw[i].divider /\ w.hw[i].period = s.hw[i].period
       /\ w.hw[i].level[1 - c] = s.hw[i].level[1 - c]
  BY <1>2, <1>5, <1>7, <1>8, <1>12 DEF Elsewhere, SameRate
<1>16. Clocked(w)
  <2>1. InUse(w, i) <=> other BY <1>0, <1>3, <1>11, <1>12 DEF InUse
  <2>2. other => /\ w.slice[i].requested = s.slice[i].requested
                 /\ w.slice[i].frequency = s.slice[i].frequency
    BY <1>3, <1>11, <1>12
  <2>3. ~other => w.slice[i].requested = 0 /\ w.slice[i].frequency = 0
    BY <1>11, <1>12
  <2>4. ASSUME NEW j \in Index, j # i
        PROVE  w.slice[j] = s.slice[j] /\ w.hw[j] = s.hw[j]
    BY <1>12, <1>15, <2>4
  <2>5. ASSUME NEW j \in Index, j # i PROVE InUse(w, j) <=> InUse(s, j)
    BY <2>4, <2>5 DEF InUse
  <2> HIDE DEF other
  <2>6. QED BY <1>0, <1>1, <1>15, <2>1, <2>2, <2>3, <2>4, <2>5 DEF Clocked
<1>17. ASSUME NEW h \in Pins, h # g, s.pin[h].configured
       PROVE  /\ SliceOf(h) = i => Channel(h) = 1 - c
              /\ w.hw[SliceOf(h)].level[Channel(h)] = s.hw[SliceOf(h)].level[Channel(h)]
              /\ w.hw[SliceOf(h)].period = s.hw[SliceOf(h)].period
  <2>1. CASE SliceOf(h) = i
    <3>1. Channel(h) = 1 - c BY <1>0, <1>17, <2>1, Apart
    <3>2. QED BY <1>15, <2>1, <3>1
  <2>2. CASE SliceOf(h) # i BY <1>15, <2>2, Places
  <2>3. QED BY <2>1, <2>2
<1>18. Levels(w)
  BY <1>0, <1>12, <1>17, LevelsKept, ProgrammedParts DEF NoPin
<1>19. ASSUME NEW j \in Index PROVE Switched(w, j)
  <2>1. CASE j = i
    <3>1. /\ w.slice[i].used = u.slice[i].used /\ w.slice[i].pin = u.slice[i].pin
          /\ w.hw = u.hw
      BY <1>7, <1>8, <1>11, <1>12 DEF SameTables
    <3>2. \A h \in Pins : w.pin[h] = u.pin[h]
      BY <1>7, <1>8, <1>12 DEF SameTables, SamePins
    <3>3. \A d \in Channels : w.slice[i].used[d] => w.slice[i].pin[d] \in Pins
      BY <1>0, <1>14 DEF Tables
    <3>4. QED BY <1>8, <2>1, <3>1, <3>2, <3>3 DEF Switched, On, Inverted
  <2>2. CASE j # i BY <1>0, <1>12, <1>15, <2>2, SwitchedElsewhere
  <2>3. QED BY <2>1, <2>2
<1>20. Good(w) BY <1>12, <1>14, <1>16, <1>18, <1>19, ProgrammedParts DEF Good
<1>21. OthersKept(s, w, g)
  <2>1. ASSUME NEW h \in Pins, h # g, s.pin[h].configured, SliceOf(h) = i PROVE other
    BY <1>0, <1>17, <2>1 DEF Tables, Holder
  <2>2. QED BY <1>3, <1>11, <1>12, <1>13, <2>1, WavesKept
<1>22. /\ r.ret = 1 /\ PwmTyped(r) /\ r.pin = w.pin /\ r.slice = w.slice /\ r.hw = w.hw
       /\ r.function = w.function
  BY <1>9, <1>10, <1>12, Answered
<1>23. QED
  BY <1>12, <1>20, <1>21, <1>22, GoodSame DEF Wave, OthersKept, NoPin

(* bmx_pico_pwm_init_pin for a pin not in use: refused while another pin   *)
(* uses the channel, or the slice at another frequency.                    *)
LEMMA FirstUse ==
  ASSUME NEW s, Good(s), Reachable, NEW g \in Pins, ~s.pin[g].configured,
         NEW f \in Frequencies, NEW duty \in Nat, NEW b \in BOOLEAN,
         NEW r, r = FirstInit(s, g, f, duty, b)
  PROVE  \/ Untouched(s, r)
         \/ /\ r.ret # 0 /\ Good(r) /\ OthersKept(s, r, g)
            /\ Wave(r, g) = [frequency |-> f, duty |-> duty, inverted |-> b, on |-> TRUE]
<1> DEFINE i == SliceOf(g)
           c == Channel(g)
           inuse == s.slice[i].frequency # 0
           t == IF inuse THEN Returns(s, s.slice[i].frequency) ELSE SetFrequency(s, i, f)
<1>0. /\ PwmTyped(s) /\ Tables(s) /\ Clocked(s) /\ Programmed(s)
      /\ i \in Index /\ c \in Channels /\ 1 - c \in Channels /\ 1 - c # c
      /\ \A d \in Channels : d = c \/ d = 1 - c
  BY Places DEF Good
<1>1. CASE s.slice[i].used[c] \/ (OtherUsed(s, g) /\ s.slice[i].requested # f)
  <2>1. r = Returns(s, 0) BY <1>1 DEF FirstInit
  <2>2. QED BY <2>1, Refused
<1>2. CASE ~(s.slice[i].used[c] \/ (OtherUsed(s, g) /\ s.slice[i].requested # f))
  <2>0. /\ ~s.slice[i].used[c]
        /\ s.slice[i].used[1 - c] => s.slice[i].requested = f
    BY <1>2 DEF OtherUsed
  <2>1. /\ PwmTyped(t) /\ t.ret = Achieved(f) /\ t.ret # 0
        /\ t.pin = s.pin /\ t.slice = s.slice /\ t.function = s.function
        /\ Elsewhere(s, t, i)
        /\ t.hw[i].divider = Divider(f) /\ t.hw[i].period = Period(f)
        /\ t.hw[i].level = s.hw[i].level
        /\ s.slice[i].used[1 - c] => t.hw[i].period = s.hw[i].period
        /\ inuse => s.slice[i].requested = f
    <3>1. CASE inuse
      <4>1. InUse(s, i) BY <1>0, <3>1, InUseClocked
      <4>2. s.slice[i].requested = f BY <1>0, <2>0, <4>1 DEF InUse
      <4>3. /\ s.slice[i].frequency = Achieved(f)
            /\ s.hw[i].divider = Divider(f) /\ s.hw[i].period = Period(f)
        BY <1>0, <4>1, <4>2, InUseClocked
      <4>4. t = Returns(s, Achieved(f)) /\ Achieved(f) \in Int BY <3>1, <4>3, FrequencyTypes
      <4> HIDE DEF t
      <4>5. QED BY <1>0, <4>2, <4>3, <4>4, Answered DEF Reachable, Elsewhere
    <3>2. CASE ~inuse
      <4>1. ~InUse(s, i) BY <1>0, <3>2, InUseClocked
      <4>2. ~s.slice[i].used[1 - c] BY <1>0, <4>1 DEF InUse
      <4>3. t = SetFrequency(s, i, f) BY <3>2
      <4> HIDE DEF t
      <4>4. QED BY <1>0, <3>2, <4>2, <4>3, FrequencySet DEF Reachable
    <3>3. QED BY <3>1, <3>2
  <2> DEFINE P == [configured |-> TRUE, enabled |-> TRUE, inverted |-> b, duty |-> duty]
             x == [t.slice[i] EXCEPT !.requested = IF inuse THEN @ ELSE f,
                     !.frequency = t.ret, !.used[c] = TRUE, !.pin[c] = g]
             u == Retable(t, i, x, g, "pwm", P)
  <2>2. r = UpdateEnabled(ApplyDuty(ApplyPolarity(u, i), g), i)
    <3> DEFINE u0 == [t EXCEPT
                        !.slice[i] = [t.slice[i] EXCEPT !.requested = IF inuse THEN @ ELSE f,
                                        !.frequency = t.ret, !.used[c] = TRUE, !.pin[c] = g],
                        !.function[g] = "pwm",
                        !.pin[g] = [configured |-> TRUE, enabled |-> TRUE,
                                    inverted |-> b, duty |-> duty]]
               d0 == UpdateEnabled(ApplyDuty(ApplyPolarity(u0, i), g), i)
               d == UpdateEnabled(ApplyDuty(ApplyPolarity(u, i), g), i)
    <3>1. r = IF t.ret = 0 THEN t ELSE d0
      BY <1>2 DEF FirstInit
    <3> HIDE DEF t
    <3>2. u0 = u BY DEF Retable
    <3> HIDE DEF u0, u
    <3>3. d0 = d BY <3>2
    <3> HIDE DEF d0, d
    <3>4. r = d BY <2>1, <3>1, <3>3
    <3>5. QED BY <3>4 DEF d
  <2>3. /\ x \in SliceRecord /\ x.requested = f /\ x.frequency = Achieved(f)
        /\ x.used[c] /\ x.used[1 - c] = s.slice[i].used[1 - c]
        /\ x.pin[c] = g /\ x.pin[1 - c] = s.slice[i].pin[1 - c]
    <3> DEFINE y == s.slice[i]
    <3>1. y \in SliceRecord /\ f \in Nat /\ Achieved(f) \in Int /\ g \in Nat
      BY <1>0, Fields, FrequencyTypes, Places
    <3>2. x = [y EXCEPT !.requested = f, !.frequency = Achieved(f),
                        !.used[c] = TRUE, !.pin[c] = g]
      <4>1. t.slice[i] = y /\ t.ret = Achieved(f) /\ (inuse => y.requested = f)
        BY <2>1
      <4> HIDE DEF t, y, inuse, i, c
      <4>2. QED BY <4>1
    <3>3. x = [used |-> [y.used EXCEPT ![c] = TRUE], pin |-> [y.pin EXCEPT ![c] = g],
               requested |-> f, frequency |-> Achieved(f)]
      <4> HIDE DEF x, y, c
      <4>1. QED BY <3>1, <3>2 DEF SliceRecord
    <3> HIDE DEF x, y, c
    <3>4. x \in SliceRecord BY <1>0, <3>1, <3>3 DEF SliceRecord
    <3>5. /\ x.used[c] /\ x.used[1 - c] = y.used[1 - c]
          /\ x.pin[c] = g /\ x.pin[1 - c] = y.pin[1 - c]
      BY <1>0, <3>1, <3>3 DEF SliceRecord
    <3>6. QED BY <3>3, <3>4, <3>5 DEF y
  <2>4. P \in PinRecord /\ "pwm" \in Functions BY DEF PinRecord, Functions
  <2>5. P.configured OBVIOUS
  <2> HIDE DEF t, x, P
  <2>6. /\ PwmTyped(u) /\ u.hw = t.hw /\ u.ret = t.ret /\ u.slice[i] = x
        /\ \A j \in Index : j # i => u.slice[j] = s.slice[j]
        /\ u.pin[g] = P /\ SamePins(s, u, g) /\ u.function[g] = "pwm"
        /\ \A h \in Pins : h # g => u.function[h] = s.function[h]
    BY <1>0, <2>1, <2>3, <2>4, Retabled DEF SamePins
  <2> HIDE DEF u
  <2>7. /\ PwmTyped(r) /\ SameTables(u, r) /\ Elsewhere(u, r, i) /\ SameRate(u, r, i)
        /\ r.hw[i].level[c] = LevelOf(r, g) /\ r.hw[i].level[1 - c] = u.hw[i].level[1 - c]
        /\ Switched(r, i)
    BY <2>2, <2>6, Settled
  <2>8. /\ r.slice[i] = x /\ r.pin[g] = P /\ SamePins(s, r, g) /\ r.function[g] = "pwm"
        /\ \A h \in Pins : h # g => r.function[h] = s.function[h]
        /\ \A j \in Index : j # i => r.slice[j] = s.slice[j] /\ r.hw[j] = s.hw[j]
        /\ r.hw[i].divider = Divider(f) /\ r.hw[i].period = Period(f)
        /\ r.hw[i].level[1 - c] = s.hw[i].level[1 - c] /\ r.ret # 0
    BY <2>1, <2>6, <2>7 DEF SameTables, SamePins, Elsewhere, SameRate
  <2>9. Rest(s, r, g) /\ Own(r, g)
    BY <1>0, <2>3, <2>5, <2>8 DEF Rest, Own
  <2>10. Tables(r) BY <1>0, <2>0, <2>9, TablesChanged
  <2>11. Clocked(r)
    <3>1. ASSUME NEW j \in Index, j # i
          PROVE  r.slice[j] = s.slice[j] /\ r.hw[j] = s.hw[j]
      BY <2>8, <3>1
    <3>2. /\ r.slice[i].requested = f /\ r.slice[i].frequency = Achieved(f)
          /\ r.slice[i].used[c]
      BY <2>3, <2>8
    <3>3. QED BY <1>0, <2>8, <3>1, <3>2 DEF Clocked, InUse
  <2>12. ASSUME NEW h \in Pins, h # g, s.pin[h].configured, SliceOf(h) = i
         PROVE  Channel(h) = 1 - c /\ s.slice[i].used[1 - c]
    <3>1. s.slice[i].used[Channel(h)] BY <1>0, <2>12 DEF Tables, Holder
    <3>2. QED BY <1>0, <2>0, <3>1, Places
  <2>13. ASSUME NEW h \in Pins, h # g, s.pin[h].configured
         PROVE  /\ r.hw[SliceOf(h)].level[Channel(h)] = s.hw[SliceOf(h)].level[Channel(h)]
                /\ r.hw[SliceOf(h)].period = s.hw[SliceOf(h)].period
    <3>1. CASE SliceOf(h) = i BY <2>1, <2>8, <2>12, <2>13, <3>1
    <3>2. CASE SliceOf(h) # i BY <2>8, <3>2, Places
    <3>3. QED BY <3>1, <3>2
  <2>14. Levels(r)
    BY <1>0, <2>7, <2>8, <2>13, LevelsKept, ProgrammedParts
  <2>15. ASSUME NEW j \in Index, j # i PROVE Switched(r, j)
    BY <1>0, <2>8, <2>15, SwitchedElsewhere
  <2>16. Good(r) BY <2>7, <2>10, <2>11, <2>14, <2>15, ProgrammedParts DEF Good
  <2>17. OthersKept(s, r, g)
    <3>1. \A h \in Pins : h # g /\ s.pin[h].configured /\ SliceOf(h) = i =>
            r.slice[i].requested = s.slice[i].requested
      BY <2>0, <2>3, <2>8, <2>12
    <3>2. QED BY <2>9, <3>1, WavesKept
  <2>18. Wave(r, g) = [frequency |-> f, duty |-> duty, inverted |-> b, on |-> TRUE]
    <3>1. /\ P.configured /\ P.duty = duty /\ P.inverted = b /\ P.enabled = TRUE
          /\ r.slice[i].requested = f
      BY <2>3, <2>8 DEF P
    <3>2. Wave(r, g) = [frequency |-> r.slice[i].requested, duty |-> P.duty,
                        inverted |-> P.inverted, on |-> P.enabled]
      BY <2>8, <3>1 DEF Wave
    <3>3. QED BY <3>1, <3>2
  <2>19. QED BY <2>8, <2>16, <2>17, <2>18
<1>3. QED BY <1>1, <1>2

-----------------------------------------------------------------------------
Settings(s, g, p) ==
  [frequency |-> s.slice[SliceOf(g)].requested, duty |-> p.duty, inverted |-> p.inverted,
   on |-> p.enabled]

LEMMA ChangedWaves ==
  ASSUME NEW s, NEW t, NEW g \in Pins, NEW p, Changed(s, t, g, p), p.configured
  PROVE  OthersKept(s, t, g) /\ Wave(t, g) = Settings(s, g, p)
<1>1. ASSUME NEW h \in Pins, h # g PROVE Wave(t, h) = Wave(s, h)
  <2>1. t.pin[h] = s.pin[h] /\ t.slice = s.slice BY <1>1 DEF Changed, SamePins
  <2>2. QED BY <2>1 DEF Wave
<1>2. t.pin[g] = p /\ t.slice = s.slice BY DEF Changed
<1>3. Wave(t, g) = Settings(s, g, p) BY <1>2 DEF Wave, Settings
<1>4. QED BY <1>1, <1>3 DEF OthersKept

(* A call that is not refused makes the wave of its pin the one asked for. *)
Answers(s, t, g, wave) ==
  \/ Untouched(s, t)
  \/ t.ret # 0 /\ Good(t) /\ OthersKept(s, t, g) /\ Wave(t, g) = wave

LEMMA PinRecords ==
  ASSUME NEW p \in PinRecord
  PROVE  /\ \A b \in BOOLEAN : LET q == [p EXCEPT !.inverted = b]
              IN /\ q.configured = p.configured /\ q.enabled = p.enabled
                 /\ q.duty = p.duty /\ q.inverted = b
         /\ \A n \in Nat : LET q == [p EXCEPT !.duty = n]
              IN /\ q.configured = p.configured /\ q.enabled = p.enabled
                 /\ q.inverted = p.inverted /\ q.duty = n
         /\ \A b \in BOOLEAN : LET q == [p EXCEPT !.enabled = b]
              IN /\ q.configured = p.configured /\ q.inverted = p.inverted
                 /\ q.duty = p.duty /\ q.enabled = b
  BY DEF PinRecord

LEMMA PinConfigured ==
  ASSUME NEW s, Good(s), NEW g \in Pins PROVE s.pin[g] \in PinRecord
  BY Fields DEF Good

(* bmx_pico_pwm_init_pin for a pin in use: its four settings in turn.      *)
LEMMA Reused ==
  ASSUME NEW s, Good(s), Reachable, NEW g \in Pins, s.pin[g].configured,
         NEW f \in Frequencies, NEW duty \in Nat, NEW b \in BOOLEAN,
         NEW r, r = Reinit(s, g, f, duty, b)
  PROVE  Answers(s, r, g, [frequency |-> f, duty |-> duty, inverted |-> b, on |-> TRUE])
<1> DEFINE i == SliceOf(g)
           a == SetPinFrequency(s, g, f)
           t == SetPinPolarity(a, g, b)
           u == SetPinDuty(t, g, duty)
           d == SetPinEnabled(u, g, TRUE)
<1>0. i \in Index BY Places
<1>1. r = IF a.ret = 0 THEN a ELSE Returns(d, d.slice[i].frequency)
  BY DEF Reinit
<1>2. \/ Untouched(s, a)
      \/ /\ a.ret # 0 /\ Good(a) /\ a.pin = s.pin
         /\ a.slice[i].requested = f /\ OthersKept(s, a, g)
  BY FrequencyAsked
<1>3. CASE Untouched(s, a) BY <1>1, <1>3 DEF Untouched, Answers
<1>4. CASE /\ a.ret # 0 /\ Good(a) /\ a.pin = s.pin
           /\ a.slice[i].requested = f /\ OthersKept(s, a, g)
  <2> DEFINE p == [a.pin[g] EXCEPT !.inverted = b]
             q == [t.pin[g] EXCEPT !.duty = duty]
             w == [u.pin[g] EXCEPT !.enabled = TRUE]
  <2>1. r = Returns(d, d.slice[i].frequency) BY <1>1, <1>4
  <2> HIDE DEF a
  <2>2. Changed(a, t, g, p) BY <1>4, PolaritySet
  <2> HIDE DEF t
  <2>3. /\ t.pin[g] = p /\ p.configured /\ p.inverted = b /\ t.pin[g] \in PinRecord
    <3>1. a.pin[g] \in PinRecord /\ a.pin[g].configured BY <1>4, PinConfigured
    <3>2. Good(t) /\ t.pin[g] = p BY <2>2 DEF Changed
    <3>3. p.configured /\ p.inverted = b BY <3>1, PinRecords
    <3>4. QED BY <3>2, <3>3, PinConfigured
  <2>4. Changed(t, u, g, q) BY <2>2, <2>3, DutySet DEF Changed
  <2> HIDE DEF u
  <2>5. /\ u.pin[g] = q /\ q.configured /\ q.inverted = b /\ q.duty = duty
        /\ u.pin[g] \in PinRecord
    <3>1. Good(u) /\ u.pin[g] = q BY <2>4 DEF Changed
    <3>2. q.configured /\ q.inverted = b /\ q.duty = duty BY <2>3, PinRecords
    <3>3. QED BY <3>1, <3>2, PinConfigured
  <2>6. Changed(u, d, g, w) BY <2>4, <2>5, EnabledSet DEF Changed
  <2> HIDE DEF d
  <2>7. w.configured /\ w.inverted = b /\ w.duty = duty /\ w.enabled = TRUE
    BY <2>5, PinRecords
  <2>8. OthersKept(a, t, g) /\ OthersKept(t, u, g) /\ OthersKept(u, d, g)
    BY <2>2, <2>3, <2>4, <2>5, <2>6, <2>7, ChangedWaves
  <2>9. OthersKept(s, d, g) BY <1>4, <2>8 DEF OthersKept
  <2>10. Good(d) /\ d.slice = a.slice /\ d.pin[g] = w
    BY <2>2, <2>4, <2>6 DEF Changed
  <2> HIDE DEF p, q, w
  <2>11. Wave(d, g) = [frequency |-> f, duty |-> duty, inverted |-> b, on |-> TRUE]
    BY <1>4, <2>7, <2>10 DEF Wave
  <2>12. d.slice[i].frequency # 0 /\ d.slice[i].frequency \in Int /\ PwmTyped(d)
    <3>1. InUse(d, i) BY <2>7, <2>10, Places DEF Good, Tables, Holder, InUse
    <3>2. PwmTyped(d) BY <2>10 DEF Good
    <3>3. d.slice[i] \in SliceRecord BY <1>0, <3>2, Fields
    <3>4. QED BY <1>0, <2>10, <3>1, <3>2, <3>3, InUseClocked DEF SliceRecord
  <2>13. /\ r.ret # 0 /\ PwmTyped(r) /\ r.pin = d.pin /\ r.slice = d.slice
         /\ r.hw = d.hw /\ r.function = d.function
    BY <2>1, <2>12, Answered
  <2>14. Good(r) BY <2>10, <2>13, GoodSame
  <2>15. OthersKept(s, r, g) /\ Wave(r, g) = Wave(d, g)
    BY <2>9, <2>13 DEF OthersKept, Wave
  <2>16. QED BY <2>11, <2>13, <2>14, <2>15 DEF Answers
<1>5. QED BY <1>2, <1>3, <1>4

-----------------------------------------------------------------------------
LEMMA PwmStarts ==
  ASSUME PwmInit PROVE PwmInv
<1> DEFINE s == State
<1>1. /\ s.pin = pin /\ s.slice = slice /\ s.hw = hw /\ s.function = function /\ s.ret = 0
  BY DEF State
<1>2. PwmTyped(s)
  <2>1. One \in Int /\ Top \in Int BY PwmAssumption
  <2>2. NoPin \in PinRecord BY DEF NoPin, PinRecord
  <2>3. pin \in [Pins -> PinRecord] BY <2>2 DEF PwmInit
  <2>4. [c \in Channels |-> FALSE] \in [Channels -> BOOLEAN]
        /\ [c \in Channels |-> 0] \in [Channels -> Nat]
        /\ [c \in Channels |-> 0] \in [Channels -> Int]
    OBVIOUS
  <2>5. slice \in [Index -> SliceRecord]
    BY <2>4 DEF PwmInit, Index, SliceRecord
  <2>6. hw \in [Index -> Registers]
    BY <2>1, <2>4 DEF PwmInit, Index, Registers
  <2>7. function \in [Pins -> Functions] BY DEF PwmInit, Functions
  <2>8. QED BY <2>3, <2>5, <2>6, <2>7 DEF PwmTyped, State
<1> HIDE DEF s
<1>3. ASSUME NEW g \in Pins
      PROVE  s.pin[g] = NoPin /\ ~s.pin[g].configured /\ s.function[g] # "pwm"
  BY <1>1 DEF PwmInit, NoPin
<1>4. ASSUME NEW i \in Index
      PROVE  /\ s.slice[i].requested = 0 /\ s.slice[i].frequency = 0 /\ ~s.hw[i].on
             /\ \A c \in Channels : ~s.slice[i].used[c] /\ ~s.hw[i].inverted[c]
  BY <1>1 DEF PwmInit, Index
<1>5. Tables(s) BY <1>3, <1>4, Places DEF Tables, Holder
<1>6. Clocked(s) BY <1>4 DEF Clocked, InUse
<1>7. Programmed(s) BY <1>3, <1>4 DEF Programmed, On, Inverted
<1>8. \A g \in Pins : Wave(s, g) = NoWave BY <1>3 DEF Wave
<1>9. QED BY <1>2, <1>5, <1>6, <1>7, <1>8 DEF PwmInv, PwmInit, Good, s

LEMMA Kept ==
  ASSUME PwmInv, NEW g \in Pins, NEW t, NEW wave, Answers(State, t, g, wave),
         Call(g, t, wave)
  PROVE  PwmInv'
<1> DEFINE s == State
           n == [pin |-> pin', slice |-> slice', hw |-> hw', function |-> function',
                 ret |-> 0]
<1>1. /\ n.pin = t.pin /\ n.slice = t.slice /\ n.hw = t.hw /\ n.function = t.function
  BY DEF Call
<1>2. Good(t) BY DEF Answers, Untouched
<1>3. PwmTyped(n)
  <2>1. /\ t.pin \in [Pins -> PinRecord] /\ t.slice \in [Index -> SliceRecord]
        /\ t.hw \in [Index -> Registers] /\ t.function \in [Pins -> Functions]
    BY <1>2, Fields DEF Good
  <2>2. QED BY <2>1 DEF PwmTyped, Call
<1>4. Good(n)
  <2> HIDE DEF n
  <2>1. QED BY <1>1, <1>2, <1>3, GoodSame
<1>5. \A h \in Pins : Wave(n, h) = Wave(t, h)
  <2> HIDE DEF n
  <2>1. QED BY <1>1 DEF Wave
<1>6. asked = [h \in Pins |-> Wave(s, h)] BY DEF PwmInv
<1>7. asked' = [h \in Pins |-> Wave(n, h)]
  <2>1. CASE Untouched(s, t)
    <3>1. asked' = asked BY <2>1 DEF Call, Untouched
    <3>2. \A h \in Pins : Wave(t, h) = Wave(s, h) BY <2>1 DEF Untouched, Wave
    <3> HIDE DEF n, s
    <3>3. QED BY <1>5, <1>6, <3>1, <3>2
  <2>2. CASE t.ret # 0 /\ OthersKept(s, t, g) /\ Wave(t, g) = wave
    <3>1. asked' = [asked EXCEPT ![g] = wave] BY <2>2 DEF Call
    <3> HIDE DEF n, s
    <3>2. QED BY <1>5, <1>6, <2>2, <3>1 DEF OthersKept
  <2>3. QED BY <2>1, <2>2 DEF Answers
<1>8. QED BY <1>4, <1>7 DEF PwmInv, State

LEMMA AskedOf ==
  ASSUME PwmInv, NEW g \in Pins
  PROVE  /\ Good(State) /\ asked[g] = Wave(State, g) /\ State.pin = pin
         /\ pin[g].configured => asked[g] = Settings(State, g, pin[g])
         /\ pin[g] \in PinRecord /\ State.slice = slice
<1>1. State.pin = pin /\ State.slice = slice BY DEF State
<1>2. Good(State) /\ asked[g] = Wave(State, g) BY DEF PwmInv
<1>3. pin[g] \in PinRecord BY <1>1, <1>2, PinConfigured
<1>4. pin[g].configured => Wave(State, g) = Settings(State, g, pin[g])
  BY <1>1 DEF Wave, Settings
<1>5. QED BY <1>1, <1>2, <1>3, <1>4

LEMMA SettingsChanged ==
  ASSUME NEW s, NEW g, NEW p \in PinRecord
  PROVE  /\ \A n \in Nat :
              Settings(s, g, [p EXCEPT !.duty = n]) = [Settings(s, g, p) EXCEPT !.duty = n]
         /\ \A b \in BOOLEAN :
              Settings(s, g, [p EXCEPT !.inverted = b])
                = [Settings(s, g, p) EXCEPT !.inverted = b]
         /\ \A b \in BOOLEAN :
              Settings(s, g, [p EXCEPT !.enabled = b]) = [Settings(s, g, p) EXCEPT !.on = b]
  BY PinRecords DEF Settings

(* What was asked of a pin is in the tables.                               *)
LEMMA AskedFields ==
  ASSUME PwmInv, NEW g \in Pins
  PROVE  /\ pin[g].configured =>
              /\ asked[g].frequency = slice[SliceOf(g)].requested
              /\ asked[g].duty = pin[g].duty
              /\ asked[g].inverted = pin[g].inverted
              /\ asked[g].on = pin[g].enabled
         /\ ~pin[g].configured => asked[g].frequency = 0 /\ asked[g].on = FALSE
<1>1. CASE pin[g].configured
  <2>1. asked[g] = Settings(State, g, pin[g]) /\ State.slice = slice BY <1>1, AskedOf
  <2>2. QED BY <1>1, <2>1 DEF Settings
<1>2. CASE ~pin[g].configured
  <2>1. asked[g] = Wave(State, g) /\ State.pin = pin BY AskedOf
  <2>2. asked[g] = NoWave BY <1>2, <2>1 DEF Wave
  <2>3. asked[g].frequency = 0 /\ asked[g].on = FALSE BY <2>2 DEF NoWave
  <2>4. QED BY <1>2, <2>3
<1>3. QED BY <1>1, <1>2

LEMMA PwmStep ==
  ASSUME PwmInv, Reachable, PwmNext PROVE PwmInv'
<1> DEFINE s == State
<1>0. PICK g \in Pins :
        \/ DeinitPin(g)
        \/ \E f \in Frequencies : ChangeFrequency(g, f)
        \/ \E duty \in Duties : ChangeDuty(g, duty)
        \/ \E b \in BOOLEAN : ChangePolarity(g, b) \/ ChangeEnabled(g, b)
        \/ \E f \in Frequencies, duty \in Duties, b \in BOOLEAN : InitPin(g, f, duty, b)
  BY DEF PwmNext
<1>1. /\ Good(s) /\ s.pin = pin /\ asked[g] = Wave(s, g)
      /\ pin[g].configured => asked[g] = Settings(s, g, pin[g])
      /\ pin[g] \in PinRecord /\ Duties \subseteq Nat
  BY AskedOf, PwmAssumption
<1>2. ASSUME NEW t, NEW wave, ~pin[g].configured, t = Returns(s, 0)
      PROVE  Answers(s, t, g, wave)
  BY <1>1, <1>2, Refused DEF Answers
<1> HIDE DEF s
<1>3. ASSUME NEW t, NEW wave, NEW p, pin[g].configured, Changed(s, t, g, p), p.configured,
             wave = Settings(s, g, p)
      PROVE  Answers(s, t, g, wave)
  BY <1>3, ChangedWaves DEF Answers, Changed
<1>4. CASE DeinitPin(g)
  <2> DEFINE t == Release(s, g)
  <2>1. Answers(s, t, g, NoWave)
    <3>1. CASE pin[g].configured
      <4>1. t.ret = 1 /\ Good(t) /\ Wave(t, g) = NoWave /\ OthersKept(s, t, g)
        BY <1>1, <3>1, Released
      <4>2. QED BY <4>1 DEF Answers
    <3>2. CASE ~pin[g].configured
      <4>1. t = Returns(s, 0) BY <1>1, <3>2 DEF Release
      <4>2. QED BY <1>2, <3>2, <4>1
    <3>3. QED BY <3>1, <3>2
  <2>2. Call(g, t, NoWave) BY <1>4 DEF DeinitPin, s
  <2> HIDE DEF t
  <2>3. QED BY <2>1, <2>2, Kept DEF s
<1>5. ASSUME NEW f \in Frequencies, ChangeFrequency(g, f) PROVE PwmInv'
  <2> DEFINE t == SetPinFrequency(s, g, f)
             wave == [asked[g] EXCEPT !.frequency = f]
  <2>1. Answers(s, t, g, wave)
    <3>1. CASE pin[g].configured
      <4>1. \/ Untouched(s, t)
            \/ /\ t.ret # 0 /\ Good(t) /\ t.pin = s.pin
               /\ t.slice[SliceOf(g)].requested = f /\ OthersKept(s, t, g)
        BY <1>1, <3>1, FrequencyAsked
      <4>2. wave = [frequency |-> f, duty |-> pin[g].duty, inverted |-> pin[g].inverted,
                    on |-> pin[g].enabled]
        BY <1>1, <3>1 DEF Settings
      <4> HIDE DEF t, wave
      <4>3. QED BY <1>1, <3>1, <4>1, <4>2 DEF Answers, Wave
    <3>2. CASE ~pin[g].configured
      <4>1. t = Returns(s, 0) BY <1>1, <3>2 DEF SetPinFrequency
      <4>2. QED BY <1>2, <3>2, <4>1
    <3>3. QED BY <3>1, <3>2
  <2>2. Call(g, t, wave) BY <1>5 DEF ChangeFrequency, s
  <2> HIDE DEF t, wave
  <2>3. QED BY <2>1, <2>2, Kept DEF s
<1>6. ASSUME NEW duty \in Duties, ChangeDuty(g, duty) PROVE PwmInv'
  <2> DEFINE t == SetPinDuty(s, g, duty)
             p == [pin[g] EXCEPT !.duty = duty]
             wave == [asked[g] EXCEPT !.duty = duty]
  <2>1. Answers(s, t, g, wave)
    <3>1. CASE pin[g].configured
      <4>1. Changed(s, t, g, p) BY <1>1, <3>1, DutySet
      <4>2. wave = Settings(s, g, p) BY <1>1, <3>1, SettingsChanged
      <4>3. p.configured BY <1>1, <3>1, PinRecords
      <4> HIDE DEF t, p, wave
      <4>4. QED BY <1>3, <3>1, <4>1, <4>2, <4>3
    <3>2. CASE ~pin[g].configured
      <4>1. t = Returns(s, 0) BY <1>1, <3>2 DEF SetPinDuty
      <4>2. QED BY <1>2, <3>2, <4>1
    <3>3. QED BY <3>1, <3>2
  <2>2. Call(g, t, wave) BY <1>6 DEF ChangeDuty, s
  <2> HIDE DEF t, wave
  <2>3. QED BY <2>1, <2>2, Kept DEF s
<1>7. ASSUME NEW b \in BOOLEAN, ChangePolarity(g, b) PROVE PwmInv'
  <2> DEFINE t == SetPinPolarity(s, g, b)
             p == [pin[g] EXCEPT !.inverted = b]
             wave == [asked[g] EXCEPT !.inverted = b]
  <2>1. Answers(s, t, g, wave)
    <3>1. CASE pin[g].configured
      <4>1. Changed(s, t, g, p) BY <1>1, <3>1, PolaritySet
      <4>2. wave = Settings(s, g, p) BY <1>1, <3>1, SettingsChanged
      <4>3. p.configured BY <1>1, <3>1, PinRecords
      <4> HIDE DEF t, p, wave
      <4>4. QED BY <1>3, <3>1, <4>1, <4>2, <4>3
    <3>2. CASE ~pin[g].configured
      <4>1. t = Returns(s, 0) BY <1>1, <3>2 DEF SetPinPolarity
      <4>2. QED BY <1>2, <3>2, <4>1
    <3>3. QED BY <3>1, <3>2
  <2>2. Call(g, t, wave) BY <1>7 DEF ChangePolarity, s
  <2> HIDE DEF t, wave
  <2>3. QED BY <2>1, <2>2, Kept DEF s
<1>8. ASSUME NEW b \in BOOLEAN, ChangeEnabled(g, b) PROVE PwmInv'
  <2> DEFINE t == SetPinEnabled(s, g, b)
             p == [pin[g] EXCEPT !.enabled = b]
             wave == [asked[g] EXCEPT !.on = b]
  <2>1. Answers(s, t, g, wave)
    <3>1. CASE pin[g].configured
      <4>1. Changed(s, t, g, p) BY <1>1, <3>1, EnabledSet
      <4>2. wave = Settings(s, g, p) BY <1>1, <3>1, SettingsChanged
      <4>3. p.configured BY <1>1, <3>1, PinRecords
      <4> HIDE DEF t, p, wave
      <4>4. QED BY <1>3, <3>1, <4>1, <4>2, <4>3
    <3>2. CASE ~pin[g].configured
      <4>1. t = Returns(s, 0) BY <1>1, <3>2 DEF SetPinEnabled
      <4>2. QED BY <1>2, <3>2, <4>1
    <3>3. QED BY <3>1, <3>2
  <2>2. Call(g, t, wave) BY <1>8 DEF ChangeEnabled, s
  <2> HIDE DEF t, wave
  <2>3. QED BY <2>1, <2>2, Kept DEF s
<1>9. ASSUME NEW f \in Frequencies, NEW duty \in Duties, NEW b \in BOOLEAN,
             InitPin(g, f, duty, b)
      PROVE  PwmInv'
  <2> DEFINE wave == [frequency |-> f, duty |-> duty, inverted |-> b, on |-> TRUE]
             again == Reinit(s, g, f, duty, b)
             first == FirstInit(s, g, f, duty, b)
  <2>1. duty \in Nat BY <1>1
  <2>2. Call(g, IF pin[g].configured THEN again ELSE first, wave)
    BY <1>9 DEF InitPin, s
  <2>3. CASE pin[g].configured
    <3>1. Answers(s, again, g, wave) BY <1>1, <2>1, <2>3, Reused
    <3> HIDE DEF again, first, wave
    <3>2. QED BY <2>2, <2>3, <3>1, Kept DEF s
  <2>4. CASE ~pin[g].configured
    <3>1. Answers(s, first, g, wave) BY <1>1, <2>1, <2>4, FirstUse DEF Answers
    <3> HIDE DEF again, first, wave
    <3>2. QED BY <2>2, <2>4, <3>1, Kept DEF s
  <2>5. QED BY <2>3, <2>4
<1>10. QED BY <1>0, <1>4, <1>5, <1>6, <1>7, <1>8, <1>9

LEMMA InvShowsWaves ==
  ASSUME PwmInv PROVE PinsShowTheirWave
<1> DEFINE s == State
<1>1. /\ Good(s) /\ s.pin = pin /\ s.slice = slice /\ s.hw = hw /\ s.function = function
  BY DEF PwmInv, State
<1>2. PwmTyped(s) /\ Tables(s) /\ Clocked(s) /\ Programmed(s) BY <1>1 DEF Good
<1> HIDE DEF s
<1>3. ASSUME NEW g \in Pins
      PROVE  LET h == hw[SliceOf(g)]
                 w == asked[g]
             IN IF w.frequency = 0 THEN function[g] # "pwm"
                ELSE /\ function[g] = "pwm"
                     /\ h.divider = Divider(w.frequency) /\ h.period = Period(w.frequency)
                     /\ h.inverted[Channel(g)] = w.inverted
                     /\ h.level[Channel(g)] = IF w.on THEN Level(w.duty, Period(w.frequency)) ELSE 0
                     /\ h.on = \E x \in Pins : SliceOf(x) = SliceOf(g) /\ asked[x].on
  <2> DEFINE i == SliceOf(g)
             c == Channel(g)
             h == hw[i]
             w == asked[g]
  <2>0. i \in Index /\ c \in Channels BY Places
  <2>1. CASE ~pin[g].configured
    <3>1. w.frequency = 0 BY <2>1, AskedFields
    <3>2. function[g] # "pwm" BY <1>1, <1>2, <2>1 DEF Tables
    <3>3. QED BY <3>1, <3>2
  <2>2. CASE pin[g].configured
    <3>1. /\ w.frequency = slice[i].requested /\ w.duty = pin[g].duty
          /\ w.inverted = pin[g].inverted /\ w.on = pin[g].enabled
      BY <2>2, AskedFields
    <3>2. /\ function[g] = "pwm" /\ slice[i].used[c] /\ slice[i].pin[c] = g /\ InUse(s, i)
      BY <1>1, <1>2, <2>0, <2>2 DEF Tables, Holder, InUse
    <3>3. /\ slice[i].requested \in Frequencies /\ h.divider = Divider(w.frequency)
          /\ h.period = Period(w.frequency)
      BY <1>1, <1>2, <2>0, <3>1, <3>2 DEF Clocked
    <3>4. w.frequency # 0 BY <3>1, <3>3, FrequencyTypes
    <3>5. h.level[c] = IF w.on THEN Level(w.duty, Period(w.frequency)) ELSE 0
      <4>1. h.level[c] = IF pin[g].enabled THEN Level(pin[g].duty, h.period) ELSE 0
        BY <1>1, <1>2, <2>2 DEF Programmed, LevelOf
      <4>2. QED BY <3>1, <3>3, <4>1
    <3>6. h.inverted[c] = w.inverted
      <4>1. h.inverted[c] <=> pin[g].inverted
        BY <1>1, <1>2, <2>0, <3>2 DEF Programmed, Inverted
      <4>2. h.inverted[c] \in BOOLEAN /\ pin[g].inverted \in BOOLEAN
        BY <1>1, <1>2, <2>0, Fields DEF Registers, PinRecord
      <4> HIDE DEF h, w
      <4>3. QED BY <3>1, <4>1, <4>2
    <3>7. h.on = \E x \in Pins : SliceOf(x) = SliceOf(g) /\ asked[x].on
      <4>1. h.on \in BOOLEAN BY <1>1, <1>2, <2>0, Fields DEF Registers
      <4>2. h.on <=> On(s, i) BY <1>1, <1>2, <2>0 DEF Programmed
      <4>3. ASSUME NEW x \in Pins
            PROVE  asked[x].on <=> pin[x].configured /\ pin[x].enabled
        <5>1. CASE pin[x].configured BY <5>1, AskedFields
        <5>2. CASE ~pin[x].configured BY <5>2, AskedFields
        <5>3. QED BY <5>1, <5>2
      <4>4. ASSUME NEW d \in Channels, slice[i].used[d], pin[slice[i].pin[d]].enabled
            PROVE  \E x \in Pins : SliceOf(x) = i /\ asked[x].on
        <5>1. /\ slice[i].pin[d] \in Pins /\ SliceOf(slice[i].pin[d]) = i
              /\ Channel(slice[i].pin[d]) = d
          BY <1>1, <1>2, <2>0, <4>4 DEF Tables
        <5>2. pin[slice[i].pin[d]].configured
          BY <1>1, <1>2, <4>4, <5>1 DEF Tables, Holder
        <5>3. QED BY <4>3, <4>4, <5>1, <5>2
      <4>5. ASSUME NEW x \in Pins, SliceOf(x) = i, asked[x].on PROVE On(s, i)
        <5>1. pin[x].configured /\ pin[x].enabled BY <4>3, <4>5
        <5>2. slice[i].used[Channel(x)] /\ slice[i].pin[Channel(x)] = x
          BY <1>1, <1>2, <4>5, <5>1 DEF Tables, Holder
        <5>3. QED BY <1>1, <5>1, <5>2, Places DEF On
      <4>6. On(s, i) <=> \E x \in Pins : SliceOf(x) = i /\ asked[x].on
        BY <1>1, <4>4, <4>5 DEF On
      <4> HIDE DEF h
      <4>7. QED BY <4>1, <4>2, <4>6
    <3>8. QED BY <3>2, <3>3, <3>4, <3>5, <3>6, <3>7
  <2>3. QED BY <2>1, <2>2
<1>4. QED BY <1>3 DEF PinsShowTheirWave

(* Every pin puts out the wave that was last asked of it, whatever is      *)
(* asked of the pin that shares its slice, at every system clock that      *)
(* reaches the frequencies asked for.                                      *)
THEOREM WavesShown == ASSUME Reachable PROVE PwmSpec => []PinsShowTheirWave
<1>1. PwmInit => PwmInv BY PwmStarts
<1>2. PwmInv /\ [PwmNext]_pwmVars => PwmInv'
  <2>1. CASE PwmNext BY <2>1, PwmStep
  <2>2. CASE UNCHANGED pwmVars
    <3>1. ASSUME PwmInv, UNCHANGED pwmVars PROVE PwmInv'
      BY <3>1 DEF PwmInv, pwmVars, State
    <3>2. QED BY <2>2, <3>1
  <2>3. QED BY <2>1, <2>2
<1>3. PwmInv => PinsShowTheirWave BY InvShowsWaves
<1>4. QED BY <1>1, <1>2, <1>3, PTL DEF PwmSpec
=============================================================================
