------------------------- MODULE EventMailboxProofs -------------------------
(***************************************************************************)
(* Proofs about EventMailbox for any number of cores and handlers, any     *)
(* ring size and any counter range that is a multiple of it.               *)
(*                                                                         *)
(* The inductive invariant has four parts: interrupts are disabled on the  *)
(* core of every thread between enter and restore, and at most one such    *)
(* thread exists per core (Disabled, Preemption); the lock is held exactly *)
(* by the thread inside it (Locking); a thread about to publish has filled *)
(* the next slot of a ring that is not full (Publishing).                  *)
(***************************************************************************)
EXTENDS EventMailbox, SequenceTheorems, TLAPS

-----------------------------------------------------------------------------
(* Ring counters and slot indices, for every ring size and every counter   *)
(* range that is a multiple of it.                                         *)

(* Division with remainder is unique. *)
LEMMA ModUnique ==
  ASSUME NEW C \in Nat \ {0}, NEW q \in Int, NEW r \in 0 .. C - 1
  PROVE  (q * C + r) % C = r
  OBVIOUS
(* A slot index stays inside the ring. *)
LEMMA ModRange ==
  ASSUME NEW C \in Nat \ {0}, NEW a \in Int
  PROVE  a % C \in 0 .. C - 1
  OBVIOUS
(* A positive multiple of c is at least c. *)
LEMMA MulMono ==
  ASSUME NEW C \in Nat \ {0}, NEW k \in Int, k * C > 0
  PROVE  k * C >= C
<1>1. k >= 1
  <2>1. CASE k <= 0
     BY <2>1
  <2>q. QED BY <2>1
<1>q. QED BY <1>1

(* Two counters less than a ring apart index different slots. *)
LEMMA ModDistinct ==
  ASSUME NEW C \in Nat \ {0}, NEW a \in Nat, NEW b \in Nat, a < b, b < a + C
  PROVE  a % C # b % C
<1>1. SUFFICES ASSUME a % C = b % C PROVE FALSE
  OBVIOUS
<1>2. PICK p \in Int : a = p * C + (a % C)
  <2>1. a \div C \in Int /\ a = (a \div C) * C + (a % C)
    OBVIOUS
  <2>q. QED BY <2>1
<1>3. PICK q \in Int : b = q * C + (b % C)
  <2>1. b \div C \in Int /\ b = (b \div C) * C + (b % C)
    OBVIOUS
  <2>q. QED BY <2>1
<1>4. a % C \in Int
  BY ModRange
<1>5. (q - p) * C = b - a
  <2>1. (q - p) * C = q * C - p * C
     OBVIOUS
  <2>q. QED BY <1>1, <1>2, <1>3, <1>4, <2>1
<1>6. (q - p) * C >= C
   BY <1>5, MulMono
<1>q. QED BY <1>5, <1>6

(* The counters wrap at a multiple of the ring, so wrapping moves no slot. *)
LEMMA ModPeriod ==
  ASSUME NEW C \in Nat \ {0}, NEW W \in Nat, W % C = 0, NEW a \in Nat
  PROVE  (a + W) % C = a % C
<1>1. PICK p \in Int : a = p * C + (a % C)
  <2>1. a \div C \in Int /\ a = (a \div C) * C + (a % C)
    OBVIOUS
  <2>q. QED BY <2>1
<1>2. PICK q \in Int : W = q * C + (W % C)
  <2>1. W \div C \in Int /\ W = (W \div C) * C + (W % C)
    OBVIOUS
  <2>q. QED BY <2>1
<1>3. a % C \in 0 .. C - 1
  BY ModRange
<1>4. a + W = (p + q) * C + (a % C)
  <2>1. (p + q) * C = p * C + q * C
     OBVIOUS
  <2> DEFINE r == a % C
  <2>2. r \in Int /\ a = p * C + r /\ W = q * C
     BY <1>1, <1>2, <1>3
  <2>3. a + W = (p + q) * C + r
     <3> HIDE DEF r
     <3> QED BY <2>1, <2>2
  <2>q. QED BY <2>3
<1>5. ((p + q) * C + (a % C)) % C = a % C
  BY <1>3, ModUnique
<1>q. QED BY <1>4, <1>5

(* Advancing the writer of a ring that is not full adds one element.       *)
LEMMA DistanceGrows ==
  ASSUME NEW W \in Nat \ {0}, NEW p \in 0 .. W - 1, NEW g \in 0 .. W - 1,
         Distance(p, g, W) < W - 1
  PROVE  Distance(Advance(p, W), g, W) = Distance(p, g, W) + 1
  BY DEF Distance, Advance

(* Advancing the reader of a ring that is not empty removes one element.   *)
LEMMA DistanceShrinks ==
  ASSUME NEW W \in Nat \ {0}, NEW p \in 0 .. W - 1, NEW g \in 0 .. W - 1,
         p # g
  PROVE  /\ Distance(p, g, W) > 0
         /\ Distance(p, Advance(g, W), W) = Distance(p, g, W) - 1
  BY DEF Distance, Advance

(* A counter advanced stays a counter, and a distance is a counter value.  *)
LEMMA CounterTypes ==
  ASSUME NEW W \in Nat \ {0}, NEW p \in 0 .. W - 1, NEW g \in 0 .. W - 1
  PROVE  /\ Advance(p, W) \in 0 .. W - 1
         /\ Distance(p, g, W) \in 0 .. W - 1
         /\ Distance(p, g, W) = 0 <=> p = g
  BY DEF Distance, Advance

(* The writer's slot lies as many places behind the reader's as the ring   *)
(* holds elements, whether or not the writer has wrapped.                  *)
LEMMA WriterSlot ==
  ASSUME NEW C \in Nat \ {0}, NEW W \in Nat \ {0}, W % C = 0,
         NEW p \in 0 .. W - 1, NEW g \in 0 .. W - 1
  PROVE  (g + Distance(p, g, W)) % C = p % C
<1>1. CASE p >= g
  BY <1>1 DEF Distance
<1>2. CASE p < g
  <2>1. g + Distance(p, g, W) = p + W
    BY <1>2 DEF Distance
  <2>2. QED BY <2>1, ModPeriod
<1>3. QED BY <1>1, <1>2

(* After the reader advances, its k-th slot is what was its (k+1)-th.      *)
LEMMA ReaderSlot ==
  ASSUME NEW C \in Nat \ {0}, NEW W \in Nat \ {0}, W % C = 0,
         NEW g \in 0 .. W - 1, NEW k \in Nat
  PROVE  (Advance(g, W) + k) % C = (g + k + 1) % C
<1>1. CASE g # W - 1
  BY <1>1 DEF Advance
<1>2. CASE g = W - 1
  <2>1. Advance(g, W) + k = k /\ g + k + 1 = k + W
    BY <1>2 DEF Advance
  <2>2. (k + W) % C = k % C
    BY ModPeriod
  <2>3. QED BY <2>1, <2>2
<1>3. QED BY <1>1, <1>2

-----------------------------------------------------------------------------
Off == {"spin", "body", "publish", "leave", "restore"}

Locking == \A t \in Thread : pc[t] \in Inside <=> lock = t

Disabled == \A t \in Thread : pc[t] \in Off => ~irqOn[CoreOf[t]]

Preemption ==
  /\ \A t \in Thread \ Handler : pc[t] \in Off => ~HandlerActive(CoreOf[t])
  /\ \A g, h \in Handler :
       pc[g] # "idle" /\ pc[h] # "idle" /\ CoreOf[g] = CoreOf[h] => g = h

Masking ==
  \A t \in masked : /\ ~irqOn[CoreOf[t]]
                    /\ ~HandlerActive(CoreOf[t])
                    /\ pc[t] \in Off => ~saved[t]

Ring ==
  /\ Pending <= Capacity
  /\ \A t \in Thread : pc[t] \in {"publish", "sev"} => op[t] = "post"
  /\ \A t \in Thread : pc[t] = "publish" =>
       /\ arg[t] \in Event /\ Pending < Capacity
       /\ slots[put % Capacity] = arg[t]

WakeInv ==
  /\ NoLostWakeup
  /\ \A t \in Thread : op[t] # "post" => t = Consumer

Inv ==
  TypeOK /\ Locking /\ Disabled /\ Preemption /\ Masking /\ Ring /\ WakeInv

-----------------------------------------------------------------------------
(* At most one thread per core has disabled the interrupts.                *)
LEMMA OnePerCore ==
  ASSUME TypeOK, Preemption, NEW t \in Thread, NEW u \in Thread,
         pc[t] \in Off, pc[u] \in Off, CoreOf[t] = CoreOf[u]
  PROVE  t = u
  BY MailboxAssumption DEF Preemption, HandlerActive, Off

(* What the proofs use of the constants. *)
LEMMA ConstantFacts ==
  /\ Capacity \in Nat \ {0} /\ Wrap \in Nat \ {0} /\ Capacity < Wrap
  /\ MaxDropped \in Nat /\ MaxPosts \in Nat
  /\ Handler \subseteq Thread /\ Consumer \in Thread /\ Consumer \notin Handler
  /\ CoreOf \in [Thread -> Core]
  /\ Nobody \notin Thread
  BY MailboxAssumption

(* Ordinary code of a core is a single thread. *)
LEMMA OneOrdinary ==
  ASSUME NEW t \in Thread \ Handler, NEW u \in Thread \ Handler,
         CoreOf[t] = CoreOf[u]
  PROVE  t = u
  BY MailboxAssumption

(* A counter that advances stays within its 32 bits. *)
LEMMA IncType == ASSUME NEW x \in Counter PROVE Inc(x) \in Counter
  BY ConstantFacts DEF Counter, Inc, Advance

(* The counters index slots of the ring. *)
LEMMA SlotType == ASSUME NEW x \in Counter PROVE x % Capacity \in Slot
  BY ConstantFacts, ModRange DEF Counter, Slot

(* Every variable keeps the type of the C object it stands for. *)
LEMMA TypeInit == Init => TypeOK
<1>1. 0 \in Counter /\ 0 \in 0 .. MaxDropped /\ 0 \in 0 .. MaxPosts
  BY ConstantFacts DEF Counter
<1>2. QED BY <1>1 DEF Init, TypeOK, Label, Operation

LEMMA TypeStep == TypeOK /\ [Next]_vars => TypeOK'
<1> SUFFICES ASSUME TypeOK, [Next]_vars PROVE TypeOK'
  OBVIOUS
<1> USE DEF TypeOK, ring, local, Goto, Label, Operation
<1>1. ASSUME NEW t \in Thread, NEW e \in Event \cup {NoEvent}, BeginPost(t, e)
      PROVE  TypeOK'
  BY <1>1, ConstantFacts DEF BeginPost
<1>2. CASE BeginTake
  BY <1>2, ConstantFacts DEF BeginTake
<1>3. CASE BeginWait
  BY <1>3, ConstantFacts DEF BeginWait
<1>4. CASE WaitForEvent
  BY <1>4, ConstantFacts DEF WaitForEvent
<1>5. ASSUME NEW t \in Thread, Mask(t) PROVE TypeOK'
  BY <1>5, ConstantFacts DEF Mask
<1>6. ASSUME NEW t \in Thread, Unmask(t) PROVE TypeOK'
  BY <1>6, ConstantFacts DEF Unmask
<1>7. ASSUME NEW t \in Thread, Wake(t) PROVE TypeOK'
  BY <1>7, ConstantFacts DEF Wake
<1>8. ASSUME NEW t \in Thread, DisableInterrupts(t) PROVE TypeOK'
  BY <1>8, ConstantFacts DEF DisableInterrupts
<1>9. ASSUME NEW t \in Thread, Acquire(t) PROVE TypeOK'
  BY <1>9, ConstantFacts DEF Acquire
<1>10. ASSUME NEW t \in Thread, PostIgnored(t) PROVE TypeOK'
  BY <1>10, ConstantFacts DEF PostIgnored
<1>11. ASSUME NEW t \in Thread, PostRefused(t) PROVE TypeOK'
  BY <1>11, ConstantFacts DEF PostRefused
<1>12. ASSUME NEW t \in Thread, PostFill(t) PROVE TypeOK'
  BY <1>12, ConstantFacts, SlotType DEF PostFill
<1>13. ASSUME NEW t \in Thread, PostPublish(t) PROVE TypeOK'
  BY <1>13, ConstantFacts, IncType DEF PostPublish
<1>14. ASSUME NEW t \in Thread, TakeEvent(t) PROVE TypeOK'
  BY <1>14, ConstantFacts, IncType DEF TakeEvent
<1>15. ASSUME NEW t \in Thread, TakeNothing(t) PROVE TypeOK'
  BY <1>15, ConstantFacts DEF TakeNothing
<1>16. ASSUME NEW t \in Thread, ReadPending(t) PROVE TypeOK'
  BY <1>16, ConstantFacts DEF ReadPending
<1>17. ASSUME NEW t \in Thread, Release(t) PROVE TypeOK'
  BY <1>17, ConstantFacts DEF Release
<1>18. ASSUME NEW t \in Thread, RestoreInterrupts(t) PROVE TypeOK'
  BY <1>18, ConstantFacts DEF RestoreInterrupts, AfterRestore
<1>19. ASSUME NEW t \in Thread, SendEvent(t) PROVE TypeOK'
  BY <1>19, ConstantFacts DEF SendEvent
<1>20. CASE UNCHANGED vars
  BY <1>20 DEF vars
<1>q. QED
  BY <1>1, <1>2, <1>3, <1>4, <1>5, <1>6, <1>7, <1>8, <1>9, <1>10, <1>11, <1>12, <1>13, <1>14, <1>15, <1>16, <1>17, <1>18, <1>19, <1>20 DEF Next, Step

(* The lock is held exactly by the thread that is inside it. *)
LEMMA LockingStep == TypeOK /\ Locking /\ [Next]_vars => Locking'
<1> SUFFICES ASSUME TypeOK, Locking, [Next]_vars PROVE Locking'
  OBVIOUS
<1> USE DEF Locking, MayStart, TypeOK, ring, local, Goto, Inside, Off
<1>1. ASSUME NEW t \in Thread, NEW e \in Event \cup {NoEvent}, BeginPost(t, e)
      PROVE  Locking'
  BY <1>1, ConstantFacts DEF BeginPost
<1>2. CASE BeginTake
  BY <1>2, ConstantFacts DEF BeginTake
<1>3. CASE BeginWait
  BY <1>3, ConstantFacts DEF BeginWait
<1>4. CASE WaitForEvent
  BY <1>4, ConstantFacts DEF WaitForEvent
<1>5. ASSUME NEW t \in Thread, Mask(t) PROVE Locking'
  BY <1>5, ConstantFacts DEF Mask
<1>6. ASSUME NEW t \in Thread, Unmask(t) PROVE Locking'
  BY <1>6, ConstantFacts DEF Unmask
<1>7. ASSUME NEW t \in Thread, Wake(t) PROVE Locking'
  BY <1>7, ConstantFacts DEF Wake
<1>8. ASSUME NEW t \in Thread, DisableInterrupts(t) PROVE Locking'
  BY <1>8, ConstantFacts DEF DisableInterrupts
<1>9. ASSUME NEW t \in Thread, Acquire(t) PROVE Locking'
  BY <1>9, ConstantFacts DEF Acquire
<1>10. ASSUME NEW t \in Thread, PostIgnored(t) PROVE Locking'
  BY <1>10, ConstantFacts DEF PostIgnored
<1>11. ASSUME NEW t \in Thread, PostRefused(t) PROVE Locking'
  BY <1>11, ConstantFacts DEF PostRefused
<1>12. ASSUME NEW t \in Thread, PostFill(t) PROVE Locking'
  BY <1>12, ConstantFacts DEF PostFill
<1>13. ASSUME NEW t \in Thread, PostPublish(t) PROVE Locking'
  BY <1>13, ConstantFacts DEF PostPublish
<1>14. ASSUME NEW t \in Thread, TakeEvent(t) PROVE Locking'
  BY <1>14, ConstantFacts DEF TakeEvent
<1>15. ASSUME NEW t \in Thread, TakeNothing(t) PROVE Locking'
  BY <1>15, ConstantFacts DEF TakeNothing
<1>16. ASSUME NEW t \in Thread, ReadPending(t) PROVE Locking'
  BY <1>16, ConstantFacts DEF ReadPending
<1>17. ASSUME NEW t \in Thread, Release(t) PROVE Locking'
  BY <1>17, ConstantFacts DEF Release
<1>18. ASSUME NEW t \in Thread, RestoreInterrupts(t) PROVE Locking'
  BY <1>18, ConstantFacts DEF RestoreInterrupts, AfterRestore
<1>19. ASSUME NEW t \in Thread, SendEvent(t) PROVE Locking'
  BY <1>19, ConstantFacts DEF SendEvent
<1>20. CASE UNCHANGED vars
  BY <1>20 DEF vars
<1>q. QED
  BY <1>1, <1>2, <1>3, <1>4, <1>5, <1>6, <1>7, <1>8, <1>9, <1>10, <1>11, <1>12, <1>13, <1>14, <1>15, <1>16, <1>17, <1>18, <1>19, <1>20 DEF Next, Step

(* Interrupts stay disabled while a thread is between enter and leave. *)
LEMMA DisabledStep == TypeOK /\ Preemption /\ Disabled /\ Masking /\ [Next]_vars => Disabled'
<1> SUFFICES ASSUME TypeOK, Preemption, Disabled, Masking, [Next]_vars PROVE Disabled'
  OBVIOUS
<1> USE DEF Disabled, MayStart, TypeOK, ring, local, Goto, Inside, Off
<1>1. ASSUME NEW t \in Thread, NEW e \in Event \cup {NoEvent}, BeginPost(t, e)
      PROVE  Disabled'
  BY <1>1, ConstantFacts, OnePerCore DEF BeginPost
<1>2. CASE BeginTake
  BY <1>2, ConstantFacts, OnePerCore DEF BeginTake
<1>3. CASE BeginWait
  BY <1>3, ConstantFacts, OnePerCore DEF BeginWait
<1>4. CASE WaitForEvent
  BY <1>4, ConstantFacts, OnePerCore DEF WaitForEvent
<1>5. ASSUME NEW t \in Thread, Mask(t) PROVE Disabled'
  BY <1>5, ConstantFacts, OnePerCore DEF Mask
<1>6. ASSUME NEW t \in Thread, Unmask(t) PROVE Disabled'
  BY <1>6, ConstantFacts, OneOrdinary DEF HandlerActive, Runs, Unmask
<1>7. ASSUME NEW t \in Thread, Wake(t) PROVE Disabled'
  BY <1>7, ConstantFacts, OnePerCore DEF Wake
<1>8. ASSUME NEW t \in Thread, DisableInterrupts(t) PROVE Disabled'
  BY <1>8, ConstantFacts, OnePerCore DEF DisableInterrupts
<1>9. ASSUME NEW t \in Thread, Acquire(t) PROVE Disabled'
  BY <1>9, ConstantFacts, OnePerCore DEF Acquire
<1>10. ASSUME NEW t \in Thread, PostIgnored(t) PROVE Disabled'
  BY <1>10, ConstantFacts, OnePerCore DEF PostIgnored
<1>11. ASSUME NEW t \in Thread, PostRefused(t) PROVE Disabled'
  BY <1>11, ConstantFacts, OnePerCore DEF PostRefused
<1>12. ASSUME NEW t \in Thread, PostFill(t) PROVE Disabled'
  BY <1>12, ConstantFacts, OnePerCore DEF PostFill
<1>13. ASSUME NEW t \in Thread, PostPublish(t) PROVE Disabled'
  BY <1>13, ConstantFacts, OnePerCore DEF PostPublish
<1>14. ASSUME NEW t \in Thread, TakeEvent(t) PROVE Disabled'
  BY <1>14, ConstantFacts, OnePerCore DEF TakeEvent
<1>15. ASSUME NEW t \in Thread, TakeNothing(t) PROVE Disabled'
  BY <1>15, ConstantFacts, OnePerCore DEF TakeNothing
<1>16. ASSUME NEW t \in Thread, ReadPending(t) PROVE Disabled'
  BY <1>16, ConstantFacts, OnePerCore DEF ReadPending
<1>17. ASSUME NEW t \in Thread, Release(t) PROVE Disabled'
  BY <1>17, ConstantFacts, OnePerCore DEF Release
<1>18. ASSUME NEW t \in Thread, RestoreInterrupts(t) PROVE Disabled'
  BY <1>18, ConstantFacts, OnePerCore DEF RestoreInterrupts, AfterRestore
<1>19. ASSUME NEW t \in Thread, SendEvent(t) PROVE Disabled'
  BY <1>19, ConstantFacts, OnePerCore DEF SendEvent
<1>20. CASE UNCHANGED vars
  BY <1>20 DEF vars
<1>q. QED
  BY <1>1, <1>2, <1>3, <1>4, <1>5, <1>6, <1>7, <1>8, <1>9, <1>10, <1>11, <1>12, <1>13, <1>14, <1>15, <1>16, <1>17, <1>18, <1>19, <1>20 DEF Next, Step


(* A handler starts only where no thread has disabled the interrupts, and  *)
(* keeps its core until it ends. *)
LEMMA PreemptionStep == TypeOK /\ Disabled /\ Preemption /\ [Next]_vars => Preemption'
<1> SUFFICES ASSUME TypeOK, Disabled, Preemption, [Next]_vars PROVE Preemption'
  OBVIOUS
<1> USE DEF Preemption, HandlerActive, MayStart, Runs, TypeOK, ring, local, Goto, Inside, Off
<1>1. ASSUME NEW t \in Thread, NEW e \in Event \cup {NoEvent}, BeginPost(t, e)
      PROVE  Preemption'
  <2>1. /\ pc[t] = "idle" /\ pc' = [pc EXCEPT ![t] = "enter"]
        /\ t \in Handler => irqOn[CoreOf[t]]
        /\ \A h \in Handler : CoreOf[h] = CoreOf[t] => pc[h] = "idle"
    BY <1>1 DEF BeginPost
  <2>2. ASSUME NEW u \in Thread \ Handler, pc'[u] \in Off,
               NEW h \in Handler, CoreOf[h] = CoreOf[u]
        PROVE  pc'[h] = "idle"
    <3>1. u # t /\ pc[u] \in Off
      BY <2>1, <2>2
    <3>2. ~irqOn[CoreOf[u]] /\ pc[h] = "idle"
      BY <2>2, <3>1, ConstantFacts DEF Disabled
    <3>3. h # t
      BY <2>1, <2>2, <3>2
    <3>4. QED BY <2>1, <3>2, <3>3, ConstantFacts
  <2>3. ASSUME NEW g \in Handler, NEW h \in Handler,
               pc'[g] # "idle", pc'[h] # "idle", CoreOf[g] = CoreOf[h]
        PROVE  g = h
    BY <2>1, <2>3, ConstantFacts
  <2>4. QED BY <2>2, <2>3
<1>2. CASE BeginTake
  BY <1>2, ConstantFacts DEF BeginTake
<1>3. CASE BeginWait
  BY <1>3, ConstantFacts DEF BeginWait
<1>4. CASE WaitForEvent
  BY <1>4, ConstantFacts DEF WaitForEvent
<1>5. ASSUME NEW t \in Thread, Mask(t) PROVE Preemption'
  BY <1>5, ConstantFacts DEF Mask
<1>6. ASSUME NEW t \in Thread, Unmask(t) PROVE Preemption'
  BY <1>6, ConstantFacts DEF Unmask
<1>7. ASSUME NEW t \in Thread, Wake(t) PROVE Preemption'
  BY <1>7, ConstantFacts DEF Wake
<1>8. ASSUME NEW t \in Thread, DisableInterrupts(t) PROVE Preemption'
  BY <1>8, ConstantFacts DEF DisableInterrupts
<1>9. ASSUME NEW t \in Thread, Acquire(t) PROVE Preemption'
  BY <1>9, ConstantFacts DEF Acquire
<1>10. ASSUME NEW t \in Thread, PostIgnored(t) PROVE Preemption'
  BY <1>10, ConstantFacts DEF PostIgnored
<1>11. ASSUME NEW t \in Thread, PostRefused(t) PROVE Preemption'
  BY <1>11, ConstantFacts DEF PostRefused
<1>12. ASSUME NEW t \in Thread, PostFill(t) PROVE Preemption'
  BY <1>12, ConstantFacts DEF PostFill
<1>13. ASSUME NEW t \in Thread, PostPublish(t) PROVE Preemption'
  BY <1>13, ConstantFacts DEF PostPublish
<1>14. ASSUME NEW t \in Thread, TakeEvent(t) PROVE Preemption'
  BY <1>14, ConstantFacts DEF TakeEvent
<1>15. ASSUME NEW t \in Thread, TakeNothing(t) PROVE Preemption'
  BY <1>15, ConstantFacts DEF TakeNothing
<1>16. ASSUME NEW t \in Thread, ReadPending(t) PROVE Preemption'
  BY <1>16, ConstantFacts DEF ReadPending
<1>17. ASSUME NEW t \in Thread, Release(t) PROVE Preemption'
  BY <1>17, ConstantFacts DEF Release
<1>18. ASSUME NEW t \in Thread, RestoreInterrupts(t) PROVE Preemption'
  BY <1>18, ConstantFacts DEF RestoreInterrupts, AfterRestore
<1>19. ASSUME NEW t \in Thread, SendEvent(t) PROVE Preemption'
  BY <1>19, ConstantFacts DEF SendEvent
<1>20. CASE UNCHANGED vars
  BY <1>20 DEF vars
<1>q. QED
  BY <1>1, <1>2, <1>3, <1>4, <1>5, <1>6, <1>7, <1>8, <1>9, <1>10, <1>11, <1>12, <1>13, <1>14, <1>15, <1>16, <1>17, <1>18, <1>19, <1>20 DEF Next, Step


(* A critical section of the caller lasts until the caller ends it. *)
LEMMA MaskingStep == TypeOK /\ Disabled /\ Preemption /\ Masking /\ [Next]_vars => Masking'
<1> SUFFICES ASSUME TypeOK, Disabled, Preemption, Masking, [Next]_vars PROVE Masking'
  OBVIOUS
<1> USE DEF Masking, HandlerActive, MayStart, Runs, TypeOK, ring, local, Goto, Inside, Off
<1>1. ASSUME NEW t \in Thread, NEW e \in Event \cup {NoEvent}, BeginPost(t, e)
      PROVE  Masking'
  BY <1>1, ConstantFacts, OneOrdinary DEF BeginPost
<1>2. CASE BeginTake
  BY <1>2, ConstantFacts, OneOrdinary DEF BeginTake
<1>3. CASE BeginWait
  BY <1>3, ConstantFacts, OneOrdinary DEF BeginWait
<1>4. CASE WaitForEvent
  BY <1>4, ConstantFacts, OneOrdinary DEF WaitForEvent
<1>5. ASSUME NEW t \in Thread, Mask(t) PROVE Masking'
  BY <1>5, ConstantFacts, OneOrdinary DEF Mask
<1>6. ASSUME NEW t \in Thread, Unmask(t) PROVE Masking'
  BY <1>6, ConstantFacts, OneOrdinary DEF Unmask
<1>7. ASSUME NEW t \in Thread, Wake(t) PROVE Masking'
  BY <1>7, ConstantFacts, OneOrdinary DEF Wake
<1>8. ASSUME NEW t \in Thread, DisableInterrupts(t) PROVE Masking'
  BY <1>8, ConstantFacts, OneOrdinary DEF DisableInterrupts
<1>9. ASSUME NEW t \in Thread, Acquire(t) PROVE Masking'
  BY <1>9, ConstantFacts, OneOrdinary DEF Acquire
<1>10. ASSUME NEW t \in Thread, PostIgnored(t) PROVE Masking'
  BY <1>10, ConstantFacts, OneOrdinary DEF PostIgnored
<1>11. ASSUME NEW t \in Thread, PostRefused(t) PROVE Masking'
  BY <1>11, ConstantFacts, OneOrdinary DEF PostRefused
<1>12. ASSUME NEW t \in Thread, PostFill(t) PROVE Masking'
  BY <1>12, ConstantFacts, OneOrdinary DEF PostFill
<1>13. ASSUME NEW t \in Thread, PostPublish(t) PROVE Masking'
  BY <1>13, ConstantFacts, OneOrdinary DEF PostPublish
<1>14. ASSUME NEW t \in Thread, TakeEvent(t) PROVE Masking'
  BY <1>14, ConstantFacts, OneOrdinary DEF TakeEvent
<1>15. ASSUME NEW t \in Thread, TakeNothing(t) PROVE Masking'
  BY <1>15, ConstantFacts, OneOrdinary DEF TakeNothing
<1>16. ASSUME NEW t \in Thread, ReadPending(t) PROVE Masking'
  BY <1>16, ConstantFacts, OneOrdinary DEF ReadPending
<1>17. ASSUME NEW t \in Thread, Release(t) PROVE Masking'
  BY <1>17, ConstantFacts, OneOrdinary DEF Release
<1>18. ASSUME NEW t \in Thread, RestoreInterrupts(t) PROVE Masking'
  BY <1>18, ConstantFacts, OneOrdinary DEF RestoreInterrupts, AfterRestore
<1>19. ASSUME NEW t \in Thread, SendEvent(t) PROVE Masking'
  BY <1>19, ConstantFacts, OneOrdinary DEF SendEvent
<1>20. CASE UNCHANGED vars
  BY <1>20 DEF vars
<1>q. QED
  BY <1>1, <1>2, <1>3, <1>4, <1>5, <1>6, <1>7, <1>8, <1>9, <1>10, <1>11, <1>12, <1>13, <1>14, <1>15, <1>16, <1>17, <1>18, <1>19, <1>20 DEF Next, Step

(* The difference of the counters is 0 exactly when they are equal.        *)
LEMMA PendingFacts ==
  ASSUME TypeOK
  PROVE  /\ Pending \in Nat
         /\ Pending = 0 <=> put = get
         /\ Pending < Capacity => Distance(Inc(put), get, Wrap) = Pending + 1
         /\ put # get => Distance(put, Inc(get), Wrap) = Pending - 1
  BY ConstantFacts, CounterTypes, DistanceGrows, DistanceShrinks
     DEF TypeOK, Counter, Pending, Inc

(* The slot a thread is about to publish is the next one, is filled, and   *)
(* there is room for it. *)
LEMMA RingStep == TypeOK /\ Locking /\ Ring /\ [Next]_vars => Ring'
<1> SUFFICES ASSUME TypeOK, Locking, Ring, [Next]_vars PROVE Ring'
  OBVIOUS
<1>a. Pending \in Nat /\ (Pending = 0 <=> put = get)
  BY PendingFacts
<1>b. UNCHANGED <<put, get>> => Pending' = Pending
  BY DEF Pending
<1>c. Pending' = Distance(put', get', Wrap)
  BY DEF Pending
<1> USE DEF TypeOK, ring, local, Goto, MayStart, Inside, Off, Ring
<1>1. ASSUME NEW t \in Thread, NEW e \in Event \cup {NoEvent}, BeginPost(t, e)
      PROVE  Ring'
  BY <1>1, <1>a, <1>b, ConstantFacts DEF BeginPost
<1>2. CASE BeginTake
  BY <1>2, <1>a, <1>b, ConstantFacts DEF BeginTake
<1>3. CASE BeginWait
  BY <1>3, <1>a, <1>b, ConstantFacts DEF BeginWait
<1>4. CASE WaitForEvent
  BY <1>4, <1>a, <1>b, ConstantFacts DEF WaitForEvent
<1>5. ASSUME NEW t \in Thread, Mask(t) PROVE Ring'
  BY <1>5, <1>a, <1>b, ConstantFacts DEF Mask
<1>6. ASSUME NEW t \in Thread, Unmask(t) PROVE Ring'
  BY <1>6, <1>a, <1>b, ConstantFacts DEF Unmask
<1>7. ASSUME NEW t \in Thread, Wake(t) PROVE Ring'
  BY <1>7, <1>a, <1>b, ConstantFacts DEF Wake
<1>8. ASSUME NEW t \in Thread, DisableInterrupts(t) PROVE Ring'
  BY <1>8, <1>a, <1>b, ConstantFacts DEF DisableInterrupts
<1>9. ASSUME NEW t \in Thread, Acquire(t) PROVE Ring'
  BY <1>9, <1>a, <1>b, ConstantFacts DEF Acquire
<1>10. ASSUME NEW t \in Thread, PostIgnored(t) PROVE Ring'
  BY <1>10, <1>a, <1>b, ConstantFacts DEF PostIgnored
<1>11. ASSUME NEW t \in Thread, PostRefused(t) PROVE Ring'
  BY <1>11, <1>a, <1>b, ConstantFacts DEF PostRefused
<1>12. ASSUME NEW t \in Thread, PostFill(t) PROVE Ring'
  BY <1>12, <1>a, <1>b, ConstantFacts, SlotType DEF PostFill, Locking
<1>13. ASSUME NEW t \in Thread, PostPublish(t) PROVE Ring'
  BY <1>13, <1>a, <1>c, ConstantFacts, PendingFacts DEF PostPublish, Locking
<1>14. ASSUME NEW t \in Thread, TakeEvent(t) PROVE Ring'
  BY <1>14, <1>a, <1>c, ConstantFacts, PendingFacts DEF TakeEvent
<1>15. ASSUME NEW t \in Thread, TakeNothing(t) PROVE Ring'
  BY <1>15, <1>a, <1>b, ConstantFacts DEF TakeNothing
<1>16. ASSUME NEW t \in Thread, ReadPending(t) PROVE Ring'
  BY <1>16, <1>a, <1>b, ConstantFacts DEF ReadPending
<1>17. ASSUME NEW t \in Thread, Release(t) PROVE Ring'
  BY <1>17, <1>a, <1>b, ConstantFacts DEF Release
<1>18. ASSUME NEW t \in Thread, RestoreInterrupts(t) PROVE Ring'
  BY <1>18, <1>a, <1>b, ConstantFacts DEF RestoreInterrupts, AfterRestore
<1>19. ASSUME NEW t \in Thread, SendEvent(t) PROVE Ring'
  BY <1>19, <1>a, <1>b, ConstantFacts DEF SendEvent
<1>20. CASE UNCHANGED vars
  BY <1>20, <1>b DEF vars
<1>q. QED
  BY <1>1, <1>2, <1>3, <1>4, <1>5, <1>6, <1>7, <1>8, <1>9, <1>10, <1>11, <1>12, <1>13, <1>14, <1>15, <1>16, <1>17, <1>18, <1>19, <1>20 DEF Next, Step


(* Core 0 commits to sleep only on an empty mailbox, and whoever fills it   *)
(* afterwards signals after filling. *)
LEMMA WakeStep == TypeOK /\ Ring /\ WakeInv /\ [Next]_vars => WakeInv'
<1> SUFFICES ASSUME TypeOK, Ring, WakeInv, [Next]_vars PROVE WakeInv'
  OBVIOUS
<1>a. Pending \in Nat /\ (Pending = 0 <=> put = get)
  BY PendingFacts
<1>b. UNCHANGED <<put, get>> => Pending' = Pending
  BY DEF Pending
<1>c. Pending' = Distance(put', get', Wrap)
  BY DEF Pending
<1> USE DEF TypeOK, ring, local, Goto, MayStart, Ring, WakeInv, NoLostWakeup, Committed, Announcing
<1>1. ASSUME NEW t \in Thread, NEW e \in Event \cup {NoEvent}, BeginPost(t, e)
      PROVE  WakeInv'
  BY <1>1, <1>a, <1>b, ConstantFacts DEF BeginPost
<1>2. CASE BeginTake
  BY <1>2, <1>a, <1>b, ConstantFacts DEF BeginTake
<1>3. CASE BeginWait
  BY <1>3, <1>a, <1>b, ConstantFacts DEF BeginWait
<1>4. CASE WaitForEvent
  BY <1>4, <1>a, <1>b, ConstantFacts DEF WaitForEvent
<1>5. ASSUME NEW t \in Thread, Mask(t) PROVE WakeInv'
  BY <1>5, <1>a, <1>b, ConstantFacts DEF Mask
<1>6. ASSUME NEW t \in Thread, Unmask(t) PROVE WakeInv'
  BY <1>6, <1>a, <1>b, ConstantFacts DEF Unmask
<1>7. ASSUME NEW t \in Thread, Wake(t) PROVE WakeInv'
  BY <1>7, <1>a, <1>b, ConstantFacts DEF Wake
<1>8. ASSUME NEW t \in Thread, DisableInterrupts(t) PROVE WakeInv'
  BY <1>8, <1>a, <1>b, ConstantFacts DEF DisableInterrupts
<1>9. ASSUME NEW t \in Thread, Acquire(t) PROVE WakeInv'
  BY <1>9, <1>a, <1>b, ConstantFacts DEF Acquire
<1>10. ASSUME NEW t \in Thread, PostIgnored(t) PROVE WakeInv'
  BY <1>10, <1>a, <1>b, ConstantFacts DEF PostIgnored
<1>11. ASSUME NEW t \in Thread, PostRefused(t) PROVE WakeInv'
  BY <1>11, <1>a, <1>b, ConstantFacts DEF PostRefused
<1>12. ASSUME NEW t \in Thread, PostFill(t) PROVE WakeInv'
  BY <1>12, <1>a, <1>b, ConstantFacts DEF PostFill
<1>13. ASSUME NEW t \in Thread, PostPublish(t) PROVE WakeInv'
  BY <1>13, <1>a, <1>b, ConstantFacts DEF PostPublish
<1>14. ASSUME NEW t \in Thread, TakeEvent(t) PROVE WakeInv'
  BY <1>14, <1>a, <1>c, ConstantFacts, PendingFacts DEF TakeEvent
<1>15. ASSUME NEW t \in Thread, TakeNothing(t) PROVE WakeInv'
  BY <1>15, <1>a, <1>b, ConstantFacts DEF TakeNothing
<1>16. ASSUME NEW t \in Thread, ReadPending(t) PROVE WakeInv'
  BY <1>16, <1>a, <1>b, ConstantFacts DEF ReadPending
<1>17. ASSUME NEW t \in Thread, Release(t) PROVE WakeInv'
  BY <1>17, <1>a, <1>b, ConstantFacts DEF Release
<1>18. ASSUME NEW t \in Thread, RestoreInterrupts(t) PROVE WakeInv'
  BY <1>18, <1>a, <1>b, ConstantFacts DEF RestoreInterrupts, AfterRestore
<1>19. ASSUME NEW t \in Thread, SendEvent(t) PROVE WakeInv'
  BY <1>19, <1>a, <1>b, ConstantFacts DEF SendEvent
<1>20. CASE UNCHANGED vars
  BY <1>20, <1>b DEF vars
<1>q. QED
  BY <1>1, <1>2, <1>3, <1>4, <1>5, <1>6, <1>7, <1>8, <1>9, <1>10, <1>11, <1>12, <1>13, <1>14, <1>15, <1>16, <1>17, <1>18, <1>19, <1>20 DEF Next, Step

-----------------------------------------------------------------------------
LEMMA InvInit == Init => Inv
<1>1. ASSUME Init PROVE Pending = 0
  BY <1>1, TypeInit, PendingFacts DEF Init
<1>2. SUFFICES ASSUME Init PROVE Inv
  OBVIOUS
<1>3. Locking /\ Disabled /\ Preemption
  BY <1>2, ConstantFacts
     DEF Init, Locking, Disabled, Preemption, HandlerActive, Inside, Off
<1>4. Masking
  BY <1>2 DEF Init, Masking
<1>5. Ring /\ WakeInv
  <2>1. Pending <= Capacity
    BY <1>1, <1>2, ConstantFacts
  <2>2. /\ \A t \in Thread : pc[t] = "idle" /\ op[t] = "post"
        /\ op[Consumer] = "post"
    BY <1>2, ConstantFacts DEF Init
  <2>3. QED BY <2>1, <2>2 DEF Ring, WakeInv, NoLostWakeup, Committed
<1>6. QED BY <1>2, <1>3, <1>4, <1>5, TypeInit DEF Inv

(* The invariant holds in every state the mailbox reaches. *)
THEOREM Invariance == Spec => []Inv
<1>1. Inv /\ [Next]_vars => Inv'
  BY TypeStep, LockingStep, DisabledStep, PreemptionStep, MaskingStep, RingStep,
     WakeStep DEF Inv
<1>2. QED BY InvInit, <1>1, PTL DEF Spec

(* Every variable keeps the type of the C object it stands for. *)
THEOREM TypeCorrect == Spec => []TypeOK
<1>1. Inv => TypeOK BY DEF Inv
<1>2. QED BY Invariance, <1>1, PTL

(* No handler suspends the owner of the spin lock, on any core, whatever   *)
(* posts from wherever: a handler never spins on the code it interrupted.  *)
THEOREM HolderAlwaysRuns == Spec => []HolderRuns
<1>1. Inv => HolderRuns
  BY DEF Inv, TypeOK, Locking, Preemption, HolderRuns, Runs, Inside, Off
<1>2. QED BY Invariance, <1>1, PTL

(* Posting never enables interrupts that the caller had disabled. *)
THEOREM CallerMaskAlwaysKept == Spec => []CallerMaskKept
<1>1. Inv => CallerMaskKept BY DEF Inv, Masking, CallerMaskKept
<1>2. QED BY Invariance, <1>1, PTL

(* Both halves of the lock's discipline together. *)
THEOREM LockDisciplineKept == Spec => []LockDiscipline
<1>1. HolderRuns /\ CallerMaskKept => LockDiscipline BY DEF LockDiscipline
<1>2. QED BY HolderAlwaysRuns, CallerMaskAlwaysKept, <1>1, PTL

(* Core 0 never sleeps on an event it has not been signalled for. *)
THEOREM WakeupNeverLost == Spec => []NoLostWakeup
<1>1. Inv => NoLostWakeup BY DEF Inv, WakeInv
<1>2. QED BY Invariance, <1>1, PTL

-----------------------------------------------------------------------------
(* The ring read from get onwards is the abstract queue.                   *)

LEMMA ContentsType ==
  ASSUME Inv
  PROVE  /\ Contents \in Seq(Event \cup {NoEvent})
         /\ Len(Contents) = Pending
         /\ Pending \in 0 .. Capacity
         /\ \A i \in 1 .. Pending : Contents[i] = slots[(get + i - 1) % Capacity]
<1>1. Pending \in 0 .. Capacity
  BY PendingFacts, ConstantFacts DEF Inv, Ring
<1>2. ASSUME NEW i \in 1 .. Pending PROVE (get + i - 1) % Capacity \in Slot
  BY <1>1, ModRange, ConstantFacts DEF Inv, TypeOK, Counter, Slot
<1>3. QED
  BY <1>1, <1>2 DEF Contents, Inv, TypeOK

(* Publishing appends the event that was written to the next slot. *)
LEMMA PublishAppends ==
  ASSUME Inv, NEW t \in Thread, PostPublish(t)
  PROVE  Contents' = Append(Contents, arg[t])
<1> USE ConstantFacts
<1>1. /\ put' = Inc(put) /\ get' = get /\ slots' = slots
      /\ Pending < Capacity /\ slots[put % Capacity] = arg[t]
  BY DEF PostPublish, Goto, Inv, Ring
<1>2. Pending' = Pending + 1
  BY <1>1, PendingFacts DEF Inv, Pending
<1>3. (get + Pending) % Capacity = put % Capacity
  BY WriterSlot, MailboxAssumption DEF Pending, Inv, TypeOK, Counter
<1>4. Contents' = [i \in 1 .. Pending + 1 |-> slots[(get + i - 1) % Capacity]]
  BY <1>1, <1>2 DEF Contents
<1>5. Append(Contents, arg[t]) =
        [i \in 1 .. Pending + 1 |->
           IF i = Pending + 1 THEN arg[t] ELSE Contents[i]]
  BY ContentsType
<1>6. ASSUME NEW i \in 1 .. Pending + 1
      PROVE  slots[(get + i - 1) % Capacity] =
               IF i = Pending + 1 THEN arg[t] ELSE Contents[i]
  <2>1. CASE i = Pending + 1
    <3>1. get + i - 1 = get + Pending
      BY <2>1, ContentsType DEF Inv, TypeOK, Counter
    <3>2. QED BY <1>1, <1>3, <2>1, <3>1
  <2>2. CASE i # Pending + 1
    BY <2>2, ContentsType
  <2>3. QED BY <2>1, <2>2
<1>7. QED BY <1>4, <1>5, <1>6

(* Filling the next slot touches none that waits to be read. *)
LEMMA FillKeeps ==
  ASSUME Inv, NEW t \in Thread, PostFill(t)
  PROVE  Contents' = Contents
<1> USE ConstantFacts
<1>1. /\ put' = put /\ get' = get
      /\ slots' = [slots EXCEPT ![put % Capacity] = arg[t]]
      /\ Pending < Capacity /\ Pending' = Pending
  BY DEF PostFill, Goto, Pending
<1>2. (get + Pending) % Capacity = put % Capacity
  BY WriterSlot, MailboxAssumption DEF Pending, Inv, TypeOK, Counter
<1>3. ASSUME NEW i \in 1 .. Pending
      PROVE  slots'[(get + i - 1) % Capacity] = slots[(get + i - 1) % Capacity]
  <2>1. /\ get + i - 1 \in Nat /\ get + Pending \in Nat
        /\ get + i - 1 < get + Pending
        /\ get + Pending < (get + i - 1) + Capacity
    <3>1. get \in Nat /\ Pending \in 0 .. Capacity /\ Pending < Capacity
      BY <1>1, ContentsType DEF Inv, TypeOK, Counter
    <3>2. QED BY <3>1
  <2>2. (get + i - 1) % Capacity # put % Capacity
    BY <1>2, <2>1, ModDistinct
  <2>3. QED BY <1>1, <2>2 DEF Inv, TypeOK
<1>4. QED BY <1>1, <1>3 DEF Contents

(* Advancing get removes the oldest event. *)
LEMMA TakeRemoves ==
  ASSUME Inv, NEW t \in Thread, TakeEvent(t)
  PROVE  Contents # <<>> /\ Contents' = Tail(Contents)
<1> USE ConstantFacts
<1>1. /\ put' = put /\ get' = Inc(get) /\ slots' = slots /\ put # get
  BY DEF TakeEvent, Goto
<1>2. Pending' = Pending - 1 /\ Pending > 0
  BY <1>1, PendingFacts DEF Inv, Pending
<1>3. Contents' = [i \in 1 .. Pending - 1 |-> slots[(get' + i - 1) % Capacity]]
  BY <1>1, <1>2 DEF Contents
<1>4. Tail(Contents) = [i \in 1 .. Pending - 1 |-> Contents[i + 1]]
  <2>1. Contents # <<>>
    BY <1>2, ContentsType
  <2>2. /\ Tail(Contents) \in Seq(Event \cup {NoEvent})
        /\ Len(Tail(Contents)) = Pending - 1
        /\ \A i \in 1 .. Pending - 1 : Tail(Contents)[i] = Contents[i + 1]
    BY <2>1, ContentsType, HeadTailProperties
  <2> DEFINE rest == [i \in 1 .. Pending - 1 |-> Contents[i + 1]]
  <2>3. Pending - 1 \in Nat
    BY <1>2, ContentsType
  <2>4. ASSUME NEW i \in 1 .. Pending - 1
        PROVE  Contents[i + 1] \in Event \cup {NoEvent}
    BY <2>2, <2>3
  <2>5. /\ rest \in Seq(Event \cup {NoEvent}) /\ Len(rest) = Pending - 1
        /\ \A i \in 1 .. Pending - 1 : rest[i] = Contents[i + 1]
    BY <2>3, <2>4
  <2>6. QED BY <2>2, <2>5, SeqEqual
<1>5. ASSUME NEW i \in 1 .. Pending - 1
      PROVE  slots[(get' + i - 1) % Capacity] = Contents[i + 1]
  <2>1. i - 1 \in Nat /\ i + 1 \in 1 .. Pending /\ get \in 0 .. Wrap - 1
    BY ContentsType DEF Inv, TypeOK, Counter
  <2>2. (Advance(get, Wrap) + (i - 1)) % Capacity = (get + (i - 1) + 1) % Capacity
    BY <2>1, ReaderSlot, MailboxAssumption
  <2>3. Contents[i + 1] = slots[(get + (i + 1) - 1) % Capacity]
    BY <2>1, ContentsType
  <2>4. /\ get' + i - 1 = Advance(get, Wrap) + (i - 1)
        /\ get + (i - 1) + 1 = get + (i + 1) - 1
    BY <1>1, <2>1, CounterTypes DEF Inc
  <2>5. QED BY <2>2, <2>3, <2>4
<1>6. Contents # <<>>
  BY <1>2, ContentsType
<1>7. QED BY <1>3, <1>4, <1>5, <1>6

(* Every step of the mailbox is a step of the queue or changes nothing of it. *)
LEMMA StepImplements == Inv /\ [Next]_vars => [Queue!Next]_(Queue!vars)
<1> SUFFICES ASSUME Inv, [Next]_vars PROVE [Queue!Next]_(Queue!vars)
  OBVIOUS
<1>1. ASSUME UNCHANGED ring PROVE UNCHANGED Queue!vars
  BY <1>1 DEF ring, Queue!vars, Contents, Pending
<1>2. ASSUME NEW t \in Thread, PostRefused(t) PROVE Queue!Next
  <2>1. Pending >= Capacity /\ UNCHANGED <<slots, put, get>>
    BY <1>2 DEF PostRefused
  <2>2. Len(Contents) = Capacity /\ UNCHANGED Contents
    BY <2>1, ContentsType, ConstantFacts DEF Contents, Pending
  <2>3. QED BY <1>2, <2>2 DEF PostRefused, Queue!Next, Queue!Refuse
<1>3. ASSUME NEW t \in Thread, PostFill(t) PROVE UNCHANGED Queue!vars
  BY <1>3, FillKeeps DEF PostFill, Queue!vars
<1>4. ASSUME NEW t \in Thread, PostPublish(t) PROVE Queue!Next
  <2>1. Pending < Capacity /\ arg[t] \in Event /\ dropped' = dropped
    BY <1>4 DEF PostPublish, Goto, Inv, Ring
  <2>2. Queue!Accept(arg[t])
    BY <1>4, <2>1, PublishAppends, ContentsType DEF Queue!Accept
  <2>3. QED BY <2>1, <2>2 DEF Queue!Next
<1>5. ASSUME NEW t \in Thread, TakeEvent(t) PROVE Queue!Next
  BY <1>5, TakeRemoves DEF TakeEvent, Queue!Next, Queue!Take
<1>6. CASE UNCHANGED vars
  BY <1>1, <1>6 DEF vars
<1>7. CASE Next
  <2>1. \/ UNCHANGED ring
        \/ \E t \in Thread : PostRefused(t) \/ PostFill(t) \/ PostPublish(t) \/ TakeEvent(t)
    BY <1>7 DEF Next, Step, BeginPost, BeginTake, BeginWait, WaitForEvent, Mask,
       Unmask, Wake, DisableInterrupts, Acquire, PostIgnored, TakeNothing,
       ReadPending, Release, RestoreInterrupts, SendEvent
  <2>2. QED BY <1>1, <1>2, <1>3, <1>4, <1>5, <2>1
<1>8. QED BY <1>6, <1>7

(* The mailbox implements the bounded FIFO: an accepted event is delivered *)
(* once, complete and in order, and a refused one is counted.              *)
THEOREM MailboxIsQueue == Spec => ImplementsQueue
<1>1. Init => Queue!Init
  <2> SUFFICES ASSUME Init PROVE Queue!Init
    OBVIOUS
  <2>1. Pending = 0 /\ dropped = 0
    BY TypeInit, PendingFacts DEF Init
  <2>2. Contents = <<>>
    BY <2>1, InvInit, ContentsType
  <2>3. QED BY <2>1, <2>2 DEF Queue!Init
<1>2. QED
  BY <1>1, StepImplements, Invariance, PTL DEF Spec, ImplementsQueue, Queue!Spec

=============================================================================
