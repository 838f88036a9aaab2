---------------------------- MODULE EventMailbox ----------------------------
(***************************************************************************)
(* The deferred-event mailbox of runtime.mod/native/pico_runtime.c: a ring *)
(* with free-running put and get counters, filled by interrupt handlers    *)
(* and by ordinary code of either core, drained by core 0, and the         *)
(* WFE/SEV handshake with which core 0 sleeps until an event arrives.      *)
(*                                                                         *)
(* Every access runs between event_lock_enter, which disables interrupts   *)
(* on the calling core and then spins on a flag, and event_lock_leave,     *)
(* which clears the flag and then restores the interrupts.  This is the    *)
(* multicore build; a single-core build is the instance with one core,     *)
(* where the flag is never contended.                                      *)
(***************************************************************************)
EXTENDS RingArithmetic

CONSTANTS
  Core,        \* the processor cores
  Thread,      \* what may call the mailbox: ordinary code and handlers
  Handler,     \* the threads that are interrupt handlers
  CoreOf,      \* the core on which each thread runs
  Consumer,    \* ordinary code of core 0, the only thread that may take
  Event,       \* the events that are posted
  NoEvent,     \* a post whose token is 0, and a slot never written
  Nobody,      \* the owner of the free lock
  Capacity,    \* BMX_PICO_EVENT_CAPACITY, 32
  Wrap,        \* the range of the counters, 2^32
  MaxDropped,  \* the value where the drop counter saturates, UINT32_MAX
  MaxPosts     \* bound: how many posts a behaviour contains

ASSUME MailboxAssumption ==
  /\ Capacity \in Nat \ {0}
  /\ Wrap \in Nat /\ Wrap > Capacity /\ Wrap % Capacity = 0
  /\ MaxDropped \in Nat
  /\ MaxPosts \in Nat
  /\ NoEvent \notin Event
  /\ Handler \subseteq Thread
  /\ Consumer \in Thread \ Handler
  /\ CoreOf \in [Thread -> Core]
  /\ \A t, u \in Thread \ Handler : CoreOf[t] = CoreOf[u] => t = u
  /\ Nobody \notin Thread

VARIABLES
  slots,       \* bmx_pico_deferred_events
  put, get,    \* the free-running counters
  dropped,     \* bmx_pico_deferred_event_dropped
  lock,        \* the thread inside the spin lock, or Nobody
  irqOn,       \* per core: interrupts are enabled
  signal,      \* per core: the event register that SEV sets and WFE clears
  pc,          \* per thread: what it does next
  op,          \* per thread: the call it is inside
  saved,       \* per thread: the interrupt state that enter returned
  arg,         \* per thread: the event it posts
  masked,      \* ordinary threads inside a critical section of their own
  draining,    \* the consumer has not yet seen an empty mailbox
  posts        \* how many posts have begun

ring == <<slots, put, get, dropped>>
local == <<op, saved, arg, masked, draining>>
vars == <<ring, lock, irqOn, signal, pc, local, posts>>

Slot == 0 .. Capacity - 1
Counter == 0 .. Wrap - 1

(* uint32_t arithmetic on the counters: increment and difference. *)
Inc(x) == Advance(x, Wrap)
Pending == Distance(put, get, Wrap)

Label == {"idle", "enter", "spin", "body", "publish", "leave", "restore",
          "sev", "wfe"}
Inside == {"body", "publish", "leave"}
Operation == {"post", "take", "wait"}

TypeOK ==
  /\ slots \in [Slot -> Event \cup {NoEvent}]
  /\ put \in Counter /\ get \in Counter
  /\ dropped \in 0 .. MaxDropped
  /\ lock \in Thread \cup {Nobody}
  /\ irqOn \in [Core -> BOOLEAN]
  /\ signal \in [Core -> BOOLEAN]
  /\ pc \in [Thread -> Label]
  /\ op \in [Thread -> Operation]
  /\ saved \in [Thread -> BOOLEAN]
  /\ arg \in [Thread -> Event \cup {NoEvent}]
  /\ masked \in SUBSET (Thread \ Handler)
  /\ draining \in BOOLEAN
  /\ posts \in 0 .. MaxPosts

Init ==
  /\ slots = [i \in Slot |-> NoEvent]
  /\ put = 0 /\ get = 0 /\ dropped = 0
  /\ lock = Nobody
  /\ irqOn = [c \in Core |-> TRUE]
  /\ signal = [c \in Core |-> FALSE]
  /\ pc = [t \in Thread |-> "idle"]
  /\ op = [t \in Thread |-> "post"]
  /\ saved = [t \in Thread |-> TRUE]
  /\ arg = [t \in Thread |-> NoEvent]
  /\ masked = {}
  /\ draining = FALSE
  /\ posts = 0

-----------------------------------------------------------------------------
(* Scheduling.  A handler runs to completion: while it is active nothing   *)
(* else runs on its core, and it starts only when interrupts are enabled.  *)

HandlerActive(c) == \E h \in Handler : CoreOf[h] = c /\ pc[h] # "idle"

Runs(t) == t \in Handler \/ ~HandlerActive(CoreOf[t])

MayStart(t) ==
  /\ pc[t] = "idle"
  /\ ~HandlerActive(CoreOf[t])
  /\ t \in Handler => irqOn[CoreOf[t]]

Goto(t, from, to) ==
  /\ pc[t] = from
  /\ Runs(t)
  /\ pc' = [pc EXCEPT ![t] = to]

-----------------------------------------------------------------------------
(* Ordinary code also disables interrupts around work of its own, and      *)
(* posts from there: a buffered UART write does so for its transmit event. *)

Mask(t) ==
  /\ t \notin Handler /\ t \notin masked
  /\ MayStart(t)
  /\ t = Consumer => ~draining
  /\ masked' = masked \cup {t}
  /\ irqOn' = [irqOn EXCEPT ![CoreOf[t]] = FALSE]
  /\ UNCHANGED <<ring, lock, signal, pc, op, saved, arg, draining, posts>>

Unmask(t) ==
  /\ t \in masked
  /\ MayStart(t)
  /\ masked' = masked \ {t}
  /\ irqOn' = [irqOn EXCEPT ![CoreOf[t]] = TRUE]
  /\ UNCHANGED <<ring, lock, signal, pc, op, saved, arg, draining, posts>>

(* bmx_embedded_system_wake: SEV without an event. *)
Wake(t) ==
  /\ MayStart(t)
  /\ signal' = [c \in Core |-> TRUE]
  /\ UNCHANGED <<ring, lock, irqOn, pc, local, posts>>

-----------------------------------------------------------------------------
(* The calls.  NoEvent stands for a post whose token is 0. *)

BeginPost(t, e) ==
  /\ MayStart(t)
  /\ t = Consumer => ~draining
  /\ posts < MaxPosts
  /\ posts' = posts + 1
  /\ pc' = [pc EXCEPT ![t] = "enter"]
  /\ op' = [op EXCEPT ![t] = "post"]
  /\ arg' = [arg EXCEPT ![t] = e]
  /\ UNCHANGED <<ring, lock, irqOn, signal, saved, masked, draining>>

(* PollSystem: take until the mailbox is empty. *)
BeginTake ==
  /\ MayStart(Consumer) /\ Consumer \notin masked
  /\ pc' = [pc EXCEPT ![Consumer] = "enter"]
  /\ op' = [op EXCEPT ![Consumer] = "take"]
  /\ draining' = TRUE
  /\ UNCHANGED <<ring, lock, irqOn, signal, saved, arg, masked, posts>>

(* WaitSystem: system_wait, and then poll. *)
BeginWait ==
  /\ MayStart(Consumer) /\ Consumer \notin masked
  /\ ~draining
  /\ pc' = [pc EXCEPT ![Consumer] = "enter"]
  /\ op' = [op EXCEPT ![Consumer] = "wait"]
  /\ UNCHANGED <<ring, lock, irqOn, signal, saved, arg, masked, draining, posts>>

-----------------------------------------------------------------------------
(* event_lock_enter: save_and_disable_interrupts, then spin on the flag. *)

(* Faulty variant: the lock is taken with interrupts enabled. *)
BadDisableInterrupts(t) ==
  /\ Goto(t, "enter", "spin")
  /\ saved' = [saved EXCEPT ![t] = irqOn[CoreOf[t]]]
  /\ UNCHANGED <<ring, lock, irqOn, signal, op, arg, masked, draining, posts>>

DisableInterrupts(t) ==
  /\ Goto(t, "enter", "spin")
  /\ saved' = [saved EXCEPT ![t] = irqOn[CoreOf[t]]]
  /\ irqOn' = [irqOn EXCEPT ![CoreOf[t]] = FALSE]
  /\ UNCHANGED <<ring, lock, signal, op, arg, masked, draining, posts>>

Acquire(t) ==
  /\ Goto(t, "spin", "body")
  /\ lock = Nobody
  /\ lock' = t
  /\ UNCHANGED <<ring, irqOn, signal, local, posts>>

(* event_post_locked up to the barrier: refuse a token of 0, count a full  *)
(* mailbox, or fill the slot that is published next.                       *)
PostIgnored(t) ==
  /\ Goto(t, "body", "leave")
  /\ op[t] = "post" /\ arg[t] = NoEvent
  /\ UNCHANGED <<ring, lock, irqOn, signal, local, posts>>

PostRefused(t) ==
  /\ Goto(t, "body", "leave")
  /\ op[t] = "post" /\ arg[t] # NoEvent /\ Pending >= Capacity
  /\ dropped' = IF dropped = MaxDropped THEN dropped ELSE dropped + 1
  /\ UNCHANGED <<slots, put, get, lock, irqOn, signal, local, posts>>

(* Faulty variant: the capacity test is off by one. *)
BadPostFill(t) ==
  /\ Goto(t, "body", "publish")
  /\ op[t] = "post" /\ arg[t] # NoEvent /\ Pending <= Capacity
  /\ slots' = [slots EXCEPT ![put % Capacity] = arg[t]]
  /\ UNCHANGED <<put, get, dropped, lock, irqOn, signal, local, posts>>

PostFill(t) ==
  /\ Goto(t, "body", "publish")
  /\ op[t] = "post" /\ arg[t] # NoEvent /\ Pending < Capacity
  /\ slots' = [slots EXCEPT ![put % Capacity] = arg[t]]
  /\ UNCHANGED <<put, get, dropped, lock, irqOn, signal, local, posts>>

PostPublish(t) ==
  /\ Goto(t, "publish", "leave")
  /\ put' = Inc(put)
  /\ UNCHANGED <<slots, get, dropped, lock, irqOn, signal, local, posts>>

(* bmx_embedded_event_take: the oldest event leaves, or there is none. *)
TakeEvent(t) ==
  /\ Goto(t, "body", "leave")
  /\ op[t] = "take" /\ get # put
  /\ get' = Inc(get)
  /\ UNCHANGED <<slots, put, dropped, lock, irqOn, signal, local, posts>>

TakeNothing(t) ==
  /\ Goto(t, "body", "leave")
  /\ op[t] = "take" /\ get = put
  /\ draining' = FALSE
  /\ UNCHANGED <<ring, lock, irqOn, signal, op, saved, arg, masked, posts>>

(* bmx_embedded_event_pending as system_wait calls it: an event that is    *)
(* already there turns the wait into a return.                             *)
ReadPending(t) ==
  /\ Goto(t, "body", "leave")
  /\ op[t] = "wait"
  /\ draining' = (Pending # 0)
  /\ UNCHANGED <<ring, lock, irqOn, signal, op, saved, arg, masked, posts>>

(* event_lock_leave: clear the flag, then restore the interrupt state. *)
Release(t) ==
  /\ Goto(t, "leave", "restore")
  /\ lock' = Nobody
  /\ UNCHANGED <<ring, irqOn, signal, local, posts>>

(* Faulty variant: a post does not signal the sleeping core. *)
BadAfterRestore(t) ==
  IF op[t] = "wait" /\ ~draining THEN "wfe" ELSE "idle"

AfterRestore(t) ==
  CASE op[t] = "post" -> "sev"
    [] op[t] = "wait" /\ ~draining -> "wfe"
    [] OTHER -> "idle"

(* Faulty variant: interrupts are enabled instead of restored. *)
BadRestoreInterrupts(t) ==
  /\ Goto(t, "restore", AfterRestore(t))
  /\ irqOn' = [irqOn EXCEPT ![CoreOf[t]] = TRUE]
  /\ saved' = [saved EXCEPT ![t] = TRUE]
  /\ UNCHANGED <<ring, lock, signal, op, arg, masked, draining, posts>>

RestoreInterrupts(t) ==
  /\ Goto(t, "restore", AfterRestore(t))
  /\ irqOn' = [irqOn EXCEPT ![CoreOf[t]] = saved[t]]
  /\ saved' = [saved EXCEPT ![t] = TRUE]
  /\ UNCHANGED <<ring, lock, signal, op, arg, masked, draining, posts>>

(* __sev sets the event register of every core. *)
SendEvent(t) ==
  /\ Goto(t, "sev", "idle")
  /\ signal' = [c \in Core |-> TRUE]
  /\ arg' = [arg EXCEPT ![t] = NoEvent]
  /\ UNCHANGED <<ring, lock, irqOn, op, saved, masked, draining, posts>>

(* __wfe returns once the register is set, and clears it; WaitSystem then  *)
(* polls.                                                                  *)
WaitForEvent ==
  /\ Goto(Consumer, "wfe", "idle")
  /\ signal[CoreOf[Consumer]]
  /\ signal' = [signal EXCEPT ![CoreOf[Consumer]] = FALSE]
  /\ draining' = TRUE
  /\ UNCHANGED <<ring, lock, irqOn, op, saved, arg, masked, posts>>

-----------------------------------------------------------------------------
Step(t) ==
  \/ DisableInterrupts(t) \/ Acquire(t)
  \/ PostIgnored(t) \/ PostRefused(t) \/ PostFill(t) \/ PostPublish(t)
  \/ TakeEvent(t) \/ TakeNothing(t) \/ ReadPending(t)
  \/ Release(t) \/ RestoreInterrupts(t) \/ SendEvent(t)

Next ==
  \/ \E t \in Thread, e \in Event \cup {NoEvent} : BeginPost(t, e)
  \/ BeginTake \/ BeginWait \/ WaitForEvent
  \/ \E t \in Thread : Step(t) \/ Mask(t) \/ Unmask(t) \/ Wake(t)

(* A core executes its instructions, a critical section ends, and the      *)
(* program's main loop always comes back to PollSystem or WaitSystem.      *)
Fairness ==
  /\ \A t \in Thread : WF_vars(Step(t)) /\ WF_vars(Unmask(t))
  /\ WF_vars(WaitForEvent)
  /\ SF_vars(BeginTake \/ BeginWait)

Spec == Init /\ [][Next]_vars

FairSpec == Spec /\ Fairness

-----------------------------------------------------------------------------
(* The thread that holds the spin lock can always take its next step: no   *)
(* handler ever preempts it, so a handler of the same core never spins on  *)
(* a lock whose owner it has suspended.                                    *)
HolderRuns == lock # Nobody => Runs(lock)

(* A post made with interrupts already disabled leaves them disabled: no   *)
(* handler interrupts a critical section of the caller.                    *)
CallerMaskKept == \A t \in masked : ~irqOn[CoreOf[t]]

(* bmx_pico_event_lock_enter and bmx_pico_event_lock_leave: the            *)
(* order disable-then-lock, unlock-then-restore never lets a handler meet  *)
(* the lock of the code it interrupted nor opens its caller's section.     *)
LockDiscipline == HolderRuns /\ CallerMaskKept

(* An event register is pending, or is about to be set, for every event    *)
(* that arrived after system_wait found the mailbox empty: core 0 never    *)
(* goes to sleep on a waiting event.                                       *)
Committed ==
  /\ op[Consumer] = "wait" /\ ~draining
  /\ pc[Consumer] \in {"leave", "restore", "wfe"}

Announcing(t) == op[t] = "post" /\ pc[t] \in {"leave", "restore", "sev"}

NoLostWakeup ==
  Committed /\ Pending # 0 =>
    signal[CoreOf[Consumer]] \/ \E t \in Thread : Announcing(t)

(* The mailbox implements a bounded FIFO that drops and counts when full.  *)
Contents == [i \in 1 .. Pending |-> slots[(get + i - 1) % Capacity]]

Queue == INSTANCE EventQueue WITH queue <- Contents

ImplementsQueue == Queue!Spec

(* ... and every accepted event is taken.  *)
ImplementsFairQueue == Queue!FairSpec

=============================================================================
