------------------------------- MODULE PioIrq -------------------------------
(***************************************************************************)
(* One interrupt line of a PIO controller: the level-sensitive sources of  *)
(* the hardware, the native latch of pico_runtime.c that masks a source    *)
(* when it triggers, and the TPIOIRQSource objects of pio.bmx that turn    *)
(* triggers into events.  Every native call runs with interrupts disabled  *)
(* and is one action; creating and closing an object takes several calls,  *)
(* and the handler can run between any two of them.                        *)
(***************************************************************************)
EXTENDS Integers, Sequences, FiniteSets

CONSTANTS
  Source,       \* interrupt sources of the line
  Object,       \* TPIOIRQSource objects, created again after a close
  None,         \* token 0, no object
  MaxTokens,    \* bound: event sources that can be registered
  Capacity,     \* entries of the mailbox
  MaxDropped    \* where the mailbox's drop counter saturates

ASSUME PioAssumption ==
  /\ IsFiniteSet(Source)
  /\ MaxTokens \in Nat /\ Capacity \in Nat \ {0} /\ MaxDropped \in Nat \ {0}
  /\ None \notin Object \cup (1 .. MaxTokens)

Token == 1 .. MaxTokens
Mask == (SUBSET Source) \ {{}}

VARIABLES
  cause,        \* sources whose level is raised (INTR)
  inte,         \* sources the line lets through (INTE)
  masks,        \* bmx_pico_pio_irq_source_masks: sources in use
  latched,      \* bmx_pico_pio_irq_events: triggers nobody has taken
  token,        \* bmx_pico_pio_irq_event_tokens
  tokenMask,    \* bmx_pico_pio_irq_event_source_masks
  obj,          \* the fields of each TPIOIRQSource
  owner,        \* the event registry: which object a live token names
  issued,       \* how many tokens were registered
  mailbox,      \* deferred events, oldest first
  dropped,      \* events the full mailbox refused
  pc, cur,      \* the rest of Create or Close, and its object
  known,        \* sources whose trigger the program took since it armed them
  heard         \* sources whose EVENT_PIOIRQ was emitted since then

line == <<inte, masks, latched>>
tokens == <<token, tokenMask>>
registry == <<owner, issued>>
mail == <<mailbox, dropped>>
told == <<known, heard>>
vars == <<cause, line, tokens, obj, registry, mail, pc, cur, told>>

ObjectState ==
  [open : BOOLEAN, mask : SUBSET Source, token : Token \cup {None},
   tokenInstalled : BOOLEAN, irqEnabled : BOOLEAN]
Closed ==
  [open |-> FALSE, mask |-> {}, token |-> None,
   tokenInstalled |-> FALSE, irqEnabled |-> FALSE]
Record == [token : Token, data : Mask]
Label == {"idle", "installToken", "enable", "disable", "clearToken", "release"}

TypeOK ==
  /\ cause \subseteq Source /\ inte \subseteq Source /\ masks \subseteq Source
  /\ latched \subseteq Source
  /\ token \in Token \cup {None} /\ tokenMask \subseteq Source
  /\ obj \in [Object -> ObjectState]
  /\ owner \in [Token -> Object \cup {None}] /\ issued \in 0 .. MaxTokens
  /\ mailbox \in Seq(Record) /\ Len(mailbox) <= Capacity
  /\ dropped \in 0 .. MaxDropped
  /\ pc \in Label /\ cur \in Object \cup {None}
  /\ known \subseteq Source /\ heard \subseteq Source

Init ==
  /\ cause = {} /\ inte = {} /\ masks = {} /\ latched = {}
  /\ token = None /\ tokenMask = {}
  /\ obj = [o \in Object |-> Closed]
  /\ owner = [k \in Token |-> None] /\ issued = 0
  /\ mailbox = <<>> /\ dropped = 0
  /\ pc = "idle" /\ cur = None
  /\ known = {} /\ heard = {}

-----------------------------------------------------------------------------
(* The native layer. *)

Idle == pc = "idle"
Goto(from, to) == pc = from /\ pc' = to /\ UNCHANGED cur
Return(from) == pc = from /\ pc' = "idle" /\ cur' = None

(* bmx_pico_pio_irq_set_sources_enabled. *)
EnableSources(m) ==
  /\ latched' = latched \ m
  /\ masks' = masks \cup m
  /\ inte' = inte \cup m
  /\ known' = known \ m /\ heard' = heard \ m

DisableSources(m) ==
  /\ latched' = latched \ m
  /\ masks' = masks \ m
  /\ inte' = inte \ m
  /\ UNCHANGED told

(* bmx_pico_pio_irq_set_event_token refuses to replace another token. *)
CanSetToken(k) == k = None \/ token \in {None, k}

StoreToken(k, m) ==
  /\ token' = k
  /\ tokenMask' = IF k = None THEN {} ELSE m

Mail == INSTANCE EventQueue WITH queue <- mailbox, Event <- Record

(* A fault: a record that waits stands for later triggers too. *)
CoalescedPost(data) ==
  IF token = None \/ data = {} \/ (\E i \in DOMAIN mailbox : mailbox[i].token = token)
  THEN UNCHANGED mail
  ELSE Mail!Accept([token |-> token, data |-> data]) \/ Mail!Refuse

(* bmx_pico_event_post_from_irq_ex; token 0 posts nothing. *)
Post(data) ==
  IF token = None \/ data = {} THEN UNCHANGED mail
  ELSE Mail!Accept([token |-> token, data |-> data]) \/ Mail!Refuse

(* A fault: a new trigger overwrites the triggers nobody has taken yet. *)
BadHandler ==
  LET pending == cause \cap inte \cap masks IN
  /\ pending # {}
  /\ inte' = inte \ pending
  /\ latched' = pending
  /\ Post(pending \cap tokenMask)
  /\ UNCHANGED <<cause, masks, tokens, obj, registry, pc, cur, told>>

(* bmx_pico_pio_irq_handler: mask what is pending, latch it, announce the  *)
(* part of it that belongs to the event source.                            *)
Handler ==
  LET pending == cause \cap inte \cap masks IN
  /\ pending # {}
  /\ inte' = inte \ pending
  /\ latched' = latched \cup pending
  /\ Post(pending \cap tokenMask)
  /\ UNCHANGED <<cause, masks, tokens, obj, registry, pc, cur, told>>

(* A FIFO fills or drains, a state machine raises a flag, or the program   *)
(* reads the FIFO or clears the flag.                                      *)
Level(s) ==
  /\ cause' = IF s \in cause THEN cause \ {s} ELSE cause \cup {s}
  /\ UNCHANGED <<line, tokens, obj, registry, mail, pc, cur, told>>

-----------------------------------------------------------------------------
(* The direct calls PIOIRQSetSourcesEnabled, PIOIRQTakeEvents and          *)
(* PIOIRQRearmSources.                                                     *)

SetSourcesEnabled(m, enabled) ==
  /\ Idle
  /\ IF enabled THEN EnableSources(m) ELSE DisableSources(m)
  /\ UNCHANGED <<cause, tokens, obj, registry, mail, pc, cur>>

(* bmx_pico_pio_irq_take_events_masked; take_events takes every source. *)
TakeMasked(m) ==
  /\ Idle
  /\ known' = known \cup (latched \cap m)
  /\ latched' = latched \ m
  /\ UNCHANGED <<cause, inte, masks, tokens, obj, registry, mail, pc, cur, heard>>

TakeEvents == TakeMasked(Source)

Rearm(m) ==
  /\ Idle
  /\ m \subseteq masks
  /\ inte' = inte \cup m
  /\ known' = known \ m /\ heard' = heard \ m
  /\ UNCHANGED <<cause, masks, latched, tokens, obj, registry, mail, pc, cur>>

-----------------------------------------------------------------------------
(* TPIOIRQSource.Create: register, install the token, enable; a failure    *)
(* closes the object with what it has so far.                              *)

Create(o, m) ==
  /\ Idle /\ ~obj[o].open
  /\ cur' = o
  /\ IF issued < MaxTokens
     THEN /\ issued' = issued + 1
          /\ owner' = [owner EXCEPT ![issued + 1] = o]
          /\ obj' = [obj EXCEPT ![o] = [Closed EXCEPT !.open = TRUE, !.mask = m,
                                                      !.token = issued + 1]]
          /\ pc' = "installToken"
     ELSE /\ obj' = [obj EXCEPT ![o] = [Closed EXCEPT !.open = TRUE, !.mask = m]]
          /\ pc' = "disable"
          /\ UNCHANGED registry
  /\ UNCHANGED <<cause, line, tokens, mail, told>>

InstallToken ==
  LET mine == obj[cur] IN
  /\ pc = "installToken"
  /\ IF CanSetToken(mine.token)
     THEN /\ Goto("installToken", "enable")
          /\ StoreToken(mine.token, mine.mask)
          /\ obj' = [obj EXCEPT ![cur].tokenInstalled = TRUE]
     ELSE Goto("installToken", "disable") /\ UNCHANGED <<tokens, obj>>
  /\ UNCHANGED <<cause, line, registry, mail, told>>

Enable ==
  /\ Return("enable")
  /\ EnableSources(obj[cur].mask)
  /\ obj' = [obj EXCEPT ![cur].irqEnabled = TRUE]
  /\ UNCHANGED <<cause, tokens, registry, mail>>

(* TPIOIRQSource.Close undoes what Create did, and only that.              *)
Close(o) ==
  /\ Idle /\ obj[o].open
  /\ cur' = o /\ pc' = "disable"
  /\ UNCHANGED <<cause, line, tokens, obj, registry, mail, told>>

Disable ==
  /\ Goto("disable", "clearToken")
  /\ IF obj[cur].irqEnabled THEN DisableSources(obj[cur].mask)
     ELSE UNCHANGED <<line, told>>
  /\ UNCHANGED <<cause, tokens, obj, registry, mail>>

(* A fault: an object that never got the line clears its token too. *)
BadClearToken ==
  /\ Goto("clearToken", "release")
  /\ StoreToken(None, {})
  /\ UNCHANGED <<cause, line, obj, registry, mail, told>>

ClearToken ==
  /\ Goto("clearToken", "release")
  /\ IF obj[cur].tokenInstalled THEN StoreToken(None, {}) ELSE UNCHANGED tokens
  /\ UNCHANGED <<cause, line, obj, registry, mail, told>>

Release ==
  /\ Return("release")
  /\ owner' = [k \in Token |-> IF k = obj[cur].token THEN None ELSE owner[k]]
  /\ obj' = [obj EXCEPT ![cur] = Closed]
  /\ UNCHANGED <<cause, line, tokens, issued, mail, told>>

(* PollSystem: the oldest record becomes an event if its source lives. *)
Dispatch ==
  /\ Idle
  /\ Mail!Take
  /\ heard' = IF owner[Head(mailbox).token] = None THEN heard
              ELSE heard \cup (Head(mailbox).data \ inte)
  /\ UNCHANGED <<cause, line, tokens, obj, registry, pc, cur, known>>

-----------------------------------------------------------------------------
Step == InstallToken \/ Enable \/ Disable \/ ClearToken \/ Release

Next ==
  \/ \E s \in Source : Level(s)
  \/ Handler \/ Step \/ Dispatch \/ TakeEvents
  \/ \E m \in Mask :
       \/ \E enabled \in BOOLEAN : SetSourcesEnabled(m, enabled)
       \/ TakeMasked(m) \/ Rearm(m)
       \/ \E o \in Object : Create(o, m)
  \/ \E o \in Object : Close(o)

Spec == Init /\ [][Next]_vars

(* Pending interrupts are served, calls return, and the program polls for  *)
(* events again and again.                                                 *)
Fairness == WF_vars(Handler) /\ WF_vars(Step) /\ SF_vars(Dispatch)
FairSpec == Spec /\ Fairness

-----------------------------------------------------------------------------
(* Properties. *)

(* A source in use is never deaf and silent: it is armed, or its trigger   *)
(* is latched, or the program took it and knows that it must rearm.        *)
NoTriggerLost == masks \subseteq inte \cup latched \cup known

(* A source nobody uses neither interrupts nor leaves a trigger behind for *)
(* its next user.                                                          *)
UnusedSourceSilent == inte \cup latched \subseteq masks

(* A trigger is neither lost nor left over, and every variable keeps its   *)
(* type.                                                                   *)
TriggersAccounted == TypeOK /\ NoTriggerLost /\ UnusedSourceSilent

(* "Only one managed event source may own a controller IRQ line at a       *)
(* time": the line's token and its mask are those of one open object,      *)
(* which installed them, and an object that failed to get the line does    *)
(* not take them away when it closes.                                      *)
LineOwned ==
  /\ token # None =>
       \E o \in Object :
         obj[o].open /\ obj[o].tokenInstalled
           /\ obj[o].token = token /\ obj[o].mask = tokenMask
  /\ \A o \in Object :
       (obj[o].tokenInstalled /\ ~(cur = o /\ pc = "release")) =>
         token = obj[o].token

(* An event can only reach an open object, and only about sources it asked *)
(* for: closing an object silences the records still in the mailbox.       *)
RecordsOwned ==
  /\ \A i \in DOMAIN mailbox :
       LET o == owner[mailbox[i].token] IN
         o # None => obj[o].open /\ mailbox[i].data \subseteq obj[o].mask
  /\ \A k \in Token : owner[k] # None => obj[owner[k]].token = k

(* The line and the records on their way belong to one open object.        *)
EventsOwned == LineOwned /\ RecordsOwned

(* Left alone, an open object is told of each trigger: a source that was   *)
(* masked is emitted as an event, armed again, or given up.                *)
TriggerDelivered ==
  \A o \in Object, s \in Source :
    (obj[o].irqEnabled /\ s \in (obj[o].mask \cap masks) \ inte) ~>
      (s \in heard \/ s \in inte \/ s \notin masks \/ ~obj[o].open \/ dropped > 0)

=============================================================================
