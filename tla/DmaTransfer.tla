----------------------------- MODULE DmaTransfer ----------------------------
(***************************************************************************)
(* Managed DMA transfers: the native channel layer of pico_runtime.c, the  *)
(* TDMATransfer and TDMABuffer objects of dma.bmx that own channels and    *)
(* retain buffers, the DMA hardware that runs beside the processor, the    *)
(* completion interrupt, and the mailbox that carries its event.           *)
(*                                                                         *)
(* Three actors interleave: ordinary code of core 0 (one call at a time,   *)
(* cut where the hardware or the handler can act in between), the handler  *)
(* of each interrupt line, and the hardware, which finishes a channel and  *)
(* thereby triggers the channel chained to it.                             *)
(***************************************************************************)
EXTENDS Integers, Sequences, FiniteSets

CONSTANTS
  Channel,      \* DMA channels
  Line,         \* DMA interrupt lines
  Transfer,     \* TDMATransfer objects, each configured at most once
  Buffer,       \* TDMABuffer objects
  None,         \* channel -1, a Null buffer, no chain, token 0
  Request,      \* what DMAAdvancedTransfer may be asked for
  MaxTokens,    \* bound: event sources that can be registered
  MaxCount,     \* where a completion counter saturates, UINT32_MAX
  Capacity,     \* entries of the mailbox
  MaxDropped    \* where the mailbox's drop counter saturates

ASSUME DmaAssumption ==
  /\ IsFiniteSet(Channel) /\ IsFiniteSet(Transfer) /\ Line # {}
  /\ Request \subseteq [line : Line, read : Buffer \cup {None},
                         write : Buffer \cup {None},
                         chain : Channel \cup {None}, quiet : BOOLEAN]
  /\ MaxTokens \in Nat /\ MaxCount \in Nat \ {0}
  /\ Capacity \in Nat \ {0} /\ MaxDropped \in Nat \ {0}
  /\ None \notin Channel \cup Buffer \cup Transfer \cup (1 .. MaxTokens)

Token == 1 .. MaxTokens

VARIABLES
  hw,           \* per channel: the DMA registers and the SDK's claim bit
  irq,          \* per line and channel: enable bit, mask bit, counter, token
  obj,          \* per transfer: the fields of TDMATransfer
  buf,          \* per buffer: the fields of TDMABuffer
  source,       \* the event registry: which transfer a live token names
  issued,       \* how many tokens were registered
  mailbox,      \* tokens of the deferred events, oldest first
  dropped,      \* events the full mailbox refused
  pc, cur,      \* what ordinary code does next, and for which transfer
  done,         \* transfers of which the hardware has finished a run
  delivered     \* transfers whose EVENT_DMACOMPLETE was emitted

events == <<source, issued, mailbox, dropped, delivered>>
vars == <<hw, irq, obj, buf, events, pc, cur, done>>

ChannelState ==
  [claimed : BOOLEAN, busy : BOOLEAN, en : BOOLEAN, raw : BOOLEAN,
   quiet : BOOLEAN, uses : SUBSET Buffer, chain : Channel \cup {None}]
IrqState ==
  [inte : BOOLEAN, mask : BOOLEAN, count : 0 .. MaxCount,
   token : Token \cup {None}]
ObjectState ==
  [fresh : BOOLEAN, chan : Channel \cup {None}, line : Line,
   read : Buffer \cup {None}, write : Buffer \cup {None},
   chain : Channel \cup {None}, quiet : BOOLEAN, started : BOOLEAN,
   aborted : BOOLEAN, token : Token \cup {None}]
BufferState ==
  [active : 0 .. 2 * Cardinality(Transfer), closing : BOOLEAN, freed : BOOLEAN]

Label ==
  {"idle", "retainRead", "retainWrite", "giveUp", "enableIrq", "configure",
   "setToken", "startChannel", "abortMask", "abortStop", "abortClear",
   "closeToken", "releaseSource", "unclaim", "clearIrq", "cleanup",
   "releaseBuffers"}

TypeOK ==
  /\ hw \in [Channel -> ChannelState]
  /\ irq \in [Line -> [Channel -> IrqState]]
  /\ obj \in [Transfer -> ObjectState]
  /\ buf \in [Buffer -> BufferState]
  /\ source \in [Token -> Transfer \cup {None}]
  /\ issued \in 0 .. MaxTokens
  /\ mailbox \in Seq(Token) /\ Len(mailbox) <= Capacity
  /\ dropped \in 0 .. MaxDropped
  /\ pc \in Label \X {"call", "abort", "close"} /\ cur \in Transfer \cup {None}
  /\ done \subseteq Transfer /\ delivered \subseteq Transfer

Init ==
  /\ hw = [c \in Channel |->
             [claimed |-> FALSE, busy |-> FALSE, en |-> FALSE, raw |-> FALSE,
              quiet |-> FALSE, uses |-> {}, chain |-> None]]
  /\ irq = [l \in Line |-> [c \in Channel |->
             [inte |-> FALSE, mask |-> FALSE, count |-> 0, token |-> None]]]
  /\ obj = [t \in Transfer |->
             [fresh |-> TRUE, chan |-> None, line |-> CHOOSE l \in Line : TRUE,
              read |-> None, write |-> None, chain |-> None, quiet |-> FALSE,
              started |-> FALSE, aborted |-> FALSE, token |-> None]]
  /\ buf = [b \in Buffer |-> [active |-> 0, closing |-> FALSE, freed |-> FALSE]]
  /\ source = [k \in Token |-> None]
  /\ issued = 0 /\ mailbox = <<>> /\ dropped = 0
  /\ pc = <<"idle", "call">> /\ cur = None
  /\ done = {} /\ delivered = {}

-----------------------------------------------------------------------------
(* Helpers. *)

Idle == pc = <<"idle", "call">>
Resume(to, why) == pc' = <<to, why>> /\ UNCHANGED cur
Finished == pc' = <<"idle", "call">> /\ cur' = None
Goto(from, to) == pc[1] = from /\ Resume(to, pc[2])
Return(from) == pc[1] = from /\ Finished
Call(t, to, why) ==
  /\ Idle
  /\ cur' = t
  /\ pc' = <<to, why>>

C == obj[cur].chan
Open(t) == obj[t].chan # None
Given(t) == {obj[t].read, obj[t].write} \ {None}

(* TDMABuffer._Retain succeeds only on a buffer that nobody has closed. *)
CanRetain(b) == b = None \/ ~buf[b].closing

Retain(b) ==
  IF b = None THEN buf ELSE [buf EXCEPT ![b].active = @ + 1]

(* _ReleaseStorage once the last user has gone. *)
Settle(f) ==
  [b \in Buffer |-> [f[b] EXCEPT !.freed = @ \/ (f[b].closing /\ f[b].active = 0)]]

Unretained(b, f) ==
  IF b = None THEN f
  ELSE [f EXCEPT ![b].active = IF @ > 0 THEN @ - 1 ELSE 0]

(* bmx_pico_event_post_from_irq into the deferred-event mailbox; the       *)
(* module EventMailbox shows that it is such a queue.                      *)
Mail == INSTANCE EventQueue
          WITH queue <- mailbox, Event <- Token

Post(k) ==
  IF k = None THEN UNCHANGED <<mailbox, dropped>>
  ELSE Mail!Accept(k) \/ Mail!Refuse

-----------------------------------------------------------------------------
(* TDMATransfer._ConfigureAdvanced: claim, retain, enable the interrupt,   *)
(* configure; each failure undoes what came before it.                     *)

Claim(t, c, r) ==
  /\ obj[t].fresh /\ ~hw[c].claimed
  /\ Call(t, "retainRead", "call")
  /\ hw' = [hw EXCEPT ![c].claimed = TRUE]
  /\ obj' = [obj EXCEPT ![t] =
               [@ EXCEPT !.fresh = FALSE, !.chan = c, !.line = r.line,
                         !.read = r.read, !.write = r.write,
                         !.chain = r.chain, !.quiet = r.quiet]]
  /\ UNCHANGED <<irq, buf, events, done>>

RetainRead ==
  LET ok == CanRetain(obj[cur].read) IN
  /\ Goto("retainRead", IF ok THEN "retainWrite" ELSE "giveUp")
  /\ buf' = IF ok THEN Retain(obj[cur].read) ELSE buf
  /\ UNCHANGED <<hw, irq, obj, events, done>>

(* A fault: the failure path forgets the read buffer it had retained. *)
BadRetainWrite ==
  LET ok == CanRetain(obj[cur].write) IN
  /\ Goto("retainWrite", IF ok THEN "enableIrq" ELSE "giveUp")
  /\ buf' = IF ok THEN Retain(obj[cur].write) ELSE buf
  /\ UNCHANGED <<hw, irq, obj, events, done>>

RetainWrite ==
  LET ok == CanRetain(obj[cur].write) IN
  /\ Goto("retainWrite", IF ok THEN "enableIrq" ELSE "giveUp")
  /\ buf' = IF ok THEN Retain(obj[cur].write)
            ELSE Settle(Unretained(obj[cur].read, buf))
  /\ UNCHANGED <<hw, irq, obj, events, done>>

ClearIrq(c) ==
  [l \in Line |-> [irq[l] EXCEPT ![c] =
     [inte |-> FALSE, mask |-> FALSE, count |-> 0, token |-> None]]]

(* DMAUnclaimChannel on a channel that was never started. *)
GiveUp ==
  /\ Return("giveUp")
  /\ irq' = ClearIrq(C)
  /\ hw' = [hw EXCEPT ![C].claimed = FALSE, ![C].en = FALSE, ![C].raw = FALSE]
  /\ obj' = [obj EXCEPT ![cur].chan = None]
  /\ UNCHANGED <<buf, events, done>>

(* A fault: the channel joins the handler's mask but stays disabled. *)
BadEnableIrq ==
  /\ Goto("enableIrq", "configure")
  /\ IF obj[cur].quiet THEN UNCHANGED irq
     ELSE irq' = [irq EXCEPT ![obj[cur].line][C] = [@ EXCEPT !.mask = TRUE, !.count = 0]]
  /\ UNCHANGED <<hw, obj, buf, events, done>>

(* bmx_pico_dma_set_irq_enabled, skipped for a quiet transfer. *)
EnableIrq ==
  /\ Goto("enableIrq", "configure")
  /\ IF obj[cur].quiet THEN UNCHANGED <<hw, irq>>
     ELSE /\ hw' = [hw EXCEPT ![C].raw = FALSE]
          /\ irq' = [irq EXCEPT ![obj[cur].line][C] =
                       [@ EXCEPT !.inte = TRUE, !.mask = TRUE, !.count = 0]]
  /\ UNCHANGED <<obj, buf, events, done>>

(* bmx_pico_dma_configure_advanced: a chain target must be claimed.        *)
Configure ==
  LET next == obj[cur].chain
      ok == IF next = None THEN TRUE ELSE hw[next].claimed
  IN
  /\ pc[1] = "configure"
  /\ IF ok THEN Finished ELSE Resume("closeToken", "close")
  /\ hw' = IF ok
           THEN [hw EXCEPT ![C] = [@ EXCEPT !.en = TRUE, !.uses = Given(cur),
                                    !.quiet = obj[cur].quiet, !.chain = next]]
           ELSE hw
  /\ UNCHANGED <<irq, obj, buf, events, done>>

-----------------------------------------------------------------------------
(* TDMATransfer.Start: a one-shot event source, its token, the channel.    *)

StartQuiet(t) ==
  /\ Idle
  /\ Open(t) /\ ~obj[t].started /\ ~obj[t].aborted /\ obj[t].quiet
  /\ ~hw[obj[t].chan].busy
  /\ hw' = [hw EXCEPT ![obj[t].chan].busy = TRUE]
  /\ obj' = [obj EXCEPT ![t].started = TRUE]
  /\ UNCHANGED <<irq, buf, events, pc, cur, done>>

Start(t) ==
  /\ Open(t) /\ ~obj[t].started /\ ~obj[t].aborted /\ ~obj[t].quiet
  /\ issued < MaxTokens
  /\ Call(t, "setToken", "call")
  /\ issued' = issued + 1
  /\ source' = [source EXCEPT ![issued + 1] = t]
  /\ obj' = [obj EXCEPT ![t].token = issued + 1]
  /\ UNCHANGED <<hw, irq, buf, mailbox, dropped, delivered, done>>

SetToken ==
  /\ Goto("setToken", "startChannel")
  /\ irq' = [irq EXCEPT ![obj[cur].line][C].token = obj[cur].token]
  /\ UNCHANGED <<hw, obj, buf, events, done>>

(* bmx_pico_dma_start refuses a busy channel; the source is released again. *)
StartChannel ==
  /\ Return("startChannel")
  /\ IF hw[C].busy
     THEN /\ irq' = [irq EXCEPT ![obj[cur].line][C].token = None]
          /\ source' = [source EXCEPT ![obj[cur].token] = None]
          /\ obj' = [obj EXCEPT ![cur].token = None]
          /\ UNCHANGED hw
     ELSE /\ hw' = [hw EXCEPT ![C].busy = TRUE]
          /\ obj' = [obj EXCEPT ![cur].started = TRUE]
          /\ UNCHANGED <<irq, source>>
  /\ UNCHANGED <<buf, issued, mailbox, dropped, delivered, done>>

-----------------------------------------------------------------------------
(* TDMATransfer.Abort and Close; both stop a busy channel first.           *)

Abort(t) ==
  /\ Open(t) /\ ~obj[t].aborted
  /\ \/ /\ hw[obj[t].chan].busy
        /\ Call(t, "abortMask", "abort")
        /\ UNCHANGED obj
     \/ /\ ~hw[obj[t].chan].busy
        /\ Idle
        /\ obj' = [obj EXCEPT ![t].aborted = TRUE]
        /\ UNCHANGED <<pc, cur>>
  /\ UNCHANGED <<hw, irq, buf, events, done>>

Close(t) ==
  /\ Open(t)
  /\ Call(t, IF hw[obj[t].chan].busy THEN "abortMask" ELSE "closeToken", "close")
  /\ UNCHANGED <<hw, irq, obj, buf, events, done>>

(* bmx_pico_dma_abort: silence the channel's lines, stop it, forget what   *)
(* it had counted and announced, and listen again.                         *)
AbortMask ==
  /\ Goto("abortMask", "abortStop")
  /\ irq' = [l \in Line |-> [irq[l] EXCEPT ![C].inte = @ /\ ~irq[l][C].mask]]
  /\ UNCHANGED <<hw, obj, buf, events, done>>

(* Aborting may raise the channel's completion flag. *)
AbortStop ==
  /\ Goto("abortStop", "abortClear")
  /\ \E spurious \in BOOLEAN :
       hw' = [hw EXCEPT ![C] = [@ EXCEPT !.en = FALSE, !.busy = FALSE,
                                         !.raw = hw[C].raw \/ spurious]]
  /\ UNCHANGED <<irq, obj, buf, events, done>>

AbortClear ==
  /\ pc[1] = "abortClear"
  /\ hw' = [hw EXCEPT ![C].raw = FALSE]
  /\ irq' = [l \in Line |-> [irq[l] EXCEPT ![C] =
               [@ EXCEPT !.count = 0, !.token = None, !.inte = irq[l][C].mask]]]
  /\ IF pc[2] = "close"
     THEN Resume("closeToken", "close") /\ UNCHANGED obj
     ELSE Finished /\ obj' = [obj EXCEPT ![cur].aborted = TRUE]
  /\ UNCHANGED <<buf, events, done>>

(* A fault: the line keeps the token of the source about to be released. *)
BadCloseToken ==
  /\ Goto("closeToken", "releaseSource")
  /\ UNCHANGED <<hw, irq, obj, buf, events, done>>

CloseToken ==
  /\ Goto("closeToken", "releaseSource")
  /\ irq' = [irq EXCEPT ![obj[cur].line][C].token = None]
  /\ UNCHANGED <<hw, obj, buf, events, done>>

ReleaseSource ==
  /\ Goto("releaseSource", "unclaim")
  /\ IF obj[cur].token = None THEN UNCHANGED <<source, obj>>
     ELSE /\ source' = [source EXCEPT ![obj[cur].token] = None]
          /\ obj' = [obj EXCEPT ![cur].token = None]
  /\ UNCHANGED <<hw, irq, buf, issued, mailbox, dropped, delivered, done>>

(* bmx_pico_dma_unclaim_channel refuses a busy channel: the object keeps   *)
(* its channel and its buffers, and Close can be called again.             *)
Unclaim ==
  /\ pc[1] = "unclaim"
  /\ IF hw[C].busy THEN Finished ELSE Resume("clearIrq", "close")
  /\ UNCHANGED <<hw, irq, obj, buf, events, done>>

UnclaimClear ==
  /\ Goto("clearIrq", "cleanup")
  /\ irq' = ClearIrq(C)
  /\ hw' = [hw EXCEPT ![C].raw = FALSE]
  /\ UNCHANGED <<obj, buf, events, done>>

(* A fault: the channel is given up without being stopped. *)
BadCleanup ==
  /\ Goto("cleanup", "releaseBuffers")
  /\ hw' = [hw EXCEPT ![C] = [@ EXCEPT !.claimed = FALSE, !.raw = FALSE]]
  /\ obj' = [obj EXCEPT ![cur].chan = None]
  /\ UNCHANGED <<irq, buf, events, done>>

(* dma_channel_cleanup disables, stops and acknowledges the channel. *)
Cleanup ==
  /\ Goto("cleanup", "releaseBuffers")
  /\ hw' = [hw EXCEPT ![C] = [@ EXCEPT !.claimed = FALSE, !.en = FALSE,
                                       !.busy = FALSE, !.raw = FALSE]]
  /\ obj' = [obj EXCEPT ![cur].chan = None]
  /\ UNCHANGED <<irq, buf, events, done>>

ReleaseBuffers ==
  /\ Return("releaseBuffers")
  /\ buf' = Settle(Unretained(obj[cur].write, Unretained(obj[cur].read, buf)))
  /\ obj' = [obj EXCEPT ![cur].read = None, ![cur].write = None]
  /\ UNCHANGED <<hw, irq, events, done>>

(* TDMABuffer.Close: at once, or when the last transfer lets go. *)
CloseBuffer(b) ==
  /\ Idle /\ ~buf[b].closing
  /\ buf' = Settle([buf EXCEPT ![b].closing = TRUE])
  /\ UNCHANGED <<hw, irq, obj, events, pc, cur, done>>

(* bmx_pico_dma_take_completion_events. *)
TakeCompletionEvents(t) ==
  /\ Idle /\ Open(t)
  /\ irq[obj[t].line][obj[t].chan].count > 0
  /\ irq' = [irq EXCEPT ![obj[t].line][obj[t].chan].count = 0]
  /\ UNCHANGED <<hw, obj, buf, events, pc, cur, done>>

(* PollSystem: the oldest event; a one-shot source lives until it. *)
Dispatch ==
  /\ Idle
  /\ Mail!Take
  /\ LET t == source[Head(mailbox)] IN
       IF t = None THEN UNCHANGED <<source, delivered>>
       ELSE /\ source' = [source EXCEPT ![Head(mailbox)] = None]
            /\ delivered' = delivered \cup {t}
  /\ UNCHANGED <<hw, irq, obj, buf, issued, pc, cur, done>>

-----------------------------------------------------------------------------
(* bmx_pico_dma_irq_handler, for one pending channel. *)
Handler(l, c) ==
  /\ hw[c].raw /\ irq[l][c].inte /\ irq[l][c].mask
  /\ hw' = [hw EXCEPT ![c].raw = FALSE]
  /\ irq' = [irq EXCEPT ![l][c].count = IF @ = MaxCount THEN @ ELSE @ + 1]
  /\ Post(irq[l][c].token)
  /\ UNCHANGED <<obj, buf, source, issued, delivered, pc, cur, done>>

(* The hardware finishes a channel, raises its flag and triggers the       *)
(* channel it is chained to.                                               *)
Finish(c) ==
  /\ hw[c].busy
  /\ LET next == hw[c].chain
         hit(d) == d = next /\ hw[d].en /\ d # c
     IN hw' = [d \in Channel |->
          [hw[d] EXCEPT !.busy = (@ /\ d # c) \/ hit(d),
                        !.raw = @ \/ (d = c /\ ~hw[c].quiet)]]
  /\ done' = done \cup {t \in Transfer : obj[t].chan = c}
  /\ UNCHANGED <<irq, obj, buf, events, pc, cur>>

-----------------------------------------------------------------------------
Operation(t) ==
  \/ \E c \in Channel, r \in Request : Claim(t, c, r)
  \/ StartQuiet(t) \/ Start(t) \/ Abort(t) \/ Close(t)
  \/ TakeCompletionEvents(t)

Step ==
  \/ RetainRead \/ RetainWrite \/ GiveUp \/ EnableIrq \/ Configure
  \/ SetToken \/ StartChannel \/ AbortMask \/ AbortStop \/ AbortClear
  \/ CloseToken \/ ReleaseSource \/ Unclaim \/ UnclaimClear \/ Cleanup
  \/ ReleaseBuffers

Next ==
  \/ \E t \in Transfer : Operation(t)
  \/ \E b \in Buffer : CloseBuffer(b)
  \/ Step \/ Dispatch
  \/ \E l \in Line, c \in Channel : Handler(l, c)
  \/ \E c \in Channel : Finish(c)

Spec == Init /\ [][Next]_vars

(* The hardware finishes what it runs, pending interrupts are handled,     *)
(* calls return, and the program polls for events again and again.         *)
Fairness ==
  /\ \A c \in Channel : WF_vars(Finish(c))
  /\ \A l \in Line, c \in Channel : WF_vars(Handler(l, c))
  /\ WF_vars(Step)
  /\ SF_vars(Dispatch)

FairSpec == Spec /\ Fairness

-----------------------------------------------------------------------------
(* Properties. *)

(* A channel is claimed exactly while one transfer object owns it: no      *)
(* failure path leaks a channel and no two objects share one.              *)
ChannelOwned ==
  \A c \in Channel :
    Cardinality({t \in Transfer : obj[t].chan = c}) = IF hw[c].claimed THEN 1 ELSE 0

(* Running hardware never reads or writes a buffer that has been freed,    *)
(* even if the program closes buffers, transfers and chain targets in any  *)
(* order.                                                                  *)
DmaTargetsAllocated ==
  \A c \in Channel : hw[c].busy => \A b \in hw[c].uses : ~buf[b].freed

Holders(b, role) == {t \in Transfer : Open(t) /\ obj[t][role] = b}

(* Between calls, a buffer is retained once for each use by an open        *)
(* transfer, and a closed buffer is freed as soon as no transfer uses it.  *)
RetainCount ==
  Idle =>
    \A b \in Buffer :
      /\ buf[b].active =
           Cardinality(Holders(b, "read")) + Cardinality(Holders(b, "write"))
      /\ buf[b].freed <=> (buf[b].closing /\ buf[b].active = 0)

(* Nothing leaks and nothing is given back twice, on any path, and every   *)
(* variable keeps its type.                                                *)
ResourcesBalanced == TypeOK /\ ChannelOwned /\ RetainCount

(* A token that an interrupt line would post, and a token the registry     *)
(* still maps to a transfer, is the token of an object that owns the       *)
(* channel: a channel's next owner never triggers its last owner's event.  *)
TokenOwned ==
  /\ \A l \in Line, c \in Channel :
       irq[l][c].token # None =>
         \E t \in Transfer : obj[t].chan = c /\ obj[t].token = irq[l][c].token
  /\ \A k \in Token : source[k] # None => Open(source[k]) /\ obj[source[k]].token = k

(* EVENT_DMACOMPLETE is emitted only for a transfer of which the hardware  *)
(* finished a run, whatever interrupts an abort raises.                    *)
EventMeansDone == delivered \subseteq done

(* An event of a transfer tells the truth of that transfer, although its   *)
(* channel had and will have other owners.                                 *)
EventsOwned == TokenOwned /\ EventMeansDone

(* Every transfer that was started has its event emitted, unless it is     *)
(* aborted, its event source released by a Close (which may yet leave the  *)
(* transfer open, when a chain restarts the channel), or an event dropped. *)
CompletionDelivered ==
  \A t \in Transfer :
    (obj[t].started /\ ~obj[t].quiet) ~>
      (t \in delivered \/ obj[t].aborted \/ obj[t].token = None \/ dropped > 0)

=============================================================================
