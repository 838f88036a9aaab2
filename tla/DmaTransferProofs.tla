-------------------------- MODULE DmaTransferProofs --------------------------
(***************************************************************************)
(* Proofs about DmaTransfer for any channels, lines, transfers, buffers    *)
(* and requests, and any bounds.                                           *)
(*                                                                         *)
(* The invariant says, label by label, how far a call has come: which      *)
(* object owns a channel (Channels), when a channel may run and with whose *)
(* buffers (Hardware), which buffers a transfer holds while its            *)
(* configuration or its close is half done (Retained), where a token may   *)
(* be found (Tokens), and what a raised completion flag stands for (Done). *)
(***************************************************************************)
EXTENDS DmaTransfer, FiniteSetTheorems, TLAPS

At(t, labels) == cur = t /\ pc[1] \in labels

Setup == {"retainRead", "retainWrite", "giveUp", "enableIrq", "configure"}
Aborting == {"abortMask", "abortStop", "abortClear"}
Closing == {"closeToken", "releaseSource", "unclaim", "clearIrq", "cleanup"}

Calls ==
  \/ Idle
  \/ /\ cur \in Transfer /\ pc[1] # "idle"
     /\ Open(cur) <=> pc[1] # "releaseBuffers"

Channels ==
  /\ \A c \in Channel : hw[c].claimed <=> \E t \in Transfer : obj[t].chan = c
  /\ \A t, u \in Transfer : Open(t) /\ obj[t].chan = obj[u].chan => t = u
  /\ \A t \in Transfer : obj[t].fresh => ~Open(t)

RunsClaimed == \A c \in Channel :
  /\ hw[c].busy => hw[c].en
  /\ hw[c].en \/ hw[c].raw => hw[c].claimed
OwnedRuns == \A t \in Transfer : Open(t) =>
  /\ hw[obj[t].chan].en => hw[obj[t].chan].uses = Given(t)
  /\ At(t, Setup) => ~hw[obj[t].chan].en /\ ~hw[obj[t].chan].raw
  /\ obj[t].aborted \/ At(t, Setup \cup Closing \cup {"abortClear"}) \/ hw[obj[t].chan].en
  /\ At(t, {"setToken", "startChannel"}) => ~obj[t].aborted

Hardware == RunsClaimed /\ OwnedRuns

(* A transfer holds a buffer from its Retain to its Release. *)
HoldsRead(t) ==
  IF Open(t) THEN ~At(t, {"retainRead", "giveUp"}) ELSE At(t, {"releaseBuffers"})
HoldsWrite(t) ==
  IF Open(t) THEN ~At(t, {"retainRead", "retainWrite", "giveUp"})
  ELSE At(t, {"releaseBuffers"})
Readers(b) == {t \in Transfer : HoldsRead(t) /\ obj[t].read = b}
Writers(b) == {t \in Transfer : HoldsWrite(t) /\ obj[t].write = b}

Retained ==
  \A b \in Buffer :
    /\ buf[b].active = Cardinality(Readers(b)) + Cardinality(Writers(b))
    /\ buf[b].freed <=> buf[b].closing /\ buf[b].active = 0

LineTokens == \A l \in Line, c \in Channel : irq[l][c].token # None =>
  \E t \in Transfer :
    obj[t].chan = c /\ obj[t].line = l /\ obj[t].token = irq[l][c].token
SourceTokens ==
  \A k \in Token : source[k] # None => Open(source[k]) /\ obj[source[k]].token = k
OwnTokens == \A t \in Transfer :
  /\ obj[t].token # None =>
       /\ Open(t) /\ obj[t].token <= issued
       /\ obj[t].started \/ At(t, {"setToken", "startChannel"})
       /\ ~At(t, Setup \cup {"unclaim", "clearIrq", "cleanup"})
  /\ At(t, Closing \ {"closeToken"}) => \A l \in Line : irq[l][obj[t].chan].token = None
OneOwner == \A t, u \in Transfer : obj[t].token # None /\ obj[t].token = obj[u].token => t = u

Tokens == LineTokens /\ SourceTokens /\ OwnTokens /\ OneOwner

Done ==
  /\ \A l \in Line, c \in Channel : irq[l][c].inte => irq[l][c].mask
  /\ \A t \in Transfer : Open(t) =>
       /\ At(t, {"abortStop", "abortClear"}) => \A l \in Line : ~irq[l][obj[t].chan].inte
       /\ hw[obj[t].chan].raw => t \in done \/ At(t, {"abortClear"})
  /\ \A i \in DOMAIN mailbox :
       mailbox[i] <= issued /\ (source[mailbox[i]] # None => source[mailbox[i]] \in done)
  /\ delivered \subseteq done

(* The types, but for the bound of a retain count, which needs Retained.   *)
Typed ==
  /\ hw \in [Channel -> ChannelState]
  /\ irq \in [Line -> [Channel -> IrqState]]
  /\ obj \in [Transfer -> ObjectState]
  /\ buf \in [Buffer -> [active : Nat, closing : BOOLEAN, freed : BOOLEAN]]
  /\ source \in [Token -> Transfer \cup {None}]
  /\ issued \in 0 .. MaxTokens
  /\ mailbox \in Seq(Token) /\ Len(mailbox) <= Capacity
  /\ dropped \in 0 .. MaxDropped
  /\ pc \in Label \X {"call", "abort", "close"} /\ cur \in Transfer \cup {None}
  /\ done \subseteq Transfer /\ delivered \subseteq Transfer

IInv == Typed /\ Calls /\ Channels /\ Hardware /\ Retained /\ Tokens /\ Done

-----------------------------------------------------------------------------
(* What the proofs use of the constants. *)
LEMMA ConstantFacts ==
  /\ IsFiniteSet(Transfer) /\ Line # {}
  /\ MaxTokens \in Nat /\ MaxCount \in Nat \ {0}
  /\ Capacity \in Nat \ {0} /\ MaxDropped \in Nat \ {0}
  /\ None \notin Channel /\ None \notin Buffer /\ None \notin Transfer /\ None \notin Token
  BY DmaAssumption DEF Token

LEMMA RequestFields ==
  ASSUME NEW r \in Request
  PROVE  /\ r.line \in Line /\ r.read \in Buffer \cup {None} /\ r.write \in Buffer \cup {None}
         /\ r.chain \in Channel \cup {None} /\ r.quiet \in BOOLEAN
<1>1. r \in [line : Line, read : Buffer \cup {None}, write : Buffer \cup {None},
             chain : Channel \cup {None}, quiet : BOOLEAN]
  BY DmaAssumption
<1>2. QED BY <1>1

(* The fields of a channel, of a line's entry for it, of a transfer and of *)
(* a buffer.                                                               *)
LEMMA ChannelFields ==
  ASSUME Typed, NEW c \in Channel
  PROVE  /\ hw[c] \in ChannelState
         /\ hw[c].claimed \in BOOLEAN /\ hw[c].busy \in BOOLEAN /\ hw[c].en \in BOOLEAN
         /\ hw[c].raw \in BOOLEAN /\ hw[c].quiet \in BOOLEAN
         /\ hw[c].uses \subseteq Buffer /\ hw[c].chain \in Channel \cup {None}
<1>1. hw[c] \in ChannelState BY DEF Typed
<1>2. QED BY <1>1 DEF ChannelState

LEMMA IrqFields ==
  ASSUME Typed, NEW l \in Line, NEW c \in Channel
  PROVE  /\ irq[l] \in [Channel -> IrqState] /\ irq[l][c] \in IrqState
         /\ irq[l][c].inte \in BOOLEAN /\ irq[l][c].mask \in BOOLEAN
         /\ irq[l][c].count \in 0 .. MaxCount /\ irq[l][c].token \in Token \cup {None}
<1>1. irq[l] \in [Channel -> IrqState] BY DEF Typed
<1>2. irq[l][c] \in IrqState BY <1>1
<1>3. QED BY <1>1, <1>2 DEF IrqState

LEMMA ObjectFields ==
  ASSUME Typed, NEW t \in Transfer
  PROVE  /\ obj[t] \in ObjectState
         /\ obj[t].fresh \in BOOLEAN /\ obj[t].chan \in Channel \cup {None}
         /\ obj[t].line \in Line /\ obj[t].read \in Buffer \cup {None}
         /\ obj[t].write \in Buffer \cup {None} /\ obj[t].chain \in Channel \cup {None}
         /\ obj[t].quiet \in BOOLEAN /\ obj[t].started \in BOOLEAN
         /\ obj[t].aborted \in BOOLEAN /\ obj[t].token \in Token \cup {None}
<1>1. obj[t] \in ObjectState BY DEF Typed
<1>2. QED BY <1>1 DEF ObjectState

LEMMA BufferFields ==
  ASSUME Typed, NEW b \in Buffer
  PROVE  buf[b].active \in Nat /\ buf[b].closing \in BOOLEAN /\ buf[b].freed \in BOOLEAN
  BY DEF Typed

(* The call in progress and its object. *)
LEMMA Running ==
  ASSUME Typed, Calls, pc[1] # "idle"
  PROVE  /\ cur \in Transfer /\ ~Idle
         /\ pc[1] # "releaseBuffers" => Open(cur) /\ C \in Channel
  BY ObjectFields DEF Calls, Idle, Open, C

-----------------------------------------------------------------------------
(* The mailbox. *)

(* A post adds at most the token posted. *)
LEMMA PostFacts ==
  ASSUME Typed, NEW k \in Token \cup {None}, Post(k)
  PROVE  /\ mailbox' \in Seq(Token) /\ Len(mailbox') <= Capacity
         /\ dropped' \in 0 .. MaxDropped
         /\ \A i \in DOMAIN mailbox' :
              \/ i \in DOMAIN mailbox /\ mailbox'[i] = mailbox[i]
              \/ k \in Token /\ mailbox'[i] = k
<1>1. CASE UNCHANGED <<mailbox, dropped>> BY <1>1 DEF Typed
<1>2. CASE k # None /\ Mail!Accept(k)
  <2>1. mailbox' = Append(mailbox, k) /\ dropped' = dropped /\ Len(mailbox) < Capacity
    BY <1>2 DEF Mail!Accept
  <2>2. k \in Token BY <1>2
  <2>3. mailbox' \in Seq(Token) /\ Len(mailbox') = Len(mailbox) + 1
    BY <2>1, <2>2 DEF Typed
  <2>4. \A i \in 1 .. Len(mailbox') :
          mailbox'[i] = IF i = Len(mailbox') THEN k ELSE mailbox[i]
    BY <2>1, <2>2, <2>3 DEF Typed
  <2>5. DOMAIN mailbox = 1 .. Len(mailbox) /\ DOMAIN mailbox' = 1 .. Len(mailbox')
          /\ Len(mailbox) \in Nat
    BY <2>3 DEF Typed
  <2>6. Len(mailbox') <= Capacity BY <2>1, <2>3, <2>5, ConstantFacts
  <2>7. \A i \in DOMAIN mailbox' : i = Len(mailbox') \/ i \in DOMAIN mailbox
    BY <2>3, <2>5
  <2>8. QED BY <2>1, <2>2, <2>3, <2>4, <2>5, <2>6, <2>7 DEF Typed
<1>3. CASE k # None /\ Mail!Refuse
  BY <1>3, ConstantFacts DEF Mail!Refuse, Typed
<1>4. QED BY <1>1, <1>2, <1>3 DEF Post

(* A take removes the oldest token. *)
LEMMA TakeFacts ==
  ASSUME Typed, Mail!Take
  PROVE  /\ mailbox' \in Seq(Token) /\ Len(mailbox') <= Capacity
         /\ dropped' = dropped
         /\ 1 \in DOMAIN mailbox /\ Head(mailbox) = mailbox[1] /\ Head(mailbox) \in Token
         /\ \A i \in DOMAIN mailbox' :
              \E j \in DOMAIN mailbox : mailbox'[i] = mailbox[j]
<1>1. mailbox # <<>> /\ mailbox' = Tail(mailbox) /\ dropped' = dropped BY DEF Mail!Take
<1>2. mailbox \in Seq(Token) /\ Len(mailbox) \in Nat /\ Len(mailbox) <= Capacity
  BY DEF Typed
<1>3. mailbox' \in Seq(Token) /\ Len(mailbox') = Len(mailbox) - 1 /\ Head(mailbox) \in Token
        /\ Head(mailbox) = mailbox[1] /\ 1 \in DOMAIN mailbox
  BY <1>1, <1>2
<1>4. ASSUME NEW i \in DOMAIN mailbox'
      PROVE  i + 1 \in DOMAIN mailbox /\ mailbox'[i] = mailbox[i + 1]
  BY <1>1, <1>2, <1>3, <1>4
<1>5. QED BY <1>1, <1>2, <1>3, <1>4, ConstantFacts

-----------------------------------------------------------------------------
(* Types. *)

(* Where a call goes next is a label. *)
LEMMA PcType ==
  ASSUME Typed, NEW to \in Label,
         \/ Finished
         \/ \E from : Goto(from, to)
         \/ \E why \in {"call", "abort", "close"} : Resume(to, why)
         \/ \E t \in Transfer, why \in {"call", "abort", "close"} : Call(t, to, why)
  PROVE  pc' \in Label \X {"call", "abort", "close"} /\ cur' \in Transfer \cup {None}
<1>1. pc[2] \in {"call", "abort", "close"} BY DEF Typed
<1>2. "idle" \in Label BY DEF Label
<1>3. QED BY <1>1, <1>2 DEF Typed, Finished, Goto, Resume, Call

(* Assigning fields of records keeps their types. *)
LEMMA ChannelRecord ==
  ASSUME NEW x \in ChannelState
  PROVE  /\ \A a, b \in BOOLEAN : [x EXCEPT !.busy = a, !.raw = b] \in ChannelState
         /\ \A b \in BOOLEAN :
              [x EXCEPT !.en = FALSE, !.busy = FALSE, !.raw = b] \in ChannelState
         /\ [x EXCEPT !.claimed = FALSE, !.en = FALSE, !.raw = FALSE] \in ChannelState
         /\ [x EXCEPT !.claimed = FALSE, !.en = FALSE, !.busy = FALSE, !.raw = FALSE]
              \in ChannelState
         /\ \A u \in SUBSET Buffer, q \in BOOLEAN, n \in Channel \cup {None} :
              [x EXCEPT !.en = TRUE, !.uses = u, !.quiet = q, !.chain = n] \in ChannelState
  BY DEF ChannelState

LEMMA ChannelUpdate ==
  ASSUME NEW f \in [Channel -> ChannelState], NEW c \in Channel
  PROVE  /\ [f EXCEPT ![c].claimed = TRUE] \in [Channel -> ChannelState]
         /\ [f EXCEPT ![c].busy = TRUE] \in [Channel -> ChannelState]
         /\ [f EXCEPT ![c].raw = FALSE] \in [Channel -> ChannelState]
         /\ \A x \in ChannelState : [f EXCEPT ![c] = x] \in [Channel -> ChannelState]
  BY DEF ChannelState

LEMMA IrqRecord ==
  ASSUME NEW x \in IrqState
  PROVE  /\ \A a \in BOOLEAN : [x EXCEPT !.inte = a] \in IrqState
         /\ [x EXCEPT !.inte = TRUE, !.mask = TRUE, !.count = 0] \in IrqState
         /\ \A a \in BOOLEAN : [x EXCEPT !.count = 0, !.token = None, !.inte = a] \in IrqState
         /\ \A n \in 0 .. MaxCount : [x EXCEPT !.count = n] \in IrqState
         /\ \A k \in Token \cup {None} : [x EXCEPT !.token = k] \in IrqState
<1>1. 0 \in 0 .. MaxCount BY ConstantFacts
<1>2. /\ \A a \in BOOLEAN : [x EXCEPT !.inte = a] \in IrqState
      /\ [x EXCEPT !.inte = TRUE, !.mask = TRUE, !.count = 0] \in IrqState
      /\ \A a \in BOOLEAN : [x EXCEPT !.count = 0, !.token = None, !.inte = a] \in IrqState
  BY <1>1 DEF IrqState
<1>3. \A n \in 0 .. MaxCount : [x EXCEPT !.count = n] \in IrqState BY DEF IrqState
<1>4. \A k \in Token \cup {None} : [x EXCEPT !.token = k] \in IrqState BY DEF IrqState
<1>5. QED BY <1>2, <1>3, <1>4

LEMMA IrqUpdate ==
  ASSUME NEW f \in [Line -> [Channel -> IrqState]], NEW l \in Line, NEW c \in Channel
  PROVE  /\ \A x \in IrqState : [f EXCEPT ![l][c] = x] \in [Line -> [Channel -> IrqState]]
         /\ \A k \in Token \cup {None} :
              [f EXCEPT ![l][c].token = k] \in [Line -> [Channel -> IrqState]]
         /\ \A n \in 0 .. MaxCount :
              [f EXCEPT ![l][c].count = n] \in [Line -> [Channel -> IrqState]]
<1>1. f[l] \in [Channel -> IrqState] /\ f[l][c] \in IrqState OBVIOUS
<1>2. ASSUME NEW y \in IrqState
      PROVE  [f EXCEPT ![l][c] = y] \in [Line -> [Channel -> IrqState]]
  BY <1>1
<1>3. ASSUME NEW k \in Token \cup {None}
      PROVE  [f EXCEPT ![l][c].token = k] \in [Line -> [Channel -> IrqState]]
  <2>1. [f[l][c] EXCEPT !.token = k] \in IrqState BY <1>1, IrqRecord
  <2>2. QED BY <2>1, <1>2
<1>4. ASSUME NEW n \in 0 .. MaxCount
      PROVE  [f EXCEPT ![l][c].count = n] \in [Line -> [Channel -> IrqState]]
  <2>1. [f[l][c] EXCEPT !.count = n] \in IrqState BY <1>1, IrqRecord
  <2>2. QED BY <2>1, <1>2
<1>5. QED BY <1>2, <1>3, <1>4

LEMMA ObjectRecord ==
  ASSUME NEW x \in ObjectState
  PROVE  /\ [x EXCEPT !.chan = None] \in ObjectState
         /\ [x EXCEPT !.started = TRUE] \in ObjectState
         /\ [x EXCEPT !.aborted = TRUE] \in ObjectState
         /\ \A k \in Token \cup {None} : [x EXCEPT !.token = k] \in ObjectState
         /\ [x EXCEPT !.read = None, !.write = None] \in ObjectState
  BY DEF ObjectState

LEMMA ObjectClaim ==
  ASSUME NEW x \in ObjectState, NEW c \in Channel, NEW l \in Line, NEW q \in BOOLEAN,
         NEW b \in Buffer \cup {None}, NEW w \in Buffer \cup {None},
         NEW n \in Channel \cup {None}
  PROVE  [x EXCEPT !.fresh = FALSE, !.chan = c, !.line = l, !.read = b,
                   !.write = w, !.chain = n, !.quiet = q] \in ObjectState
  BY DEF ObjectState

LEMMA ObjectUpdate ==
  ASSUME NEW f \in [Transfer -> ObjectState], NEW t \in Transfer
  PROVE  /\ [f EXCEPT ![t].chan = None] \in [Transfer -> ObjectState]
         /\ [f EXCEPT ![t].started = TRUE] \in [Transfer -> ObjectState]
         /\ [f EXCEPT ![t].aborted = TRUE] \in [Transfer -> ObjectState]
         /\ \A k \in Token \cup {None} :
              [f EXCEPT ![t].token = k] \in [Transfer -> ObjectState]
         /\ [f EXCEPT ![t].read = None, ![t].write = None] \in [Transfer -> ObjectState]
         /\ \A x \in ObjectState : [f EXCEPT ![t] = x] \in [Transfer -> ObjectState]
<1>1. f[t] \in ObjectState OBVIOUS
<1>2. /\ [f[t] EXCEPT !.chan = None] \in ObjectState
      /\ [f[t] EXCEPT !.started = TRUE] \in ObjectState
      /\ [f[t] EXCEPT !.aborted = TRUE] \in ObjectState
      /\ \A k \in Token \cup {None} : [f[t] EXCEPT !.token = k] \in ObjectState
      /\ [f[t] EXCEPT !.read = None, !.write = None] \in ObjectState
  BY <1>1, ObjectRecord
<1>3. ASSUME NEW y \in ObjectState PROVE [f EXCEPT ![t] = y] \in [Transfer -> ObjectState]
  OBVIOUS
<1>4. QED BY <1>2, <1>3

LEMMA ClearIrqType ==
  ASSUME Typed, NEW c \in Channel
  PROVE  ClearIrq(c) \in [Line -> [Channel -> IrqState]]
<1>1. [inte |-> FALSE, mask |-> FALSE, count |-> 0, token |-> None] \in IrqState
  BY ConstantFacts DEF IrqState
<1>2. \A l \in Line : irq[l] \in [Channel -> IrqState] BY IrqFields
<1>3. QED BY <1>1, <1>2 DEF ClearIrq

(* The buffers after retaining, releasing and settling. *)
Buffers == [Buffer -> [active : Nat, closing : BOOLEAN, freed : BOOLEAN]]

LEMMA SettleType == ASSUME NEW f \in Buffers PROVE Settle(f) \in Buffers
<1>1. ASSUME NEW b \in Buffer
      PROVE  [f[b] EXCEPT !.freed = @ \/ (f[b].closing /\ f[b].active = 0)]
               \in [active : Nat, closing : BOOLEAN, freed : BOOLEAN]
  BY DEF Buffers
<1>2. QED BY <1>1 DEF Settle, Buffers

LEMMA UnretainedType ==
  ASSUME NEW f \in Buffers, NEW b \in Buffer \cup {None}
  PROVE  Unretained(b, f) \in Buffers
<1>1. CASE b = None BY <1>1 DEF Unretained
<1>2. CASE b # None
  <2>1. f[b].active \in Nat BY <1>2 DEF Buffers
  <2>2. (IF f[b].active > 0 THEN f[b].active - 1 ELSE 0) \in Nat BY <2>1
  <2>3. QED BY <1>2, <2>2 DEF Unretained, Buffers
<1>3. QED BY <1>1, <1>2

LEMMA RetainType ==
  ASSUME Typed, NEW b \in Buffer \cup {None} PROVE Retain(b) \in Buffers
<1>1. CASE b = None BY <1>1 DEF Retain, Typed, Buffers
<1>2. CASE b # None
  <2>1. buf[b].active + 1 \in Nat BY <1>2 DEF Typed
  <2>2. QED BY <1>2, <2>1 DEF Retain, Typed, Buffers
<1>3. QED BY <1>1, <1>2

LEMMA TypeInit == Init => Typed
<1>1. \A l \in {CHOOSE l \in Line : TRUE} : l \in Line BY ConstantFacts
<1>2. QED BY <1>1, ConstantFacts DEF Init, Typed, ChannelState, IrqState, ObjectState, Label

LEMMA TypeStep == Typed /\ Calls /\ [Next]_vars => Typed'
<1> SUFFICES ASSUME Typed, Calls, [Next]_vars PROVE Typed'
  OBVIOUS
<1> USE DEF events
<1>0. /\ hw \in [Channel -> ChannelState] /\ irq \in [Line -> [Channel -> IrqState]]
      /\ obj \in [Transfer -> ObjectState]
  BY DEF Typed
<1>1. ASSUME NEW t \in Transfer, NEW c \in Channel, NEW r \in Request, Claim(t, c, r)
      PROVE  Typed'
  <2>1. hw' \in [Channel -> ChannelState] BY <1>1, ChannelUpdate DEF Claim, Typed
  <2>2. obj' \in [Transfer -> ObjectState]
    <3>1. [obj[t] EXCEPT !.fresh = FALSE, !.chan = c, !.line = r.line, !.read = r.read,
                         !.write = r.write, !.chain = r.chain, !.quiet = r.quiet] \in ObjectState
      BY RequestFields, ObjectFields, ObjectClaim
    <3>2. QED BY <1>1, <3>1 DEF Claim, Typed
  <2>3. "retainRead" \in Label BY DEF Label
  <2>4. pc' \in Label \X {"call", "abort", "close"} /\ cur' \in Transfer \cup {None}
    BY <1>1, <2>3, PcType DEF Claim
  <2>5. QED BY <1>1, <2>1, <2>2, <2>4 DEF Claim, Typed
<1>2. CASE RetainRead
  <2>1. cur \in Transfer /\ obj[cur].read \in Buffer \cup {None}
    BY <1>2, Running, ObjectFields DEF RetainRead, Goto
  <2>2. buf' \in Buffers BY <1>2, <2>1, RetainType DEF RetainRead, Typed, Buffers
  <2>3. PICK to \in Label : Goto("retainRead", to) BY <1>2 DEF RetainRead, Label
  <2>4. QED BY <1>2, <2>2, <2>3, PcType DEF RetainRead, Typed, Buffers
<1>3. CASE RetainWrite
  <2>1. /\ cur \in Transfer /\ obj[cur].read \in Buffer \cup {None}
        /\ obj[cur].write \in Buffer \cup {None}
    BY <1>3, Running, ObjectFields DEF RetainWrite, Goto
  <2>2. buf \in Buffers BY DEF Typed, Buffers
  <2>3. buf' \in Buffers
    BY <1>3, <2>1, <2>2, RetainType, SettleType, UnretainedType DEF RetainWrite
  <2>4. PICK to \in Label : Goto("retainWrite", to) BY <1>3 DEF RetainWrite, Label
  <2>5. QED BY <1>3, <2>3, <2>4, PcType DEF RetainWrite, Typed, Buffers
<1>4. CASE GiveUp
  <2>1. cur \in Transfer /\ C \in Channel /\ "idle" \in Label
    BY <1>4, Running DEF GiveUp, Return, Label
  <2>2. hw' \in [Channel -> ChannelState]
    <3>1. [hw[C] EXCEPT !.claimed = FALSE, !.en = FALSE, !.raw = FALSE] \in ChannelState
      BY <2>1, ChannelFields, ChannelRecord
    <3>2. QED BY <1>4, <2>1, <3>1 DEF GiveUp, Typed
  <2>3. obj' \in [Transfer -> ObjectState] BY <1>4, <2>1, ObjectUpdate DEF GiveUp, Typed
  <2>4. irq' \in [Line -> [Channel -> IrqState]] BY <1>4, <2>1, ClearIrqType DEF GiveUp
  <2>5. QED BY <1>4, <2>1, <2>2, <2>3, <2>4, PcType DEF GiveUp, Return, Typed
<1>5. CASE EnableIrq
  <2>1. cur \in Transfer /\ C \in Channel /\ "configure" \in Label /\ obj[cur].line \in Line
    BY <1>5, Running, ObjectFields DEF EnableIrq, Goto, Label
  <2>2. hw' \in [Channel -> ChannelState]
    <3>1. hw' = hw \/ hw' = [hw EXCEPT ![C].raw = FALSE] BY <1>5 DEF EnableIrq
    <3>2. [hw EXCEPT ![C].raw = FALSE] \in [Channel -> ChannelState]
      BY <1>0, <2>1, ChannelUpdate
    <3>3. QED BY <1>0, <3>1, <3>2
  <2>3. irq' \in [Line -> [Channel -> IrqState]]
    <3>1. [irq[obj[cur].line][C] EXCEPT !.inte = TRUE, !.mask = TRUE, !.count = 0] \in IrqState
      BY <2>1, IrqFields, IrqRecord, ConstantFacts
    <3>2. [irq EXCEPT ![obj[cur].line][C] =
             [@ EXCEPT !.inte = TRUE, !.mask = TRUE, !.count = 0]]
            \in [Line -> [Channel -> IrqState]]
      BY <1>0, <2>1, <3>1, IrqUpdate
    <3>3. QED BY <1>0, <1>5, <3>2 DEF EnableIrq
  <2>4. QED BY <1>5, <2>1, <2>2, <2>3, PcType DEF EnableIrq, Typed
<1>6. CASE Configure
  <2>1. cur \in Transfer /\ C \in Channel /\ "closeToken" \in Label
    BY <1>6, Running DEF Configure, Label
  <2>2. hw' \in [Channel -> ChannelState]
    <3>1. [hw[C] EXCEPT !.en = TRUE, !.uses = Given(cur), !.quiet = obj[cur].quiet,
                        !.chain = obj[cur].chain] \in ChannelState
      <4>1. /\ hw[C] \in ChannelState /\ Given(cur) \in SUBSET Buffer
            /\ obj[cur].quiet \in BOOLEAN /\ obj[cur].chain \in Channel \cup {None}
        BY <2>1, ChannelFields, ObjectFields DEF Given
      <4>2. QED BY <4>1, ChannelRecord
    <3>2. QED BY <1>6, <2>1, <3>1 DEF Configure, Typed
  <2>3. QED BY <1>6, <2>1, <2>2, PcType DEF Configure, Typed
<1>7. ASSUME NEW t \in Transfer, StartQuiet(t) PROVE Typed'
  <2>1. hw' \in [Channel -> ChannelState] BY <1>7, ChannelUpdate DEF StartQuiet, Typed
  <2>2. obj' \in [Transfer -> ObjectState] BY <1>7, ObjectUpdate DEF StartQuiet, Typed
  <2>3. QED BY <1>7, <2>1, <2>2 DEF StartQuiet, Typed
<1>8. ASSUME NEW t \in Transfer, Start(t) PROVE Typed'
  <2>1. issued + 1 \in Token /\ issued' \in 0 .. MaxTokens /\ "setToken" \in Label
    BY <1>8, ConstantFacts DEF Start, Typed, Token, Label
  <2>2. obj' \in [Transfer -> ObjectState] BY <1>8, <2>1, ObjectUpdate DEF Start, Typed
  <2>3. source' \in [Token -> Transfer \cup {None}] BY <1>8 DEF Start, Typed
  <2>4. QED BY <1>8, <2>1, <2>2, <2>3, PcType DEF Start, Typed
<1>9. CASE SetToken
  <2>1. /\ cur \in Transfer /\ C \in Channel /\ "startChannel" \in Label
        /\ obj[cur].line \in Line /\ obj[cur].token \in Token \cup {None}
    BY <1>9, Running, ObjectFields DEF SetToken, Goto, Label
  <2>2. irq' \in [Line -> [Channel -> IrqState]]
    BY <1>9, <2>1, ConstantFacts, IrqUpdate DEF SetToken, Typed
  <2>3. QED BY <1>9, <2>1, <2>2, PcType DEF SetToken, Typed
<1>10. CASE StartChannel
  <2>1. cur \in Transfer /\ C \in Channel /\ "idle" \in Label /\ obj[cur].line \in Line
    BY <1>10, Running, ObjectFields DEF StartChannel, Return, Label
  <2>2. hw' \in [Channel -> ChannelState]
    <3>1. hw' = hw \/ hw' = [hw EXCEPT ![C].busy = TRUE] BY <1>10 DEF StartChannel
    <3>2. [hw EXCEPT ![C].busy = TRUE] \in [Channel -> ChannelState]
      BY <1>0, <2>1, ChannelUpdate
    <3>3. QED BY <1>0, <3>1, <3>2
  <2>3. irq' \in [Line -> [Channel -> IrqState]]
    <3>1. irq' = irq \/ irq' = [irq EXCEPT ![obj[cur].line][C].token = None]
      BY <1>10 DEF StartChannel
    <3>2. [irq EXCEPT ![obj[cur].line][C].token = None] \in [Line -> [Channel -> IrqState]]
      BY <1>0, <2>1, IrqUpdate
    <3>3. QED BY <1>0, <3>1, <3>2
  <2>4. obj' \in [Transfer -> ObjectState]
    <3>1. \/ obj' = [obj EXCEPT ![cur].token = None]
          \/ obj' = [obj EXCEPT ![cur].started = TRUE]
      BY <1>10 DEF StartChannel
    <3>2. /\ [obj EXCEPT ![cur].token = None] \in [Transfer -> ObjectState]
          /\ [obj EXCEPT ![cur].started = TRUE] \in [Transfer -> ObjectState]
      BY <1>0, <2>1, ObjectUpdate
    <3>3. QED BY <1>0, <3>1, <3>2
  <2>5. source' \in [Token -> Transfer \cup {None}] BY <1>10 DEF StartChannel, Typed
  <2>6. QED BY <1>10, <2>1, <2>2, <2>3, <2>4, <2>5, PcType DEF StartChannel, Return, Typed
<1>11. ASSUME NEW t \in Transfer, Abort(t) PROVE Typed'
  <2>1. obj' \in [Transfer -> ObjectState]
    <3>1. obj' = obj \/ obj' = [obj EXCEPT ![t].aborted = TRUE] BY <1>11 DEF Abort
    <3>2. [obj EXCEPT ![t].aborted = TRUE] \in [Transfer -> ObjectState]
      BY <1>0, ObjectUpdate
    <3>3. QED BY <1>0, <3>1, <3>2
  <2>2. pc' \in Label \X {"call", "abort", "close"} /\ cur' \in Transfer \cup {None}
    BY <1>11 DEF Abort, Typed, Call, Label
  <2>3. QED BY <1>11, <2>1, <2>2 DEF Abort, Typed
<1>12. ASSUME NEW t \in Transfer, Close(t) PROVE Typed'
  BY <1>12 DEF Close, Typed, Call, Label
<1>13. CASE AbortMask
  <2>1. C \in Channel /\ "abortStop" \in Label BY <1>13, Running DEF AbortMask, Goto, Label
  <2>2. irq' \in [Line -> [Channel -> IrqState]]
    <3>1. ASSUME NEW l \in Line
          PROVE  [irq[l] EXCEPT ![C].inte = @ /\ ~irq[l][C].mask] \in [Channel -> IrqState]
      BY <2>1, IrqFields, IrqRecord
    <3>2. QED BY <1>13, <3>1 DEF AbortMask
  <2>3. QED BY <1>13, <2>1, <2>2, PcType DEF AbortMask, Typed
<1>14. CASE AbortStop
  <2>1. C \in Channel /\ "abortClear" \in Label BY <1>14, Running DEF AbortStop, Goto, Label
  <2>2. hw' \in [Channel -> ChannelState]
    <3>1. PICK spurious \in BOOLEAN :
            hw' = [hw EXCEPT ![C] = [@ EXCEPT !.en = FALSE, !.busy = FALSE,
                                              !.raw = hw[C].raw \/ spurious]]
      BY <1>14 DEF AbortStop
    <3>2. [hw[C] EXCEPT !.en = FALSE, !.busy = FALSE, !.raw = hw[C].raw \/ spurious]
            \in ChannelState
      BY <2>1, ChannelFields, ChannelRecord
    <3>3. [hw EXCEPT ![C] = [@ EXCEPT !.en = FALSE, !.busy = FALSE, !.raw = hw[C].raw \/ spurious]]
            \in [Channel -> ChannelState]
      BY <1>0, <2>1, <3>2, ChannelUpdate
    <3>4. QED BY <3>1, <3>3
  <2>3. QED BY <1>14, <2>1, <2>2, PcType DEF AbortStop, Typed
<1>15. CASE AbortClear
  <2>1. cur \in Transfer /\ C \in Channel /\ "closeToken" \in Label
    BY <1>15, Running DEF AbortClear, Label
  <2>2. hw' \in [Channel -> ChannelState] BY <1>15, <2>1, ChannelUpdate DEF AbortClear, Typed
  <2>3. irq' \in [Line -> [Channel -> IrqState]]
    <3>1. ASSUME NEW l \in Line
          PROVE  [irq[l] EXCEPT ![C] = [@ EXCEPT !.count = 0, !.token = None,
                                                 !.inte = irq[l][C].mask]]
                   \in [Channel -> IrqState]
      BY <2>1, IrqFields, IrqRecord, ConstantFacts
    <3>2. QED BY <1>15, <3>1 DEF AbortClear
  <2>4. obj' \in [Transfer -> ObjectState]
    <3>1. obj' = obj \/ obj' = [obj EXCEPT ![cur].aborted = TRUE] BY <1>15 DEF AbortClear
    <3>2. [obj EXCEPT ![cur].aborted = TRUE] \in [Transfer -> ObjectState]
      BY <1>0, <2>1, ObjectUpdate
    <3>3. QED BY <1>0, <3>1, <3>2
  <2>5. QED BY <1>15, <2>1, <2>2, <2>3, <2>4, PcType DEF AbortClear, Typed
<1>16. CASE CloseToken
  <2>1. C \in Channel /\ "releaseSource" \in Label /\ cur \in Transfer /\ obj[cur].line \in Line
    BY <1>16, Running, ObjectFields DEF CloseToken, Goto, Label
  <2>2. irq' \in [Line -> [Channel -> IrqState]]
    BY <1>16, <2>1, ConstantFacts, IrqUpdate DEF CloseToken, Typed
  <2>3. QED BY <1>16, <2>1, <2>2, PcType DEF CloseToken, Typed
<1>17. CASE ReleaseSource
  <2>1. cur \in Transfer /\ "unclaim" \in Label BY <1>17, Running DEF ReleaseSource, Goto, Label
  <2>2. obj' \in [Transfer -> ObjectState]
    <3>1. obj' = obj \/ obj' = [obj EXCEPT ![cur].token = None] BY <1>17 DEF ReleaseSource
    <3>2. [obj EXCEPT ![cur].token = None] \in [Transfer -> ObjectState]
      BY <1>0, <2>1, ObjectUpdate
    <3>3. QED BY <1>0, <3>1, <3>2
  <2>3. source' \in [Token -> Transfer \cup {None}] BY <1>17 DEF ReleaseSource, Typed
  <2>4. QED BY <1>17, <2>1, <2>2, <2>3, PcType DEF ReleaseSource, Typed
<1>18. CASE Unclaim
  <2>1. "clearIrq" \in Label BY DEF Label
  <2>2. QED BY <1>18, <2>1, PcType DEF Unclaim, Typed
<1>19. CASE UnclaimClear
  <2>1. C \in Channel /\ "cleanup" \in Label BY <1>19, Running DEF UnclaimClear, Goto, Label
  <2>2. hw' \in [Channel -> ChannelState] BY <1>19, <2>1, ChannelUpdate DEF UnclaimClear, Typed
  <2>3. irq' \in [Line -> [Channel -> IrqState]] BY <1>19, <2>1, ClearIrqType DEF UnclaimClear
  <2>4. QED BY <1>19, <2>1, <2>2, <2>3, PcType DEF UnclaimClear, Typed
<1>20. CASE Cleanup
  <2>1. C \in Channel /\ "releaseBuffers" \in Label /\ cur \in Transfer
    BY <1>20, Running DEF Cleanup, Goto, Label
  <2>2. hw' \in [Channel -> ChannelState]
    <3>1. [hw[C] EXCEPT !.claimed = FALSE, !.en = FALSE, !.busy = FALSE, !.raw = FALSE]
            \in ChannelState
      BY <2>1, ChannelFields, ChannelRecord
    <3>2. QED BY <1>20, <2>1, <3>1 DEF Cleanup, Typed
  <2>3. obj' \in [Transfer -> ObjectState] BY <1>20, <2>1, ObjectUpdate DEF Cleanup, Typed
  <2>4. QED BY <1>20, <2>1, <2>2, <2>3, PcType DEF Cleanup, Typed
<1>21. CASE ReleaseBuffers
  <2>1. /\ cur \in Transfer /\ obj[cur].read \in Buffer \cup {None} /\ "idle" \in Label
        /\ obj[cur].write \in Buffer \cup {None} /\ buf \in Buffers
    BY <1>21, Running, ObjectFields DEF ReleaseBuffers, Return, Label, Typed, Buffers
  <2>2. buf' \in Buffers BY <1>21, <2>1, SettleType, UnretainedType DEF ReleaseBuffers
  <2>3. obj' \in [Transfer -> ObjectState] BY <1>21, <2>1, ObjectUpdate DEF ReleaseBuffers, Typed
  <2>4. QED BY <1>21, <2>1, <2>2, <2>3, PcType DEF ReleaseBuffers, Return, Typed, Buffers
<1>22. ASSUME NEW b \in Buffer, CloseBuffer(b) PROVE Typed'
  <2>1. [buf EXCEPT ![b].closing = TRUE] \in Buffers BY DEF Typed, Buffers
  <2>2. buf' \in Buffers BY <1>22, <2>1, SettleType DEF CloseBuffer
  <2>3. QED BY <1>22, <2>2 DEF CloseBuffer, Typed, Buffers
<1>23. ASSUME NEW t \in Transfer, TakeCompletionEvents(t) PROVE Typed'
  <2>1. obj[t].chan \in Channel /\ obj[t].line \in Line /\ 0 \in 0 .. MaxCount
    BY <1>23, ObjectFields, ConstantFacts DEF TakeCompletionEvents, Open
  <2>2. irq' \in [Line -> [Channel -> IrqState]]
    BY <1>23, <2>1, ConstantFacts, IrqUpdate DEF TakeCompletionEvents, Typed
  <2>3. QED BY <1>23, <2>2 DEF TakeCompletionEvents, Typed
<1>24. CASE Dispatch
  <2>1. /\ mailbox' \in Seq(Token) /\ Len(mailbox') <= Capacity /\ dropped' = dropped
        /\ source[Head(mailbox)] \in Transfer \cup {None}
    BY <1>24, TakeFacts DEF Dispatch, Typed
  <2>2. /\ source' \in [Token -> Transfer \cup {None}]
        /\ delivered' \subseteq Transfer
    BY <1>24, <2>1 DEF Dispatch, Typed
  <2>3. QED BY <1>24, <2>1, <2>2 DEF Dispatch, Typed
<1>25. ASSUME NEW l \in Line, NEW c \in Channel, Handler(l, c) PROVE Typed'
  <2>1. irq[l][c].token \in Token \cup {None} /\ irq[l][c].count \in 0 .. MaxCount
    BY IrqFields
  <2>2. /\ mailbox' \in Seq(Token) /\ Len(mailbox') <= Capacity
        /\ dropped' \in 0 .. MaxDropped
    BY <1>25, <2>1, PostFacts DEF Handler
  <2>3. hw' \in [Channel -> ChannelState] BY <1>25, ChannelUpdate DEF Handler, Typed
  <2>4. irq' \in [Line -> [Channel -> IrqState]]
    <3>1. (IF irq[l][c].count = MaxCount THEN irq[l][c].count ELSE irq[l][c].count + 1)
            \in 0 .. MaxCount
      BY <2>1, ConstantFacts
    <3>2. QED BY <1>0, <1>25, <3>1, IrqUpdate DEF Handler
  <2>5. QED BY <1>25, <2>2, <2>3, <2>4 DEF Handler, Typed
<1>26. ASSUME NEW c \in Channel, Finish(c) PROVE Typed'
  <2>1. hw' \in [Channel -> ChannelState]
    <3>1. ASSUME NEW d \in Channel, NEW x \in BOOLEAN, NEW y \in BOOLEAN
          PROVE  [hw[d] EXCEPT !.busy = x, !.raw = y] \in ChannelState
      BY ChannelFields, ChannelRecord
    <3>2. QED BY <1>26, <3>1, ChannelFields DEF Finish
  <2>2. QED BY <1>26, <2>1 DEF Finish, Typed
<1>27. CASE UNCHANGED vars BY <1>27 DEF vars, Typed
<1>28. QED
  BY <1>1, <1>2, <1>3, <1>4, <1>5, <1>6, <1>7, <1>8, <1>9, <1>10, <1>11, <1>12, <1>13, <1>14,
     <1>15, <1>16, <1>17, <1>18, <1>19, <1>20, <1>21, <1>22, <1>23, <1>24, <1>25, <1>26, <1>27
     DEF Next, Operation, Step

-----------------------------------------------------------------------------
(* What the assignments of the actions do, field by field.                 *)

SetsToken(t, k) == obj' = [obj EXCEPT ![t].token = k]
SetsStarted(t) == obj' = [obj EXCEPT ![t].started = TRUE]
SetsAborted(t) == obj' = [obj EXCEPT ![t].aborted = TRUE]
Disowns(t) == obj' = [obj EXCEPT ![t].chan = None]
Forgets(t) == obj' = [obj EXCEPT ![t].read = None, ![t].write = None]

SameOwner(t) ==
  obj'[t].chan = obj[t].chan /\ obj'[t].line = obj[t].line /\ obj'[t].fresh = obj[t].fresh
SameBuffers(t) == obj'[t].read = obj[t].read /\ obj'[t].write = obj[t].write
SameRun(t) ==
  (obj'[t].started <=> obj[t].started) /\ (obj'[t].aborted <=> obj[t].aborted)

LEMMA TokenSet ==
  ASSUME Typed, NEW t \in Transfer, NEW k, SetsToken(t, k)
  PROVE  \A u \in Transfer :
           /\ SameOwner(u) /\ SameBuffers(u) /\ SameRun(u)
           /\ obj'[u].token = IF u = t THEN k ELSE obj[u].token
  BY DEF SetsToken, Typed, ObjectState, SameOwner, SameBuffers, SameRun

LEMMA StartedSet ==
  ASSUME Typed, NEW t \in Transfer, SetsStarted(t)
  PROVE  \A u \in Transfer :
           /\ SameOwner(u) /\ SameBuffers(u) /\ obj'[u].token = obj[u].token
           /\ obj'[u].aborted <=> obj[u].aborted
           /\ obj'[u].started <=> u = t \/ obj[u].started
  BY DEF SetsStarted, Typed, ObjectState, SameOwner, SameBuffers

LEMMA AbortedSet ==
  ASSUME Typed, NEW t \in Transfer, SetsAborted(t)
  PROVE  \A u \in Transfer :
           /\ SameOwner(u) /\ SameBuffers(u) /\ obj'[u].token = obj[u].token
           /\ obj'[u].started <=> obj[u].started
           /\ obj'[u].aborted <=> u = t \/ obj[u].aborted
  BY DEF SetsAborted, Typed, ObjectState, SameOwner, SameBuffers

LEMMA Disowned ==
  ASSUME Typed, NEW t \in Transfer, Disowns(t)
  PROVE  /\ \A u \in Transfer :
              /\ SameBuffers(u) /\ SameRun(u) /\ obj'[u].token = obj[u].token
              /\ obj'[u].fresh = obj[u].fresh /\ obj'[u].line = obj[u].line
         /\ \A u \in Transfer \ {t} : SameOwner(u)
         /\ obj'[t].chan = None
  BY DEF Disowns, Typed, ObjectState, SameOwner, SameBuffers, SameRun

LEMMA Forgotten ==
  ASSUME Typed, NEW t \in Transfer, Forgets(t)
  PROVE  /\ \A u \in Transfer : SameOwner(u) /\ SameRun(u) /\ obj'[u].token = obj[u].token
         /\ \A u \in Transfer \ {t} : SameBuffers(u)
         /\ obj'[t].read = None /\ obj'[t].write = None
  BY DEF Forgets, Typed, ObjectState, SameOwner, SameBuffers, SameRun

LEMMA ClaimedObject ==
  ASSUME Typed, NEW t \in Transfer, NEW c \in Channel, NEW r \in Request, Claim(t, c, r)
  PROVE  /\ \A u \in Transfer : SameRun(u) /\ obj'[u].token = obj[u].token
         /\ \A u \in Transfer \ {t} : SameOwner(u) /\ SameBuffers(u)
         /\ obj'[t].chan = c /\ ~obj'[t].fresh
         /\ obj'[t].read = r.read /\ obj'[t].write = r.write
  BY DEF Claim, Typed, ObjectState, SameOwner, SameBuffers, SameRun

(* Channel c changes; its claim bit, its completion flag, what it runs and *)
(* what it would run with are named one by one.                            *)
Others(c) == \A d \in Channel : d # c => hw'[d] = hw[d]
SameClaim(c) == hw'[c].claimed = hw[c].claimed
SameFlag(c) == hw'[c].raw = hw[c].raw
SameRunning(c) == hw'[c].busy = hw[c].busy
SameTargets(c) == hw'[c].en = hw[c].en /\ hw'[c].uses = hw[c].uses

Acknowledges(c) == hw' = [hw EXCEPT ![c].raw = FALSE]
Triggers(c) == hw' = [hw EXCEPT ![c].busy = TRUE]
Claims(c) == hw' = [hw EXCEPT ![c].claimed = TRUE]
Stops(c, r) ==
  hw' = [hw EXCEPT ![c] = [@ EXCEPT !.en = FALSE, !.busy = FALSE, !.raw = hw[c].raw \/ r]]
Cleans(c) ==
  hw' = [hw EXCEPT ![c] = [@ EXCEPT !.claimed = FALSE, !.en = FALSE,
                                    !.busy = FALSE, !.raw = FALSE]]
Unclaims(c) ==
  hw' = [hw EXCEPT ![c].claimed = FALSE, ![c].en = FALSE, ![c].raw = FALSE]
Configures(c, u, q, n) ==
  hw' = [hw EXCEPT ![c] = [@ EXCEPT !.en = TRUE, !.uses = u, !.quiet = q, !.chain = n]]

LEMMA Acknowledged ==
  ASSUME Typed, NEW c \in Channel, Acknowledges(c)
  PROVE  /\ Others(c) /\ SameClaim(c) /\ SameRunning(c) /\ SameTargets(c)
         /\ ~hw'[c].raw
  BY DEF Acknowledges, Typed, ChannelState, Others, SameClaim, SameRunning, SameTargets

LEMMA Triggered ==
  ASSUME Typed, NEW c \in Channel, Triggers(c)
  PROVE  Others(c) /\ SameClaim(c) /\ SameFlag(c) /\ SameTargets(c) /\ hw'[c].busy
  BY DEF Triggers, Typed, ChannelState, Others, SameClaim, SameFlag, SameTargets

LEMMA ClaimedChannel ==
  ASSUME Typed, NEW c \in Channel, Claims(c)
  PROVE  /\ Others(c) /\ SameFlag(c) /\ SameRunning(c) /\ SameTargets(c)
         /\ hw'[c].claimed
  BY DEF Claims, Typed, ChannelState, Others, SameFlag, SameRunning, SameTargets

LEMMA Stopped ==
  ASSUME Typed, NEW c \in Channel, NEW r \in BOOLEAN, Stops(c, r)
  PROVE  Others(c) /\ SameClaim(c) /\ ~hw'[c].en /\ ~hw'[c].busy
  BY DEF Stops, Typed, ChannelState, Others, SameClaim

LEMMA Cleaned ==
  ASSUME Typed, NEW c \in Channel, Cleans(c)
  PROVE  Others(c) /\ ~hw'[c].claimed /\ ~hw'[c].en /\ ~hw'[c].busy /\ ~hw'[c].raw
  BY DEF Cleans, Typed, ChannelState, Others

LEMMA Unclaimed ==
  ASSUME Typed, NEW c \in Channel, Unclaims(c)
  PROVE  Others(c) /\ SameRunning(c) /\ ~hw'[c].claimed /\ ~hw'[c].en /\ ~hw'[c].raw
<1>1. hw[c] \in ChannelState BY DEF Typed
<1>2. hw' = [hw EXCEPT ![c] = [hw[c] EXCEPT !.claimed = FALSE, !.en = FALSE, !.raw = FALSE]]
  BY DEF Unclaims, Typed
<1>3. QED BY <1>1, <1>2 DEF Typed, ChannelState, Others, SameRunning

LEMMA Configured ==
  ASSUME Typed, NEW c \in Channel, NEW u, NEW q, NEW n, Configures(c, u, q, n)
  PROVE  /\ Others(c) /\ SameClaim(c) /\ SameFlag(c) /\ SameRunning(c)
         /\ hw'[c].en /\ hw'[c].uses = u
  BY DEF Configures, Typed, ChannelState, Others, SameClaim, SameFlag, SameRunning

(* One line's entry for a channel, or every line's.                        *)
Elsewhere(l, c) ==
  \A m \in Line, d \in Channel : m # l \/ d # c => irq'[m][d] = irq[m][d]
OtherChannels(c) ==
  \A m \in Line, d \in Channel : d # c => irq'[m][d] = irq[m][d]
SameMask(l, c) == irq'[l][c].inte = irq[l][c].inte /\ irq'[l][c].mask = irq[l][c].mask
Listens(l, c) ==
  irq' = [irq EXCEPT ![l][c] = [@ EXCEPT !.inte = TRUE, !.mask = TRUE, !.count = 0]]
Announces(l, c, k) == irq' = [irq EXCEPT ![l][c].token = k]
Counts(l, c, n) == irq' = [irq EXCEPT ![l][c].count = n]
Silences(c) == irq' = [l \in Line |-> [irq[l] EXCEPT ![c].inte = @ /\ ~irq[l][c].mask]]
Relistens(c) ==
  irq' = [l \in Line |-> [irq[l] EXCEPT ![c] =
            [@ EXCEPT !.count = 0, !.token = None, !.inte = irq[l][c].mask]]]

LEMMA Listening ==
  ASSUME Typed, NEW l \in Line, NEW c \in Channel, Listens(l, c)
  PROVE  /\ Elsewhere(l, c) /\ irq'[l][c].inte /\ irq'[l][c].mask
         /\ irq'[l][c].token = irq[l][c].token
  BY IrqFields DEF Listens, Typed, IrqState, Elsewhere

LEMMA Announced ==
  ASSUME Typed, NEW l \in Line, NEW c \in Channel, NEW k, Announces(l, c, k)
  PROVE  Elsewhere(l, c) /\ SameMask(l, c) /\ irq'[l][c].token = k
  BY IrqFields DEF Announces, Typed, IrqState, Elsewhere, SameMask

LEMMA Counted ==
  ASSUME Typed, NEW l \in Line, NEW c \in Channel, NEW n, Counts(l, c, n)
  PROVE  Elsewhere(l, c) /\ SameMask(l, c) /\ irq'[l][c].token = irq[l][c].token
  BY IrqFields DEF Counts, Typed, IrqState, Elsewhere, SameMask

LEMMA Silenced ==
  ASSUME Typed, NEW c \in Channel, Silences(c)
  PROVE  /\ OtherChannels(c)
         /\ \A l \in Line :
              /\ irq'[l][c].inte = (irq[l][c].inte /\ ~irq[l][c].mask)
              /\ irq'[l][c].mask = irq[l][c].mask /\ irq'[l][c].token = irq[l][c].token
  BY IrqFields DEF Silences, Typed, IrqState, OtherChannels

LEMMA Relistening ==
  ASSUME Typed, NEW c \in Channel, Relistens(c)
  PROVE  /\ OtherChannels(c)
         /\ \A l \in Line :
              /\ irq'[l][c].inte = irq[l][c].mask /\ irq'[l][c].mask = irq[l][c].mask
              /\ irq'[l][c].token = None
<1>1. ASSUME NEW l \in Line
      PROVE  /\ \A d \in Channel : d # c => irq'[l][d] = irq[l][d]
             /\ irq'[l][c] = [irq[l][c] EXCEPT !.count = 0, !.token = None, !.inte = irq[l][c].mask]
  BY IrqFields DEF Relistens, Typed
<1>2. ASSUME NEW l \in Line
      PROVE  /\ irq'[l][c].inte = irq[l][c].mask /\ irq'[l][c].mask = irq[l][c].mask
             /\ irq'[l][c].token = None
  <2>1. irq[l][c] \in IrqState BY IrqFields
  <2>2. QED BY <1>1, <2>1 DEF IrqState
<1>3. QED BY <1>1, <1>2 DEF OtherChannels

LEMMA IrqCleared ==
  ASSUME Typed, NEW c \in Channel, irq' = ClearIrq(c)
  PROVE  /\ OtherChannels(c)
         /\ \A l \in Line :
              ~irq'[l][c].inte /\ ~irq'[l][c].mask /\ irq'[l][c].token = None
  BY IrqFields DEF ClearIrq, Typed, IrqState, OtherChannels

-----------------------------------------------------------------------------
(* What a step leaves alone. *)

Rest == Calls /\ Channels /\ Hardware /\ Retained /\ Tokens /\ Done

LEMMA GotoFacts ==
  ASSUME NEW from, NEW to, Goto(from, to)
  PROVE  pc[1] = from /\ pc'[1] = to /\ cur' = cur
  BY DEF Goto, Resume

LEMMA ResumeFacts ==
  ASSUME NEW to, NEW why, Resume(to, why)
  PROVE  pc'[1] = to /\ cur' = cur
  BY DEF Resume

LEMMA CallFacts ==
  ASSUME NEW t, NEW to, NEW why, Call(t, to, why)
  PROVE  Idle /\ pc[1] = "idle" /\ pc'[1] = to /\ cur' = t
  BY DEF Call, Idle

LEMMA FinishedFacts ==
  ASSUME Finished
  PROVE  Idle' /\ pc'[1] = "idle"
  BY DEF Finished, Idle

SameCall == pc' = pc /\ cur' = cur

LEMMA ChannelsKept ==
  ASSUME Channels, \A t \in Transfer : SameOwner(t), \A c \in Channel : SameClaim(c)
  PROVE  Channels'
  BY DEF Channels, SameOwner, SameClaim, Open

(* Outside of configuration and the release of its buffers, a transfer     *)
(* holds what it holds.                                                    *)
Balanced == {"retainRead", "retainWrite", "giveUp", "releaseBuffers"}

LEMMA RetainedKept ==
  ASSUME Retained, buf' = buf,
         \A t \in Transfer : HoldsRead(t) <=> HoldsRead(t)',
         \A t \in Transfer : HoldsWrite(t) <=> HoldsWrite(t)',
         \A t \in Transfer : SameBuffers(t) \/ (~HoldsRead(t) /\ ~HoldsWrite(t))
  PROVE  Retained'
<1>1. ASSUME NEW b \in Buffer PROVE Readers(b)' = Readers(b) /\ Writers(b)' = Writers(b)
  BY <1>1 DEF Readers, Writers, SameBuffers
<1>2. QED BY <1>1 DEF Retained

LEMMA HoldsKept ==
  ASSUME Retained, buf' = buf,
         \A t \in Transfer : SameOwner(t) /\ SameBuffers(t),
         SameCall \/ (pc[1] \notin Balanced /\ pc'[1] \notin Balanced)
  PROVE  Retained'
<1>1. ASSUME NEW t \in Transfer
      PROVE  (HoldsRead(t) <=> HoldsRead(t)') /\ (HoldsWrite(t) <=> HoldsWrite(t)')
  BY <1>1 DEF HoldsRead, HoldsWrite, At, Open, SameOwner, SameCall, Balanced
<1>2. QED BY <1>1, RetainedKept

LEMMA OwnedChannel ==
  ASSUME Typed
  PROVE  \A t \in Transfer : Open(t) => obj[t].chan \in Channel
  BY ObjectFields DEF Open

LEMMA SourceRange ==
  ASSUME Typed
  PROVE  \A k \in Token : k # None /\ source[k] \in Transfer \cup {None}
  BY ConstantFacts DEF Typed

-----------------------------------------------------------------------------
(* Configuration. *)

LEMMA ClaimKeeps ==
  ASSUME IInv, NEW t \in Transfer, NEW c \in Channel, NEW r \in Request, Claim(t, c, r)
  PROVE  Rest'
<1> USE DEF IInv
<1>1. Idle /\ pc[1] = "idle" /\ pc'[1] = "retainRead" /\ cur' = t BY CallFacts DEF Claim
<1>2. /\ \A u \in Transfer : SameRun(u) /\ obj'[u].token = obj[u].token
      /\ \A u \in Transfer \ {t} : SameOwner(u) /\ SameBuffers(u)
      /\ obj'[t].chan = c /\ ~obj'[t].fresh
  BY ClaimedObject
<1>3. /\ Others(c) /\ SameFlag(c) /\ SameRunning(c) /\ SameTargets(c) /\ hw'[c].claimed
      /\ ~hw[c].claimed
  BY ClaimedChannel DEF Claim, Claims
<1>4. /\ irq' = irq /\ buf' = buf /\ source' = source /\ issued' = issued
      /\ mailbox' = mailbox /\ delivered' = delivered /\ done' = done
  BY DEF Claim, events
<1>5. /\ \A u \in Transfer : Open(u) => obj[u].chan \in Channel
      /\ c # None /\ ~Open(t) /\ obj[t].token = None
      /\ \A u \in Transfer : obj[u].chan # c
      /\ ~hw[c].en /\ ~hw[c].raw /\ ~hw[c].busy
  BY <1>3, OwnedChannel, ConstantFacts 
     DEF Claim, Channels, Hardware, RunsClaimed, Tokens, OwnTokens
<1>6. Calls' BY <1>1, <1>2, <1>5 DEF Calls, Open
<1>7. Channels' BY <1>2, <1>3, <1>5, ConstantFacts DEF Channels, SameOwner, Open, Others
<1>8. Hardware'
  <2>1. RunsClaimed'
    BY <1>3, <1>5 DEF Hardware, RunsClaimed, SameFlag, SameRunning, SameTargets, Others
  <2>2. OwnedRuns'
    BY <1>1, <1>2, <1>3, <1>5
       DEF Hardware, OwnedRuns, Open, At, SameFlag, SameTargets, Others,
           SameOwner, SameBuffers, SameRun, Setup, Closing, Given
  <2>3. QED BY <2>1, <2>2 DEF Hardware
<1>9. Retained'
  BY <1>1, <1>2, <1>4, <1>5, RetainedKept
     DEF HoldsRead, HoldsWrite, At, Open, SameOwner
<1>10. Tokens'
  <2>1. LineTokens' BY <1>2, <1>4, <1>5 DEF Tokens, LineTokens, SameOwner
  <2>2. SourceTokens' BY <1>2, <1>4, <1>5, SourceRange DEF Tokens, SourceTokens, SameOwner, Open
  <2>3. OwnTokens'
    BY <1>1, <1>2, <1>4, <1>5 DEF Tokens, OwnTokens, SameOwner, SameRun, Open, At, Setup, Closing
  <2>4. OneOwner' BY <1>2 DEF Tokens, OneOwner
  <2>5. QED BY <2>1, <2>2, <2>3, <2>4 DEF Tokens
<1>11. Done' BY <1>1, <1>2, <1>3, <1>4, <1>5 DEF Done, SameFlag, Others, SameOwner, Open, At
<1>12. QED BY <1>6, <1>7, <1>8, <1>9, <1>10, <1>11 DEF Rest

LEMMA EnableIrqKeeps == ASSUME IInv, EnableIrq PROVE Rest'
<1> USE DEF IInv
<1> DEFINE l == obj[cur].line
<1>1. pc[1] = "enableIrq" /\ pc'[1] = "configure" /\ cur' = cur BY GotoFacts DEF EnableIrq
<1>2. /\ cur \in Transfer /\ C \in Channel /\ l \in Line /\ Open(cur)
      /\ \A t \in Transfer : Open(t) => obj[t].chan \in Channel
  BY <1>1, Running, ObjectFields, OwnedChannel
<1>3. /\ obj' = obj /\ buf' = buf /\ source' = source /\ issued' = issued
      /\ mailbox' = mailbox /\ delivered' = delivered /\ done' = done
  BY DEF EnableIrq, events
<1>4. \A c \in Channel :
        /\ SameClaim(c) /\ SameRunning(c) /\ SameTargets(c)
        /\ hw'[c].raw => hw[c].raw
  <2>1. CASE hw' = hw BY <2>1 DEF SameClaim, SameRunning, SameTargets
  <2>2. CASE Acknowledges(C)
    BY <1>2, <2>2, Acknowledged DEF SameClaim, SameRunning, SameTargets, Others
  <2>3. QED BY <2>1, <2>2 DEF EnableIrq, Acknowledges
<1>5. \A m \in Line, c \in Channel :
        /\ irq'[m][c].token = irq[m][c].token
        /\ irq'[m][c].inte => irq'[m][c].mask
  <2>1. CASE irq' = irq BY <2>1 DEF Done
  <2>2. CASE Listens(l, C) BY <1>2, <2>2, Listening DEF Elsewhere, Done
  <2>3. QED BY <2>1, <2>2 DEF EnableIrq, Listens
<1>6. Calls' BY <1>1, <1>2, <1>3 DEF Calls, Open
<1>7. Channels' BY <1>3, <1>4, ChannelsKept DEF SameOwner
<1>8. Hardware'
  <2>1. RunsClaimed'
    BY <1>2, <1>4 DEF Hardware, RunsClaimed, SameClaim, SameRunning, SameTargets
  <2>2. OwnedRuns'
    BY <1>1, <1>2, <1>3, <1>4
       DEF Hardware, OwnedRuns, Open, At, SameTargets, Setup, Closing, Given
  <2>3. QED BY <2>1, <2>2 DEF Hardware
<1>9. Retained' BY <1>1, <1>3, HoldsKept DEF SameOwner, SameBuffers, Balanced
<1>10. Tokens' BY <1>1, <1>2, <1>3, <1>5
     DEF Tokens, LineTokens, SourceTokens, OwnTokens, OneOwner, Open, At, Setup, Closing
<1>11. Done' BY <1>1, <1>2, <1>3, <1>5, <1>4 DEF Done, Open, At
<1>12. QED BY <1>6, <1>7, <1>8, <1>9, <1>10, <1>11 DEF Rest

LEMMA GiveUpKeeps == ASSUME IInv, GiveUp PROVE Rest'
<1> USE DEF IInv
<1>1. pc[1] = "giveUp" /\ pc'[1] = "idle" /\ Idle' BY FinishedFacts DEF GiveUp, Return
<1>2. /\ cur \in Transfer /\ C \in Channel /\ Open(cur)
      /\ \A t \in Transfer : Open(t) => obj[t].chan \in Channel
  BY <1>1, Running, OwnedChannel
<1>3. /\ buf' = buf /\ source' = source /\ issued' = issued
      /\ mailbox' = mailbox /\ delivered' = delivered /\ done' = done
  BY DEF GiveUp, events
<1>4. /\ \A t \in Transfer : /\ SameBuffers(t) /\ SameRun(t) /\ obj'[t].token = obj[t].token
                             /\ obj'[t].fresh = obj[t].fresh /\ obj'[t].line = obj[t].line
      /\ \A t \in Transfer \ {cur} : SameOwner(t)
      /\ obj'[cur].chan = None
  BY <1>2, Disowned DEF GiveUp, Disowns
<1>5. Others(C) /\ SameRunning(C) /\ ~hw'[C].claimed /\ ~hw'[C].en /\ ~hw'[C].raw
  BY <1>2, Unclaimed DEF GiveUp, Unclaims
<1>6. /\ OtherChannels(C)
      /\ \A l \in Line : ~irq'[l][C].inte /\ ~irq'[l][C].mask /\ irq'[l][C].token = None
  BY <1>2, IrqCleared DEF GiveUp
<1>7. /\ obj[cur].chan = C /\ ~hw[C].en /\ ~hw[C].busy /\ obj[cur].token = None
      /\ \A t \in Transfer \ {cur} : obj[t].chan # C
  BY <1>1, <1>2, ConstantFacts
     DEF Channels, Hardware, RunsClaimed, OwnedRuns, Tokens, OwnTokens, At, Setup, Open, C
<1>8. Calls' BY <1>1 DEF Calls
<1>9. Channels' BY <1>2, <1>4, <1>5, <1>7, ConstantFacts DEF Channels, SameOwner, Open, Others
<1>10. Hardware'
  <2>1. RunsClaimed' BY <1>5, <1>7 DEF Hardware, RunsClaimed, SameRunning, Others
  <2>2. OwnedRuns'
    BY <1>1, <1>2, <1>4, <1>5, <1>7
       DEF Hardware, OwnedRuns, Open, At, Others, SameOwner, SameBuffers, SameRun,
           Setup, Closing, Given
  <2>3. QED BY <2>1, <2>2 DEF Hardware
<1>11. Retained'
  BY <1>1, <1>2, <1>3, <1>4, RetainedKept DEF HoldsRead, HoldsWrite, At, Open, SameOwner
<1>12. Tokens'
  <2>1. LineTokens'
    BY <1>2, <1>3, <1>4, <1>6, <1>7 DEF Tokens, LineTokens, SameOwner, OtherChannels
  <2>2. SourceTokens'
    BY <1>2, <1>3, <1>4, <1>7, SourceRange DEF Tokens, SourceTokens, SameOwner, Open
  <2>3. OwnTokens'
    BY <1>1, <1>2, <1>3, <1>4, <1>6, <1>7
       DEF Tokens, OwnTokens, SameOwner, SameRun, Open, At, Setup, Closing
  <2>4. OneOwner' BY <1>4 DEF Tokens, OneOwner
  <2>5. QED BY <2>1, <2>2, <2>3, <2>4 DEF Tokens
<1>13. Done'
  BY <1>1, <1>2, <1>3, <1>4, <1>5, <1>6, <1>7 DEF Done, Others, SameOwner, Open, At, OtherChannels
<1>14. QED BY <1>8, <1>9, <1>10, <1>11, <1>12, <1>13 DEF Rest

-----------------------------------------------------------------------------
(* Buffers: every count is a sum of two cardinalities.                     *)

LEMMA HoldersFinite ==
  ASSUME NEW b
  PROVE  /\ IsFiniteSet(Readers(b)) /\ Cardinality(Readers(b)) \in Nat
         /\ IsFiniteSet(Writers(b)) /\ Cardinality(Writers(b)) \in Nat
<1>1. Readers(b) \subseteq Transfer /\ Writers(b) \subseteq Transfer BY DEF Readers, Writers
<1>2. QED BY <1>1, ConstantFacts, FS_Subset, FS_CardinalityType

LEMMA Retaining ==
  ASSUME Typed, NEW b \in Buffer \cup {None}
  PROVE  \A d \in Buffer :
           /\ Retain(b)[d].active = IF d = b THEN buf[d].active + 1 ELSE buf[d].active
           /\ Retain(b)[d].closing = buf[d].closing /\ Retain(b)[d].freed = buf[d].freed
  BY ConstantFacts DEF Retain, Typed

LEMMA Unretaining ==
  ASSUME NEW f \in Buffers, NEW b \in Buffer \cup {None}
  PROVE  \A d \in Buffer :
           /\ d # b => Unretained(b, f)[d].active = f[d].active
           /\ d = b /\ f[d].active > 0 => Unretained(b, f)[d].active = f[d].active - 1
           /\ Unretained(b, f)[d].closing = f[d].closing
           /\ Unretained(b, f)[d].freed = f[d].freed
<1>1. CASE b = None BY <1>1, ConstantFacts DEF Unretained
<1>2. CASE b # None BY <1>2, ConstantFacts DEF Unretained, Buffers
<1>3. QED BY <1>1, <1>2

LEMMA Settling ==
  ASSUME NEW f \in Buffers
  PROVE  \A d \in Buffer :
           /\ Settle(f)[d].active = f[d].active /\ Settle(f)[d].closing = f[d].closing
           /\ Settle(f)[d].freed = (f[d].freed \/ (f[d].closing /\ f[d].active = 0))
<1>1. ASSUME NEW d \in Buffer
      PROVE  Settle(f)[d] = [f[d] EXCEPT !.freed = @ \/ (f[d].closing /\ f[d].active = 0)]
  BY DEF Settle
<1>2. ASSUME NEW d \in Buffer
      PROVE  f[d] \in [active : Nat, closing : BOOLEAN, freed : BOOLEAN]
  BY DEF Buffers
<1>3. QED BY <1>1, <1>2

(* Retaining or releasing moves one count by one, as its holders do.       *)
LEMMA RetainedRead ==
  ASSUME Typed, Retained, NEW t \in Transfer, ~HoldsRead(t), HoldsRead(t)',
         \A u \in Transfer \ {t} : HoldsRead(u) <=> HoldsRead(u)',
         \A u \in Transfer : HoldsWrite(u) <=> HoldsWrite(u)',
         obj' = obj, CanRetain(obj[t].read), buf' = Retain(obj[t].read)
  PROVE  Retained'
<1> SUFFICES ASSUME NEW b \in Buffer
             PROVE  /\ buf'[b].active = Cardinality(Readers(b)') + Cardinality(Writers(b)')
                    /\ buf'[b].freed <=> buf'[b].closing /\ buf'[b].active = 0
  BY DEF Retained
<1>1. /\ obj[t].read \in Buffer \cup {None} /\ buf[b].active \in Nat
      /\ buf[b].active = Cardinality(Readers(b)) + Cardinality(Writers(b))
      /\ buf[b].freed <=> buf[b].closing /\ buf[b].active = 0
  BY ObjectFields, BufferFields DEF Retained
<1>2. Writers(b)' = Writers(b) BY DEF Writers
<1>3. CASE b = obj[t].read
  <2>0. /\ \A u \in Transfer : u \in Readers(b)' <=> u \in Readers(b) \/ u = t
        /\ Readers(b) \subseteq Transfer /\ Readers(b)' \subseteq Transfer /\ t \notin Readers(b)
    BY <1>3 DEF Readers
  <2>1. Readers(b)' = Readers(b) \cup {t} /\ t \notin Readers(b) BY <2>0
  <2>2. Cardinality(Readers(b)') = Cardinality(Readers(b)) + 1
    BY <2>1, HoldersFinite, FS_AddElement
  <2>3. ~buf[b].closing BY <1>3, ConstantFacts DEF CanRetain
  <2>4. QED BY <1>1, <1>2, <1>3, <2>2, <2>3, HoldersFinite, Retaining
<1>4. CASE b # obj[t].read
  <2>1. Readers(b)' = Readers(b) BY <1>4 DEF Readers
  <2>2. QED BY <1>1, <1>2, <1>4, <2>1, Retaining
<1>5. QED BY <1>3, <1>4

LEMMA RetainedWrite ==
  ASSUME Typed, Retained, NEW t \in Transfer, ~HoldsWrite(t), HoldsWrite(t)',
         \A u \in Transfer \ {t} : HoldsWrite(u) <=> HoldsWrite(u)',
         \A u \in Transfer : HoldsRead(u) <=> HoldsRead(u)',
         obj' = obj, CanRetain(obj[t].write), buf' = Retain(obj[t].write)
  PROVE  Retained'
<1> SUFFICES ASSUME NEW b \in Buffer
             PROVE  /\ buf'[b].active = Cardinality(Readers(b)') + Cardinality(Writers(b)')
                    /\ buf'[b].freed <=> buf'[b].closing /\ buf'[b].active = 0
  BY DEF Retained
<1>1. /\ obj[t].write \in Buffer \cup {None} /\ buf[b].active \in Nat
      /\ buf[b].active = Cardinality(Readers(b)) + Cardinality(Writers(b))
      /\ buf[b].freed <=> buf[b].closing /\ buf[b].active = 0
  BY ObjectFields, BufferFields DEF Retained
<1>2. Readers(b)' = Readers(b) BY DEF Readers
<1>3. CASE b = obj[t].write
  <2>0. /\ \A u \in Transfer : u \in Writers(b)' <=> u \in Writers(b) \/ u = t
        /\ Writers(b) \subseteq Transfer /\ Writers(b)' \subseteq Transfer /\ t \notin Writers(b)
    BY <1>3 DEF Writers
  <2>1. Writers(b)' = Writers(b) \cup {t} /\ t \notin Writers(b) BY <2>0
  <2>2. Cardinality(Writers(b)') = Cardinality(Writers(b)) + 1
    BY <2>1, HoldersFinite, FS_AddElement
  <2>3. ~buf[b].closing BY <1>3, ConstantFacts DEF CanRetain
  <2>4. QED BY <1>1, <1>2, <1>3, <2>2, <2>3, HoldersFinite, Retaining
<1>4. CASE b # obj[t].write
  <2>1. Writers(b)' = Writers(b) BY <1>4 DEF Writers
  <2>2. QED BY <1>1, <1>2, <1>4, <2>1, Retaining
<1>5. QED BY <1>3, <1>4

(* Releasing the read buffer, as a failed configuration does. *)
LEMMA ReleasedRead ==
  ASSUME Typed, Retained, NEW t \in Transfer, HoldsRead(t), ~HoldsRead(t)',
         \A u \in Transfer \ {t} : HoldsRead(u) <=> HoldsRead(u)',
         \A u \in Transfer : HoldsWrite(u) <=> HoldsWrite(u)',
         obj' = obj, buf' = Settle(Unretained(obj[t].read, buf))
  PROVE  Retained'
<1> DEFINE r == obj[t].read
           f == Unretained(r, buf)
<1> SUFFICES ASSUME NEW b \in Buffer
             PROVE  /\ buf'[b].active = Cardinality(Readers(b)') + Cardinality(Writers(b)')
                    /\ buf'[b].freed <=> buf'[b].closing /\ buf'[b].active = 0
  BY DEF Retained
<1>1. /\ r \in Buffer \cup {None} /\ buf[b].active \in Nat /\ buf \in Buffers
      /\ buf[b].active = Cardinality(Readers(b)) + Cardinality(Writers(b))
      /\ buf[b].freed <=> buf[b].closing /\ buf[b].active = 0
  BY ObjectFields, BufferFields DEF Retained, Typed, Buffers
<1>2. f \in Buffers BY <1>1, UnretainedType
<1>3. /\ buf'[b].active = f[b].active /\ buf'[b].closing = f[b].closing
      /\ buf'[b].freed = (f[b].freed \/ (f[b].closing /\ f[b].active = 0))
  BY <1>2, Settling
<1>4. Writers(b)' = Writers(b) BY DEF Writers
<1>5. f[b].closing = buf[b].closing /\ f[b].freed = buf[b].freed BY <1>1, Unretaining
<1>6. CASE b = r
  <2>0. /\ \A u \in Transfer : u \in Readers(b)' <=> u \in Readers(b) /\ u # t
        /\ Readers(b) \subseteq Transfer /\ Readers(b)' \subseteq Transfer /\ t \in Readers(b)
    BY <1>6 DEF Readers
  <2>1. Readers(b)' = Readers(b) \ {t} /\ t \in Readers(b) BY <2>0
  <2>2. Cardinality(Readers(b)') = Cardinality(Readers(b)) - 1
    BY <2>1, HoldersFinite, FS_RemoveElement
  <2>3. Cardinality(Readers(b)) > 0
    BY <2>1, <2>2, HoldersFinite, FS_EmptySet
  <2>4. buf[b].active > 0 BY <1>1, <2>3, HoldersFinite
  <2>5. f[b].active = buf[b].active - 1 BY <1>1, <1>6, <2>4, Unretaining
  <2>6. f[b].active = Cardinality(Readers(b)') + Cardinality(Writers(b)')
    BY <1>1, <1>4, <2>2, <2>5, HoldersFinite
  <2>7. ~buf[b].freed BY <1>1, <2>4
  <2>8. QED BY <1>3, <1>5, <2>6, <2>7
<1>7. CASE b # r
  <2>1. Readers(b)' = Readers(b) BY <1>7 DEF Readers
  <2>2. f[b].active = buf[b].active BY <1>1, <1>7, Unretaining
  <2>3. QED BY <1>1, <1>3, <1>4, <1>5, <2>1, <2>2
<1>8. QED BY <1>6, <1>7

(* The release of both buffers, which a close ends with. *)
LEMMA ReleasedBoth ==
  ASSUME Typed, Retained, NEW t \in Transfer, HoldsRead(t), ~HoldsRead(t)',
         HoldsWrite(t), ~HoldsWrite(t)',
         \A u \in Transfer \ {t} : HoldsRead(u) <=> HoldsRead(u)',
         \A u \in Transfer \ {t} : HoldsWrite(u) <=> HoldsWrite(u)',
         \A u \in Transfer \ {t} : SameBuffers(u),
         buf' = Settle(Unretained(obj[t].write, Unretained(obj[t].read, buf)))
  PROVE  Retained'
<1> DEFINE r == obj[t].read
           w == obj[t].write
           f == Unretained(r, buf)
           g == Unretained(w, f)
<1> SUFFICES ASSUME NEW b \in Buffer
             PROVE  /\ buf'[b].active = Cardinality(Readers(b)') + Cardinality(Writers(b)')
                    /\ buf'[b].freed <=> buf'[b].closing /\ buf'[b].active = 0
  BY DEF Retained
<1> DEFINE nr == Cardinality(Readers(b))
           nw == Cardinality(Writers(b))
<1>1. /\ r \in Buffer \cup {None} /\ w \in Buffer \cup {None}
      /\ buf[b].active \in Nat /\ buf \in Buffers /\ nr \in Nat /\ nw \in Nat
      /\ buf[b].active = nr + nw
      /\ buf[b].freed <=> buf[b].closing /\ buf[b].active = 0
  BY ObjectFields, BufferFields, HoldersFinite DEF Retained, Typed, Buffers
<1>2. f \in Buffers /\ g \in Buffers BY <1>1, UnretainedType
<1>3. /\ buf'[b].active = g[b].active /\ buf'[b].closing = g[b].closing
      /\ buf'[b].freed = (g[b].freed \/ (g[b].closing /\ g[b].active = 0))
  BY <1>2, Settling
<1>4. g[b].closing = buf[b].closing /\ g[b].freed = buf[b].freed
  BY <1>1, <1>2, Unretaining
<1>5. /\ b = r => Cardinality(Readers(b)') = nr - 1 /\ nr > 0
      /\ b # r => Cardinality(Readers(b)') = nr
  <2>1. CASE b = r
    <3>0. /\ \A u \in Transfer : u \in Readers(b)' <=> u \in Readers(b) /\ u # t
          /\ Readers(b) \subseteq Transfer /\ Readers(b)' \subseteq Transfer /\ t \in Readers(b)
      BY <2>1 DEF Readers, SameBuffers
    <3>1. Readers(b)' = Readers(b) \ {t} /\ t \in Readers(b) BY <3>0
    <3>2. QED BY <2>1, <3>1, HoldersFinite, FS_RemoveElement, FS_EmptySet
  <2>2. CASE b # r
    <3>0. /\ \A u \in Transfer : u \in Readers(b)' <=> u \in Readers(b)
          /\ Readers(b) \subseteq Transfer /\ Readers(b)' \subseteq Transfer
      BY <2>2 DEF Readers, SameBuffers
    <3>1. Readers(b)' = Readers(b) BY <3>0
    <3>2. QED BY <2>2, <3>1
  <2>3. QED BY <2>1, <2>2
<1>6. /\ b = w => Cardinality(Writers(b)') = nw - 1 /\ nw > 0
      /\ b # w => Cardinality(Writers(b)') = nw
  <2>1. CASE b = w
    <3>0. /\ \A u \in Transfer : u \in Writers(b)' <=> u \in Writers(b) /\ u # t
          /\ Writers(b) \subseteq Transfer /\ Writers(b)' \subseteq Transfer /\ t \in Writers(b)
      BY <2>1 DEF Writers, SameBuffers
    <3>1. Writers(b)' = Writers(b) \ {t} /\ t \in Writers(b) BY <3>0
    <3>2. QED BY <2>1, <3>1, HoldersFinite, FS_RemoveElement, FS_EmptySet
  <2>2. CASE b # w
    <3>0. /\ \A u \in Transfer : u \in Writers(b)' <=> u \in Writers(b)
          /\ Writers(b) \subseteq Transfer /\ Writers(b)' \subseteq Transfer
      BY <2>2 DEF Writers, SameBuffers
    <3>1. Writers(b)' = Writers(b) BY <3>0
    <3>2. QED BY <2>2, <3>1
  <2>3. QED BY <2>1, <2>2
<1>7. f[b].active = IF b = r THEN buf[b].active - 1 ELSE buf[b].active
  BY <1>1, <1>5, Unretaining
<1>8. g[b].active = IF b = w THEN f[b].active - 1 ELSE f[b].active
  BY <1>1, <1>2, <1>5, <1>6, <1>7, Unretaining
<1>9. g[b].active = Cardinality(Readers(b)') + Cardinality(Writers(b)')
  BY <1>1, <1>5, <1>6, <1>7, <1>8
<1>10. buf[b].freed => g[b].active = 0
  BY <1>1, <1>5, <1>6, <1>7, <1>8
<1>11. QED BY <1>1, <1>3, <1>4, <1>9, <1>10

LEMMA RetainReadKeeps == ASSUME IInv, RetainRead PROVE Rest'
<1> USE DEF IInv
<1>1. /\ pc[1] = "retainRead" /\ cur' = cur
      /\ pc'[1] = IF CanRetain(obj[cur].read) THEN "retainWrite" ELSE "giveUp"
  BY GotoFacts DEF RetainRead
<1>2. /\ cur \in Transfer /\ Open(cur)
      /\ \A t \in Transfer : Open(t) => obj[t].chan \in Channel
  BY <1>1, Running, OwnedChannel
<1>3. /\ hw' = hw /\ irq' = irq /\ obj' = obj /\ source' = source /\ issued' = issued
      /\ mailbox' = mailbox /\ delivered' = delivered /\ done' = done
  BY DEF RetainRead, events
<1>4. Calls' BY <1>1, <1>2, <1>3 DEF Calls, Open
<1>5. Channels' BY <1>3 DEF Channels, Open
<1>6. Hardware'
  <2>1. RunsClaimed' BY <1>3 DEF Hardware, RunsClaimed
  <2>2. OwnedRuns'
    BY <1>1, <1>2, <1>3 DEF Hardware, OwnedRuns, Open, At, Setup, Closing, Given
  <2>3. QED BY <2>1, <2>2 DEF Hardware
<1>7. Retained'
  <2>1. CASE CanRetain(obj[cur].read)
    <3>1. /\ ~HoldsRead(cur) /\ \A t \in Transfer : t = cur => HoldsRead(t)'
          /\ \A t \in Transfer \ {cur} : HoldsRead(t) <=> HoldsRead(t)'
          /\ \A t \in Transfer : HoldsWrite(t) <=> HoldsWrite(t)'
      BY <1>1, <1>2, <1>3, <2>1 DEF HoldsRead, HoldsWrite, At, Open
    <3>2. buf' = Retain(obj[cur].read) BY <2>1 DEF RetainRead
    <3>3. QED BY <1>2, <1>3, <2>1, <3>1, <3>2, RetainedRead
  <2>2. CASE ~CanRetain(obj[cur].read)
    <3>1. /\ \A t \in Transfer : HoldsRead(t) <=> HoldsRead(t)'
          /\ \A t \in Transfer : HoldsWrite(t) <=> HoldsWrite(t)'
      BY <1>1, <1>2, <1>3, <2>2 DEF HoldsRead, HoldsWrite, At, Open
    <3>2. buf' = buf BY <2>2 DEF RetainRead
    <3>3. QED BY <1>3, <3>1, <3>2, RetainedKept DEF SameBuffers
  <2>3. QED BY <2>1, <2>2
<1>8. Tokens'
  BY <1>1, <1>2, <1>3
     DEF Tokens, LineTokens, SourceTokens, OwnTokens, OneOwner, Open, At, Setup, Closing
<1>9. Done' BY <1>1, <1>2, <1>3 DEF Done, Open, At
<1>10. QED BY <1>4, <1>5, <1>6, <1>7, <1>8, <1>9 DEF Rest

LEMMA RetainWriteKeeps == ASSUME IInv, RetainWrite PROVE Rest'
<1> USE DEF IInv
<1>1. /\ pc[1] = "retainWrite" /\ cur' = cur
      /\ pc'[1] = IF CanRetain(obj[cur].write) THEN "enableIrq" ELSE "giveUp"
  BY GotoFacts DEF RetainWrite
<1>2. /\ cur \in Transfer /\ Open(cur)
      /\ \A t \in Transfer : Open(t) => obj[t].chan \in Channel
  BY <1>1, Running, OwnedChannel
<1>3. /\ hw' = hw /\ irq' = irq /\ obj' = obj /\ source' = source /\ issued' = issued
      /\ mailbox' = mailbox /\ delivered' = delivered /\ done' = done
  BY DEF RetainWrite, events
<1>4. Calls' BY <1>1, <1>2, <1>3 DEF Calls, Open
<1>5. Channels' BY <1>3 DEF Channels, Open
<1>6. Hardware'
  <2>1. RunsClaimed' BY <1>3 DEF Hardware, RunsClaimed
  <2>2. OwnedRuns'
    BY <1>1, <1>2, <1>3 DEF Hardware, OwnedRuns, Open, At, Setup, Closing, Given
  <2>3. QED BY <2>1, <2>2 DEF Hardware
<1>7. Retained'
  <2>1. CASE CanRetain(obj[cur].write)
    <3>1. /\ ~HoldsWrite(cur) /\ \A t \in Transfer : t = cur => HoldsWrite(t)'
          /\ \A t \in Transfer \ {cur} : HoldsWrite(t) <=> HoldsWrite(t)'
          /\ \A t \in Transfer : HoldsRead(t) <=> HoldsRead(t)'
      BY <1>1, <1>2, <1>3, <2>1 DEF HoldsRead, HoldsWrite, At, Open
    <3>2. buf' = Retain(obj[cur].write) BY <2>1 DEF RetainWrite
    <3>3. QED BY <1>2, <1>3, <2>1, <3>1, <3>2, RetainedWrite
  <2>2. CASE ~CanRetain(obj[cur].write)
    <3>1. /\ HoldsRead(cur) /\ \A t \in Transfer : t = cur => ~HoldsRead(t)'
          /\ \A t \in Transfer \ {cur} : HoldsRead(t) <=> HoldsRead(t)'
          /\ \A t \in Transfer : HoldsWrite(t) <=> HoldsWrite(t)'
      BY <1>1, <1>2, <1>3, <2>2 DEF HoldsRead, HoldsWrite, At, Open
    <3>2. buf' = Settle(Unretained(obj[cur].read, buf)) BY <2>2 DEF RetainWrite
    <3>3. QED BY <1>2, <1>3, <3>1, <3>2, ReleasedRead
  <2>3. QED BY <2>1, <2>2
<1>8. Tokens'
  BY <1>1, <1>2, <1>3
     DEF Tokens, LineTokens, SourceTokens, OwnTokens, OneOwner, Open, At, Setup, Closing
<1>9. Done' BY <1>1, <1>2, <1>3 DEF Done, Open, At
<1>10. QED BY <1>4, <1>5, <1>6, <1>7, <1>8, <1>9 DEF Rest

LEMMA ConfigureKeeps == ASSUME IInv, Configure PROVE Rest'
<1> USE DEF IInv
<1>1. /\ pc[1] = "configure"
      /\ \/ pc'[1] = "idle" /\ Idle' /\ Configures(C, Given(cur), obj[cur].quiet, obj[cur].chain)
         \/ pc'[1] = "closeToken" /\ cur' = cur /\ hw' = hw
  BY FinishedFacts, ResumeFacts DEF Configure, Configures
<1>2. /\ cur \in Transfer /\ C \in Channel /\ Open(cur) /\ obj[cur].chan = C
      /\ \A t \in Transfer : Open(t) => obj[t].chan \in Channel
      /\ \A t \in Transfer : t # cur /\ Open(t) => obj[t].chan # C
      /\ hw[C].claimed /\ ~hw[C].raw
  BY <1>1, Running, OwnedChannel DEF C, Channels, Hardware, RunsClaimed, OwnedRuns, At, Setup
<1>3. /\ irq' = irq /\ obj' = obj /\ buf' = buf /\ source' = source /\ issued' = issued
      /\ mailbox' = mailbox /\ delivered' = delivered /\ done' = done
  BY DEF Configure, events
<1>4. \/ /\ pc'[1] = "idle" /\ Idle'
         /\ Others(C) /\ SameClaim(C) /\ SameFlag(C) /\ SameRunning(C)
         /\ hw'[C].en /\ hw'[C].uses = Given(cur)
      \/ pc'[1] = "closeToken" /\ cur' = cur /\ hw' = hw
  BY <1>1, <1>2, Configured
<1>5. Calls' BY <1>1, <1>2, <1>3 DEF Calls, Open
<1>6. Channels' BY <1>3, <1>4, ChannelsKept DEF SameOwner, Others, SameClaim
<1>7. Hardware'
  <2>1. CASE pc'[1] = "closeToken" /\ cur' = cur /\ hw' = hw
    <3>1. RunsClaimed' BY <2>1 DEF Hardware, RunsClaimed
    <3>2. OwnedRuns'
      BY <1>1, <1>2, <1>3, <2>1 DEF Hardware, OwnedRuns, Open, At, Setup, Closing, Given
    <3>3. QED BY <3>1, <3>2 DEF Hardware
  <2>2. CASE pc'[1] = "idle"
    <3>1. RunsClaimed'
      BY <1>2, <1>4, <2>2 DEF Hardware, RunsClaimed, SameClaim, SameFlag, SameRunning, Others
    <3>2. OwnedRuns'
      BY <1>1, <1>2, <1>3, <1>4, <2>2
         DEF Hardware, OwnedRuns, Open, At, Others, Setup, Closing, Given
    <3>3. QED BY <3>1, <3>2 DEF Hardware
  <2>3. QED BY <1>4, <2>1, <2>2
<1>8. Retained' BY <1>1, <1>3, HoldsKept DEF SameOwner, SameBuffers, Balanced
<1>9. Tokens'
  BY <1>1, <1>2, <1>3
     DEF Tokens, LineTokens, SourceTokens, OwnTokens, OneOwner, Open, At, Setup, Closing
<1>10. Done' BY <1>1, <1>2, <1>3, <1>4 DEF Done, SameFlag, Others, Open, At
<1>11. QED BY <1>5, <1>6, <1>7, <1>8, <1>9, <1>10 DEF Rest

-----------------------------------------------------------------------------
(* Starting. *)

LEMMA StartQuietKeeps == ASSUME IInv, NEW t \in Transfer, StartQuiet(t) PROVE Rest'
<1> USE DEF IInv
<1>1. Idle /\ pc[1] = "idle" /\ SameCall /\ Open(t) /\ ~obj[t].aborted
  BY DEF StartQuiet, Idle, SameCall
<1>2. /\ obj[t].chan \in Channel /\ hw[obj[t].chan].en
      /\ \A u \in Transfer : Open(u) => obj[u].chan \in Channel
  BY <1>1, OwnedChannel DEF Hardware, RunsClaimed, OwnedRuns, At, Setup, Closing
<1>3. /\ irq' = irq /\ buf' = buf /\ source' = source /\ issued' = issued
      /\ mailbox' = mailbox /\ delivered' = delivered /\ done' = done
  BY DEF StartQuiet, events
<1>4. \A u \in Transfer :
        /\ SameOwner(u) /\ SameBuffers(u) /\ obj'[u].token = obj[u].token
        /\ obj'[u].aborted <=> obj[u].aborted
        /\ obj'[u].started <=> u = t \/ obj[u].started
  BY StartedSet DEF StartQuiet, SetsStarted
<1>5. LET c == obj[t].chan
      IN  Others(c) /\ SameClaim(c) /\ SameFlag(c) /\ SameTargets(c) /\ hw'[c].busy
  BY <1>2, Triggered DEF StartQuiet, Triggers
<1>6. Calls' BY <1>1 DEF Calls, Idle, SameCall
<1>7. Channels' BY <1>4, <1>5, ChannelsKept DEF Others, SameClaim
<1>8. Hardware'
  <2>1. RunsClaimed'
    BY <1>2, <1>5 DEF Hardware, RunsClaimed, SameClaim, SameFlag, SameTargets, Others
  <2>2. \A d \in Channel : SameTargets(d) /\ SameFlag(d)
    BY <1>5 DEF Others, SameTargets, SameFlag
  <2>3. OwnedRuns'
    BY <1>1, <1>2, <1>4, <2>2
       DEF Hardware, OwnedRuns, Open, At, SameFlag, SameTargets, SameOwner, SameBuffers,
           SameCall, Setup, Closing, Given
  <2>4. QED BY <2>1, <2>3 DEF Hardware
<1>9. Retained' BY <1>1, <1>3, <1>4, HoldsKept
<1>10. Tokens'
  <2>1. LineTokens' BY <1>3, <1>4 DEF Tokens, LineTokens, SameOwner
  <2>2. SourceTokens' BY <1>3, <1>4, SourceRange DEF Tokens, SourceTokens, SameOwner, Open
  <2>3. OwnTokens'
    BY <1>1, <1>2, <1>3, <1>4
       DEF Tokens, OwnTokens, SameOwner, SameCall, Open, At, Setup, Closing
  <2>4. OneOwner' BY <1>4 DEF Tokens, OneOwner
  <2>5. QED BY <2>1, <2>2, <2>3, <2>4 DEF Tokens
<1>11. Done'
  BY <1>1, <1>2, <1>3, <1>4, <1>5 DEF Done, SameFlag, Others, Open, At, SameOwner, SameCall
<1>12. QED BY <1>6, <1>7, <1>8, <1>9, <1>10, <1>11 DEF Rest

LEMMA StartKeeps == ASSUME IInv, NEW t \in Transfer, Start(t) PROVE Rest'
<1> USE DEF IInv
<1>1. /\ Idle /\ pc[1] = "idle" /\ pc'[1] = "setToken" /\ cur' = t
      /\ Open(t) /\ ~obj[t].started /\ ~obj[t].aborted
  BY CallFacts DEF Start
<1>2. /\ issued \in Nat /\ issued + 1 \in Token /\ obj[t].token = None /\ issued + 1 # None
      /\ \A u \in Transfer : Open(u) => obj[u].chan \in Channel
      /\ \A u \in Transfer : obj[u].token # None => obj[u].token \in Nat /\ obj[u].token <= issued
  BY <1>1, OwnedChannel, ObjectFields, ConstantFacts
     DEF Start, Typed, Token, Tokens, OwnTokens, At
<1>3. /\ hw' = hw /\ irq' = irq /\ buf' = buf /\ issued' = issued + 1
      /\ source' = [source EXCEPT ![issued + 1] = t]
      /\ mailbox' = mailbox /\ delivered' = delivered /\ done' = done
  BY DEF Start, events
<1>4. \A u \in Transfer :
        /\ SameOwner(u) /\ SameBuffers(u) /\ SameRun(u)
        /\ obj'[u].token = IF u = t THEN issued + 1 ELSE obj[u].token
  <2>1. SetsToken(t, issued + 1) BY DEF Start, SetsToken
  <2>2. QED BY <2>1, TokenSet
<1>5. /\ source'[issued + 1] = t
      /\ \A k \in Token : k # issued + 1 => source'[k] = source[k]
  BY <1>2, <1>3 DEF Typed
<1>6. Calls' BY <1>1, <1>4 DEF Calls, Open, SameOwner
<1>7. Channels' BY <1>3, <1>4, ChannelsKept DEF SameClaim
<1>8. Hardware'
  <2>1. RunsClaimed' BY <1>3 DEF Hardware, RunsClaimed
  <2>2. OwnedRuns'
    BY <1>1, <1>2, <1>3, <1>4
       DEF Hardware, OwnedRuns, Open, At, SameOwner, SameBuffers, SameRun, Setup, Closing, Given
  <2>3. QED BY <2>1, <2>2 DEF Hardware
<1>9. Retained' BY <1>1, <1>3, <1>4, HoldsKept DEF Balanced
<1>10. Tokens'
  <2>1. LineTokens' BY <1>2, <1>3, <1>4 DEF Tokens, LineTokens, SameOwner
  <2>2. SourceTokens'
    BY <1>1, <1>2, <1>4, <1>5, SourceRange DEF Tokens, SourceTokens, SameOwner, Open
  <2>3. OwnTokens'
    BY <1>1, <1>2, <1>3, <1>4
       DEF Tokens, OwnTokens, SameOwner, SameRun, Open, At, Setup, Closing
  <2>4. OneOwner' BY <1>2, <1>4 DEF Tokens, OneOwner
  <2>5. QED BY <2>1, <2>2, <2>3, <2>4 DEF Tokens
<1>11. Done'
  <2>1. \A i \in DOMAIN mailbox : mailbox[i] \in Token BY DEF Typed
  <2>2. QED BY <1>1, <1>2, <1>3, <1>4, <1>5, <2>1 DEF Done, Open, At, SameOwner, Token
<1>12. QED BY <1>6, <1>7, <1>8, <1>9, <1>10, <1>11 DEF Rest

LEMMA SetTokenKeeps == ASSUME IInv, SetToken PROVE Rest'
<1> USE DEF IInv
<1> DEFINE l == obj[cur].line
<1>1. pc[1] = "setToken" /\ pc'[1] = "startChannel" /\ cur' = cur BY GotoFacts DEF SetToken
<1>2. /\ cur \in Transfer /\ C \in Channel /\ l \in Line /\ Open(cur) /\ obj[cur].chan = C
      /\ \A t \in Transfer : Open(t) => obj[t].chan \in Channel
  BY <1>1, Running, ObjectFields, OwnedChannel DEF C
<1>3. /\ hw' = hw /\ obj' = obj /\ buf' = buf /\ source' = source /\ issued' = issued
      /\ mailbox' = mailbox /\ delivered' = delivered /\ done' = done
  BY DEF SetToken, events
<1>4. Elsewhere(l, C) /\ SameMask(l, C) /\ irq'[l][C].token = obj[cur].token
  <2>1. Announces(l, C, obj[cur].token) BY DEF SetToken, Announces
  <2>2. QED BY <1>2, <2>1, Announced
<1>5. Calls' BY <1>1, <1>2, <1>3 DEF Calls, Open
<1>6. Channels' BY <1>3 DEF Channels, Open
<1>7. Hardware'
  <2>1. RunsClaimed' BY <1>3 DEF Hardware, RunsClaimed
  <2>2. OwnedRuns'
    BY <1>1, <1>2, <1>3 DEF Hardware, OwnedRuns, Open, At, Setup, Closing, Given
  <2>3. QED BY <2>1, <2>2 DEF Hardware
<1>8. Retained' BY <1>1, <1>3, HoldsKept DEF SameOwner, SameBuffers, Balanced
<1>9. Tokens'
  BY <1>1, <1>2, <1>3, <1>4
     DEF Tokens, LineTokens, SourceTokens, OwnTokens, OneOwner, Open, At, Setup, Closing, Elsewhere
<1>10. Done' BY <1>1, <1>2, <1>3, <1>4 DEF Done, Open, At, Elsewhere, SameMask
<1>11. QED BY <1>5, <1>6, <1>7, <1>8, <1>9, <1>10 DEF Rest

LEMMA StartChannelKeeps == ASSUME IInv, StartChannel PROVE Rest'
<1> USE DEF IInv
<1> DEFINE l == obj[cur].line
<1>1. pc[1] = "startChannel" /\ pc'[1] = "idle" /\ Idle'
  BY FinishedFacts DEF StartChannel, Return
<1>2. /\ cur \in Transfer /\ C \in Channel /\ l \in Line /\ Open(cur) /\ obj[cur].chan = C
      /\ \A t \in Transfer : Open(t) => obj[t].chan \in Channel
      /\ \A t \in Transfer : t # cur => obj[t].chan # C
      /\ hw[C].en /\ ~obj[cur].aborted
  BY <1>1, Running, ObjectFields, OwnedChannel
     DEF C, Channels, Hardware, OwnedRuns, At, Setup, Closing
<1>3. /\ buf' = buf /\ issued' = issued
      /\ mailbox' = mailbox /\ delivered' = delivered /\ done' = done
  BY DEF StartChannel, events
<1>4. Calls' BY <1>1 DEF Calls
<1>5. CASE hw[C].busy
  <2>1. hw' = hw /\ source' = [source EXCEPT ![obj[cur].token] = None] BY <1>5 DEF StartChannel
  <2>2. \A t \in Transfer :
          /\ SameOwner(t) /\ SameBuffers(t) /\ SameRun(t)
          /\ obj'[t].token = IF t = cur THEN None ELSE obj[t].token
    BY <1>2, <1>5, TokenSet DEF StartChannel, SetsToken
  <2>3. Elsewhere(l, C) /\ SameMask(l, C) /\ irq'[l][C].token = None
    <3>1. Announces(l, C, None) BY <1>5 DEF StartChannel, Announces
    <3>2. QED BY <1>2, <3>1, Announced
  <2>4. \A k \in Token : source'[k] = IF k = obj[cur].token THEN None ELSE source[k]
    BY <2>1 DEF Typed
  <2>5. Channels' BY <2>1, <2>2, ChannelsKept DEF SameClaim
  <2>6. Hardware'
    <3>1. RunsClaimed' BY <2>1 DEF Hardware, RunsClaimed
    <3>2. OwnedRuns'
      BY <1>1, <1>2, <2>1, <2>2
         DEF Hardware, OwnedRuns, Open, At, SameOwner, SameBuffers, SameRun, Setup, Closing, Given
    <3>3. QED BY <3>1, <3>2 DEF Hardware
  <2>7. Retained' BY <1>1, <1>3, <2>2, HoldsKept DEF Balanced
  <2>8. Tokens'
    <3>1. LineTokens'
      BY <1>2, <2>2, <2>3 DEF Tokens, LineTokens, SameOwner, Elsewhere
    <3>2. SourceTokens'
      BY <1>2, <2>2, <2>4, SourceRange DEF Tokens, SourceTokens, SameOwner, Open
    <3>3. OwnTokens'
      BY <1>1, <1>2, <1>3, <2>2
         DEF Tokens, OwnTokens, SameOwner, SameRun, Open, At, Setup, Closing
    <3>4. OneOwner' BY <2>2 DEF Tokens, OneOwner
    <3>5. QED BY <3>1, <3>2, <3>3, <3>4 DEF Tokens
  <2>9. Done'
    <3>1. \A i \in DOMAIN mailbox : mailbox[i] \in Token BY DEF Typed
    <3>2. QED BY <1>1, <1>2, <1>3, <2>1, <2>2, <2>3, <2>4, <3>1
                 DEF Done, Open, At, SameOwner, Elsewhere, SameMask
  <2>10. QED BY <1>4, <2>5, <2>6, <2>7, <2>8, <2>9 DEF Rest
<1>6. CASE ~hw[C].busy
  <2>1. irq' = irq /\ source' = source BY <1>6 DEF StartChannel
  <2>2. \A t \in Transfer :
          /\ SameOwner(t) /\ SameBuffers(t) /\ obj'[t].token = obj[t].token
          /\ obj'[t].aborted <=> obj[t].aborted
          /\ obj'[t].started <=> t = cur \/ obj[t].started
    BY <1>2, <1>6, StartedSet DEF StartChannel, SetsStarted
  <2>3. Others(C) /\ SameClaim(C) /\ SameFlag(C) /\ SameTargets(C) /\ hw'[C].busy
    BY <1>2, <1>6, Triggered DEF StartChannel, Triggers
  <2>4. Channels' BY <2>2, <2>3, ChannelsKept DEF Others, SameClaim
  <2>5. Hardware'
    <3>1. RunsClaimed'
      BY <1>2, <2>3 DEF Hardware, RunsClaimed, SameClaim, SameFlag, SameTargets, Others
    <3>2. \A d \in Channel : SameTargets(d) /\ SameFlag(d)
      BY <2>3 DEF Others, SameTargets, SameFlag
    <3>3. OwnedRuns'
      BY <1>1, <1>2, <2>2, <3>2
         DEF Hardware, OwnedRuns, Open, At, SameFlag, SameTargets, SameOwner, SameBuffers,
             Setup, Closing, Given
    <3>4. QED BY <3>1, <3>3 DEF Hardware
  <2>6. Retained' BY <1>1, <1>3, <2>2, HoldsKept DEF Balanced
  <2>7. Tokens'
    <3>1. LineTokens' BY <2>1, <2>2 DEF Tokens, LineTokens, SameOwner
    <3>2. SourceTokens' BY <2>1, <2>2, SourceRange DEF Tokens, SourceTokens, SameOwner, Open
    <3>3. OwnTokens'
      BY <1>1, <1>2, <1>3, <2>1, <2>2 DEF Tokens, OwnTokens, SameOwner, Open, At, Setup, Closing
    <3>4. OneOwner' BY <2>2 DEF Tokens, OneOwner
    <3>5. QED BY <3>1, <3>2, <3>3, <3>4 DEF Tokens
  <2>8. Done'
    BY <1>1, <1>2, <1>3, <2>1, <2>2, <2>3 DEF Done, SameFlag, Others, Open, At, SameOwner
  <2>9. QED BY <1>4, <2>4, <2>5, <2>6, <2>7, <2>8 DEF Rest
<1>7. QED BY <1>5, <1>6

-----------------------------------------------------------------------------
(* Aborting. *)

LEMMA AbortKeeps == ASSUME IInv, NEW t \in Transfer, Abort(t) PROVE Rest'
<1> USE DEF IInv
<1>1. /\ Idle /\ pc[1] = "idle" /\ Open(t)
      /\ \/ pc'[1] = "abortMask" /\ cur' = t /\ obj' = obj /\ hw[obj[t].chan].busy
         \/ SameCall /\ SetsAborted(t)
  BY CallFacts DEF Abort, Idle, SameCall, SetsAborted
<1>2. /\ \A u \in Transfer : Open(u) => obj[u].chan \in Channel
      /\ \A u \in Transfer : pc'[1] = "abortMask" /\ u = t => hw[obj[u].chan].en
  BY <1>1, OwnedChannel DEF Hardware, RunsClaimed, SameCall
<1>3. /\ hw' = hw /\ irq' = irq /\ buf' = buf /\ source' = source /\ issued' = issued
      /\ mailbox' = mailbox /\ delivered' = delivered /\ done' = done
  BY DEF Abort, events
<1>4. \A u \in Transfer :
        /\ SameOwner(u) /\ SameBuffers(u) /\ obj'[u].token = obj[u].token
        /\ obj'[u].started <=> obj[u].started
        /\ obj[u].aborted => obj'[u].aborted
        /\ pc'[1] = "idle" /\ obj'[u].aborted => obj[u].aborted \/ u = t
  <2>1. CASE obj' = obj BY <2>1 DEF SameOwner, SameBuffers
  <2>2. CASE SetsAborted(t) BY <2>2, AbortedSet
  <2>3. QED BY <1>1, <2>1, <2>2
<1>5. Calls' BY <1>1, <1>4 DEF Calls, Open, Idle, SameCall, SameOwner
<1>6. Channels' BY <1>3, <1>4, ChannelsKept DEF SameClaim
<1>7. Hardware'
  <2>1. RunsClaimed' BY <1>3 DEF Hardware, RunsClaimed
  <2>2. OwnedRuns'
    BY <1>1, <1>2, <1>3, <1>4
       DEF Hardware, OwnedRuns, Open, At, SameOwner, SameBuffers, SameCall, Setup, Closing, Given
  <2>3. QED BY <2>1, <2>2 DEF Hardware
<1>8. Retained' BY <1>1, <1>3, <1>4, HoldsKept DEF Balanced
<1>9. Tokens'
  <2>1. LineTokens' BY <1>3, <1>4 DEF Tokens, LineTokens, SameOwner
  <2>2. SourceTokens' BY <1>3, <1>4, SourceRange DEF Tokens, SourceTokens, SameOwner, Open
  <2>3. OwnTokens'
    BY <1>1, <1>2, <1>3, <1>4
       DEF Tokens, OwnTokens, SameOwner, SameCall, Open, At, Setup, Closing
  <2>4. OneOwner' BY <1>4 DEF Tokens, OneOwner
  <2>5. QED BY <2>1, <2>2, <2>3, <2>4 DEF Tokens
<1>10. Done' BY <1>1, <1>2, <1>3, <1>4 DEF Done, Open, At, SameOwner, SameCall
<1>11. QED BY <1>5, <1>6, <1>7, <1>8, <1>9, <1>10 DEF Rest

LEMMA CloseKeeps == ASSUME IInv, NEW t \in Transfer, Close(t) PROVE Rest'
<1> USE DEF IInv
<1>1. /\ Idle /\ pc[1] = "idle" /\ Open(t) /\ cur' = t
      /\ \/ pc'[1] = "abortMask" /\ hw[obj[t].chan].busy
         \/ pc'[1] = "closeToken"
  BY CallFacts DEF Close
<1>2. /\ \A u \in Transfer : Open(u) => obj[u].chan \in Channel
      /\ \A u \in Transfer : pc'[1] = "abortMask" /\ u = t => hw[obj[u].chan].en
  BY <1>1, OwnedChannel DEF Hardware, RunsClaimed
<1>3. /\ hw' = hw /\ irq' = irq /\ obj' = obj /\ buf' = buf /\ source' = source
      /\ issued' = issued /\ mailbox' = mailbox /\ delivered' = delivered /\ done' = done
  BY DEF Close, events
<1>4. Calls' BY <1>1, <1>3 DEF Calls, Open
<1>5. Channels' BY <1>3 DEF Channels, Open
<1>6. Hardware'
  <2>1. RunsClaimed' BY <1>3 DEF Hardware, RunsClaimed
  <2>2. OwnedRuns'
    BY <1>1, <1>2, <1>3 DEF Hardware, OwnedRuns, Open, At, Setup, Closing, Given
  <2>3. QED BY <2>1, <2>2 DEF Hardware
<1>7. Retained' BY <1>1, <1>3, HoldsKept DEF SameOwner, SameBuffers, Balanced
<1>8. Tokens'
  BY <1>1, <1>2, <1>3
     DEF Tokens, LineTokens, SourceTokens, OwnTokens, OneOwner, Open, At, Setup, Closing
<1>9. Done' BY <1>1, <1>2, <1>3 DEF Done, Open, At
<1>10. QED BY <1>4, <1>5, <1>6, <1>7, <1>8, <1>9 DEF Rest

LEMMA AbortMaskKeeps == ASSUME IInv, AbortMask PROVE Rest'
<1> USE DEF IInv
<1>1. pc[1] = "abortMask" /\ pc'[1] = "abortStop" /\ cur' = cur BY GotoFacts DEF AbortMask
<1>2. /\ cur \in Transfer /\ C \in Channel /\ Open(cur) /\ obj[cur].chan = C
      /\ \A t \in Transfer : Open(t) => obj[t].chan \in Channel
  BY <1>1, Running, OwnedChannel DEF C
<1>3. /\ hw' = hw /\ obj' = obj /\ buf' = buf /\ source' = source /\ issued' = issued
      /\ mailbox' = mailbox /\ delivered' = delivered /\ done' = done
  BY DEF AbortMask, events
<1>4. /\ OtherChannels(C)
      /\ \A l \in Line :
           /\ ~irq'[l][C].inte
           /\ irq'[l][C].mask = irq[l][C].mask /\ irq'[l][C].token = irq[l][C].token
  <2>1. Silences(C) BY DEF AbortMask, Silences
  <2>2. QED BY <1>2, <2>1, Silenced DEF Done
<1>5. Calls' BY <1>1, <1>2, <1>3 DEF Calls, Open
<1>6. Channels' BY <1>3 DEF Channels, Open
<1>7. Hardware'
  <2>1. RunsClaimed' BY <1>3 DEF Hardware, RunsClaimed
  <2>2. OwnedRuns'
    BY <1>1, <1>2, <1>3 DEF Hardware, OwnedRuns, Open, At, Setup, Closing, Given
  <2>3. QED BY <2>1, <2>2 DEF Hardware
<1>8. Retained' BY <1>1, <1>3, HoldsKept DEF SameOwner, SameBuffers, Balanced
<1>9. Tokens'
  BY <1>1, <1>2, <1>3, <1>4
     DEF Tokens, LineTokens, SourceTokens, OwnTokens, OneOwner, Open, At, Setup, Closing,
         OtherChannels
<1>10. Done' BY <1>1, <1>2, <1>3, <1>4 DEF Done, Open, At, OtherChannels
<1>11. QED BY <1>5, <1>6, <1>7, <1>8, <1>9, <1>10 DEF Rest

LEMMA AbortStopKeeps == ASSUME IInv, AbortStop PROVE Rest'
<1> USE DEF IInv
<1>1. pc[1] = "abortStop" /\ pc'[1] = "abortClear" /\ cur' = cur BY GotoFacts DEF AbortStop
<1>2. /\ cur \in Transfer /\ C \in Channel /\ Open(cur) /\ obj[cur].chan = C
      /\ \A t \in Transfer : Open(t) => obj[t].chan \in Channel
      /\ \A t \in Transfer : t # cur => obj[t].chan # C
      /\ hw[C].claimed
  BY <1>1, Running, OwnedChannel DEF C, Channels
<1>3. /\ irq' = irq /\ obj' = obj /\ buf' = buf /\ source' = source /\ issued' = issued
      /\ mailbox' = mailbox /\ delivered' = delivered /\ done' = done
  BY DEF AbortStop, events
<1>4. Others(C) /\ SameClaim(C) /\ ~hw'[C].en /\ ~hw'[C].busy
  <2>1. PICK spurious \in BOOLEAN : Stops(C, spurious) BY DEF AbortStop, Stops
  <2>2. QED BY <1>2, <2>1, Stopped
<1>5. Calls' BY <1>1, <1>2, <1>3 DEF Calls, Open
<1>6. Channels' BY <1>3, <1>4, ChannelsKept DEF Others, SameClaim, SameOwner
<1>7. Hardware'
  <2>1. RunsClaimed' BY <1>2, <1>4 DEF Hardware, RunsClaimed, SameClaim, Others
  <2>2. OwnedRuns'
    BY <1>1, <1>2, <1>3, <1>4 DEF Hardware, OwnedRuns, Open, At, Setup, Closing, Given, Others
  <2>3. QED BY <2>1, <2>2 DEF Hardware
<1>8. Retained' BY <1>1, <1>3, HoldsKept DEF SameOwner, SameBuffers, Balanced
<1>9. Tokens'
  BY <1>1, <1>2, <1>3
     DEF Tokens, LineTokens, SourceTokens, OwnTokens, OneOwner, Open, At, Setup, Closing
<1>10. Done' BY <1>1, <1>2, <1>3, <1>4 DEF Done, Open, At, Others
<1>11. QED BY <1>5, <1>6, <1>7, <1>8, <1>9, <1>10 DEF Rest

LEMMA AbortClearKeeps == ASSUME IInv, AbortClear PROVE Rest'
<1> USE DEF IInv
<1>1. /\ pc[1] = "abortClear"
      /\ \/ pc'[1] = "closeToken" /\ cur' = cur /\ obj' = obj
         \/ pc'[1] = "idle" /\ Idle' /\ SetsAborted(cur)
  BY FinishedFacts, ResumeFacts DEF AbortClear, SetsAborted
<1>2. /\ cur \in Transfer /\ C \in Channel /\ Open(cur) /\ obj[cur].chan = C
      /\ \A t \in Transfer : Open(t) => obj[t].chan \in Channel
      /\ \A t \in Transfer : t # cur => obj[t].chan # C
      /\ hw[C].claimed
  BY <1>1, Running, OwnedChannel DEF C, Channels
<1>3. /\ buf' = buf /\ source' = source /\ issued' = issued
      /\ mailbox' = mailbox /\ delivered' = delivered /\ done' = done
  BY DEF AbortClear, events
<1>4. Others(C) /\ SameClaim(C) /\ SameRunning(C) /\ SameTargets(C) /\ ~hw'[C].raw
  BY <1>2, Acknowledged DEF AbortClear, Acknowledges
<1>5. /\ OtherChannels(C)
      /\ \A l \in Line :
           /\ irq'[l][C].inte = irq[l][C].mask /\ irq'[l][C].mask = irq[l][C].mask
           /\ irq'[l][C].token = None
  <2>1. Relistens(C) BY DEF AbortClear, Relistens
  <2>2. QED BY <1>2, <2>1, Relistening
<1>6. \A t \in Transfer :
        /\ SameOwner(t) /\ SameBuffers(t) /\ obj'[t].token = obj[t].token
        /\ obj'[t].started <=> obj[t].started
        /\ obj[t].aborted => obj'[t].aborted
        /\ t = cur /\ pc'[1] = "idle" => obj'[t].aborted
  <2>1. CASE obj' = obj /\ pc'[1] = "closeToken" BY <2>1 DEF SameOwner, SameBuffers
  <2>2. CASE SetsAborted(cur) BY <1>2, <2>2, AbortedSet
  <2>3. QED BY <1>1, <2>1, <2>2
<1>7. Calls' BY <1>1, <1>2, <1>6 DEF Calls, Open, SameOwner
<1>8. Channels' BY <1>4, <1>6, ChannelsKept DEF Others, SameClaim
<1>9. Hardware'
  <2>1. RunsClaimed'
    BY <1>2, <1>4 DEF Hardware, RunsClaimed, SameClaim, SameRunning, SameTargets, Others
  <2>2. OwnedRuns'
    BY <1>1, <1>2, <1>4, <1>6
       DEF Hardware, OwnedRuns, Open, At, SameTargets, SameOwner, SameBuffers, Others,
           Setup, Closing, Given
  <2>3. QED BY <2>1, <2>2 DEF Hardware
<1>10. Retained' BY <1>1, <1>3, <1>6, HoldsKept DEF Balanced
<1>11. Tokens'
  <2>1. LineTokens' BY <1>2, <1>5, <1>6 DEF Tokens, LineTokens, SameOwner, OtherChannels
  <2>2. SourceTokens' BY <1>3, <1>6, SourceRange DEF Tokens, SourceTokens, SameOwner, Open
  <2>3. OwnTokens'
    BY <1>1, <1>2, <1>3, <1>5, <1>6
       DEF Tokens, OwnTokens, SameOwner, Open, At, Setup, Closing, OtherChannels
  <2>4. OneOwner' BY <1>6 DEF Tokens, OneOwner
  <2>5. QED BY <2>1, <2>2, <2>3, <2>4 DEF Tokens
<1>12. Done'
  BY <1>1, <1>2, <1>3, <1>4, <1>5, <1>6 DEF Done, Open, At, Others, SameOwner, OtherChannels
<1>13. QED BY <1>7, <1>8, <1>9, <1>10, <1>11, <1>12 DEF Rest

-----------------------------------------------------------------------------
(* Closing. *)

LEMMA CloseTokenKeeps == ASSUME IInv, CloseToken PROVE Rest'
<1> USE DEF IInv
<1> DEFINE l == obj[cur].line
<1>1. pc[1] = "closeToken" /\ pc'[1] = "releaseSource" /\ cur' = cur
  BY GotoFacts DEF CloseToken
<1>2. /\ cur \in Transfer /\ C \in Channel /\ l \in Line /\ Open(cur) /\ obj[cur].chan = C
      /\ \A t \in Transfer : Open(t) => obj[t].chan \in Channel
      /\ \A t \in Transfer : t # cur => obj[t].chan # C
  BY <1>1, Running, ObjectFields, OwnedChannel DEF C, Channels
<1>3. /\ hw' = hw /\ obj' = obj /\ buf' = buf /\ source' = source /\ issued' = issued
      /\ mailbox' = mailbox /\ delivered' = delivered /\ done' = done
  BY DEF CloseToken, events
<1>4. Elsewhere(l, C) /\ SameMask(l, C) /\ irq'[l][C].token = None
  <2>1. Announces(l, C, None) BY DEF CloseToken, Announces
  <2>2. QED BY <1>2, <2>1, Announced
<1>5. \A m \in Line : irq'[m][C].token = None
  BY <1>2, <1>4 DEF Tokens, LineTokens, Elsewhere
<1>6. Calls' BY <1>1, <1>2, <1>3 DEF Calls, Open
<1>7. Channels' BY <1>3 DEF Channels, Open
<1>8. Hardware'
  <2>1. RunsClaimed' BY <1>3 DEF Hardware, RunsClaimed
  <2>2. OwnedRuns'
    BY <1>1, <1>2, <1>3 DEF Hardware, OwnedRuns, Open, At, Setup, Closing, Given
  <2>3. QED BY <2>1, <2>2 DEF Hardware
<1>9. Retained' BY <1>1, <1>3, HoldsKept DEF SameOwner, SameBuffers, Balanced
<1>10. Tokens'
  <2>1. LineTokens' BY <1>2, <1>3, <1>4 DEF Tokens, LineTokens, Elsewhere
  <2>2. SourceTokens' BY <1>3 DEF Tokens, SourceTokens, Open
  <2>3. OwnTokens'
    BY <1>1, <1>2, <1>3, <1>4, <1>5 DEF Tokens, OwnTokens, Open, At, Setup, Closing, Elsewhere
  <2>4. OneOwner' BY <1>3 DEF Tokens, OneOwner
  <2>5. QED BY <2>1, <2>2, <2>3, <2>4 DEF Tokens
<1>11. Done' BY <1>1, <1>2, <1>3, <1>4 DEF Done, Open, At, Elsewhere, SameMask
<1>12. QED BY <1>6, <1>7, <1>8, <1>9, <1>10, <1>11 DEF Rest

LEMMA ReleaseSourceKeeps == ASSUME IInv, ReleaseSource PROVE Rest'
<1> USE DEF IInv
<1>1. pc[1] = "releaseSource" /\ pc'[1] = "unclaim" /\ cur' = cur
  BY GotoFacts DEF ReleaseSource
<1>2. /\ cur \in Transfer /\ C \in Channel /\ Open(cur) /\ obj[cur].chan = C
      /\ \A t \in Transfer : Open(t) => obj[t].chan \in Channel
      /\ \A l \in Line : irq[l][C].token = None
  BY <1>1, Running, OwnedChannel DEF C, Tokens, OwnTokens, At, Closing
<1>3. /\ hw' = hw /\ irq' = irq /\ buf' = buf /\ issued' = issued
      /\ mailbox' = mailbox /\ delivered' = delivered /\ done' = done
  BY DEF ReleaseSource
<1>4. \A t \in Transfer :
        /\ SameOwner(t) /\ SameBuffers(t) /\ SameRun(t)
        /\ obj'[t].token = IF t = cur THEN None ELSE obj[t].token
  <2>1. CASE obj' = obj /\ obj[cur].token = None BY <2>1 DEF SameOwner, SameBuffers, SameRun
  <2>2. CASE SetsToken(cur, None) BY <1>2, <2>2, TokenSet
  <2>3. QED BY <2>1, <2>2 DEF ReleaseSource, SetsToken
<1>5. \A k \in Token : source'[k] = IF k = obj[cur].token THEN None ELSE source[k]
  <2>1. CASE source' = source /\ obj[cur].token = None BY <2>1, SourceRange
  <2>2. CASE source' = [source EXCEPT ![obj[cur].token] = None] BY <2>2 DEF Typed
  <2>3. QED BY <2>1, <2>2 DEF ReleaseSource
<1>6. Calls' BY <1>1, <1>2, <1>4 DEF Calls, Open, SameOwner
<1>7. Channels' BY <1>3, <1>4, ChannelsKept DEF SameClaim
<1>8. Hardware'
  <2>1. RunsClaimed' BY <1>3 DEF Hardware, RunsClaimed
  <2>2. OwnedRuns'
    BY <1>1, <1>2, <1>3, <1>4
       DEF Hardware, OwnedRuns, Open, At, SameOwner, SameBuffers, SameRun, Setup, Closing, Given
  <2>3. QED BY <2>1, <2>2 DEF Hardware
<1>9. Retained' BY <1>1, <1>3, <1>4, HoldsKept DEF Balanced
<1>10. Tokens'
  <2>1. LineTokens'
    <3>1. ASSUME NEW l \in Line, NEW c \in Channel, irq[l][c].token # None
          PROVE  \E t \in Transfer \ {cur} :
                   obj[t].chan = c /\ obj[t].line = l /\ obj[t].token = irq[l][c].token
      BY <1>2, <3>1 DEF Tokens, LineTokens
    <3>2. QED BY <1>3, <1>4, <3>1 DEF LineTokens, SameOwner
  <2>2. SourceTokens'
    BY <1>2, <1>4, <1>5, SourceRange DEF Tokens, SourceTokens, SameOwner, Open
  <2>3. OwnTokens'
    BY <1>1, <1>2, <1>3, <1>4
       DEF Tokens, OwnTokens, SameOwner, SameRun, Open, At, Setup, Closing
  <2>4. OneOwner' BY <1>4 DEF Tokens, OneOwner
  <2>5. QED BY <2>1, <2>2, <2>3, <2>4 DEF Tokens
<1>11. Done'
  <2>1. \A i \in DOMAIN mailbox : mailbox[i] \in Token BY DEF Typed
  <2>2. QED BY <1>1, <1>2, <1>3, <1>4, <1>5, <2>1 DEF Done, Open, At, SameOwner
<1>12. QED BY <1>6, <1>7, <1>8, <1>9, <1>10, <1>11 DEF Rest

LEMMA UnclaimKeeps == ASSUME IInv, Unclaim PROVE Rest'
<1> USE DEF IInv
<1>1. /\ pc[1] = "unclaim"
      /\ \/ pc'[1] = "idle" /\ Idle' /\ hw[C].busy
         \/ pc'[1] = "clearIrq" /\ cur' = cur
  BY FinishedFacts, ResumeFacts DEF Unclaim
<1>2. /\ cur \in Transfer /\ C \in Channel /\ Open(cur) /\ obj[cur].chan = C
      /\ \A t \in Transfer : Open(t) => obj[t].chan \in Channel
      /\ pc'[1] = "idle" => hw[C].en
  BY <1>1, Running, OwnedChannel DEF C, Hardware, RunsClaimed
<1>3. /\ hw' = hw /\ irq' = irq /\ obj' = obj /\ buf' = buf /\ source' = source
      /\ issued' = issued /\ mailbox' = mailbox /\ delivered' = delivered /\ done' = done
  BY DEF Unclaim, events
<1>4. Calls' BY <1>1, <1>2, <1>3 DEF Calls, Open
<1>5. Channels' BY <1>3 DEF Channels, Open
<1>6. Hardware'
  <2>1. RunsClaimed' BY <1>3 DEF Hardware, RunsClaimed
  <2>2. OwnedRuns'
    BY <1>1, <1>2, <1>3 DEF Hardware, OwnedRuns, Open, At, Setup, Closing, Given
  <2>3. QED BY <2>1, <2>2 DEF Hardware
<1>7. Retained' BY <1>1, <1>3, HoldsKept DEF SameOwner, SameBuffers, Balanced
<1>8. Tokens'
  BY <1>1, <1>2, <1>3
     DEF Tokens, LineTokens, SourceTokens, OwnTokens, OneOwner, Open, At, Setup, Closing
<1>9. Done' BY <1>1, <1>2, <1>3 DEF Done, Open, At
<1>10. QED BY <1>4, <1>5, <1>6, <1>7, <1>8, <1>9 DEF Rest

LEMMA UnclaimClearKeeps == ASSUME IInv, UnclaimClear PROVE Rest'
<1> USE DEF IInv
<1>1. pc[1] = "clearIrq" /\ pc'[1] = "cleanup" /\ cur' = cur BY GotoFacts DEF UnclaimClear
<1>2. /\ cur \in Transfer /\ C \in Channel /\ Open(cur) /\ obj[cur].chan = C
      /\ \A t \in Transfer : Open(t) => obj[t].chan \in Channel
  BY <1>1, Running, OwnedChannel DEF C
<1>3. /\ obj' = obj /\ buf' = buf /\ source' = source /\ issued' = issued
      /\ mailbox' = mailbox /\ delivered' = delivered /\ done' = done
  BY DEF UnclaimClear, events
<1>4. Others(C) /\ SameClaim(C) /\ SameRunning(C) /\ SameTargets(C) /\ ~hw'[C].raw
  BY <1>2, Acknowledged DEF UnclaimClear, Acknowledges
<1>5. /\ OtherChannels(C)
      /\ \A l \in Line : ~irq'[l][C].inte /\ ~irq'[l][C].mask /\ irq'[l][C].token = None
  BY <1>2, IrqCleared DEF UnclaimClear
<1>6. Calls' BY <1>1, <1>2, <1>3 DEF Calls, Open
<1>7. Channels' BY <1>3, <1>4, ChannelsKept DEF Others, SameClaim, SameOwner
<1>8. Hardware'
  <2>1. RunsClaimed'
    BY <1>2, <1>4 DEF Hardware, RunsClaimed, SameClaim, SameRunning, SameTargets, Others
  <2>2. OwnedRuns'
    BY <1>1, <1>2, <1>3, <1>4
       DEF Hardware, OwnedRuns, Open, At, SameTargets, Others, Setup, Closing, Given
  <2>3. QED BY <2>1, <2>2 DEF Hardware
<1>9. Retained' BY <1>1, <1>3, HoldsKept DEF SameOwner, SameBuffers, Balanced
<1>10. Tokens'
  BY <1>1, <1>2, <1>3, <1>5
     DEF Tokens, LineTokens, SourceTokens, OwnTokens, OneOwner, Open, At, Setup, Closing,
         OtherChannels
<1>11. Done' BY <1>1, <1>2, <1>3, <1>4, <1>5 DEF Done, Open, At, Others, OtherChannels
<1>12. QED BY <1>6, <1>7, <1>8, <1>9, <1>10, <1>11 DEF Rest

LEMMA CleanupKeeps == ASSUME IInv, Cleanup PROVE Rest'
<1> USE DEF IInv
<1>1. pc[1] = "cleanup" /\ pc'[1] = "releaseBuffers" /\ cur' = cur BY GotoFacts DEF Cleanup
<1>2. /\ cur \in Transfer /\ C \in Channel /\ Open(cur) /\ obj[cur].chan = C
      /\ \A t \in Transfer : Open(t) => obj[t].chan \in Channel
      /\ \A t \in Transfer : t # cur => obj[t].chan # C
      /\ obj[cur].token = None /\ \A l \in Line : irq[l][C].token = None
  BY <1>1, Running, OwnedChannel DEF C, Channels, Tokens, OwnTokens, At, Closing, Setup
<1>3. /\ irq' = irq /\ buf' = buf /\ source' = source /\ issued' = issued
      /\ mailbox' = mailbox /\ delivered' = delivered /\ done' = done
  BY DEF Cleanup, events
<1>4. /\ \A t \in Transfer : /\ SameBuffers(t) /\ SameRun(t) /\ obj'[t].token = obj[t].token
                             /\ obj'[t].fresh = obj[t].fresh /\ obj'[t].line = obj[t].line
      /\ \A t \in Transfer \ {cur} : SameOwner(t)
      /\ obj'[cur].chan = None
  BY <1>2, Disowned DEF Cleanup, Disowns
<1>5. Others(C) /\ ~hw'[C].claimed /\ ~hw'[C].en /\ ~hw'[C].busy /\ ~hw'[C].raw
  BY <1>2, Cleaned DEF Cleanup, Cleans
<1>6. Calls' BY <1>1, <1>2, <1>4 DEF Calls, Open
<1>7. Channels' BY <1>2, <1>4, <1>5, ConstantFacts DEF Channels, SameOwner, Open, Others
<1>8. Hardware'
  <2>1. RunsClaimed' BY <1>2, <1>5 DEF Hardware, RunsClaimed, Others
  <2>2. OwnedRuns'
    BY <1>1, <1>2, <1>4, <1>5
       DEF Hardware, OwnedRuns, Open, At, Others, SameOwner, SameBuffers, SameRun,
           Setup, Closing, Given
  <2>3. QED BY <2>1, <2>2 DEF Hardware
<1>9. Retained'
  BY <1>1, <1>2, <1>3, <1>4, RetainedKept DEF HoldsRead, HoldsWrite, At, Open, SameOwner
<1>10. Tokens'
  <2>1. LineTokens' BY <1>2, <1>3, <1>4 DEF Tokens, LineTokens, SameOwner
  <2>2. SourceTokens' BY <1>2, <1>3, <1>4, SourceRange DEF Tokens, SourceTokens, SameOwner, Open
  <2>3. OwnTokens'
    BY <1>1, <1>2, <1>3, <1>4
       DEF Tokens, OwnTokens, SameOwner, SameRun, Open, At, Setup, Closing
  <2>4. OneOwner' BY <1>4 DEF Tokens, OneOwner
  <2>5. QED BY <2>1, <2>2, <2>3, <2>4 DEF Tokens
<1>11. Done' BY <1>1, <1>2, <1>3, <1>4, <1>5 DEF Done, Others, SameOwner, Open, At
<1>12. QED BY <1>6, <1>7, <1>8, <1>9, <1>10, <1>11 DEF Rest

LEMMA ReleaseBuffersKeeps == ASSUME IInv, ReleaseBuffers PROVE Rest'
<1> USE DEF IInv
<1>1. pc[1] = "releaseBuffers" /\ pc'[1] = "idle" /\ Idle'
  BY FinishedFacts DEF ReleaseBuffers, Return
<1>2. /\ cur \in Transfer /\ ~Open(cur)
      /\ \A t \in Transfer : Open(t) => obj[t].chan \in Channel
  BY <1>1, Running, OwnedChannel DEF Calls
<1>3. /\ hw' = hw /\ irq' = irq /\ source' = source /\ issued' = issued
      /\ mailbox' = mailbox /\ delivered' = delivered /\ done' = done
  BY DEF ReleaseBuffers, events
<1>4. /\ \A t \in Transfer : SameOwner(t) /\ SameRun(t) /\ obj'[t].token = obj[t].token
      /\ \A t \in Transfer \ {cur} : SameBuffers(t)
  BY <1>2, Forgotten DEF ReleaseBuffers, Forgets
<1>5. Calls' BY <1>1 DEF Calls
<1>6. Channels' BY <1>3, <1>4, ChannelsKept DEF SameClaim
<1>7. Hardware'
  <2>1. RunsClaimed' BY <1>3 DEF Hardware, RunsClaimed
  <2>2. OwnedRuns'
    BY <1>1, <1>2, <1>3, <1>4
       DEF Hardware, OwnedRuns, Open, At, SameOwner, SameBuffers, SameRun, Setup, Closing, Given
  <2>3. QED BY <2>1, <2>2 DEF Hardware
<1>8. Retained'
  <2>1. /\ HoldsRead(cur) /\ HoldsWrite(cur)
        /\ \A t \in Transfer : t = cur => ~HoldsRead(t)' /\ ~HoldsWrite(t)'
        /\ \A t \in Transfer \ {cur} : HoldsRead(t) <=> HoldsRead(t)'
        /\ \A t \in Transfer \ {cur} : HoldsWrite(t) <=> HoldsWrite(t)'
    BY <1>1, <1>2, <1>4 DEF HoldsRead, HoldsWrite, At, Open, SameOwner
  <2>2. buf' = Settle(Unretained(obj[cur].write, Unretained(obj[cur].read, buf)))
    BY DEF ReleaseBuffers
  <2>3. QED BY <1>2, <1>4, <2>1, <2>2, ReleasedBoth
<1>9. Tokens'
  <2>1. LineTokens' BY <1>3, <1>4 DEF Tokens, LineTokens, SameOwner
  <2>2. SourceTokens' BY <1>3, <1>4, SourceRange DEF Tokens, SourceTokens, SameOwner, Open
  <2>3. OwnTokens'
    BY <1>1, <1>2, <1>3, <1>4
       DEF Tokens, OwnTokens, SameOwner, SameRun, Open, At, Setup, Closing
  <2>4. OneOwner' BY <1>4 DEF Tokens, OneOwner
  <2>5. QED BY <2>1, <2>2, <2>3, <2>4 DEF Tokens
<1>10. Done' BY <1>1, <1>2, <1>3, <1>4 DEF Done, SameOwner, Open, At
<1>11. QED BY <1>5, <1>6, <1>7, <1>8, <1>9, <1>10 DEF Rest

-----------------------------------------------------------------------------
(* Buffers closed, events counted and dispatched, the handler, the         *)
(* hardware.                                                               *)

LEMMA CloseBufferKeeps == ASSUME IInv, NEW b \in Buffer, CloseBuffer(b) PROVE Rest'
<1> USE DEF IInv
<1> DEFINE f == [buf EXCEPT ![b].closing = TRUE]
<1>1. /\ hw' = hw /\ irq' = irq /\ obj' = obj /\ source' = source /\ issued' = issued
      /\ mailbox' = mailbox /\ delivered' = delivered /\ done' = done
      /\ pc' = pc /\ cur' = cur /\ buf' = Settle(f)
  BY DEF CloseBuffer, events
<1>2. Calls' /\ Channels' BY <1>1 DEF Calls, Channels, Open, Idle
<1>3. Hardware' BY <1>1 DEF Hardware, RunsClaimed, OwnedRuns, Open, At, Given
<1>4. Retained'
  <2>1. f \in Buffers BY DEF Typed, Buffers
  <2>2. \A d \in Buffer :
          /\ f[d].active = buf[d].active /\ f[d].freed = buf[d].freed
          /\ f[d].closing <=> d = b \/ buf[d].closing
    BY DEF Typed
  <2>3. \A d \in Buffer : Readers(d)' = Readers(d) /\ Writers(d)' = Writers(d)
    BY <1>1 DEF Readers, Writers, HoldsRead, HoldsWrite, Open, At
  <2> HIDE DEF f
  <2>4. ASSUME NEW d \in Buffer
        PROVE  /\ buf'[d].active = f[d].active /\ buf'[d].closing = f[d].closing
               /\ buf'[d].freed = (f[d].freed \/ (f[d].closing /\ f[d].active = 0))
    BY <1>1, <2>1, Settling
  <2>5. ASSUME NEW d \in Buffer
        PROVE  /\ buf'[d].active = Cardinality(Readers(d)') + Cardinality(Writers(d)')
               /\ buf'[d].freed <=> buf'[d].closing /\ buf'[d].active = 0
    <3>1. /\ buf[d].active = Cardinality(Readers(d)) + Cardinality(Writers(d))
          /\ buf[d].freed <=> buf[d].closing /\ buf[d].active = 0
      BY DEF Retained
    <3>2. f[d].closing <=> d = b \/ buf[d].closing BY <2>2
    <3>3. /\ buf'[d].active = buf[d].active /\ buf'[d].closing = f[d].closing
          /\ buf'[d].freed <=> buf[d].freed \/ (f[d].closing /\ buf[d].active = 0)
      BY <2>2, <2>4
    <3>4. QED BY <2>3, <3>1, <3>2, <3>3
  <2>6. QED BY <2>5 DEF Retained
<1>5. Tokens' BY <1>1 DEF Tokens, LineTokens, SourceTokens, OwnTokens, OneOwner, Open, At
<1>6. Done' BY <1>1 DEF Done, Open, At
<1>7. QED BY <1>2, <1>3, <1>4, <1>5, <1>6 DEF Rest

LEMMA TakeCompletionKeeps ==
  ASSUME IInv, NEW t \in Transfer, TakeCompletionEvents(t) PROVE Rest'
<1> USE DEF IInv
<1> DEFINE l == obj[t].line
           c == obj[t].chan
<1>1. /\ hw' = hw /\ obj' = obj /\ buf' = buf /\ source' = source /\ issued' = issued
      /\ mailbox' = mailbox /\ delivered' = delivered /\ done' = done
      /\ pc' = pc /\ cur' = cur
  BY DEF TakeCompletionEvents, events
<1>2. c \in Channel /\ l \in Line
  BY OwnedChannel, ObjectFields DEF TakeCompletionEvents
<1>3. Elsewhere(l, c) /\ SameMask(l, c) /\ irq'[l][c].token = irq[l][c].token
  <2>1. Counts(l, c, 0) BY DEF TakeCompletionEvents, Counts
  <2>2. QED BY <1>2, <2>1, Counted
<1>4. \A m \in Line, d \in Channel : SameMask(m, d) /\ irq'[m][d].token = irq[m][d].token
  BY <1>3 DEF Elsewhere, SameMask
<1>5. \A u \in Transfer : Open(u) => obj[u].chan \in Channel BY OwnedChannel
<1>6. Calls' /\ Channels' BY <1>1 DEF Calls, Channels, Open, Idle
<1>7. Hardware' BY <1>1 DEF Hardware, RunsClaimed, OwnedRuns, Open, At, Given
<1>8. Retained' BY <1>1, HoldsKept DEF SameOwner, SameBuffers, SameCall
<1>9. Tokens'
  <2>1. LineTokens' BY <1>1, <1>4 DEF Tokens, LineTokens
  <2>2. SourceTokens' /\ OneOwner' BY <1>1 DEF Tokens, SourceTokens, OneOwner, Open
  <2>3. OwnTokens'
    <3>1. \A u \in Transfer : At(u, Closing \ {"closeToken"}) => Open(u)
      BY DEF Calls, Idle, At, Closing
    <3>2. QED BY <1>1, <1>4, <1>5, <3>1 DEF Tokens, OwnTokens, Open, At
  <2>4. QED BY <2>1, <2>2, <2>3 DEF Tokens
<1>10. Done' BY <1>1, <1>4, <1>5 DEF Done, Open, At, SameMask
<1>11. QED BY <1>6, <1>7, <1>8, <1>9, <1>10 DEF Rest

LEMMA DispatchKeeps == ASSUME IInv, Dispatch PROVE Rest'
<1> USE DEF IInv
<1> DEFINE k == Head(mailbox)
<1>1. /\ hw' = hw /\ irq' = irq /\ obj' = obj /\ buf' = buf /\ issued' = issued
      /\ done' = done /\ pc' = pc /\ cur' = cur
  BY DEF Dispatch
<1>2. /\ 1 \in DOMAIN mailbox /\ k = mailbox[1] /\ k \in Token
      /\ \A i \in DOMAIN mailbox' : \E j \in DOMAIN mailbox : mailbox'[i] = mailbox[j]
      /\ \A i \in DOMAIN mailbox : mailbox[i] \in Token
  BY TakeFacts DEF Dispatch, Typed
<1>3. source[k] # None => source[k] \in done BY <1>2 DEF Done
<1>4. /\ \A m \in Token : source'[m] = None \/ source'[m] = source[m]
      /\ delivered' = delivered \/ (source[k] # None /\ delivered' = delivered \cup {source[k]})
  BY <1>2, SourceRange DEF Dispatch, Typed
<1>5. Calls' /\ Channels' BY <1>1 DEF Calls, Channels, Open, Idle
<1>6. Hardware' BY <1>1 DEF Hardware, RunsClaimed, OwnedRuns, Open, At, Given
<1>7. Retained' BY <1>1, HoldsKept DEF SameOwner, SameBuffers, SameCall
<1>8. Tokens'
  <2>1. LineTokens' /\ OwnTokens' /\ OneOwner'
    BY <1>1 DEF Tokens, LineTokens, OwnTokens, OneOwner, Open, At
  <2>2. SourceTokens' BY <1>1, <1>4 DEF Tokens, SourceTokens, Open
  <2>3. QED BY <2>1, <2>2 DEF Tokens
<1>9. Done'
  <2>1. ASSUME NEW i \in DOMAIN mailbox'
        PROVE  /\ mailbox'[i] <= issued
               /\ source'[mailbox'[i]] # None => source'[mailbox'[i]] \in done
    <3>1. PICK j \in DOMAIN mailbox : mailbox'[i] = mailbox[j] BY <1>2
    <3>2. mailbox[j] \in Token /\ mailbox[j] <= issued
            /\ (source[mailbox[j]] # None => source[mailbox[j]] \in done)
      BY <1>2 DEF Done
    <3>3. QED BY <1>4, <3>1, <3>2
  <2>2. delivered' \subseteq done BY <1>3, <1>4 DEF Done
  <2>3. QED BY <1>1, <2>1, <2>2 DEF Done, Open, At
<1>10. QED BY <1>5, <1>6, <1>7, <1>8, <1>9 DEF Rest

LEMMA HandlerKeeps ==
  ASSUME IInv, NEW l \in Line, NEW c \in Channel, Handler(l, c) PROVE Rest'
<1> USE DEF IInv
<1> DEFINE k == irq[l][c].token
<1>1. /\ obj' = obj /\ buf' = buf /\ source' = source /\ issued' = issued
      /\ delivered' = delivered /\ done' = done /\ pc' = pc /\ cur' = cur
      /\ hw[c].raw /\ irq[l][c].inte
  BY DEF Handler
<1>2. Others(c) /\ SameClaim(c) /\ SameRunning(c) /\ SameTargets(c) /\ ~hw'[c].raw
  BY Acknowledged DEF Handler, Acknowledges
<1>3. Elsewhere(l, c) /\ SameMask(l, c) /\ irq'[l][c].token = irq[l][c].token
  <2>1. Counts(l, c, IF irq[l][c].count = MaxCount THEN irq[l][c].count ELSE irq[l][c].count + 1)
    BY DEF Handler, Counts
  <2>2. QED BY <2>1, Counted
<1>4. \A m \in Line, d \in Channel : SameMask(m, d) /\ irq'[m][d].token = irq[m][d].token
  BY <1>3 DEF Elsewhere, SameMask
<1>5. \A u \in Transfer : Open(u) => obj[u].chan \in Channel BY OwnedChannel
<1>6. \A d \in Channel :
        /\ SameClaim(d) /\ SameRunning(d) /\ SameTargets(d)
        /\ hw'[d].raw => hw[d].raw
  BY <1>2 DEF Others, SameClaim, SameRunning, SameTargets
<1>7. /\ k \in Token \cup {None}
      /\ \A i \in DOMAIN mailbox' :
           \/ i \in DOMAIN mailbox /\ mailbox'[i] = mailbox[i]
           \/ k \in Token /\ mailbox'[i] = k
  BY IrqFields, PostFacts DEF Handler
<1>8. Calls' BY <1>1 DEF Calls, Open, Idle
<1>9. Channels' BY <1>1, <1>6, ChannelsKept DEF SameOwner
<1>10. Hardware'
  <2>1. RunsClaimed'
    BY <1>6 DEF Hardware, RunsClaimed, SameClaim, SameRunning, SameTargets
  <2>2. OwnedRuns' BY <1>1, <1>5, <1>6 DEF Hardware, OwnedRuns, Open, At, SameTargets, Given
  <2>3. QED BY <2>1, <2>2 DEF Hardware
<1>11. Retained' BY <1>1, HoldsKept DEF SameOwner, SameBuffers, SameCall
<1>12. Tokens'
  <2>1. LineTokens' BY <1>1, <1>4 DEF Tokens, LineTokens
  <2>2. SourceTokens' /\ OneOwner' BY <1>1 DEF Tokens, SourceTokens, OneOwner, Open
  <2>3. OwnTokens'
    <3>1. \A u \in Transfer : At(u, Closing \ {"closeToken"}) => Open(u)
      BY DEF Calls, Idle, At, Closing
    <3>2. QED BY <1>1, <1>4, <1>5, <3>1 DEF Tokens, OwnTokens, Open, At
  <2>4. QED BY <2>1, <2>2, <2>3 DEF Tokens
<1>13. k # None => k <= issued /\ (source[k] # None => source[k] \in done)
  <2>1. SUFFICES ASSUME k # None
                 PROVE  k <= issued /\ (source[k] # None => source[k] \in done)
    OBVIOUS
  <2>2. PICK t \in Transfer : obj[t].chan = c /\ obj[t].token = k
    BY <2>1 DEF Tokens, LineTokens
  <2>3. Open(t) /\ k <= issued BY <2>1, <2>2 DEF Tokens, OwnTokens
  <2>4. t \in done BY <1>1, <2>2, <2>3 DEF Done, At
  <2>5. source[k] # None => source[k] = t
    <3>1. k \in Token BY <1>7, <2>1
    <3>2. source[k] # None => source[k] \in Transfer /\ obj[source[k]].token = k
      BY <3>1, SourceRange DEF Tokens, SourceTokens
    <3>3. QED BY <2>1, <2>2, <3>2 DEF Tokens, OneOwner
  <2>6. QED BY <2>3, <2>4, <2>5
<1>14. Done'
  <2>1. ASSUME NEW i \in DOMAIN mailbox'
        PROVE  mailbox'[i] <= issued /\ (source[mailbox'[i]] # None => source[mailbox'[i]] \in done)
    BY <1>7, <1>13, SourceRange DEF Done
  <2>2. QED BY <1>1, <1>4, <1>5, <1>6, <2>1 DEF Done, Open, At, SameMask
<1>15. QED BY <1>8, <1>9, <1>10, <1>11, <1>12, <1>14 DEF Rest

LEMMA FinishKeeps == ASSUME IInv, NEW c \in Channel, Finish(c) PROVE Rest'
<1> USE DEF IInv
<1>1. /\ irq' = irq /\ obj' = obj /\ buf' = buf /\ source' = source /\ issued' = issued
      /\ mailbox' = mailbox /\ delivered' = delivered /\ pc' = pc /\ cur' = cur
      /\ done' = done \cup {t \in Transfer : obj[t].chan = c}
  BY DEF Finish, events
<1>2. ASSUME NEW d \in Channel
      PROVE  /\ SameClaim(d) /\ SameTargets(d)
             /\ hw'[d].busy => hw[d].busy \/ hw[d].en
             /\ hw'[d].raw => hw[d].raw \/ d = c
  <2>1. hw[d] \in ChannelState BY ChannelFields
  <2>2. PICK x, y : hw'[d] = [hw[d] EXCEPT !.busy = (hw[d].busy /\ d # c) \/ x,
                                          !.raw = hw[d].raw \/ y]
                    /\ (x => hw[d].en) /\ (y => d = c)
    BY DEF Finish
  <2>3. QED BY <2>1, <2>2 DEF ChannelState, SameClaim, SameTargets
<1>3. hw[c].en /\ hw[c].claimed
  BY DEF Finish, Hardware, RunsClaimed
<1>4. \A u \in Transfer : Open(u) => obj[u].chan \in Channel BY OwnedChannel
<1>5. Calls' BY <1>1 DEF Calls, Open, Idle
<1>6. Channels' BY <1>1, <1>2, ChannelsKept DEF SameOwner
<1>7. Hardware'
  <2>1. RunsClaimed' BY <1>2, <1>3 DEF Hardware, RunsClaimed, SameClaim, SameTargets
  <2>2. OwnedRuns'
    BY <1>1, <1>2, <1>3, <1>4 DEF Hardware, OwnedRuns, Open, At, SameTargets, Given
  <2>3. QED BY <2>1, <2>2 DEF Hardware
<1>8. Retained' BY <1>1, HoldsKept DEF SameOwner, SameBuffers, SameCall
<1>9. Tokens' BY <1>1 DEF Tokens, LineTokens, SourceTokens, OwnTokens, OneOwner, Open, At
<1>10. Done' BY <1>1, <1>2, <1>4 DEF Done, Open, At
<1>11. QED BY <1>5, <1>6, <1>7, <1>8, <1>9, <1>10 DEF Rest

LEMMA StutterKeeps == ASSUME IInv, UNCHANGED vars PROVE Rest'
<1> USE DEF IInv, vars, events
<1>1. Calls' /\ Channels' BY DEF Calls, Channels, Open, Idle
<1>2. Hardware' BY DEF Hardware, RunsClaimed, OwnedRuns, Open, At, Given
<1>3. Retained' BY HoldsKept DEF SameOwner, SameBuffers, SameCall
<1>4. Tokens' BY DEF Tokens, LineTokens, SourceTokens, OwnTokens, OneOwner, Open, At
<1>5. Done' BY DEF Done, Open, At
<1>6. QED BY <1>1, <1>2, <1>3, <1>4, <1>5 DEF Rest

-----------------------------------------------------------------------------
(* The invariant holds of every behaviour. *)

LEMMA InitRest == Init => Rest
<1> SUFFICES ASSUME Init PROVE Rest
  OBVIOUS
<1>1. /\ \A t \in Transfer : /\ ~Open(t) /\ obj[t].chan = None /\ obj[t].token = None
                             /\ ~obj[t].started /\ ~obj[t].aborted
      /\ \A c \in Channel :
           ~hw[c].claimed /\ ~hw[c].busy /\ ~hw[c].en /\ ~hw[c].raw /\ c # None
      /\ \A l \in Line, c \in Channel : ~irq[l][c].inte /\ irq[l][c].token = None
      /\ \A k \in Token : source[k] = None
      /\ Idle /\ pc[1] = "idle" /\ mailbox = <<>> /\ delivered = {}
      /\ DOMAIN mailbox = {}
  BY ConstantFacts DEF Init, Open, Idle
<1>2. Calls /\ Channels BY <1>1 DEF Calls, Channels
<1>3. Hardware BY <1>1 DEF Hardware, RunsClaimed, OwnedRuns
<1>4. Retained
  <2>1. ASSUME NEW b \in Buffer PROVE Readers(b) = {} /\ Writers(b) = {}
    BY <1>1 DEF Readers, Writers, HoldsRead, HoldsWrite, At
  <2>2. \A b \in Buffer : buf[b].active = 0 /\ ~buf[b].closing /\ ~buf[b].freed BY DEF Init
  <2>3. QED BY <2>1, <2>2, FS_EmptySet DEF Retained
<1>5. Tokens BY <1>1 DEF Tokens, LineTokens, SourceTokens, OwnTokens, OneOwner, At, Closing
<1>6. Done BY <1>1 DEF Done
<1>7. QED BY <1>2, <1>3, <1>4, <1>5, <1>6 DEF Rest

(* Each action of the specification keeps the invariant.                   *)
LEMMA StepRest == IInv /\ [Next]_vars => Rest'
<1> SUFFICES ASSUME IInv, [Next]_vars PROVE Rest'
  OBVIOUS
<1>1. ASSUME NEW t \in Transfer, Operation(t) PROVE Rest'
  BY <1>1, ClaimKeeps, StartQuietKeeps, StartKeeps, AbortKeeps, CloseKeeps, TakeCompletionKeeps
     DEF Operation
<1>2. CASE Step
  BY <1>2, RetainReadKeeps, RetainWriteKeeps, GiveUpKeeps, EnableIrqKeeps, ConfigureKeeps,
     SetTokenKeeps, StartChannelKeeps, AbortMaskKeeps, AbortStopKeeps, AbortClearKeeps,
     CloseTokenKeeps, ReleaseSourceKeeps, UnclaimKeeps, UnclaimClearKeeps, CleanupKeeps,
     ReleaseBuffersKeeps
     DEF Step
<1>3. QED
  BY <1>1, <1>2, CloseBufferKeeps, DispatchKeeps, HandlerKeeps, FinishKeeps, StutterKeeps DEF Next

THEOREM Invariance == Spec => []IInv
<1>1. Init => IInv BY TypeInit, InitRest DEF IInv, Rest
<1>2. IInv /\ [Next]_vars => IInv' BY TypeStep, StepRest DEF IInv, Rest
<1>3. QED BY <1>1, <1>2, PTL DEF Spec

-----------------------------------------------------------------------------
(* The properties the run checks. *)

LEMMA TypesFollow == ASSUME IInv PROVE TypeOK
<1> USE DEF IInv
<1>1. ASSUME NEW b \in Buffer PROVE buf[b] \in BufferState
  <2>1. Readers(b) \subseteq Transfer /\ Writers(b) \subseteq Transfer
    BY DEF Readers, Writers
  <2>2. /\ Cardinality(Readers(b)) <= Cardinality(Transfer)
        /\ Cardinality(Writers(b)) <= Cardinality(Transfer)
        /\ Cardinality(Transfer) \in Nat
    BY <2>1, ConstantFacts, FS_Subset, FS_CardinalityType
  <2>3. buf[b].active = Cardinality(Readers(b)) + Cardinality(Writers(b)) BY DEF Retained
  <2>4. buf[b].active \in 0 .. 2 * Cardinality(Transfer) BY <2>2, <2>3, HoldersFinite
  <2>5. QED BY <2>4 DEF Typed, BufferState
<1>2. buf \in [Buffer -> BufferState] BY <1>1 DEF Typed
<1>3. QED BY <1>2 DEF Typed, TypeOK

LEMMA OwnersFollow == ASSUME IInv PROVE ChannelOwned
<1> USE DEF IInv
<1> SUFFICES ASSUME NEW c \in Channel
             PROVE  Cardinality({t \in Transfer : obj[t].chan = c})
                      = IF hw[c].claimed THEN 1 ELSE 0
  BY DEF ChannelOwned
<1>1. CASE hw[c].claimed
  <2>1. PICK t \in Transfer : obj[t].chan = c BY <1>1 DEF Channels
  <2>2. {u \in Transfer : obj[u].chan = c} = {t}
    BY <2>1, ConstantFacts DEF Channels, Open
  <2>3. QED BY <1>1, <2>2, FS_Singleton
<1>2. CASE ~hw[c].claimed
  <2>1. {u \in Transfer : obj[u].chan = c} = {} BY <1>2 DEF Channels
  <2>2. QED BY <1>2, <2>1, FS_EmptySet
<1>3. QED BY <1>1, <1>2

LEMMA CountsFollow == ASSUME IInv PROVE RetainCount
<1> USE DEF IInv
<1> SUFFICES ASSUME Idle, NEW b \in Buffer
             PROVE  /\ buf[b].active =
                         Cardinality(Holders(b, "read")) + Cardinality(Holders(b, "write"))
                    /\ buf[b].freed <=> (buf[b].closing /\ buf[b].active = 0)
  BY DEF RetainCount
<1>1. Holders(b, "read") = Readers(b) /\ Holders(b, "write") = Writers(b)
  BY DEF Holders, Readers, Writers, HoldsRead, HoldsWrite, At, Idle
<1>2. QED BY <1>1 DEF Retained

(* On every path, whatever fails, and for any number of channels, lines,   *)
(* transfers and buffers: a channel is claimed exactly while one object    *)
(* owns it, and a buffer is retained exactly as often as it is used.       *)
THEOREM NothingLeaks == Spec => []ResourcesBalanced
<1>1. IInv => ResourcesBalanced
  BY TypesFollow, OwnersFollow, CountsFollow DEF ResourcesBalanced
<1>2. QED BY <1>1, Invariance, PTL

(* A token posted by an interrupt line or dispatched by the program is     *)
(* that of the transfer that owns the channel, and an event is emitted     *)
(* only for a transfer of which the hardware finished a run.               *)
THEOREM EventsTellTheTruth == Spec => []EventsOwned
<1>1. IInv => EventsOwned
  BY DEF IInv, Tokens, LineTokens, SourceTokens, Done, EventsOwned, TokenOwned, EventMeansDone
<1>2. QED BY <1>1, Invariance, PTL

(* A running channel never reads or writes a freed buffer.                 *)
THEOREM NoUseAfterFree == Spec => []DmaTargetsAllocated
<1>1. ASSUME IInv, NEW c \in Channel, hw[c].busy, NEW b \in hw[c].uses PROVE ~buf[b].freed
  <2> USE DEF IInv
  <2>1. hw[c].en /\ hw[c].claimed BY <1>1 DEF Hardware, RunsClaimed
  <2>2. PICK t \in Transfer : obj[t].chan = c /\ Open(t)
    BY <1>1, <2>1, ConstantFacts DEF Channels, Open
  <2>3. hw[c].uses = Given(t) /\ ~At(t, Setup) BY <1>1, <2>1, <2>2 DEF Hardware, OwnedRuns
  <2>4. HoldsRead(t) /\ HoldsWrite(t) BY <2>2, <2>3 DEF HoldsRead, HoldsWrite, At, Setup
  <2>5. b \in Buffer /\ (t \in Readers(b) \/ t \in Writers(b))
    BY <1>1, <2>3, <2>4, ObjectFields DEF Given, Readers, Writers
  <2>6. Cardinality(Readers(b)) > 0 \/ Cardinality(Writers(b)) > 0
    BY <2>5, HoldersFinite, FS_EmptySet
  <2>7. buf[b].active # 0 BY <1>1, <2>5, <2>6, HoldersFinite DEF Retained
  <2>8. QED BY <1>1, <2>5, <2>7 DEF Retained
<1>2. IInv => DmaTargetsAllocated BY <1>1 DEF DmaTargetsAllocated
<1>3. QED BY <1>2, Invariance, PTL

=============================================================================
