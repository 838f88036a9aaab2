----------------------------- MODULE PioProofs -----------------------------
(***************************************************************************)
(* Proofs about the two resources of a PIO controller: PioIrq, for any     *)
(* sources, objects, tokens and mailbox, and PioPrograms, for any size of  *)
(* memory, number of machines, programs and objects.                       *)
(*                                                                         *)
(* That no trigger is lost or left over is inductive with the types.  That *)
(* events reach their owner is not: the invariant adds what a call has     *)
(* done at each label (Calls), that an object's token is registered for it *)
(* (Holding), and that nothing names a token that is not issued yet        *)
(* (Registered).  That every word and every machine has one owner is       *)
(* inductive with the types; the holders of shares are the objects and the *)
(* names "direct" and "driver".                                            *)
(***************************************************************************)
EXTENDS PioIrq, PioPrograms, WellFoundedInduction, TLAPS

Calls ==
  /\ pc = "idle" \/ (cur \in Object /\ obj[cur].open)
  /\ pc = "installToken" => ~obj[cur].tokenInstalled /\ obj[cur].token # None
  /\ pc = "release" => token = None \/ token # obj[cur].token

Holding ==
  \A o \in Object :
    /\ ~obj[o].open => obj[o] = Closed
    /\ obj[o].tokenInstalled => obj[o].token # None
    /\ obj[o].token # None => owner[obj[o].token] = o

Registered ==
  /\ \A k \in Token : owner[k] # None => k <= issued
  /\ \A i \in DOMAIN mailbox : mailbox[i].token <= issued

-----------------------------------------------------------------------------
(* What the proofs use of the constants. *)
LEMMA ConstantFacts ==
  /\ MaxTokens \in Nat /\ Capacity \in Nat \ {0} /\ MaxDropped \in Nat \ {0}
  /\ None \notin Object /\ None \notin Token
  BY PioAssumption DEF Token

LEMMA ObjectFields ==
  ASSUME TypeOK, NEW o \in Object
  PROVE  /\ obj[o] \in ObjectState
         /\ obj[o].open \in BOOLEAN /\ obj[o].mask \subseteq Source
         /\ obj[o].token \in Token \cup {None}
         /\ obj[o].tokenInstalled \in BOOLEAN /\ obj[o].irqEnabled \in BOOLEAN
<1>1. obj[o] \in ObjectState BY DEF TypeOK
<1>2. QED BY <1>1 DEF ObjectState

LEMMA RecordFields ==
  ASSUME TypeOK, NEW i \in DOMAIN mailbox
  PROVE  mailbox[i].token \in Token /\ mailbox[i].data \subseteq Source
<1>1. mailbox[i] \in Record BY DEF TypeOK
<1>2. QED BY <1>1 DEF Record, Mask

(* A post adds at most one record, of the line's token. *)
LEMMA PostFacts ==
  ASSUME TypeOK, NEW d \in SUBSET Source, Post(d)
  PROVE  /\ mailbox' \in Seq(Record) /\ Len(mailbox') <= Capacity
         /\ dropped' \in 0 .. MaxDropped
         /\ \A i \in DOMAIN mailbox' :
              \/ i \in DOMAIN mailbox /\ mailbox'[i] = mailbox[i]
              \/ /\ token \in Token
                 /\ mailbox'[i].token = token /\ mailbox'[i].data = d
<1> DEFINE r == [token |-> token, data |-> d]
<1>1. CASE UNCHANGED mail BY <1>1 DEF mail, TypeOK
<1>2. CASE token # None /\ d # {} /\ (Mail!Accept(r) \/ Mail!Refuse)
  <2>1. r \in Record /\ token \in Token
    <3>1. token \in Token BY <1>2 DEF TypeOK
    <3>2. d \in Mask BY <1>2 DEF Mask
    <3>3. QED BY <3>1, <3>2 DEF Record
  <2>2. r.token = token /\ r.data = d OBVIOUS
  <2> HIDE DEF r
  <2>3. CASE Mail!Accept(r)
    <3>1. mailbox' = Append(mailbox, r) /\ dropped' = dropped /\ Len(mailbox) < Capacity
      BY <2>3 DEF Mail!Accept
    <3>2. mailbox' \in Seq(Record) /\ Len(mailbox') = Len(mailbox) + 1
      BY <2>1, <3>1 DEF TypeOK
    <3>3. \A i \in 1 .. Len(mailbox') :
            mailbox'[i] = IF i = Len(mailbox') THEN r ELSE mailbox[i]
      BY <2>1, <3>1, <3>2 DEF TypeOK
    <3>4. DOMAIN mailbox = 1 .. Len(mailbox) /\ DOMAIN mailbox' = 1 .. Len(mailbox')
            /\ Len(mailbox) \in Nat
      BY <3>2 DEF TypeOK
    <3>5. Len(mailbox') <= Capacity BY <3>1, <3>2, <3>4, ConstantFacts
    <3>6. \A i \in DOMAIN mailbox' : i = Len(mailbox') \/ i \in DOMAIN mailbox
      BY <3>2, <3>4
    <3>7. QED BY <2>1, <2>2, <3>1, <3>2, <3>3, <3>4, <3>5, <3>6 DEF TypeOK
  <2>4. CASE Mail!Refuse
    BY <2>4, ConstantFacts DEF Mail!Refuse, TypeOK
  <2>5. QED BY <1>2, <2>3, <2>4
<1>3. QED BY <1>1, <1>2 DEF Post

(* A take removes the oldest record. *)
LEMMA TakeFacts ==
  ASSUME TypeOK, Mail!Take
  PROVE  /\ mailbox' \in Seq(Record) /\ Len(mailbox') <= Capacity
         /\ dropped' = dropped /\ Head(mailbox) \in Record
         /\ \A i \in DOMAIN mailbox' :
              \E j \in DOMAIN mailbox : mailbox'[i] = mailbox[j]
<1>1. mailbox # <<>> /\ mailbox' = Tail(mailbox) /\ dropped' = dropped BY DEF Mail!Take
<1>2. mailbox \in Seq(Record) /\ Len(mailbox) \in Nat /\ Len(mailbox) <= Capacity
  BY DEF TypeOK
<1>3. mailbox' \in Seq(Record) /\ Len(mailbox') = Len(mailbox) - 1 /\ Head(mailbox) \in Record
  BY <1>1, <1>2
<1>4. ASSUME NEW i \in DOMAIN mailbox'
      PROVE  i + 1 \in DOMAIN mailbox /\ mailbox'[i] = mailbox[i + 1]
  BY <1>1, <1>2, <1>3, <1>4
<1>5. QED BY <1>1, <1>2, <1>3, <1>4, ConstantFacts

(* A new object has the next token, if there is one. *)
LEMMA CreatedObject ==
  ASSUME TypeOK, NEW m \in Mask, NEW o \in Object, Create(o, m)
  PROVE  /\ obj' \in [Object -> ObjectState]
         /\ \A u \in Object \ {o} : obj'[u] = obj[u]
         /\ obj'[o].open /\ obj'[o].mask = m /\ obj'[o].token \in Token \cup {None}
         /\ ~obj'[o].tokenInstalled /\ ~obj'[o].irqEnabled
         /\ obj'[o].token # None =>
              /\ obj'[o].token = issued + 1 /\ issued' = issued + 1
              /\ owner' = [owner EXCEPT ![issued + 1] = o]
              /\ pc' = "installToken"
         /\ obj'[o].token = None => UNCHANGED registry /\ pc' = "disable"
<1> DEFINE new == [Closed EXCEPT !.open = TRUE, !.mask = m]
           named == [Closed EXCEPT !.open = TRUE, !.mask = m, !.token = issued + 1]
<1>1. CASE issued < MaxTokens
  <2>1. issued + 1 \in Token BY <1>1, ConstantFacts DEF TypeOK, Token
  <2>2. /\ named \in ObjectState
        /\ named.open /\ named.mask = m /\ named.token = issued + 1
        /\ ~named.tokenInstalled /\ ~named.irqEnabled
    BY <2>1 DEF Closed, ObjectState, Mask
  <2>3. /\ obj' = [obj EXCEPT ![o] = named] /\ issued' = issued + 1 /\ pc' = "installToken"
        /\ owner' = [owner EXCEPT ![issued + 1] = o]
    BY <1>1 DEF Create
  <2> HIDE DEF named
  <2>4. obj'[o] = named BY <2>3 DEF TypeOK
  <2>5. QED BY <2>1, <2>2, <2>3, <2>4, ConstantFacts DEF TypeOK
<1>2. CASE ~(issued < MaxTokens)
  <2>1. /\ new \in ObjectState
        /\ new.open /\ new.mask = m /\ new.token = None
        /\ ~new.tokenInstalled /\ ~new.irqEnabled
    BY DEF Closed, ObjectState, Mask
  <2>2. /\ obj' = [obj EXCEPT ![o] = new] /\ UNCHANGED registry /\ pc' = "disable"
    BY <1>2 DEF Create, registry
  <2> HIDE DEF new
  <2>3. obj'[o] = new BY <2>2 DEF TypeOK
  <2>4. QED BY <2>1, <2>2, <2>3 DEF TypeOK
<1>3. QED BY <1>1, <1>2

-----------------------------------------------------------------------------
(* Every variable keeps its type. *)
LEMMA TypeInit == Init => TypeOK
  BY ConstantFacts DEF Init, TypeOK, ObjectState, Closed, Label

LEMMA TypeStep == TypeOK /\ Calls /\ [Next]_vars => TypeOK'
<1> SUFFICES ASSUME TypeOK, Calls, [Next]_vars PROVE TypeOK'
  OBVIOUS
<1> USE DEF TypeOK, line, tokens, registry, mail, told, Label
<1>1. ASSUME NEW s \in Source, Level(s) PROVE TypeOK' BY <1>1 DEF Level
<1>2. CASE Handler
  <2> DEFINE pending == cause \cap inte \cap masks
  <2>1. Post(pending \cap tokenMask) /\ pending \cap tokenMask \in SUBSET Source
    BY <1>2 DEF Handler
  <2>2. /\ mailbox' \in Seq(Record) /\ Len(mailbox') <= Capacity
        /\ dropped' \in 0 .. MaxDropped
    BY <2>1, PostFacts
  <2>3. QED BY <1>2, <2>2 DEF Handler
<1>3. CASE InstallToken
  <2>1. obj' \in [Object -> ObjectState]
    <3>1. cur \in Object BY <1>3 DEF InstallToken, Calls
    <3>2. [obj[cur] EXCEPT !.tokenInstalled = TRUE] \in ObjectState
      BY <3>1, ObjectFields DEF ObjectState
    <3>3. obj' = obj \/ obj' = [obj EXCEPT ![cur] = [obj[cur] EXCEPT !.tokenInstalled = TRUE]]
      BY <1>3 DEF InstallToken
    <3>4. QED BY <3>1, <3>2, <3>3
  <2>2. obj[cur].token \in Token \cup {None} /\ obj[cur].mask \subseteq Source
    BY <1>3, ObjectFields DEF InstallToken, Calls
  <2>3. QED BY <1>3, <2>1, <2>2 DEF InstallToken, StoreToken, Goto
<1>4. CASE Enable
  <2>1. cur \in Object /\ obj[cur].mask \subseteq Source
    BY <1>4, ObjectFields DEF Enable, Return, Calls
  <2>2. obj' \in [Object -> ObjectState] BY <1>4, <2>1, ObjectFields DEF Enable, ObjectState
  <2>3. QED BY <1>4, <2>1, <2>2 DEF Enable, Return, EnableSources
<1>5. CASE Disable
  <2>1. cur \in Object /\ obj[cur].mask \subseteq Source
    BY <1>5, ObjectFields DEF Disable, Goto, Calls
  <2>2. QED BY <1>5, <2>1 DEF Disable, Goto, DisableSources
<1>6. CASE ClearToken BY <1>6 DEF ClearToken, Goto, StoreToken
<1>7. CASE Release
  <2>1. obj' \in [Object -> ObjectState] BY <1>7, ConstantFacts DEF Release, Closed, ObjectState
  <2>2. QED BY <1>7, <2>1 DEF Release, Return
<1>8. CASE Dispatch
  <2>1. Mail!Take BY <1>8 DEF Dispatch
  <2>2. /\ mailbox' \in Seq(Record) /\ Len(mailbox') <= Capacity
        /\ dropped' \in 0 .. MaxDropped /\ Head(mailbox) \in Record
    BY <2>1, TakeFacts
  <2>3. Head(mailbox).data \subseteq Source BY <2>2 DEF Record, Mask
  <2>4. QED BY <1>8, <2>2, <2>3 DEF Dispatch
<1>9. ASSUME NEW m \in SUBSET Source, TakeMasked(m) PROVE TypeOK' BY <1>9 DEF TakeMasked
<1>10. ASSUME NEW m \in Mask, NEW enabled \in BOOLEAN, SetSourcesEnabled(m, enabled)
       PROVE  TypeOK'
  BY <1>10 DEF SetSourcesEnabled, EnableSources, DisableSources, Mask
<1>11. ASSUME NEW m \in Mask, Rearm(m) PROVE TypeOK' BY <1>11 DEF Rearm, Mask
<1>12. ASSUME NEW m \in Mask, NEW o \in Object, Create(o, m) PROVE TypeOK'
  <2>1. obj' \in [Object -> ObjectState] BY <1>12, CreatedObject
  <2>2. issued' \in 0 .. MaxTokens /\ owner' \in [Token -> Object \cup {None}]
    BY <1>12, ConstantFacts DEF Create
  <2>3. QED BY <1>12, <2>1, <2>2 DEF Create
<1>13. ASSUME NEW o \in Object, Close(o) PROVE TypeOK' BY <1>13 DEF Close
<1>14. CASE UNCHANGED vars BY <1>14 DEF vars
<1>15. QED
  BY <1>1, <1>2, <1>3, <1>4, <1>5, <1>6, <1>7, <1>8, <1>9, <1>10, <1>11, <1>12, <1>13, <1>14
     DEF Next, Step, TakeEvents, Mask

-----------------------------------------------------------------------------
(* A trigger is neither lost nor left over. *)
Sources == NoTriggerLost /\ UnusedSourceSilent

LEMMA SourcesStep == TypeOK /\ Sources /\ [Next]_vars => Sources'
<1> SUFFICES ASSUME TypeOK, Sources, [Next]_vars PROVE Sources'
  OBVIOUS
<1> USE DEF Sources, NoTriggerLost, UnusedSourceSilent, line, told
<1>1. ASSUME NEW s \in Source, Level(s) PROVE Sources' BY <1>1 DEF Level
<1>2. CASE Handler BY <1>2 DEF Handler
<1>3. CASE InstallToken BY <1>3 DEF InstallToken
<1>4. CASE Enable BY <1>4 DEF Enable, EnableSources
<1>5. CASE Disable BY <1>5 DEF Disable, DisableSources
<1>6. CASE ClearToken BY <1>6 DEF ClearToken
<1>7. CASE Release BY <1>7 DEF Release
<1>8. CASE Dispatch BY <1>8 DEF Dispatch
<1>9. ASSUME NEW m \in SUBSET Source, TakeMasked(m) PROVE Sources' BY <1>9 DEF TakeMasked
<1>10. ASSUME NEW m \in Mask, NEW enabled \in BOOLEAN, SetSourcesEnabled(m, enabled)
       PROVE  Sources'
  BY <1>10 DEF SetSourcesEnabled, EnableSources, DisableSources
<1>11. ASSUME NEW m \in Mask, Rearm(m) PROVE Sources' BY <1>11 DEF Rearm
<1>12. ASSUME NEW m \in Mask, NEW o \in Object, Create(o, m) PROVE Sources'
  BY <1>12 DEF Create
<1>13. ASSUME NEW o \in Object, Close(o) PROVE Sources' BY <1>13 DEF Close
<1>14. CASE UNCHANGED vars BY <1>14 DEF vars
<1>15. QED
  BY <1>1, <1>2, <1>3, <1>4, <1>5, <1>6, <1>7, <1>8, <1>9, <1>10, <1>11, <1>12, <1>13, <1>14
     DEF Next, Step, TakeEvents, Mask

-----------------------------------------------------------------------------
(* The call in progress, its object and the tokens. *)

(* The line's token changes only under a call; what an object holds, and   *)
(* what the registry maps, are unchanged by everything else.               *)
Owned == Calls /\ Holding /\ Registered /\ LineOwned /\ RecordsOwned

(* Nothing that is owned changes. *)
LEMMA OwnedKept ==
  ASSUME TypeOK, Owned, UNCHANGED <<tokens, obj, registry, mail, pc, cur>>
  PROVE  Owned'
BY DEF Owned, Calls, Holding, Registered, LineOwned, RecordsOwned,
       tokens, registry, mail

(* A step of cur's call that changes none of what cur is known by. *)
LEMMA FieldsKept ==
  ASSUME TypeOK, Owned, cur \in Object, UNCHANGED <<registry, mail>>,
         \A u \in Object \ {cur} : obj'[u] = obj[u],
         obj[cur].open, obj'[cur].open,
         obj'[cur].token = obj[cur].token, obj'[cur].mask = obj[cur].mask,
         obj'[cur].tokenInstalled => obj[cur].token # None
  PROVE  Holding' /\ Registered' /\ RecordsOwned'
<1>1. owner' = owner /\ issued' = issued /\ mailbox' = mailbox BY DEF registry, mail
<1>2. ASSUME NEW u \in Object
      PROVE  /\ obj'[u].open = obj[u].open \/ u = cur
             /\ obj'[u].token = obj[u].token /\ obj'[u].mask = obj[u].mask
             /\ obj[u].open => obj'[u].open
  OBVIOUS
<1>3. ASSUME NEW u \in Object
      PROVE  /\ ~obj'[u].open => obj'[u] = Closed
             /\ obj'[u].tokenInstalled => obj'[u].token # None
             /\ obj'[u].token # None => owner[obj'[u].token] = u
  <2>1. CASE u = cur BY <2>1 DEF Owned, Holding
  <2>2. CASE u # cur
    <3>1. obj'[u] = obj[u] BY <2>2
    <3>2. QED BY <3>1 DEF Owned, Holding
  <2>3. QED BY <2>1, <2>2
<1>4. Holding' BY <1>1, <1>3 DEF Holding
<1>5. Registered' BY <1>1 DEF Owned, Registered
<1>6. RecordsOwned'
  <2>1. ASSUME NEW k \in Token, owner[k] # None
        PROVE  /\ owner[k] \in Object /\ obj'[owner[k]].token = k
    BY <1>2, <2>1 DEF Owned, RecordsOwned, TypeOK
  <2>2. ASSUME NEW i \in DOMAIN mailbox, owner[mailbox[i].token] # None
        PROVE  /\ obj'[owner[mailbox[i].token]].open
               /\ mailbox[i].data \subseteq obj'[owner[mailbox[i].token]].mask
    <3>1. mailbox[i].token \in Token BY RecordFields
    <3>2. owner[mailbox[i].token] \in Object BY <2>1, <2>2, <3>1
    <3>3. QED BY <1>2, <2>2, <3>2 DEF Owned, RecordsOwned
  <2>3. QED BY <1>1, <2>1, <2>2 DEF RecordsOwned
<1>7. QED BY <1>4, <1>5, <1>6

(* Objects with a token have different ones. *)
LEMMA OneToken ==
  ASSUME Holding, NEW o \in Object, NEW u \in Object,
         obj[o].token # None, obj[o].token = obj[u].token
  PROVE  o = u
BY DEF Holding

(* The interrupt announces triggers of the line's owner. *)
LEMMA HandlerKeeps == ASSUME TypeOK, Owned, Handler PROVE Owned'
<1> DEFINE data == cause \cap inte \cap masks \cap tokenMask
<1>1. Post(data) /\ UNCHANGED <<tokens, obj, registry, pc, cur>> /\ data \in SUBSET Source
  BY DEF Handler, TypeOK
<1>2. \A i \in DOMAIN mailbox' :
        \/ i \in DOMAIN mailbox /\ mailbox'[i] = mailbox[i]
        \/ token \in Token /\ mailbox'[i].token = token /\ mailbox'[i].data = data
  <2> HIDE DEF data
  <2>1. QED BY <1>1, PostFacts
<1>3. token # None => \E o \in Object : /\ obj[o].open /\ obj[o].token = token
                                        /\ obj[o].mask = tokenMask /\ owner[token] = o
  BY DEF Owned, LineOwned, Holding
<1>4. Registered'
  BY <1>1, <1>2, <1>3, ConstantFacts DEF Owned, Registered, registry
<1>5. RecordsOwned'
  <2>1. ASSUME NEW i \in DOMAIN mailbox', owner[mailbox'[i].token] # None
        PROVE  /\ obj[owner[mailbox'[i].token]].open
               /\ mailbox'[i].data \subseteq obj[owner[mailbox'[i].token]].mask
    BY <1>2, <1>3, <2>1, ConstantFacts DEF Owned, RecordsOwned
  <2>2. QED BY <1>1, <2>1 DEF Owned, RecordsOwned, registry
<1>6. QED BY <1>1, <1>4, <1>5 DEF Owned, Calls, Holding, LineOwned, tokens, registry

(* A new object owns neither the line nor a record. *)
LEMMA CreateKeeps ==
  ASSUME TypeOK, Owned, NEW o \in Object, NEW m \in Mask, Create(o, m)
  PROVE  Owned'
<1>1. /\ cur' = o /\ UNCHANGED <<tokens, mail>> /\ ~obj[o].open /\ pc = "idle"
      /\ obj[o] = Closed
  BY DEF Create, Owned, Holding, Idle
<1>2. /\ \A u \in Object \ {o} : obj'[u] = obj[u]
      /\ obj'[o].open /\ obj'[o].mask = m /\ obj'[o].token \in Token \cup {None}
      /\ ~obj'[o].tokenInstalled
      /\ \/ /\ obj'[o].token = issued + 1 /\ issued' = issued + 1 /\ pc' = "installToken"
            /\ owner' = [owner EXCEPT ![issued + 1] = o] /\ issued + 1 \in Token
         \/ obj'[o].token = None /\ UNCHANGED registry /\ pc' = "disable"
  BY CreatedObject, ConstantFacts
<1>3. ~obj[o].tokenInstalled /\ obj[o].token = None /\ \A k \in Token : owner[k] # o
  BY <1>1, ConstantFacts DEF Closed, Owned, RecordsOwned
<1>4. \A k \in Token : owner'[k] = owner[k] \/ (k = issued + 1 /\ owner'[k] = o)
  BY <1>2 DEF TypeOK, registry
<1>5. \A u \in Object : obj[u].token # None => obj[u].token # issued + 1
  BY ConstantFacts, ObjectFields DEF TypeOK, Owned, Holding, Registered
<1>6. Calls' BY <1>1, <1>2, ConstantFacts DEF Calls
<1>7. Holding'
  <2>1. ASSUME NEW u \in Object
        PROVE  /\ ~obj'[u].open => obj'[u] = Closed
               /\ obj'[u].tokenInstalled => obj'[u].token # None
               /\ obj'[u].token # None => owner'[obj'[u].token] = u
    <3>1. CASE u = o BY <1>2, <3>1 DEF TypeOK
    <3>2. CASE u # o
      <4>1. obj'[u] = obj[u] BY <1>2, <3>2
      <4>2. obj[u].token # None => owner'[obj[u].token] = owner[obj[u].token]
        BY <1>4, <1>5, ObjectFields
      <4>3. QED BY <4>1, <4>2 DEF Owned, Holding
    <3>3. QED BY <3>1, <3>2
  <2>2. QED BY <2>1 DEF Holding
<1>8. Registered'
  <2>1. issued' = issued \/ issued' = issued + 1 BY <1>2 DEF registry
  <2>2. ASSUME NEW k \in Token, owner'[k] # None PROVE k <= issued'
    <3>1. k \in Nat /\ issued \in Nat BY DEF TypeOK, Token
    <3>2. owner[k] # None => k <= issued BY DEF Owned, Registered
    <3>3. owner'[k] = owner[k] \/ k = issued + 1 BY <1>4
    <3>4. k = issued + 1 => k <= issued' \/ owner'[k] = owner[k]
      BY <1>2, <3>1 DEF registry
    <3>5. QED BY <2>1, <2>2, <3>1, <3>2, <3>3, <3>4
  <2>3. \A i \in DOMAIN mailbox : mailbox[i].token <= issued'
    BY <2>1, RecordFields, ConstantFacts DEF Owned, Registered, TypeOK, Token
  <2>4. QED BY <1>1, <2>2, <2>3 DEF Registered, mail
<1>9. LineOwned' BY <1>1, <1>2, <1>3 DEF Owned, LineOwned, tokens
<1>10. RecordsOwned'
  <2>1. \A i \in DOMAIN mailbox : mailbox[i].token # issued + 1
    BY ConstantFacts DEF Owned, Registered, TypeOK, Record
  <2>2. \A i \in DOMAIN mailbox : mailbox[i].token \in Token BY RecordFields
  <2>3. ASSUME NEW i \in DOMAIN mailbox, owner'[mailbox[i].token] # None
        PROVE  /\ owner'[mailbox[i].token] = owner[mailbox[i].token]
               /\ owner'[mailbox[i].token] \in Object \ {o}
    BY <1>3, <1>4, <2>1, <2>2, <2>3 DEF TypeOK
  <2>4. ASSUME NEW k \in Token, owner'[k] # None
        PROVE  obj'[owner'[k]].token = k
    BY <1>2, <1>3, <1>4, <2>4, ConstantFacts DEF Owned, RecordsOwned, TypeOK, registry
  <2>5. QED BY <1>1, <1>2, <2>3, <2>4 DEF Owned, RecordsOwned, mail
<1>11. QED BY <1>6, <1>7, <1>8, <1>9, <1>10 DEF Owned

(* An object gets the line only when nobody has it. *)
LEMMA InstallTokenKeeps == ASSUME TypeOK, Owned, InstallToken PROVE Owned'
<1>1. /\ cur \in Object /\ obj[cur].open /\ cur' = cur /\ UNCHANGED <<registry, mail>>
      /\ ~obj[cur].tokenInstalled /\ obj[cur].token # None
  BY DEF InstallToken, Goto, Owned, Calls
<1>2. CASE ~CanSetToken(obj[cur].token)
  BY <1>1, <1>2 DEF InstallToken, Goto, Owned, Calls, Holding, Registered, LineOwned,
     RecordsOwned, tokens, registry, mail
<1>3. CASE CanSetToken(obj[cur].token)
  <2>1. /\ token' = obj[cur].token /\ tokenMask' = obj[cur].mask /\ pc' = "enable"
        /\ \A u \in Object \ {cur} : obj'[u] = obj[u]
        /\ obj'[cur].tokenInstalled /\ obj'[cur].open = obj[cur].open
        /\ obj'[cur].token = obj[cur].token /\ obj'[cur].mask = obj[cur].mask
    <3>1. /\ token' = obj[cur].token /\ tokenMask' = obj[cur].mask /\ pc' = "enable"
          /\ obj' = [obj EXCEPT ![cur].tokenInstalled = TRUE]
      BY <1>1, <1>3 DEF InstallToken, Goto, StoreToken
    <3>2. QED BY <1>1, <3>1, ObjectFields DEF TypeOK, ObjectState
  <2>2. \A u \in Object : ~obj[u].tokenInstalled
    <3>1. token \in {None, obj[cur].token} BY <1>1, <1>3 DEF CanSetToken
    <3>2. ASSUME NEW u \in Object, obj[u].tokenInstalled PROVE u = cur
      <4>1. obj[u].token = token /\ token # None
        BY <3>2 DEF InstallToken, Goto, Owned, LineOwned, Holding
      <4>2. QED BY <1>1, <3>1, <4>1, OneToken DEF Owned
    <3>3. QED BY <1>1, <3>2
  <2>3. Calls' BY <1>1, <2>1 DEF Calls
  <2>4. Holding' /\ Registered' /\ RecordsOwned' BY <1>1, <2>1, FieldsKept
  <2>5. LineOwned' BY <1>1, <2>1, <2>2 DEF LineOwned
  <2>6. QED BY <2>3, <2>4, <2>5 DEF Owned
<1>4. QED BY <1>2, <1>3

LEMMA EnableKeeps == ASSUME TypeOK, Owned, Enable PROVE Owned'
<1>1. /\ cur \in Object /\ pc' = "idle" /\ pc = "enable"
      /\ UNCHANGED <<tokens, registry, mail>>
      /\ \A u \in Object \ {cur} : obj'[u] = obj[u]
      /\ obj'[cur].tokenInstalled = obj[cur].tokenInstalled
      /\ obj'[cur].open = obj[cur].open /\ obj'[cur].mask = obj[cur].mask
      /\ obj'[cur].token = obj[cur].token /\ obj[cur].open
  BY ObjectFields DEF Enable, Return, Owned, Calls, TypeOK, ObjectState
<1>2. Holding' /\ Registered' /\ RecordsOwned' BY <1>1, FieldsKept DEF Owned, Holding
<1>3. Calls' BY <1>1 DEF Calls
<1>4. LineOwned' BY <1>1 DEF Owned, LineOwned, tokens
<1>5. QED BY <1>2, <1>3, <1>4 DEF Owned

(* A closing object clears the line only if the line is its own. *)
LEMMA ClearTokenKeeps == ASSUME TypeOK, Owned, ClearToken PROVE Owned'
<1>1. /\ cur \in Object /\ obj[cur].open /\ pc = "clearToken" /\ pc' = "release"
      /\ cur' = cur /\ UNCHANGED <<obj, registry, mail>>
  BY DEF ClearToken, Goto, Owned, Calls
<1>2. CASE obj[cur].tokenInstalled
  <2>1. token' = None /\ obj[cur].token = token /\ token # None
    BY <1>1, <1>2 DEF ClearToken, StoreToken, Owned, LineOwned, Holding
  <2>2. \A u \in Object \ {cur} : ~obj[u].tokenInstalled
    BY <1>1, <2>1, OneToken DEF Owned, LineOwned
  <2>3. QED BY <1>1, <2>1, <2>2 DEF Owned, Calls, Holding, Registered, LineOwned,
        RecordsOwned, registry, mail
<1>3. CASE ~obj[cur].tokenInstalled
  <2>1. UNCHANGED tokens BY <1>3 DEF ClearToken
  <2>2. token = None \/ token # obj[cur].token
    BY <1>1, <1>3, OneToken DEF Owned, LineOwned
  <2>3. QED BY <1>1, <2>1, <2>2 DEF Owned, Calls, Holding, Registered, LineOwned,
        RecordsOwned, tokens, registry, mail
<1>4. QED BY <1>2, <1>3

(* Its records name nobody any more. *)
LEMMA ReleaseKeeps == ASSUME TypeOK, Owned, Release PROVE Owned'
<1>1. /\ cur \in Object /\ obj[cur].open /\ pc = "release" /\ pc' = "idle"
      /\ UNCHANGED <<tokens, issued, mail>>
      /\ token = None \/ token # obj[cur].token
      /\ \A k \in Token : owner'[k] = IF k = obj[cur].token THEN None ELSE owner[k]
      /\ \A u \in Object : obj'[u] = IF u = cur THEN Closed ELSE obj[u]
  BY DEF Release, Return, Owned, Calls, TypeOK
<1>2. ~Closed.open /\ Closed.token = None /\ ~Closed.tokenInstalled BY DEF Closed
<1>3. Calls' /\ Registered' BY <1>1 DEF Owned, Calls, Registered, mail
<1>4. Holding'
  <2>1. ASSUME NEW u \in Object \ {cur}, obj[u].token # None PROVE owner'[obj[u].token] = u
    BY <1>1, <2>1, OneToken, ObjectFields DEF Owned, Holding
  <2>2. QED BY <1>1, <1>2, <2>1 DEF Owned, Holding
<1>5. LineOwned' BY <1>1, <1>2 DEF Owned, LineOwned, tokens
<1>6. ASSUME NEW k \in Token, owner'[k] # None
      PROVE  owner'[k] = owner[k] /\ owner[k] \in Object \ {cur}
  BY <1>1, <1>6 DEF Owned, RecordsOwned, TypeOK
<1>7. RecordsOwned'
  <2>1. \A i \in DOMAIN mailbox : mailbox[i].token \in Token BY RecordFields
  <2>2. QED BY <1>1, <1>6, <2>1 DEF Owned, RecordsOwned, mail
<1>8. QED BY <1>3, <1>4, <1>5, <1>7 DEF Owned

LEMMA DispatchKeeps == ASSUME TypeOK, Owned, Dispatch PROVE Owned'
<1>1. /\ UNCHANGED <<tokens, obj, registry, pc, cur>>
      /\ \A i \in DOMAIN mailbox' : \E j \in DOMAIN mailbox : mailbox'[i] = mailbox[j]
  BY TakeFacts DEF Dispatch
<1>2. Calls' /\ Holding' /\ LineOwned'
  BY <1>1 DEF Owned, Calls, Holding, LineOwned, tokens, registry
<1>3. Registered' BY <1>1 DEF Owned, Registered, registry
<1>4. RecordsOwned' BY <1>1 DEF Owned, RecordsOwned, registry
<1>5. QED BY <1>2, <1>3, <1>4 DEF Owned

-----------------------------------------------------------------------------
LEMMA OwnedInit == Init => Owned
  BY ConstantFacts DEF Init, Owned, Calls, Holding, Registered, LineOwned, RecordsOwned, Closed

LEMMA OwnedStep == TypeOK /\ Owned /\ [Next]_vars => Owned'
<1> SUFFICES ASSUME TypeOK, Owned, [Next]_vars PROVE Owned'
  OBVIOUS
<1>1. ASSUME NEW s \in Source, Level(s) PROVE Owned' BY <1>1, OwnedKept DEF Level
<1>2. CASE Handler BY <1>2, HandlerKeeps
<1>3. CASE InstallToken BY <1>3, InstallTokenKeeps
<1>4. CASE Enable BY <1>4, EnableKeeps
<1>5. CASE Disable
  <2>1. /\ UNCHANGED <<tokens, obj, registry, mail>> /\ cur' = cur
        /\ pc = "disable" /\ pc' = "clearToken"
    BY <1>5 DEF Disable, Goto
  <2>2. QED BY <2>1 DEF Owned, Calls, Holding, Registered, LineOwned, RecordsOwned,
        tokens, registry, mail
<1>6. CASE ClearToken BY <1>6, ClearTokenKeeps
<1>7. CASE Release BY <1>7, ReleaseKeeps
<1>8. CASE Dispatch BY <1>8, DispatchKeeps
<1>9. ASSUME NEW m \in SUBSET Source, TakeMasked(m) PROVE Owned'
  BY <1>9, OwnedKept DEF TakeMasked
<1>10. ASSUME NEW m \in Mask, NEW enabled \in BOOLEAN, SetSourcesEnabled(m, enabled)
       PROVE  Owned'
  BY <1>10, OwnedKept DEF SetSourcesEnabled
<1>11. ASSUME NEW m \in Mask, Rearm(m) PROVE Owned' BY <1>11, OwnedKept DEF Rearm
<1>12. ASSUME NEW m \in Mask, NEW o \in Object, Create(o, m) PROVE Owned'
  BY <1>12, CreateKeeps
<1>13. ASSUME NEW o \in Object, Close(o) PROVE Owned'
  <2>1. /\ UNCHANGED <<tokens, obj, registry, mail>> /\ cur' = o /\ obj[o].open
        /\ pc = "idle" /\ pc' = "disable"
    BY <1>13 DEF Close, Idle
  <2>2. QED BY <2>1 DEF Owned, Calls, Holding, Registered, LineOwned, RecordsOwned,
        tokens, registry, mail
<1>14. CASE UNCHANGED vars BY <1>14, OwnedKept DEF vars
<1>15. QED
  BY <1>1, <1>2, <1>3, <1>4, <1>5, <1>6, <1>7, <1>8, <1>9, <1>10, <1>11, <1>12, <1>13, <1>14
     DEF Next, Step, TakeEvents, Mask

-----------------------------------------------------------------------------
Inv == TypeOK /\ Sources /\ Owned

LEMMA Invariance == Spec => []Inv
<1>1. Init => Inv
  BY TypeInit, OwnedInit DEF Inv, Init, Sources, NoTriggerLost, UnusedSourceSilent
<1>2. Inv /\ [Next]_vars => Inv'
  BY TypeStep, SourcesStep, OwnedStep DEF Inv, Owned
<1>3. QED BY <1>1, <1>2, PTL DEF Spec

(* A source in use is armed, or its trigger is latched or known to the     *)
(* program; a source nobody uses is silent.                                *)
THEOREM NoTriggerMissed == Spec => []TriggersAccounted
<1>1. Inv => TriggersAccounted BY DEF Inv, Sources, TriggersAccounted
<1>2. QED BY Invariance, <1>1, PTL

(* The line's token and every record belong to one open object, which      *)
(* asked for what it is told.                                              *)
THEOREM EventsReachOwner == Spec => []EventsOwned
<1>1. Inv => EventsOwned BY DEF Inv, Owned, EventsOwned
<1>2. QED BY Invariance, <1>1, PTL

-----------------------------------------------------------------------------
(* Programs and state machines. *)
Sizes == Memory \in Nat /\ Machines \in Nat /\ Owner \cap {"direct", "driver"} = {}

-----------------------------------------------------------------------------
(* Places and machines that are found are free.                            *)

LEMMA LeastNumber ==
  ASSUME NEW S \in SUBSET Nat, S # {}
  PROVE  \E n \in S : \A m \in S : n <= m
<1>1. PICK n \in S : \A m \in S : <<m, n>> \notin OpToRel(<, Nat)
  BY WFMin, NatLessThanWellFounded, Zenon
<1>2. \A m \in S : ~ (m < n) BY <1>1 DEF OpToRel
<1>3. QED BY <1>2

LEMMA SmallestIsIn ==
  ASSUME NEW S \in SUBSET Nat, S # {}
  PROVE  Smallest(S) \in S
<1>1. PICK n \in S : \A m \in S : n <= m BY LeastNumber
<1>2. QED BY <1>1 DEF Smallest

LEMMA LargestIsIn ==
  ASSUME NEW n \in Nat, NEW S \in SUBSET (0 .. n - 1), S # {}
  PROVE  Largest(S) \in S
<1> DEFINE T == {n - x : x \in S}
<1>1. T \in SUBSET Nat /\ T # {} OBVIOUS
<1>2. PICK m \in T : \A k \in T : m <= k BY <1>1, LeastNumber
<1>3. PICK x \in S : m = n - x BY <1>2
<1>4. \A y \in S : x >= y BY <1>2, <1>3
<1>5. QED BY <1>4 DEF Largest

LEMMA ClaimIsFree ==
  ASSUME Sizes, Claim # Failed
  PROVE  Claim \in Machine \ claimed /\ Machine \ claimed # {}
<1>1. Machine \ claimed # {} BY DEF Claim
<1>2. Machine \ claimed \in SUBSET Nat BY DEF Machine, Sizes
<1>3. QED BY <1>1, <1>2, SmallestIsIn DEF Claim

LEMMA PlaceFits ==
  ASSUME Sizes, NEW p, Place(p) # Failed
  PROVE  Place(p) \in Word /\ Range(p.length, Place(p)) \subseteq Word \ used
<1>1. Fitting(p) # {} BY DEF Place
<1>2. Fitting(p) \in SUBSET (0 .. Memory - 1) BY DEF Fitting, Word
<1>3. Largest(Fitting(p)) \in Fitting(p) BY <1>1, <1>2, LargestIsIn DEF Sizes
<1>4. QED BY <1>1, <1>3 DEF Place, Fitting

LEMMA CopyOfPlaced ==
  ASSUME Sizes, NEW p, NEW m, Place(p) \in Word
  PROVE  Copy([machine |-> m, offset |-> Place(p), length |-> p.length])
           = Range(p.length, Place(p))
BY DEF Copy, Word, Sizes

LEMMA CopyOfClosed == Copy(Vacant) = {}
BY DEF Copy, Vacant, Failed

-----------------------------------------------------------------------------
(* Shares: what is free may be given to a holder, and what a holder has    *)
(* may be taken from it.                                                   *)

LEMMA Given ==
  ASSUME NEW whole, NEW part, part = [h \in Holder |-> part[h]], Shared(whole, part),
         NEW h \in Holder, NEW new, new \cap whole = {}
  PROVE  Shared(whole \cup new, [part EXCEPT ![h] = @ \cup new])
<1> DEFINE next == [part EXCEPT ![h] = @ \cup new]
<1>1. \A g \in Holder : next[g] = IF g = h THEN part[g] \cup new ELSE part[g] OBVIOUS
<1>2. whole \cup new = UNION {next[g] : g \in Holder}
  <2>1. \A x : x \in whole <=> \E g \in Holder : x \in part[g] BY DEF Shared
  <2>2. \A x : x \in UNION {next[g] : g \in Holder} <=> \E g \in Holder : x \in next[g]
    OBVIOUS
  <2> HIDE DEF next
  <2>3. ASSUME NEW x
        PROVE  (\E g \in Holder : x \in next[g])
                 <=> (x \in new \/ \E g \in Holder : x \in part[g])
    <3>1. (\E g \in Holder : x \in next[g])
            => (x \in new \/ \E g \in Holder : x \in part[g])
      BY <1>1
    <3>2. x \in new => x \in next[h] BY <1>1
    <3>3. \A g \in Holder : x \in part[g] => x \in next[g] BY <1>1
    <3>4. QED BY <3>1, <3>2, <3>3
  <2>4. QED BY <2>1, <2>2, <2>3
<1>3. ASSUME NEW f \in Holder, NEW g \in Holder, f # g PROVE next[f] \cap next[g] = {}
  <2>1. part[f] \cap part[g] = {} BY <1>3 DEF Shared
  <2>2. part[f] \subseteq whole /\ part[g] \subseteq whole BY DEF Shared
  <2>3. part[f] \cap new = {} /\ part[g] \cap new = {} BY <2>2
  <2> HIDE DEF next
  <2>4. CASE f = h BY <1>1, <1>3, <2>1, <2>3, <2>4
  <2>5. CASE f # h BY <1>1, <1>3, <2>1, <2>3, <2>5
  <2>6. QED BY <2>4, <2>5
<1>4. QED BY <1>2, <1>3 DEF Shared

LEMMA TakenBack ==
  ASSUME NEW whole, NEW part, part = [h \in Holder |-> part[h]], Shared(whole, part),
         NEW h \in Holder, NEW gone, gone \subseteq part[h]
  PROVE  Shared(whole \ gone, [part EXCEPT ![h] = @ \ gone])
<1> DEFINE next == [part EXCEPT ![h] = @ \ gone]
<1>1. \A g \in Holder : next[g] = IF g = h THEN part[g] \ gone ELSE part[g] OBVIOUS
<1>2. whole \ gone = UNION {next[g] : g \in Holder}
  <2>1. \A x : x \in whole <=> \E g \in Holder : x \in part[g] BY DEF Shared
  <2>2. \A x : x \in UNION {next[g] : g \in Holder} <=> \E g \in Holder : x \in next[g]
    OBVIOUS
  <2>3. \A g \in Holder : g # h => part[g] \cap gone = {} BY DEF Shared
  <2> HIDE DEF next
  <2>4. QED BY <1>1, <2>1, <2>2, <2>3
<1>3. ASSUME NEW f \in Holder, NEW g \in Holder, f # g PROVE next[f] \cap next[g] = {}
  <2>1. part[f] \cap part[g] = {} BY <1>3 DEF Shared
  <2> HIDE DEF next
  <2>2. QED BY <1>1, <1>3, <2>1
<1>4. QED BY <1>2, <1>3 DEF Shared

(* The shares are functions of the holders, and a share is part of what is *)
(* in use.                                                                 *)
LEMMA ShareFacts ==
  /\ WordsOf = [h \in Holder |-> WordsOf[h]] /\ MachinesOf = [h \in Holder |-> MachinesOf[h]]
  /\ WordsOf["direct"] = direct.words /\ WordsOf["driver"] = driver.words
  /\ MachinesOf["direct"] = direct.machines /\ MachinesOf["driver"] = driver.machines
BY DEF WordsOf, MachinesOf, Holder

LEMMA OwnShares ==
  ASSUME Sizes, NEW o \in Owner
  PROVE  /\ o \in Holder
         /\ WordsOf[o] = Copy(own[o]) /\ MachinesOf[o] = {own[o].machine} \ {Failed}
BY DEF WordsOf, MachinesOf, Holder, Sizes

LEMMA PartOfWhole ==
  ASSUME NEW whole, NEW part, Shared(whole, part), NEW h \in Holder
  PROVE  part[h] \subseteq whole
BY DEF Shared

-----------------------------------------------------------------------------
(* The invariant. *)
ProgramsInv == ProgramsTyped /\ ProgramsOwned

LEMMA ProgramsInitially == ASSUME Sizes, ProgramsInit PROVE ProgramsInv
<1>1. WordsOf = [h \in Holder |-> {}]
  BY CopyOfClosed DEF ProgramsInit, WordsOf, Holder, Nothing
<1>2. MachinesOf = [h \in Holder |-> {}]
  BY DEF ProgramsInit, MachinesOf, Holder, Nothing, Vacant
<1>3. ProgramsTyped BY DEF ProgramsInit, ProgramsTyped, Share, Nothing, Vacant
<1>4. ProgramsOwned BY <1>1, <1>2 DEF ProgramsOwned, Shared, ProgramsInit, Nothing
<1>5. QED BY <1>3, <1>4 DEF ProgramsInv

(* An object gets what it claimed and loaded. *)
LEMMA CreateMachineKeeps ==
  ASSUME Sizes, ProgramsInv, NEW o \in Owner, NEW p \in Programs, CreateMachine(o, p)
  PROVE  ProgramsInv'
<1> DEFINE R == Range(p.length, Place(p))
           x == [machine |-> Claim, offset |-> Place(p), length |-> p.length]
<1>1. Claim \in Machine \ claimed BY ClaimIsFree DEF CreateMachine
<1>2. Place(p) \in Word /\ R \subseteq Word \ used BY PlaceFits DEF CreateMachine
<1>3. Copy(x) = R BY <1>2, CopyOfPlaced
<1>4. own' = [own EXCEPT ![o] = x] /\ direct' = direct /\ driver' = driver
  BY DEF CreateMachine
<1>5. WordsOf[o] = {} /\ MachinesOf[o] = {}
  BY OwnShares, CopyOfClosed DEF CreateMachine, Vacant
<1>6. o \in Holder /\ o # "direct" /\ o # "driver" BY DEF Sizes, Holder
<1>7. Claim # Failed BY DEF CreateMachine
<1>8. own'[o] = x /\ \A q \in Owner : q # o => own'[q] = own[q]
  BY <1>4 DEF ProgramsInv, ProgramsTyped
<1>9. WordsOf' = [WordsOf EXCEPT ![o] = @ \cup R]
  <2>1. ASSUME NEW h \in Holder
        PROVE  WordsOf'[h] = IF h = o THEN R ELSE WordsOf[h]
    BY <1>3, <1>4, <1>6, <1>8 DEF WordsOf, Holder
  <2> HIDE DEF R
  <2>2. QED BY <2>1, <1>5 DEF WordsOf
<1>10. MachinesOf' = [MachinesOf EXCEPT ![o] = @ \cup {Claim}]
  <2>1. ASSUME NEW h \in Holder
        PROVE  MachinesOf'[h] = IF h = o THEN {Claim} ELSE MachinesOf[h]
    BY <1>4, <1>6, <1>7, <1>8 DEF MachinesOf, Holder
  <2>2. QED BY <2>1, <1>5 DEF MachinesOf
<1>11. Shared(used', WordsOf')
  BY <1>2, <1>6, <1>9, Given, ShareFacts DEF CreateMachine, ProgramsInv, ProgramsOwned
<1>12. Shared(claimed', MachinesOf')
  <2>1. {Claim} \cap claimed = {} BY <1>1
  <2>2. Shared(claimed, MachinesOf) BY DEF ProgramsInv, ProgramsOwned
  <2>3. Shared(claimed \cup {Claim}, [MachinesOf EXCEPT ![o] = @ \cup {Claim}])
    BY <2>1, <2>2, <1>6, Given, ShareFacts
  <2>4. QED BY <2>3, <1>10 DEF CreateMachine
<1>13. loaded' = used' \ driver'.words
  <2>1. driver.words \subseteq used
    BY PartOfWhole, ShareFacts DEF ProgramsInv, ProgramsOwned, Holder
  <2>2. QED BY <2>1, <1>2 DEF CreateMachine, ProgramsInv, ProgramsOwned
<1>14. ProgramsTyped'
  BY <1>1, <1>2, <1>4 DEF CreateMachine, ProgramsInv, ProgramsTyped
<1>15. QED BY <1>11, <1>12, <1>13, <1>14 DEF ProgramsInv, ProgramsOwned

(* Nothing the invariant speaks of changes. *)
LEMMA StutterKeeps == ASSUME ProgramsInv, UNCHANGED programsVars PROVE ProgramsInv'
<1>1. WordsOf' = WordsOf /\ MachinesOf' = MachinesOf
  BY DEF WordsOf, MachinesOf, Copy, programsVars
<1>2. ProgramsTyped' BY DEF ProgramsInv, ProgramsTyped, programsVars
<1>3. ProgramsOwned'
  <2>1. Shared(used', WordsOf') BY <1>1 DEF ProgramsInv, ProgramsOwned, programsVars
  <2>2. Shared(claimed', MachinesOf') BY <1>1 DEF ProgramsInv, ProgramsOwned, programsVars
  <2>3. loaded' = used' \ driver'.words BY DEF ProgramsInv, ProgramsOwned, programsVars
  <2>4. QED BY <2>1, <2>2, <2>3 DEF ProgramsOwned
<1>4. QED BY <1>2, <1>3 DEF ProgramsInv

(* What a failed Create got it gives back. *)
LEMMA CreateFailedKeeps ==
  ASSUME Sizes, ProgramsInv, NEW o \in Owner, NEW p \in Programs, CreateMachineFailed(o, p)
  PROVE  ProgramsInv'
<1> DEFINE x == [machine |-> Claim, offset |-> Place(p), length |-> p.length]
<1>1. Copy(x) \cap used = {}
  <2>1. CASE Place(p) = Failed BY <2>1 DEF Copy, Failed
  <2>2. CASE Place(p) # Failed BY <2>2, PlaceFits, CopyOfPlaced
  <2>3. QED BY <2>1, <2>2
<1>2. loaded \subseteq used BY DEF ProgramsInv, ProgramsOwned
<1>3. used' = used /\ loaded' = loaded /\ claimed' = claimed
  BY <1>1, <1>2 DEF CreateMachineFailed, Held
<1>4. UNCHANGED programsVars BY <1>3 DEF CreateMachineFailed, programsVars
<1>5. QED BY <1>4, StutterKeeps

(* Closing an object gives back its words and its machine, and no others.  *)
LEMMA CloseKeeps ==
  ASSUME Sizes, ProgramsInv, NEW o \in Owner, CloseMachine(o)
  PROVE  ProgramsInv'
<1> DEFINE R == Copy(own[o])
<1>1. o \in Holder /\ o # "direct" /\ o # "driver" BY DEF Sizes, Holder
<1>2. WordsOf[o] = R /\ MachinesOf[o] = {own[o].machine} \ {Failed} BY OwnShares
<1>3. R \subseteq loaded
  <2>1. R \subseteq used BY <1>1, <1>2, PartOfWhole DEF ProgramsInv, ProgramsOwned
  <2>2. R \cap driver.words = {}
    BY <1>1, <1>2, ShareFacts DEF ProgramsInv, ProgramsOwned, Shared, Holder
  <2>3. QED BY <2>1, <2>2 DEF ProgramsInv, ProgramsOwned
<1>4. used' = used \ R /\ loaded' = loaded \ R
  BY <1>3 DEF CloseMachine, Held, Removable
<1>5. claimed' = claimed \ MachinesOf[o]
  <2>1. Failed \notin claimed BY DEF ProgramsInv, ProgramsTyped, Machine, Failed, Sizes
  <2>2. QED BY <2>1, <1>2 DEF CloseMachine
<1>6. own' = [own EXCEPT ![o] = Vacant] /\ direct' = direct /\ driver' = driver
  BY DEF CloseMachine
<1>7. own'[o] = Vacant /\ \A q \in Owner : q # o => own'[q] = own[q]
  BY <1>6 DEF ProgramsInv, ProgramsTyped
<1>8. WordsOf' = [WordsOf EXCEPT ![o] = @ \ R]
  <2>1. ASSUME NEW h \in Holder
        PROVE  WordsOf'[h] = IF h = o THEN {} ELSE WordsOf[h]
    BY <1>1, <1>6, <1>7, CopyOfClosed DEF WordsOf, Holder
  <2> HIDE DEF R
  <2>2. QED BY <2>1, <1>2 DEF WordsOf
<1>9. MachinesOf' = [MachinesOf EXCEPT ![o] = @ \ MachinesOf[o]]
  <2>1. ASSUME NEW h \in Holder
        PROVE  MachinesOf'[h] = IF h = o THEN {} ELSE MachinesOf[h]
    BY <1>1, <1>6, <1>7 DEF MachinesOf, Holder, Vacant
  <2>2. QED BY <2>1 DEF MachinesOf
<1>10. Shared(used', WordsOf')
  BY <1>1, <1>2, <1>4, <1>8, TakenBack, ShareFacts DEF ProgramsInv, ProgramsOwned
<1>11. Shared(claimed', MachinesOf')
  BY <1>1, <1>5, <1>9, TakenBack, ShareFacts DEF ProgramsInv, ProgramsOwned
<1>12. loaded' = used' \ driver'.words BY <1>4, <1>6 DEF ProgramsInv, ProgramsOwned
<1>13. ProgramsTyped'
  BY <1>4, <1>5, <1>6 DEF ProgramsInv, ProgramsTyped, Vacant
<1>14. QED BY <1>10, <1>11, <1>12, <1>13 DEF ProgramsInv, ProgramsOwned

(* The direct calls and the driver: each changes the share of one name.    *)
LEMMA ShareOfName ==
  ASSUME Sizes, own' = own,
         NEW h \in {"direct", "driver"},
         h = "direct" => driver' = driver, h = "driver" => direct' = direct
  PROVE  /\ h \in Holder
         /\ WordsOf' = [WordsOf EXCEPT ![h] = WordsOf'[h]]
         /\ MachinesOf' = [MachinesOf EXCEPT ![h] = MachinesOf'[h]]
<1>1. ASSUME NEW g \in Holder, g # h
      PROVE  WordsOf'[g] = WordsOf[g] /\ MachinesOf'[g] = MachinesOf[g]
  BY <1>1 DEF WordsOf, MachinesOf, Holder
<1>2. h \in Holder BY DEF Holder
<1>3. WordsOf' = [g \in Holder |-> WordsOf'[g]] /\ MachinesOf' = [g \in Holder |-> MachinesOf'[g]]
  BY DEF WordsOf, MachinesOf
<1>4. QED BY <1>1, <1>2, <1>3, ShareFacts

LEMMA AddProgramKeeps ==
  ASSUME Sizes, ProgramsInv, NEW p \in Programs, AddProgram(p)
  PROVE  ProgramsInv'
<1> DEFINE R == Range(p.length, Place(p))
<1>1. R \subseteq Word \ used BY PlaceFits DEF AddProgram
<1>2. direct' = [direct EXCEPT !.words = @ \cup R] /\ driver' = driver /\ own' = own
  BY DEF AddProgram
<1>3. direct'.words = direct.words \cup R /\ direct'.machines = direct.machines
  BY <1>2 DEF ProgramsInv, ProgramsTyped, Share
<1>4. "direct" \in Holder BY DEF Holder
<1>5. WordsOf' = [WordsOf EXCEPT !["direct"] = @ \cup R] /\ MachinesOf' = MachinesOf
  <2>1. WordsOf'["direct"] = WordsOf["direct"] \cup R /\ MachinesOf'["direct"] = MachinesOf["direct"]
    BY <1>3, <1>4 DEF WordsOf, MachinesOf
  <2>2. QED BY <2>1, <1>2, ShareOfName, ShareFacts
<1>6. Shared(used', WordsOf')
  <2>1. Shared(used \cup R, [WordsOf EXCEPT !["direct"] = @ \cup R])
    BY <1>1, <1>4, Given, ShareFacts DEF ProgramsInv, ProgramsOwned
  <2>2. QED BY <2>1, <1>5 DEF AddProgram
<1>7. Shared(claimed', MachinesOf') BY <1>5 DEF AddProgram, ProgramsInv, ProgramsOwned
<1>8. loaded' = used' \ driver'.words
  <2>1. driver.words \subseteq used
    BY PartOfWhole, ShareFacts DEF ProgramsInv, ProgramsOwned, Holder
  <2>2. QED BY <2>1, <1>1, <1>2 DEF AddProgram, ProgramsInv, ProgramsOwned
<1>9. ProgramsTyped' BY <1>1, <1>2 DEF AddProgram, ProgramsInv, ProgramsTyped, Share
<1>10. QED BY <1>6, <1>7, <1>8, <1>9 DEF ProgramsInv, ProgramsOwned

LEMMA RemoveProgramKeeps ==
  ASSUME Sizes, ProgramsInv, NEW length, NEW offset, RemoveProgram(length, offset)
  PROVE  ProgramsInv'
<1> DEFINE R == Range(length, offset)
<1>1. direct' = [direct EXCEPT !.words = @ \ R] /\ driver' = driver /\ own' = own
  BY DEF RemoveProgram
<1>2. direct'.words = direct.words \ R /\ direct'.machines = direct.machines
  BY <1>1 DEF ProgramsInv, ProgramsTyped, Share
<1>3. "direct" \in Holder BY DEF Holder
<1>4. R \subseteq direct.words
  <2>1. R \subseteq loaded /\ R \cap Kept = {} BY DEF RemoveProgram, Removable
  <2>2. ASSUME NEW x \in R PROVE x \in direct.words
    <3>1. x \in used /\ x \notin driver.words BY <2>1, <2>2 DEF ProgramsInv, ProgramsOwned
    <3>2. PICK h \in Holder : x \in WordsOf[h] BY <3>1 DEF ProgramsInv, ProgramsOwned, Shared
    <3>3. h \notin Owner BY <2>1, <2>2, <3>2, OwnShares DEF Kept
    <3>4. QED BY <3>1, <3>2, <3>3, ShareFacts DEF Holder
  <2>3. QED BY <2>2
<1>5. WordsOf' = [WordsOf EXCEPT !["direct"] = @ \ R] /\ MachinesOf' = MachinesOf
  <2>1. WordsOf'["direct"] = WordsOf["direct"] \ R /\ MachinesOf'["direct"] = MachinesOf["direct"]
    BY <1>2, <1>3 DEF WordsOf, MachinesOf
  <2>2. QED BY <2>1, <1>1, ShareOfName, ShareFacts
<1>6. Shared(used', WordsOf')
  <2>1. Shared(used \ R, [WordsOf EXCEPT !["direct"] = @ \ R])
    BY <1>3, <1>4, TakenBack, ShareFacts DEF ProgramsInv, ProgramsOwned
  <2>2. QED BY <2>1, <1>5 DEF RemoveProgram
<1>7. Shared(claimed', MachinesOf') BY <1>5 DEF RemoveProgram, ProgramsInv, ProgramsOwned
<1>8. loaded' = used' \ driver'.words BY <1>1 DEF RemoveProgram, ProgramsInv, ProgramsOwned
<1>9. ProgramsTyped' BY <1>1 DEF RemoveProgram, ProgramsInv, ProgramsTyped, Share
<1>10. QED BY <1>6, <1>7, <1>8, <1>9 DEF ProgramsInv, ProgramsOwned

LEMMA ClaimMachineKeeps ==
  ASSUME Sizes, ProgramsInv, ClaimMachine
  PROVE  ProgramsInv'
<1>1. Claim \in Machine \ claimed BY ClaimIsFree DEF ClaimMachine
<1>2. direct' = [direct EXCEPT !.machines = @ \cup {Claim}] /\ driver' = driver /\ own' = own
  BY DEF ClaimMachine
<1>3. direct'.machines = direct.machines \cup {Claim} /\ direct'.words = direct.words
  BY <1>2 DEF ProgramsInv, ProgramsTyped, Share
<1>4. "direct" \in Holder BY DEF Holder
<1>5. MachinesOf' = [MachinesOf EXCEPT !["direct"] = @ \cup {Claim}] /\ WordsOf' = WordsOf
  <2>1. /\ MachinesOf'["direct"] = MachinesOf["direct"] \cup {Claim}
        /\ WordsOf'["direct"] = WordsOf["direct"]
    BY <1>3, <1>4 DEF WordsOf, MachinesOf
  <2>2. QED BY <2>1, <1>2, ShareOfName, ShareFacts
<1>6. Shared(claimed', MachinesOf')
  <2>1. {Claim} \cap claimed = {} BY <1>1
  <2>2. Shared(claimed, MachinesOf) BY DEF ProgramsInv, ProgramsOwned
  <2>3. Shared(claimed \cup {Claim}, [MachinesOf EXCEPT !["direct"] = @ \cup {Claim}])
    BY <2>1, <2>2, <1>4, Given, ShareFacts
  <2>4. QED BY <2>3, <1>5 DEF ClaimMachine
<1>7. Shared(used', WordsOf') /\ loaded' = used' \ driver'.words
  BY <1>2, <1>5 DEF ClaimMachine, ProgramsInv, ProgramsOwned
<1>8. ProgramsTyped' BY <1>1, <1>2 DEF ClaimMachine, ProgramsInv, ProgramsTyped, Share
<1>9. QED BY <1>6, <1>7, <1>8 DEF ProgramsInv, ProgramsOwned

LEMMA UnclaimMachineKeeps ==
  ASSUME Sizes, ProgramsInv, NEW m, UnclaimMachine(m)
  PROVE  ProgramsInv'
<1>1. direct' = [direct EXCEPT !.machines = @ \ {m}] /\ driver' = driver /\ own' = own
  BY DEF UnclaimMachine
<1>2. direct'.machines = direct.machines \ {m} /\ direct'.words = direct.words
  BY <1>1 DEF ProgramsInv, ProgramsTyped, Share
<1>3. "direct" \in Holder BY DEF Holder
<1>4. MachinesOf' = [MachinesOf EXCEPT !["direct"] = @ \ {m}] /\ WordsOf' = WordsOf
  <2>1. /\ MachinesOf'["direct"] = MachinesOf["direct"] \ {m}
        /\ WordsOf'["direct"] = WordsOf["direct"]
    BY <1>2, <1>3 DEF WordsOf, MachinesOf
  <2>2. QED BY <2>1, <1>1, ShareOfName, ShareFacts
<1>5. Shared(claimed', MachinesOf')
  <2>1. {m} \subseteq MachinesOf["direct"] BY ShareFacts DEF UnclaimMachine
  <2>2. Shared(claimed \ {m}, [MachinesOf EXCEPT !["direct"] = @ \ {m}])
    BY <2>1, <1>3, TakenBack, ShareFacts DEF ProgramsInv, ProgramsOwned
  <2>3. QED BY <2>2, <1>4 DEF UnclaimMachine
<1>6. Shared(used', WordsOf') /\ loaded' = used' \ driver'.words
  BY <1>1, <1>4 DEF UnclaimMachine, ProgramsInv, ProgramsOwned
<1>7. ProgramsTyped' BY <1>1 DEF UnclaimMachine, ProgramsInv, ProgramsTyped, Share
<1>8. QED BY <1>5, <1>6, <1>7 DEF ProgramsInv, ProgramsOwned

LEMMA DriverStartsKeeps ==
  ASSUME Sizes, ProgramsInv, NEW p \in Programs, DriverStarts(p)
  PROVE  ProgramsInv'
<1> DEFINE R == Range(p.length, Place(p))
<1>1. Claim \in Machine \ claimed BY ClaimIsFree DEF DriverStarts
<1>2. R \subseteq Word \ used BY PlaceFits DEF DriverStarts
<1>3. /\ driver.words = {} /\ driver.machines = {}
      /\ driver'.words = R /\ driver'.machines = {Claim}
      /\ direct' = direct /\ own' = own
  BY DEF DriverStarts, Nothing
<1>4. "driver" \in Holder BY DEF Holder
<1>5. /\ WordsOf' = [WordsOf EXCEPT !["driver"] = @ \cup R]
      /\ MachinesOf' = [MachinesOf EXCEPT !["driver"] = @ \cup {Claim}]
  <2>1. /\ WordsOf'["driver"] = WordsOf["driver"] \cup R
        /\ MachinesOf'["driver"] = MachinesOf["driver"] \cup {Claim}
    BY <1>3, <1>4 DEF WordsOf, MachinesOf
  <2>2. QED BY <2>1, <1>3, ShareOfName
<1>6. Shared(used', WordsOf')
  <2>1. Shared(used \cup R, [WordsOf EXCEPT !["driver"] = @ \cup R])
    BY <1>2, <1>4, Given, ShareFacts DEF ProgramsInv, ProgramsOwned
  <2>2. QED BY <2>1, <1>5 DEF DriverStarts
<1>7. Shared(claimed', MachinesOf')
  <2>1. {Claim} \cap claimed = {} BY <1>1
  <2>2. Shared(claimed, MachinesOf) BY DEF ProgramsInv, ProgramsOwned
  <2>3. Shared(claimed \cup {Claim}, [MachinesOf EXCEPT !["driver"] = @ \cup {Claim}])
    BY <2>1, <2>2, <1>4, Given, ShareFacts
  <2>4. QED BY <2>3, <1>5 DEF DriverStarts
<1>8. loaded' = used' \ driver'.words
  BY <1>2, <1>3 DEF DriverStarts, ProgramsInv, ProgramsOwned
<1>9. ProgramsTyped' BY <1>1, <1>2 DEF DriverStarts, ProgramsInv, ProgramsTyped, Share
<1>10. QED BY <1>6, <1>7, <1>8, <1>9 DEF ProgramsInv, ProgramsOwned

LEMMA DriverStopsKeeps ==
  ASSUME Sizes, ProgramsInv, DriverStops
  PROVE  ProgramsInv'
<1>1. /\ driver'.words = {} /\ driver'.machines = {}
      /\ direct' = direct /\ own' = own
  BY DEF DriverStops, Nothing
<1>2. "driver" \in Holder BY DEF Holder
<1>3. /\ WordsOf' = [WordsOf EXCEPT !["driver"] = @ \ driver.words]
      /\ MachinesOf' = [MachinesOf EXCEPT !["driver"] = @ \ driver.machines]
  <2>1. /\ WordsOf'["driver"] = WordsOf["driver"] \ driver.words
        /\ MachinesOf'["driver"] = MachinesOf["driver"] \ driver.machines
    BY <1>1, <1>2 DEF WordsOf, MachinesOf
  <2>2. QED BY <2>1, <1>1, ShareOfName
<1>4. Shared(used', WordsOf')
  <2>1. Shared(used \ driver.words, [WordsOf EXCEPT !["driver"] = @ \ driver.words])
    BY <1>2, TakenBack, ShareFacts DEF ProgramsInv, ProgramsOwned
  <2>2. QED BY <2>1, <1>3 DEF DriverStops
<1>5. Shared(claimed', MachinesOf')
  <2>1. Shared(claimed \ driver.machines, [MachinesOf EXCEPT !["driver"] = @ \ driver.machines])
    BY <1>2, TakenBack, ShareFacts DEF ProgramsInv, ProgramsOwned
  <2>2. QED BY <2>1, <1>3 DEF DriverStops
<1>6. loaded' = used' \ driver'.words BY <1>1 DEF DriverStops, ProgramsInv, ProgramsOwned
<1>7. ProgramsTyped' BY DEF DriverStops, ProgramsInv, ProgramsTyped, Share, Nothing
<1>8. QED BY <1>4, <1>5, <1>6, <1>7 DEF ProgramsInv, ProgramsOwned

-----------------------------------------------------------------------------
LEMMA StepKeeps == ASSUME Sizes, ProgramsInv, [ProgramsNext]_programsVars PROVE ProgramsInv'
<1>1. CASE UNCHANGED programsVars
  BY <1>1, StutterKeeps
<1>2. CASE \E p \in Programs : AddProgram(p) \/ DriverStarts(p)
  BY <1>2, AddProgramKeeps, DriverStartsKeeps
<1>3. CASE \E p \in Programs, o \in Owner : CreateMachine(o, p) \/ CreateMachineFailed(o, p)
  BY <1>3, CreateMachineKeeps, CreateFailedKeeps
<1>4. CASE \E o \in Owner : CloseMachine(o) BY <1>4, CloseKeeps
<1>5. CASE \E length \in 1 .. Memory, offset \in Word : RemoveProgram(length, offset)
  BY <1>5, RemoveProgramKeeps
<1>6. CASE \E m \in Machine : UnclaimMachine(m) BY <1>6, UnclaimMachineKeeps
<1>7. CASE ClaimMachine \/ DriverStops BY <1>7, ClaimMachineKeeps, DriverStopsKeeps
<1>8. QED BY <1>1, <1>2, <1>3, <1>4, <1>5, <1>6, <1>7 DEF ProgramsNext

(* The tables and the objects keep their types. *)
THEOREM TypeCorrect == ASSUME Sizes PROVE ProgramsSpec => []ProgramsTyped
<1>1. ProgramsInit => ProgramsInv BY ProgramsInitially
<1>2. ProgramsInv /\ [ProgramsNext]_programsVars => ProgramsInv' BY StepKeeps
<1>3. ProgramsInv => ProgramsTyped BY DEF ProgramsInv
<1>4. QED BY <1>1, <1>2, <1>3, PTL DEF ProgramsSpec

(* Every word and every machine in use has one owner, whatever fails half  *)
(* way and whatever is removed, and nothing without an owner is in use.    *)
THEOREM OneOwner == ASSUME Sizes PROVE ProgramsSpec => []ProgramsOwned
<1>1. ProgramsInit => ProgramsInv BY ProgramsInitially
<1>2. ProgramsInv /\ [ProgramsNext]_programsVars => ProgramsInv' BY StepKeeps
<1>3. ProgramsInv => ProgramsOwned BY DEF ProgramsInv
<1>4. QED BY <1>1, <1>2, <1>3, PTL DEF ProgramsSpec
=============================================================================
