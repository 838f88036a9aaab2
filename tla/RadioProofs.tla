---------------------------- MODULE RadioProofs ----------------------------
(***************************************************************************)
(* Proofs about Radio for any link states, sockets, scans and capacity.    *)
(*                                                                         *)
(* Neither invariant of the run is inductive.  That the radio is on while  *)
(* claimed needs to hold inside calls too, and that nobody holds a socket  *)
(* while BLE alone is powering on (Held).  That events form a history      *)
(* needs to know how far the last scan has been told (LastScan), and that  *)
(* nothing waits without Wi-Fi (Fresh).                                    *)
(***************************************************************************)
EXTENDS Radio, TLAPS

(* The completion of a scan is owed to the program.                        *)
Owed == scanRequested \/ pc = "scanStarted"

Held ==
  /\ initialized <=> wifi \/ ble
  /\ pc = "powerOn" => ble /\ (wifi \/ sockets = 0)
  /\ pc \in {"scanStarted", "readLink", "report"} => wifi
  /\ sockets > 0 => initialized
  /\ sta \/ ap \/ ScanBusy => wifi
  /\ scanning => Owed

Fresh == ~wifi => queue = <<>> /\ seen = 2 * scans + 1

(* How far the last scan may have been told: until its completion is       *)
(* queued, its results at most.                                            *)
Reached == IF Owed THEN {2 * scans - 1, 2 * scans} ELSE {2 * scans + 1}

LastScan ==
  \A i \in 0 .. Len(queue) : Precedes("scan", i, End) => RankAt(i) \in Reached

ScanHistory == LastScan /\ ScanEventsOrdered

IInv == TypeOK /\ Held /\ Fresh /\ ScanHistory /\ LinkHistory

-----------------------------------------------------------------------------
(* What the proofs use of the constants and the types. *)
LEMMA ConstantFacts ==
  /\ Down \in Status /\ MaxScans \in Nat /\ MaxSockets \in Nat
  /\ Capacity \in Nat \ {0} /\ MaxDropped \in Nat \ {0}
  BY RadioAssumption

LEMMA EventTypes ==
  /\ \A n \in 0 .. MaxScans : Result(n) \in Event /\ Complete(n) \in Event
  /\ \A s \in Status : LinkState(s) \in Event
<1>1. ASSUME NEW n \in 0 .. MaxScans PROVE Result(n) \in Event /\ Complete(n) \in Event
  <2>1. 2 * n \in Rank /\ 2 * n + 1 \in Rank BY ConstantFacts DEF Rank
  <2>2. QED BY <2>1 DEF Result, Complete, Event
<1>2. QED BY <1>1 DEF LinkState, Event

LEMMA EventFields ==
  ASSUME NEW e \in Event
  PROVE  /\ e.kind = "scan" => e.rank \in Rank
         /\ e.kind # "scan" => e.kind = "link" /\ e.status \in Status
  BY DEF Event

LEMMA RankFacts ==
  ASSUME NEW n \in Nat, NEW r \in {2 * n - 1, 2 * n}
  PROVE  Follows(r, 2 * n) /\ Follows(r, 2 * n + 1)
<1>1. (2 * n) % 2 = 0 /\ (2 * n - 1) % 2 = 1 OBVIOUS
<1>2. QED BY <1>1 DEF Follows

-----------------------------------------------------------------------------
(* The queue grows at its end, or loses its head. *)

Appends(e) ==
  /\ Len(queue') = Len(queue) + 1
  /\ \A i \in 1 .. Len(queue) : queue'[i] = queue[i]
  /\ queue'[Len(queue) + 1] = e

LosesHead ==
  /\ Len(queue) \in Nat \ {0}
  /\ Len(queue') = Len(queue) - 1
  /\ \A i \in 1 .. Len(queue) - 1 : queue'[i] = queue[i + 1]

MailTyped ==
  /\ queue' \in Seq(Event) /\ Len(queue') <= Capacity
  /\ dropped' \in 0 .. MaxDropped

LEMMA PostFacts ==
  ASSUME TypeOK, NEW e \in Event, Post(e)
  PROVE  /\ MailTyped
         /\ IF Stored THEN Appends(e) ELSE queue' = queue
<1>1. Len(queue) \in Nat /\ queue \in Seq(Event) /\ Capacity \in Nat
  BY ConstantFacts DEF TypeOK
<1>2. CASE Mail!Accept(e)
  <2>1. queue' = Append(queue, e) /\ dropped' = dropped /\ Len(queue) < Capacity
    BY <1>2 DEF Mail!Accept
  <2>2. queue' \in Seq(Event) /\ Len(queue') = Len(queue) + 1 BY <1>1, <2>1
  <2>3. Appends(e) BY <1>1, <2>1, <2>2 DEF Appends
  <2>4. MailTyped BY <1>1, <2>1, <2>2 DEF MailTyped, TypeOK
  <2>5. QED BY <2>1, <2>3, <2>4 DEF Stored
<1>3. CASE Mail!Refuse
  BY <1>1, <1>3, ConstantFacts DEF Mail!Refuse, MailTyped, Stored, TypeOK
<1>4. QED BY <1>2, <1>3 DEF Post

LEMMA TakeFacts ==
  ASSUME TypeOK, Mail!Take
  PROVE  /\ MailTyped /\ LosesHead
         /\ Head(queue) \in Event /\ Head(queue) = queue[1]
<1>1. queue \in Seq(Event) /\ Len(queue) \in Nat /\ Len(queue) <= Capacity
        /\ Capacity \in Nat /\ dropped \in 0 .. MaxDropped
  BY ConstantFacts DEF TypeOK
<1>2. queue # <<>> /\ queue' = Tail(queue) /\ dropped' = dropped BY DEF Mail!Take
<1>3. queue' \in Seq(Event) /\ Len(queue') = Len(queue) - 1 /\ Len(queue) # 0
  BY <1>1, <1>2
<1>4. LosesHead BY <1>1, <1>2, <1>3 DEF LosesHead
<1>5. Head(queue) \in Event /\ Head(queue) = queue[1] BY <1>1, <1>2
<1>6. QED BY <1>1, <1>2, <1>3, <1>4, <1>5 DEF MailTyped

(* A new entry changes nothing before it, and is the last of its kind.     *)
LEMMA AppendedOrder ==
  ASSUME Len(queue) \in Nat, NEW e, Appends(e), NEW kind
  PROVE  /\ \A i \in 0 .. Len(queue), j \in 1 .. Len(queue) + 1 :
              Precedes(kind, i, j)' <=> Precedes(kind, i, j)
         /\ \A i \in 0 .. Len(queue) + 1 : Precedes(kind, i, End)' =>
              IF e.kind = kind THEN i = Len(queue) + 1
              ELSE i \in 0 .. Len(queue) /\ Precedes(kind, i, Len(queue) + 1)
<1> USE DEF Precedes, Appends, End
<1>1. ASSUME NEW i \in 0 .. Len(queue), NEW j \in 1 .. Len(queue) + 1
      PROVE  Precedes(kind, i, j)' <=> Precedes(kind, i, j)
  <2>1. \A k \in i + 1 .. j - 1 : k \in 1 .. Len(queue) OBVIOUS
  <2>2. i = 0 \/ i \in 1 .. Len(queue) OBVIOUS
  <2>3. QED BY <2>1, <2>2
<1>2. ASSUME NEW i \in 0 .. Len(queue) + 1, Precedes(kind, i, End)'
      PROVE  IF e.kind = kind THEN i = Len(queue) + 1
             ELSE i \in 0 .. Len(queue) /\ Precedes(kind, i, Len(queue) + 1)
  <2>1. i = 0 \/ queue'[i].kind = kind BY <1>2
  <2>2. \A k \in i + 1 .. Len(queue) + 1 : queue'[k].kind # kind BY <1>2
  <2>3. CASE e.kind = kind
    <3>1. Len(queue) + 1 \notin i + 1 .. Len(queue) + 1 BY <2>2, <2>3
    <3>2. QED BY <2>3, <3>1
  <2>4. CASE e.kind # kind
    <3>1. i \in 0 .. Len(queue) BY <2>1, <2>4
    <3>2. i = 0 \/ queue[i].kind = kind BY <2>1, <3>1
    <3>3. \A k \in i + 1 .. Len(queue) : queue[k].kind # kind BY <2>2, <3>1
    <3>4. QED BY <2>4, <3>1, <3>2, <3>3
  <2>5. QED BY <2>3, <2>4
<1>3. QED BY <1>1, <1>2

(* Without its head the queue is the same one place further on; if the     *)
(* head is of the kind it becomes the last entry taken.                    *)
LEMMA HeadlessOrder ==
  ASSUME LosesHead, NEW kind,
         NEW i \in 0 .. Len(queue) - 1, NEW j \in 1 .. Len(queue), Precedes(kind, i, j)'
  PROVE  IF i = 0 /\ queue[1].kind # kind THEN Precedes(kind, 0, j + 1)
         ELSE Precedes(kind, i + 1, j + 1)
<1> USE DEF LosesHead, Precedes
<1>1. i < j /\ (i = 0 \/ queue'[i].kind = kind)
        /\ \A k \in i + 1 .. j - 1 : queue'[k].kind # kind
  OBVIOUS
<1>2. ASSUME NEW k \in i + 2 .. j PROVE queue[k].kind # kind
  <2>1. k - 1 \in i + 1 .. j - 1 /\ k - 1 \in 1 .. Len(queue) - 1 /\ (k - 1) + 1 = k
    BY <1>2
  <2>2. QED BY <1>1, <2>1
<1>3. CASE i = 0 /\ queue[1].kind # kind
  <2>1. \A k \in 1 .. j : queue[k].kind # kind BY <1>2, <1>3
  <2>2. QED BY <1>3, <2>1
<1>4. CASE i = 0 /\ queue[1].kind = kind BY <1>1, <1>2, <1>4
<1>5. CASE i # 0
  <2>1. queue[i + 1].kind = kind BY <1>1, <1>5
  <2>2. QED BY <1>1, <1>2, <1>5, <2>1
<1>6. QED BY <1>3, <1>4, <1>5

-----------------------------------------------------------------------------
(* What the program is told stays a history when an event is queued ...    *)

LEMMA ScanQueued ==
  ASSUME TypeOK, NEW e \in Event, Appends(e), e.kind = "scan", UNCHANGED taken,
         ScanEventsOrdered,
         \A i \in 0 .. Len(queue) : Precedes("scan", i, End) => Follows(RankAt(i), e.rank)
  PROVE  /\ ScanEventsOrdered'
         /\ \A i \in 0 .. Len(queue') : Precedes("scan", i, End)' => RankAt(i)' = e.rank
<1>1. Len(queue) \in Nat /\ Len(queue') = Len(queue) + 1
        /\ queue'[Len(queue) + 1] = e /\ seen' = seen
        /\ (\A i \in 1 .. Len(queue) : queue'[i] = queue[i])
  BY DEF TypeOK, Appends, taken
<1>2. \A i \in 0 .. Len(queue) : RankAt(i)' = RankAt(i) BY <1>1 DEF RankAt
<1>3. ASSUME NEW j \in 1 .. Len(queue'), NEW i \in 0 .. j,
             queue'[j].kind = "scan", Precedes("scan", i, j)'
      PROVE  Follows(RankAt(i)', queue'[j].rank)
  <2>1. i \in 0 .. Len(queue) /\ j \in 1 .. Len(queue) + 1 BY <1>1, <1>3 DEF Precedes
  <2>2. Precedes("scan", i, j) BY <1>1, <1>3, <2>1, AppendedOrder
  <2>3. CASE j = Len(queue) + 1 BY <1>1, <1>2, <2>1, <2>2, <2>3 DEF End
  <2>4. CASE j # Len(queue) + 1
    <3>1. j \in Place /\ queue'[j] = queue[j] BY <1>1, <2>1, <2>4 DEF Place
    <3>2. QED BY <1>2, <1>3, <2>1, <2>2, <3>1 DEF ScanEventsOrdered
  <2>5. QED BY <2>3, <2>4
<1>4. ScanEventsOrdered' BY <1>3 DEF ScanEventsOrdered, Place, Follows
<1>5. ASSUME NEW i \in 0 .. Len(queue'), Precedes("scan", i, End)'
      PROVE  RankAt(i)' = e.rank
  <2>1. i \in 0 .. Len(queue) + 1 BY <1>1
  <2>2. i = Len(queue) + 1 BY <1>1, <1>5, <2>1, AppendedOrder
  <2>3. QED BY <1>1, <2>2 DEF RankAt
<1>6. QED BY <1>4, <1>5

LEMMA LinkQueued ==
  ASSUME TypeOK, NEW s \in Status, Appends(LinkState(s)), UNCHANGED taken,
         s # lastLink, lastLink' = s, LinkChanges, LinkEnds
  PROVE  LinkChanges' /\ LinkEnds'
<1> DEFINE e == LinkState(s)
<1>0. e.kind = "link" /\ e.status = s /\ e \in Event BY EventTypes DEF LinkState
<1> HIDE DEF e
<1>1. Len(queue) \in Nat /\ Len(queue') = Len(queue) + 1
        /\ queue'[Len(queue) + 1] = e /\ seen' = seen /\ told' = told
        /\ (\A i \in 1 .. Len(queue) : queue'[i] = queue[i]) /\ Appends(e)
  BY DEF TypeOK, Appends, taken, e
<1>2. \A i \in 0 .. Len(queue) : StatusAt(i)' = StatusAt(i)
  BY <1>1 DEF StatusAt
<1>3. ASSUME NEW j \in 1 .. Len(queue'), NEW i \in 0 .. j,
             queue'[j].kind = "link", Precedes("link", i, j)'
      PROVE  StatusAt(i)' # queue'[j].status
  <2>1. i \in 0 .. Len(queue) /\ j \in 1 .. Len(queue) + 1 BY <1>1, <1>3 DEF Precedes
  <2>2. Precedes("link", i, j) BY <1>1, <1>3, <2>1, AppendedOrder
  <2>3. CASE j = Len(queue) + 1
    <3>1. StatusAt(i) = lastLink BY <2>1, <2>2, <2>3 DEF LinkEnds, End
    <3>2. QED BY <1>0, <1>1, <1>2, <2>1, <2>3, <3>1
  <2>4. CASE j # Len(queue) + 1
    <3>1. j \in Place /\ queue'[j] = queue[j] BY <1>1, <2>1, <2>4 DEF Place
    <3>2. QED BY <1>2, <1>3, <2>1, <2>2, <3>1 DEF LinkChanges
  <2>5. QED BY <2>3, <2>4
<1>4. LinkChanges' BY <1>3 DEF LinkChanges, Place
<1>5. ASSUME NEW i \in 0 .. Len(queue'), Precedes("link", i, End)'
      PROVE  StatusAt(i)' = lastLink'
  <2>1. i = Len(queue) + 1 BY <1>0, <1>1, <1>5, AppendedOrder
  <2>2. QED BY <1>0, <1>1, <2>1 DEF StatusAt
<1>6. QED BY <1>4, <1>5 DEF LinkEnds

(* A scan event changes nothing about the link. *)
LEMMA ScanQueuedLinks ==
  ASSUME TypeOK, NEW e \in Event, Appends(e), e.kind = "scan", UNCHANGED <<taken, lastLink>>
  PROVE  /\ LinkChanges => LinkChanges'
         /\ LinkEnds => LinkEnds'
<1>1. Len(queue) \in Nat /\ Len(queue') = Len(queue) + 1
        /\ queue'[Len(queue) + 1] = e /\ told' = told
        /\ (\A i \in 1 .. Len(queue) : queue'[i] = queue[i])
  BY DEF TypeOK, Appends, taken
<1>2. \A i \in 0 .. Len(queue) : StatusAt(i)' = StatusAt(i) BY <1>1 DEF StatusAt
<1>3. ASSUME LinkChanges, NEW j \in 1 .. Len(queue'), NEW i \in 0 .. j,
             queue'[j].kind = "link", Precedes("link", i, j)'
      PROVE  StatusAt(i)' # queue'[j].status
  <2>1. j \in Place /\ i \in 0 .. Len(queue) BY <1>1, <1>3 DEF Place, Precedes
  <2>2. Precedes("link", i, j) BY <1>1, <1>3, <2>1, AppendedOrder DEF Place
  <2>3. QED BY <1>1, <1>2, <1>3, <2>1, <2>2 DEF LinkChanges, Place
<1>4. LinkChanges => LinkChanges' BY <1>3 DEF LinkChanges, Place
<1>5. ASSUME LinkEnds, NEW i \in 0 .. Len(queue'),
             Precedes("link", i, End)'
      PROVE  StatusAt(i)' = lastLink'
  <2>1. i \in 0 .. Len(queue) /\ Precedes("link", i, Len(queue) + 1)
    BY <1>1, <1>5, AppendedOrder
  <2>2. QED BY <1>2, <1>5, <2>1 DEF LinkEnds, End
<1>6. QED BY <1>4, <1>5 DEF LinkEnds

(* A link event changes nothing about the scans. *)
LEMMA LinkQueuedScans ==
  ASSUME TypeOK, NEW e \in Event, Appends(e), e.kind = "link", UNCHANGED <<taken, scan>>,
         Owed' <=> Owed, ScanHistory
  PROVE  ScanHistory'
<1>1. Len(queue) \in Nat /\ Len(queue') = Len(queue) + 1
        /\ queue'[Len(queue) + 1] = e /\ seen' = seen
        /\ (\A i \in 1 .. Len(queue) : queue'[i] = queue[i])
  BY DEF TypeOK, Appends, taken
<1>2. \A i \in 0 .. Len(queue) : RankAt(i)' = RankAt(i) BY <1>1 DEF RankAt
<1>3. Reached' = Reached BY DEF Reached, scan
<1>4. ASSUME NEW j \in 1 .. Len(queue'), NEW i \in 0 .. j,
             queue'[j].kind = "scan", Precedes("scan", i, j)'
      PROVE  Follows(RankAt(i)', queue'[j].rank)
  <2>1. j \in Place /\ i \in 0 .. Len(queue) BY <1>1, <1>4 DEF Place, Precedes
  <2>2. Precedes("scan", i, j) BY <1>1, <1>4, <2>1, AppendedOrder DEF Place
  <2>3. QED BY <1>1, <1>2, <1>4, <2>1, <2>2 DEF ScanHistory, ScanEventsOrdered, Place
<1>5. ScanEventsOrdered' BY <1>4 DEF ScanEventsOrdered, Place, Follows
<1>6. ASSUME NEW i \in 0 .. Len(queue'), Precedes("scan", i, End)'
      PROVE  RankAt(i)' \in Reached'
  <2>1. i \in 0 .. Len(queue) /\ Precedes("scan", i, Len(queue) + 1)
    BY <1>1, <1>6, AppendedOrder
  <2>2. QED BY <1>2, <1>3, <2>1 DEF ScanHistory, LastScan, End
<1>7. QED BY <1>5, <1>6 DEF ScanHistory, LastScan

(* ... when the head is taken ... *)

Learns ==
  IF queue[1].kind = "scan" THEN seen' = queue[1].rank /\ told' = told
  ELSE told' = queue[1].status /\ seen' = seen

LEMMA TakenPlace ==
  ASSUME TypeOK, LosesHead, Learns,
         NEW i \in 0 .. Len(queue) - 1, NEW j \in 1 .. Len(queue)
  PROVE  /\ Precedes("scan", i, j)' =>
              \E p \in 0 .. Len(queue) : Precedes("scan", p, j + 1) /\ RankAt(i)' = RankAt(p)
         /\ Precedes("link", i, j)' =>
              \E p \in 0 .. Len(queue) :
                Precedes("link", p, j + 1) /\ StatusAt(i)' = StatusAt(p)
<1>1. Len(queue) \in Nat \ {0} /\ (i # 0 => queue'[i] = queue[i + 1])
        /\ i + 1 \in 0 .. Len(queue) /\ 0 \in 0 .. Len(queue) /\ i + 1 # 0
  BY DEF LosesHead
<1>2. queue[1] \in Event
  <2>1. queue \in Seq(Event) BY DEF TypeOK
  <2>2. QED BY <1>1, <2>1
<1>3. queue[1].kind = "scan" \/ queue[1].kind = "link" BY <1>2, EventFields
<1>4. ASSUME Precedes("scan", i, j)'
      PROVE  \E p \in 0 .. Len(queue) : Precedes("scan", p, j + 1) /\ RankAt(i)' = RankAt(p)
  <2>1. CASE i = 0 /\ queue[1].kind # "scan"
    <3>1. Precedes("scan", 0, j + 1) BY <1>4, <2>1, HeadlessOrder
    <3>2. RankAt(i)' = RankAt(0) BY <2>1 DEF RankAt, Learns
    <3>3. QED BY <1>1, <3>1, <3>2
  <2>2. CASE ~(i = 0 /\ queue[1].kind # "scan")
    <3>1. Precedes("scan", i + 1, j + 1) BY <1>4, <2>2, HeadlessOrder
    <3>2. RankAt(i)' = RankAt(i + 1) BY <1>1, <2>2 DEF RankAt, Learns
    <3>3. QED BY <1>1, <3>1, <3>2
  <2>3. QED BY <2>1, <2>2
<1>5. ASSUME Precedes("link", i, j)'
      PROVE  \E p \in 0 .. Len(queue) :
               Precedes("link", p, j + 1) /\ StatusAt(i)' = StatusAt(p)
  <2>1. CASE i = 0 /\ queue[1].kind # "link"
    <3>1. Precedes("link", 0, j + 1) BY <1>5, <2>1, HeadlessOrder
    <3>2. StatusAt(i)' = StatusAt(0) BY <1>3, <2>1 DEF StatusAt, Learns
    <3>3. QED BY <1>1, <3>1, <3>2
  <2>2. CASE ~(i = 0 /\ queue[1].kind # "link")
    <3>1. Precedes("link", i + 1, j + 1) BY <1>5, <2>2, HeadlessOrder
    <3>2. StatusAt(i)' = StatusAt(i + 1) BY <1>1, <2>2 DEF StatusAt, Learns
    <3>3. QED BY <1>1, <3>1, <3>2
  <2>3. QED BY <2>1, <2>2
<1>6. QED BY <1>4, <1>5

LEMMA HeadTaken ==
  ASSUME TypeOK, LosesHead, Learns
  PROVE  /\ ScanHistory /\ Reached' = Reached => ScanHistory'
         /\ LinkChanges => LinkChanges'
         /\ LinkEnds /\ lastLink' = lastLink => LinkEnds'
<1>1. Len(queue) \in Nat \ {0} /\ Len(queue') = Len(queue) - 1
        /\ \A j \in 1 .. Len(queue) - 1 : queue'[j] = queue[j + 1]
  BY DEF LosesHead
<1>2. ASSUME ScanEventsOrdered, NEW j \in 1 .. Len(queue'), NEW i \in 0 .. j,
             queue'[j].kind = "scan", Precedes("scan", i, j)'
      PROVE  Follows(RankAt(i)', queue'[j].rank)
  <2>1. i \in 0 .. Len(queue) - 1 /\ j \in 1 .. Len(queue) BY <1>1
  <2>2. PICK p \in 0 .. Len(queue) : Precedes("scan", p, j + 1) /\ RankAt(i)' = RankAt(p)
    BY <1>2, <2>1, TakenPlace
  <2>3. j + 1 \in Place /\ queue'[j] = queue[j + 1] /\ p \in 0 .. j + 1
    BY <1>1, <2>2 DEF Place, Precedes
  <2>4. QED BY <1>2, <2>2, <2>3 DEF ScanEventsOrdered
<1>3. ScanEventsOrdered => ScanEventsOrdered' BY <1>2 DEF ScanEventsOrdered, Place, Follows
<1>4. ASSUME LastScan, Reached' = Reached, NEW i \in 0 .. Len(queue'),
             Precedes("scan", i, End)'
      PROVE  RankAt(i)' \in Reached'
  <2>1. i \in 0 .. Len(queue) - 1 /\ Len(queue) \in 1 .. Len(queue) /\ End' = Len(queue)
    BY <1>1 DEF End
  <2>2. \A n : n = Len(queue) => Precedes("scan", i, n)' BY <1>4, <2>1 DEF Precedes
  <2>3. PICK n \in 1 .. Len(queue) : n = Len(queue) BY <2>1
  <2>4. PICK p \in 0 .. Len(queue) : Precedes("scan", p, n + 1) /\ RankAt(i)' = RankAt(p)
    BY <2>1, <2>2, <2>3, TakenPlace
  <2>5. QED BY <1>4, <2>3, <2>4 DEF LastScan, End
<1>5. ASSUME LinkChanges, NEW j \in 1 .. Len(queue'), NEW i \in 0 .. j,
             queue'[j].kind = "link", Precedes("link", i, j)'
      PROVE  StatusAt(i)' # queue'[j].status
  <2>1. i \in 0 .. Len(queue) - 1 /\ j \in 1 .. Len(queue) BY <1>1
  <2>2. PICK p \in 0 .. Len(queue) : Precedes("link", p, j + 1) /\ StatusAt(i)' = StatusAt(p)
    BY <1>5, <2>1, TakenPlace
  <2>3. j + 1 \in Place /\ queue'[j] = queue[j + 1] /\ p \in 0 .. j + 1
    BY <1>1, <2>2 DEF Place, Precedes
  <2>4. QED BY <1>5, <2>2, <2>3 DEF LinkChanges
<1>6. LinkChanges => LinkChanges' BY <1>5 DEF LinkChanges, Place
<1>7. ASSUME LinkEnds, lastLink' = lastLink, NEW i \in 0 .. Len(queue'),
             Precedes("link", i, End)'
      PROVE  StatusAt(i)' = lastLink'
  <2>1. i \in 0 .. Len(queue) - 1 /\ Len(queue) \in 1 .. Len(queue) /\ End' = Len(queue)
    BY <1>1 DEF End
  <2>2. \A n : n = Len(queue) => Precedes("link", i, n)' BY <1>7, <2>1 DEF Precedes
  <2>3. PICK n \in 1 .. Len(queue) : n = Len(queue) BY <2>1
  <2>4. PICK p \in 0 .. Len(queue) : Precedes("link", p, n + 1) /\ StatusAt(i)' = StatusAt(p)
    BY <2>1, <2>2, <2>3, TakenPlace
  <2>5. QED BY <1>7, <2>3, <2>4 DEF LinkEnds, End
<1>8. QED BY <1>3, <1>4, <1>6, <1>7 DEF ScanHistory, LastScan, LinkEnds

(* ... when nothing happens to it, and when it is thrown away. *)
LEMMA HistoryUntouched ==
  ASSUME UNCHANGED <<queue, taken>>
  PROVE  /\ ScanHistory /\ Reached' = Reached => ScanHistory'
         /\ LinkChanges => LinkChanges'
         /\ LinkEnds /\ lastLink' = lastLink => LinkEnds'
<1> USE DEF taken, Precedes, RankAt, StatusAt, Place, End
<1>1. ScanEventsOrdered => ScanEventsOrdered' BY DEF ScanEventsOrdered, Follows
<1>2. LastScan /\ Reached' = Reached => LastScan' BY DEF LastScan
<1>3. LinkChanges => LinkChanges' BY DEF LinkChanges
<1>4. LinkEnds /\ lastLink' = lastLink => LinkEnds' BY DEF LinkEnds
<1>5. QED BY <1>1, <1>2, <1>3, <1>4 DEF ScanHistory

LEMMA QueueEmptied ==
  ASSUME queue' = <<>>
  PROVE  /\ seen' \in Reached' => ScanHistory'
         /\ told' = lastLink' => LinkHistory'
<1>1. Len(queue') = 0 /\ Place' = {} BY DEF Place
<1>2. ScanEventsOrdered' /\ LinkChanges' BY <1>1 DEF ScanEventsOrdered, LinkChanges
<1>3. \A i \in 0 .. Len(queue') : RankAt(i)' = seen' /\ StatusAt(i)' = told'
  BY <1>1 DEF RankAt, StatusAt
<1>4. seen' \in Reached' => LastScan' BY <1>3 DEF LastScan
<1>5. told' = lastLink' => LinkEnds' BY <1>3 DEF LinkEnds
<1>6. QED BY <1>2, <1>4, <1>5 DEF ScanHistory, LinkHistory

-----------------------------------------------------------------------------
(* The chip is switched on, and off when nobody is left. *)

LEMMA PowerUpFacts ==
  ASSUME TypeOK, PowerUp
  PROVE  /\ initialized' = TRUE
         /\ ap' \in BOOLEAN /\ (ap' <=> initialized /\ ap)
  BY DEF TypeOK, PowerUp

LEMMA PowerDownFacts ==
  ASSUME TypeOK, NEW w \in BOOLEAN, NEW b \in BOOLEAN, NEW q, PowerDown(w, b, q)
  PROVE  /\ initialized' \in BOOLEAN /\ ap' \in BOOLEAN
         /\ initialized' <=> initialized /\ (w \/ b \/ ap \/ ScanBusy \/ sockets > 0)
         /\ ap' <=> initialized' /\ ap
         /\ queue' = IF initialized' THEN q ELSE <<>>
<1> DEFINE stays == initialized /\ (w \/ b \/ ap \/ ScanBusy \/ sockets > 0)
<1>1. /\ initialized' = stays /\ ap' = (stays /\ ap)
      /\ queue' = IF stays THEN q ELSE <<>>
  BY DEF PowerDown
<1>2. stays \in BOOLEAN OBVIOUS
<1>3. stays <=> initialized /\ (w \/ b \/ ap \/ ScanBusy \/ sockets > 0) OBVIOUS
<1> HIDE DEF stays
<1>4. (initialized' <=> stays) /\ initialized' \in BOOLEAN BY <1>1, <1>2
<1>5. ap' \in BOOLEAN /\ (ap' <=> stays /\ ap) BY <1>1
<1>6. QED BY <1>1, <1>3, <1>4, <1>5

LEMMA QueueTyped ==
  ASSUME TypeOK, queue' = queue \/ queue' = <<>>
  PROVE  queue' \in Seq(Event) /\ Len(queue') <= Capacity
<1>1. CASE queue' = queue BY <1>1 DEF TypeOK
<1>2. CASE queue' = <<>>
  <2>1. <<>> \in Seq(Event) /\ Len(<<>>) = 0 OBVIOUS
  <2>2. QED BY <1>2, <2>1, ConstantFacts
<1>3. QED BY <1>1, <1>2

-----------------------------------------------------------------------------
(* Every variable keeps its type. *)
LEMMA TypeInit == Init => TypeOK
<1> SUFFICES ASSUME Init PROVE TypeOK
  OBVIOUS
<1>1. queue \in Seq(Event) /\ Len(queue) <= Capacity
  <2>1. queue = <<>> /\ <<>> \in Seq(Event) /\ Len(<<>>) = 0 BY DEF Init
  <2>2. QED BY <2>1, ConstantFacts
<1>2. seen \in Rank
  <2>1. seen = 1 BY DEF Init
  <2>2. QED BY <2>1, ConstantFacts DEF Rank
<1>3. scans \in 0 .. MaxScans /\ sockets \in 0 .. MaxSockets /\ dropped \in 0 .. MaxDropped
  <2>1. scans = 0 /\ sockets = 0 /\ dropped = 0 BY DEF Init
  <2>2. QED BY <2>1, ConstantFacts
<1>4. QED BY <1>1, <1>2, <1>3, ConstantFacts DEF Init, TypeOK

LEMMA TypeStep == TypeOK /\ Held /\ [Next]_vars => TypeOK'
<1> SUFFICES ASSUME TypeOK, Held, [Next]_vars PROVE TypeOK'
  OBVIOUS
<1> USE DEF TypeOK, radio, scan, station, mail, taken, Goto, Idle
<1>0. Capacity \in Nat /\ Down \in Status /\ 0 \in 0 .. MaxDropped
        /\ MaxScans \in Nat /\ MaxSockets \in Nat
  BY ConstantFacts
<1>1. CASE WifiInitialize
  <2>1. initialized' = TRUE /\ ap' \in BOOLEAN BY <1>1, PowerUpFacts DEF WifiInitialize
  <2>2. queue' \in Seq(Event) /\ Len(queue') <= Capacity
    BY <1>1, QueueTyped DEF WifiInitialize
  <2>3. QED BY <1>0, <1>1, <2>1, <2>2 DEF WifiInitialize
<1>2. CASE WifiDeinitialize
  <2>1. initialized' \in BOOLEAN /\ ap' \in BOOLEAN /\ queue' = <<>>
    BY <1>2, PowerDownFacts DEF WifiDeinitialize
  <2>2. queue' \in Seq(Event) /\ Len(queue') <= Capacity BY <2>1, QueueTyped
  <2>3. 2 * scans + 1 \in Rank BY <1>0 DEF Rank
  <2>4. QED BY <1>0, <1>2, <2>1, <2>2, <2>3 DEF WifiDeinitialize
<1>3. CASE BleInitialize
  <2>1. initialized' = TRUE /\ ap' \in BOOLEAN BY <1>3, PowerUpFacts DEF BleInitialize
  <2>2. queue' \in Seq(Event) /\ Len(queue') <= Capacity
    BY <1>3, QueueTyped DEF BleInitialize
  <2>3. QED BY <1>0, <1>3, <2>1, <2>2 DEF BleInitialize
<1>4. ASSUME NEW ok \in BOOLEAN, BlePowerOn(ok) PROVE TypeOK'
  <2>1. /\ initialized' \in BOOLEAN /\ ap' \in BOOLEAN
        /\ queue' = queue \/ queue' = <<>>
    <3>1. CASE ok BY <1>4, <3>1 DEF BlePowerOn
    <3>2. CASE ~ok
      <4>1. PowerDown(wifi, FALSE, queue) BY <1>4, <3>2 DEF BlePowerOn
      <4>2. QED BY <4>1, PowerDownFacts
    <3>3. QED BY <3>1, <3>2
  <2>2. queue' \in Seq(Event) /\ Len(queue') <= Capacity BY <2>1, QueueTyped
  <2>3. QED BY <1>4, <2>1, <2>2 DEF BlePowerOn
<1>5. CASE BleDeinitialize
  <2>1. /\ initialized' \in BOOLEAN /\ ap' \in BOOLEAN
        /\ queue' = queue \/ queue' = <<>>
    BY <1>5, PowerDownFacts DEF BleDeinitialize
  <2>2. queue' \in Seq(Event) /\ Len(queue') <= Capacity BY <2>1, QueueTyped
  <2>3. QED BY <1>5, <2>1, <2>2 DEF BleDeinitialize
<1>6. CASE StartScan BY <1>0, <1>6 DEF StartScan
<1>7. CASE NoteScan BY <1>7 DEF NoteScan
<1>8. CASE ScanResult
  <2>1. MailTyped BY <1>8, PostFacts, EventTypes DEF ScanResult
  <2>2. QED BY <1>8, <2>1 DEF ScanResult, MailTyped
<1>9. CASE ScanEnds BY <1>9 DEF ScanEnds
<1>10. CASE Connect BY <1>10 DEF Connect
<1>11. CASE Disconnect BY <1>11 DEF Disconnect
<1>12. ASSUME NEW s \in Status, LinkChange(s) PROVE TypeOK' BY <1>12 DEF LinkChange
<1>13. CASE ServiceScan
  <2>1. CASE scanRequested /\ ~scanning
    <3>1. MailTyped BY <1>13, <2>1, PostFacts, EventTypes DEF ServiceScan
    <3>2. QED BY <1>13, <2>1, <3>1 DEF ServiceScan, MailTyped, Stored
  <2>2. CASE ~(scanRequested /\ ~scanning) BY <1>13, <2>2 DEF ServiceScan
  <2>3. QED BY <2>1, <2>2
<1>14. CASE ReadLink BY <1>14 DEF ReadLink
<1>15. CASE ReportLink
  <2>1. CASE status # lastLink
    <3>1. MailTyped BY <1>15, <2>1, PostFacts, EventTypes DEF ReportLink
    <3>2. QED BY <1>0, <1>15, <2>1, <3>1 DEF ReportLink, MailTyped
  <2>2. CASE status = lastLink BY <1>0, <1>15, <2>2 DEF ReportLink
  <2>3. QED BY <2>1, <2>2
<1>16. CASE TakeEvent
  <2>1. MailTyped /\ Head(queue) \in Event BY <1>16, TakeFacts DEF TakeEvent
  <2>2. seen' \in Rank /\ told' \in Status BY <1>16, <2>1, EventFields DEF TakeEvent
  <2>3. QED BY <1>16, <2>1, <2>2 DEF TakeEvent, MailTyped
<1>17. CASE StartAccessPoint BY <1>17 DEF StartAccessPoint
<1>18. CASE StopAccessPoint BY <1>18 DEF StopAccessPoint
<1>19. CASE OpenSocket BY <1>0, <1>19 DEF OpenSocket
<1>20. CASE CloseSocket BY <1>0, <1>20 DEF CloseSocket
<1>21. CASE UNCHANGED vars BY <1>21 DEF vars
<1>22. QED BY <1>1, <1>2, <1>3, <1>4, <1>5, <1>6, <1>7, <1>8, <1>9, <1>10, <1>11, <1>12,
              <1>13, <1>14, <1>15, <1>16, <1>17, <1>18, <1>19, <1>20, <1>21
           DEF Next, Claims, Station, Driver, Network

(* Whoever uses the radio holds it, inside calls too. *)
LEMMA HeldInit == Init => Held
  BY DEF Init, Held, ScanBusy, Owed

LEMMA HeldStep == TypeOK /\ Held /\ [Next]_vars => Held'
<1> SUFFICES ASSUME TypeOK, Held, [Next]_vars PROVE Held'
  OBVIOUS
<1>0. sockets \in Nat /\ (sockets = 0 \/ sockets > 0) BY ConstantFacts DEF TypeOK
<1>00. wifi \in BOOLEAN /\ ble \in BOOLEAN BY DEF TypeOK
<1> USE DEF Held, radio, scan, station, Goto, Idle, ScanBusy, Owed
<1>1. CASE WifiInitialize
  <2>1. initialized' = TRUE /\ (ap' <=> initialized /\ ap)
    BY <1>1, PowerUpFacts DEF WifiInitialize
  <2>2. wifi' BY <1>1 DEF WifiInitialize
  <2>3. QED BY <1>1, <2>1, <2>2 DEF WifiInitialize
<1>2. CASE WifiDeinitialize
  <2>1. /\ initialized' <=> initialized /\ (ble \/ ap \/ ScanBusy \/ sockets > 0)
        /\ ap' <=> initialized' /\ ap
    <3>1. PowerDown(FALSE, ble, <<>>) BY <1>2 DEF WifiDeinitialize
    <3>2. QED BY <1>00, <3>1, PowerDownFacts
  <2>2. ~ap /\ ~ScanBusy /\ sockets = 0 BY <1>2 DEF WifiDeinitialize, MayLeaveWifi
  <2>3. QED BY <1>0, <1>2, <2>1, <2>2 DEF WifiDeinitialize
<1>3. CASE BleInitialize
  <2>1. initialized' = TRUE /\ (ap' <=> initialized /\ ap)
    BY <1>3, PowerUpFacts DEF BleInitialize
  <2>2. ble' /\ (scanRequested' = scanRequested \/ scanRequested' = FALSE)
    BY <1>3 DEF BleInitialize
  <2>3. QED BY <1>0, <1>3, <2>1, <2>2 DEF BleInitialize
<1>4. ASSUME NEW ok \in BOOLEAN, BlePowerOn(ok) PROVE Held'
  <2>1. CASE ok BY <1>4, <2>1 DEF BlePowerOn
  <2>2. CASE ~ok
    <3>1. PowerDown(wifi, FALSE, queue) BY <1>4, <2>2 DEF BlePowerOn
    <3>2. /\ initialized' <=> initialized /\ (wifi \/ ap \/ ScanBusy \/ sockets > 0)
          /\ ap' <=> initialized' /\ ap
      BY <1>00, <3>1, PowerDownFacts
    <3>3. QED BY <1>0, <1>4, <2>2, <3>2 DEF BlePowerOn
  <2>3. QED BY <2>1, <2>2
<1>5. CASE BleDeinitialize
  <2>1. PowerDown(wifi, FALSE, queue) BY <1>5 DEF BleDeinitialize
  <2>2. /\ initialized' <=> initialized /\ (wifi \/ ap \/ ScanBusy \/ sockets > 0)
        /\ ap' <=> initialized' /\ ap
    BY <1>00, <2>1, PowerDownFacts
  <2>3. QED BY <1>0, <1>5, <2>2 DEF BleDeinitialize, BleReleaseAllowed
<1>6. CASE StartScan BY <1>6 DEF StartScan
<1>7. CASE NoteScan BY <1>7 DEF NoteScan
<1>8. CASE ScanResult BY <1>8 DEF ScanResult
<1>9. CASE ScanEnds BY <1>9 DEF ScanEnds
<1>10. CASE Connect BY <1>10 DEF Connect
<1>11. CASE Disconnect BY <1>11 DEF Disconnect
<1>12. ASSUME NEW s \in Status, LinkChange(s) PROVE Held' BY <1>12 DEF LinkChange
<1>13. CASE ServiceScan BY <1>13 DEF ServiceScan
<1>14. CASE ReadLink BY <1>14 DEF ReadLink
<1>15. CASE ReportLink BY <1>15 DEF ReportLink
<1>16. CASE TakeEvent BY <1>16 DEF TakeEvent
<1>17. CASE StartAccessPoint BY <1>17 DEF StartAccessPoint
<1>18. CASE StopAccessPoint BY <1>18 DEF StopAccessPoint
<1>19. CASE OpenSocket BY <1>0, <1>19 DEF OpenSocket
<1>20. CASE CloseSocket
  <2>1. sockets > 0 BY <1>20 DEF CloseSocket
  <2>2. QED BY <1>20, <2>1 DEF CloseSocket
<1>21. CASE UNCHANGED vars BY <1>21 DEF vars
<1>22. QED BY <1>1, <1>2, <1>3, <1>4, <1>5, <1>6, <1>7, <1>8, <1>9, <1>10, <1>11, <1>12,
              <1>13, <1>14, <1>15, <1>16, <1>17, <1>18, <1>19, <1>20, <1>21
           DEF Next, Claims, Station, Driver, Network

(* Without Wi-Fi nothing waits and no report is owed. *)
LEMMA FreshInit == Init => Fresh
  BY DEF Init, Fresh

LEMMA FreshStep == TypeOK /\ Held /\ Fresh /\ [Next]_vars => Fresh'
<1> SUFFICES ASSUME TypeOK, Held, Fresh, [Next]_vars PROVE Fresh'
  OBVIOUS
<1> USE DEF Fresh, radio, scan, mail, taken, PowerDown, Goto, Idle
<1>1. CASE WifiInitialize BY <1>1 DEF WifiInitialize
<1>2. CASE WifiDeinitialize BY <1>2 DEF WifiDeinitialize
<1>3. CASE BleInitialize BY <1>3 DEF BleInitialize
<1>4. ASSUME NEW ok \in BOOLEAN, BlePowerOn(ok) PROVE Fresh' BY <1>4 DEF BlePowerOn
<1>5. CASE BleDeinitialize BY <1>5 DEF BleDeinitialize
<1>6. CASE StartScan BY <1>6 DEF StartScan
<1>7. CASE NoteScan BY <1>7 DEF NoteScan
<1>8. CASE ScanResult BY <1>8 DEF ScanResult, Held, ScanBusy
<1>9. CASE ScanEnds BY <1>9 DEF ScanEnds
<1>10. CASE Connect BY <1>10 DEF Connect
<1>11. CASE Disconnect BY <1>11 DEF Disconnect
<1>12. ASSUME NEW s \in Status, LinkChange(s) PROVE Fresh' BY <1>12 DEF LinkChange
<1>13. CASE ServiceScan BY <1>13 DEF ServiceScan
<1>14. CASE ReadLink BY <1>14 DEF ReadLink
<1>15. CASE ReportLink BY <1>15 DEF ReportLink, Held
<1>16. CASE TakeEvent BY <1>16 DEF TakeEvent, Mail!Take
<1>17. CASE StartAccessPoint BY <1>17 DEF StartAccessPoint
<1>18. CASE StopAccessPoint BY <1>18 DEF StopAccessPoint
<1>19. CASE OpenSocket BY <1>19 DEF OpenSocket
<1>20. CASE CloseSocket BY <1>20 DEF CloseSocket
<1>21. CASE UNCHANGED vars BY <1>21 DEF vars
<1>22. QED BY <1>1, <1>2, <1>3, <1>4, <1>5, <1>6, <1>7, <1>8, <1>9, <1>10, <1>11, <1>12,
              <1>13, <1>14, <1>15, <1>16, <1>17, <1>18, <1>19, <1>20, <1>21
           DEF Next, Claims, Station, Driver, Network

-----------------------------------------------------------------------------
(* The scans are told in order. *)

(* Steps that leave the queue and the scans alone. *)
LEMMA ScansUntouched ==
  ASSUME ScanHistory, UNCHANGED <<queue, taken, scan>>,
         pc' = "scanStarted" <=> pc = "scanStarted"
  PROVE  ScanHistory'
<1>1. Reached' = Reached BY DEF Reached, Owed, scan
<1>2. QED BY <1>1, HistoryUntouched

LEMMA ScanHistoryInit == Init => ScanHistory
<1> SUFFICES ASSUME Init PROVE ScanHistory
  OBVIOUS
<1>1. Len(queue) = 0 /\ queue = <<>> BY DEF Init
<1>2. ScanEventsOrdered BY <1>1 DEF ScanEventsOrdered, Place
<1>3. Reached = {1} /\ seen = 1 BY DEF Init, Reached, Owed
<1>4. LastScan BY <1>1, <1>3 DEF LastScan, RankAt
<1>5. QED BY <1>2, <1>4 DEF ScanHistory

LEMMA ScanHistoryStep ==
  TypeOK /\ Held /\ Fresh /\ ScanHistory /\ [Next]_vars => ScanHistory'
<1> SUFFICES ASSUME TypeOK, Held, Fresh, ScanHistory, [Next]_vars PROVE ScanHistory'
  OBVIOUS
<1>0. scans \in Nat /\ scans \in 0 .. MaxScans /\ 2 * scans + 1 \in Reached \cup {2 * scans + 1}
  BY ConstantFacts DEF TypeOK
<1>00. ~wifi => ~Owed BY DEF Held, Owed, ScanBusy
<1>1. CASE WifiInitialize
  <2>1. CASE wifi
    BY <1>1, <2>1, ScansUntouched DEF WifiInitialize, mail, taken, scan
  <2>2. CASE ~wifi
    <3>1. queue' = <<>> /\ seen' = 2 * scans + 1 /\ scans' = scans
          /\ ~scanRequested' /\ scanning' = scanning /\ pc' = pc
      BY <1>1, <2>2 DEF WifiInitialize, Fresh
    <3>2. Reached' = {2 * scans + 1} BY <1>00, <2>2, <3>1 DEF Reached, Owed
    <3>3. QED BY <3>1, <3>2, QueueEmptied
  <2>3. QED BY <2>1, <2>2
<1>2. CASE WifiDeinitialize
  <2>1. queue' = <<>> /\ seen' = 2 * scans + 1
    <3>1. PowerDown(FALSE, ble, <<>>) BY <1>2 DEF WifiDeinitialize
    <3>2. queue' = <<>> BY <3>1 DEF PowerDown
    <3>3. QED BY <1>2, <3>2 DEF WifiDeinitialize
  <2>2. Reached' = {2 * scans + 1}
    BY <1>2 DEF WifiDeinitialize, MayLeaveWifi, Idle, Reached, Owed, ScanBusy, scan
  <2>3. QED BY <2>1, <2>2, QueueEmptied
<1>3. CASE BleInitialize
  <2>1. CASE initialized
    BY <1>3, <2>1, ScansUntouched DEF BleInitialize, mail, taken, scan, Goto
  <2>2. CASE ~initialized
    <3>1. ~wifi BY <2>2 DEF Held
    <3>2. queue' = <<>> /\ seen' = 2 * scans + 1 /\ scans' = scans
          /\ ~scanRequested' /\ scanning' = scanning /\ pc' = "powerOn"
      BY <1>3, <2>2, <3>1 DEF BleInitialize, Fresh, taken, Goto
    <3>3. Reached' = {2 * scans + 1} BY <1>00, <3>1, <3>2 DEF Reached, Owed
    <3>4. QED BY <3>2, <3>3, QueueEmptied
  <2>3. QED BY <2>1, <2>2
<1>4. ASSUME TypeOK, UNCHANGED <<taken, scan, wifi>>, PowerDown(wifi, FALSE, queue),
             pc' = "scanStarted" <=> pc = "scanStarted"
      PROVE  ScanHistory'
  <2>1. queue' = queue \/ queue' = <<>> BY <1>4 DEF PowerDown
  <2>2. queue' = queue
    <3>1. CASE wifi
      <4>1. initialized BY <3>1 DEF Held
      <4>2. QED BY <1>4, <3>1, <4>1 DEF PowerDown
    <3>2. CASE ~wifi BY <2>1, <3>2 DEF Fresh
    <3>3. QED BY <3>1, <3>2
  <2>3. QED BY <1>4, <2>2, ScansUntouched
<1>5. ASSUME NEW ok \in BOOLEAN, BlePowerOn(ok) PROVE ScanHistory'
  <2>1. CASE ok BY <1>5, <2>1, ScansUntouched DEF BlePowerOn, Goto
  <2>2. CASE ~ok BY <1>4, <1>5, <2>2 DEF BlePowerOn, Goto
  <2>3. QED BY <2>1, <2>2
<1>6. CASE BleDeinitialize BY <1>4, <1>6 DEF BleDeinitialize
<1>7. CASE StartScan
  <2>1. ~Owed /\ pc' = "scanStarted" /\ scans' = scans + 1 /\ UNCHANGED <<queue, taken>>
    BY <1>7 DEF StartScan, Owed, ScanBusy, Goto, mail
  <2>2. Reached = {2 * scans + 1} /\ Reached' = {2 * (scans + 1) - 1, 2 * (scans + 1)}
    BY <2>1 DEF Reached, Owed
  <2>3. \A r : r \in Reached => r \in Reached' BY <1>0, <2>2
  <2>4. LastScan'
    BY <2>1, <2>3 DEF ScanHistory, LastScan, Precedes, RankAt, End, taken
  <2>5. ScanEventsOrdered'
    BY <2>1 DEF ScanHistory, ScanEventsOrdered, Precedes, RankAt, Place, Follows, taken
  <2>6. QED BY <2>4, <2>5 DEF ScanHistory
<1>8. CASE NoteScan
  <2>1. Reached' = Reached BY <1>8 DEF NoteScan, Goto, Reached, Owed
  <2>2. QED BY <1>8, <2>1, HistoryUntouched DEF NoteScan, mail
<1>9. CASE ScanResult
  <2>1. Owed /\ Post(Result(scans)) /\ UNCHANGED <<taken, scan, pc>>
    BY <1>9 DEF ScanResult, Held
  <2>2. Reached = {2 * scans - 1, 2 * scans} /\ Reached' = Reached
    BY <2>1 DEF Reached, Owed, scan
  <2>3. Result(scans) \in Event BY <1>0, EventTypes
  <2>4. Result(scans).kind = "scan" /\ Result(scans).rank = 2 * scans BY DEF Result
  <2>5. CASE Stored
    <3>1. Appends(Result(scans)) BY <2>1, <2>3, <2>5, PostFacts
    <3>2. \A i \in 0 .. Len(queue) : Precedes("scan", i, End) => Follows(RankAt(i), 2 * scans)
      BY <1>0, <2>2, RankFacts DEF ScanHistory, LastScan
    <3>3. /\ ScanEventsOrdered'
          /\ \A i \in 0 .. Len(queue') : Precedes("scan", i, End)' => RankAt(i)' = 2 * scans
      BY <2>1, <2>3, <2>4, <3>1, <3>2, ScanQueued DEF ScanHistory
    <3>4. LastScan' BY <2>2, <3>3 DEF LastScan
    <3>5. QED BY <3>3, <3>4 DEF ScanHistory
  <2>6. CASE ~Stored
    <3>1. queue' = queue BY <2>1, <2>3, <2>6, PostFacts
    <3>2. QED BY <2>1, <2>2, <3>1, HistoryUntouched
  <2>7. QED BY <2>5, <2>6
<1>10. CASE ScanEnds
  <2>1. Reached' = Reached BY <1>10 DEF ScanEnds, Reached, Owed
  <2>2. QED BY <1>10, <2>1, HistoryUntouched DEF ScanEnds, mail
<1>11. CASE Connect
  BY <1>11, ScansUntouched DEF Connect, mail
<1>12. CASE Disconnect
  BY <1>12, ScansUntouched DEF Disconnect, mail
<1>13. ASSUME NEW s \in Status, LinkChange(s) PROVE ScanHistory'
  BY <1>13, ScansUntouched DEF LinkChange, mail
<1>14. CASE ServiceScan
  <2>1. UNCHANGED <<taken, scanning, scans>> /\ pc = "idle" /\ pc' = "readLink"
    BY <1>14 DEF ServiceScan, Goto
  <2>2. CASE scanRequested /\ ~scanning
    <3>1. Post(Complete(scans)) /\ scanRequested' = ~Stored
      BY <1>14, <2>2 DEF ServiceScan
    <3>2. Reached = {2 * scans - 1, 2 * scans} BY <2>2 DEF Reached, Owed
    <3>3. Complete(scans) \in Event BY <1>0, EventTypes
    <3>4. Complete(scans).kind = "scan" /\ Complete(scans).rank = 2 * scans + 1
      BY DEF Complete
    <3>5. CASE Stored
      <4>1. Appends(Complete(scans)) BY <3>1, <3>3, <3>5, PostFacts
      <4>2. \A i \in 0 .. Len(queue) :
              Precedes("scan", i, End) => Follows(RankAt(i), 2 * scans + 1)
        BY <1>0, <3>2, RankFacts DEF ScanHistory, LastScan
      <4>3. /\ ScanEventsOrdered'
            /\ \A i \in 0 .. Len(queue') :
                 Precedes("scan", i, End)' => RankAt(i)' = 2 * scans + 1
        BY <2>1, <3>3, <3>4, <4>1, <4>2, ScanQueued DEF ScanHistory
      <4>4. Reached' = {2 * scans + 1} BY <2>1, <3>1, <3>5 DEF Reached, Owed
      <4>5. LastScan' BY <4>3, <4>4 DEF LastScan
      <4>6. QED BY <4>3, <4>5 DEF ScanHistory
    <3>6. CASE ~Stored
      <4>1. queue' = queue BY <3>1, <3>3, <3>6, PostFacts
      <4>2. Reached' = Reached BY <2>1, <2>2, <3>1, <3>6 DEF Reached, Owed
      <4>3. QED BY <2>1, <4>1, <4>2, HistoryUntouched
    <3>7. QED BY <3>5, <3>6
  <2>3. CASE ~(scanRequested /\ ~scanning)
    <3>1. UNCHANGED <<queue, scanRequested>> BY <1>14, <2>3 DEF ServiceScan, mail
    <3>2. QED BY <2>1, <3>1, ScansUntouched DEF scan
  <2>4. QED BY <2>2, <2>3
<1>15. CASE ReadLink
  BY <1>15, ScansUntouched DEF ReadLink, Goto, mail
<1>16. CASE ReportLink
  <2>1. UNCHANGED <<taken, scan>> /\ (Owed' <=> Owed)
        /\ (pc' = "scanStarted" <=> pc = "scanStarted")
    BY <1>16 DEF ReportLink, Goto, scan, Owed
  <2>2. CASE status # lastLink
    <3>1. LinkState(status) \in Event /\ LinkState(status).kind = "link"
      BY EventTypes DEF TypeOK, LinkState
    <3>2. Post(LinkState(status)) BY <1>16, <2>2 DEF ReportLink
    <3>3. Appends(LinkState(status)) \/ queue' = queue BY <3>1, <3>2, PostFacts
    <3>4. QED BY <2>1, <3>1, <3>3, LinkQueuedScans, ScansUntouched
  <2>3. CASE status = lastLink
    <3>1. queue' = queue BY <1>16, <2>3 DEF ReportLink, mail
    <3>2. QED BY <2>1, <3>1, ScansUntouched
  <2>4. QED BY <2>2, <2>3
<1>17. CASE TakeEvent
  <2>1. LosesHead /\ Head(queue) = queue[1] BY <1>17, TakeFacts DEF TakeEvent
  <2>2. Learns BY <1>17, <2>1 DEF TakeEvent, Learns
  <2>3. Reached' = Reached BY <1>17 DEF TakeEvent, Reached, Owed, scan
  <2>4. QED BY <2>1, <2>2, <2>3, HeadTaken
<1>18. CASE StartAccessPoint
  BY <1>18, ScansUntouched DEF StartAccessPoint, mail
<1>19. CASE StopAccessPoint
  BY <1>19, ScansUntouched DEF StopAccessPoint, mail
<1>20. CASE OpenSocket \/ CloseSocket
  BY <1>20, ScansUntouched DEF OpenSocket, CloseSocket, mail
<1>21. CASE UNCHANGED vars BY <1>21, ScansUntouched DEF vars, mail
<1>22. QED BY <1>1, <1>2, <1>3, <1>5, <1>6, <1>7, <1>8, <1>9, <1>10, <1>11, <1>12,
              <1>13, <1>14, <1>15, <1>16, <1>17, <1>18, <1>19, <1>20, <1>21
           DEF Next, Claims, Station, Driver, Network

-----------------------------------------------------------------------------
(* The link is told as a history. *)

LEMMA LinksUntouched ==
  ASSUME LinkHistory, UNCHANGED <<queue, taken, lastLink, wifi>>
  PROVE  LinkHistory'
  BY HistoryUntouched DEF LinkHistory

LEMMA LinkHistoryInit == Init => LinkHistory
  BY DEF Init, LinkHistory

LEMMA LinkHistoryStep ==
  TypeOK /\ Held /\ Fresh /\ LinkHistory /\ [Next]_vars => LinkHistory'
<1> SUFFICES ASSUME TypeOK, Held, Fresh, LinkHistory, [Next]_vars PROVE LinkHistory'
  OBVIOUS
<1>0. scans \in 0 .. MaxScans BY DEF TypeOK
<1>1. CASE WifiInitialize
  <2>1. CASE wifi BY <1>1, <2>1, LinksUntouched DEF WifiInitialize, mail, taken
  <2>2. CASE ~wifi
    <3>1. queue' = <<>> /\ told' = lastLink' BY <1>1, <2>2 DEF WifiInitialize
    <3>2. QED BY <3>1, QueueEmptied
  <2>3. QED BY <2>1, <2>2
<1>2. CASE WifiDeinitialize BY <1>2 DEF WifiDeinitialize, LinkHistory
<1>3. CASE BleInitialize
  <2>1. CASE initialized
    BY <1>3, <2>1, LinksUntouched DEF BleInitialize, mail, taken
  <2>2. CASE ~initialized
    <3>1. ~wifi' BY <1>3, <2>2 DEF BleInitialize, Held
    <3>2. QED BY <3>1 DEF LinkHistory
  <2>3. QED BY <2>1, <2>2
<1>4. ASSUME UNCHANGED <<taken, lastLink, wifi>>, PowerDown(wifi, FALSE, queue)
      PROVE  LinkHistory'
  <2>1. CASE wifi
    <3>1. initialized BY <2>1 DEF Held
    <3>2. queue' = queue BY <1>4, <2>1, <3>1 DEF PowerDown
    <3>3. QED BY <1>4, <3>2, LinksUntouched
  <2>2. CASE ~wifi BY <1>4, <2>2 DEF LinkHistory
  <2>3. QED BY <2>1, <2>2
<1>5. ASSUME NEW ok \in BOOLEAN, BlePowerOn(ok) PROVE LinkHistory'
  <2>1. CASE ok BY <1>5, <2>1, LinksUntouched DEF BlePowerOn
  <2>2. CASE ~ok BY <1>4, <1>5, <2>2 DEF BlePowerOn
  <2>3. QED BY <2>1, <2>2
<1>6. CASE BleDeinitialize BY <1>4, <1>6 DEF BleDeinitialize
<1>7. ASSUME NEW e \in Event, e.kind = "scan", Post(e), UNCHANGED <<taken, lastLink, wifi>>
      PROVE  LinkHistory'
  <2>1. Appends(e) \/ queue' = queue BY <1>7, PostFacts
  <2>2. CASE Appends(e) BY <1>7, <2>2, ScanQueuedLinks DEF LinkHistory
  <2>3. CASE queue' = queue BY <1>7, <2>3, LinksUntouched
  <2>4. QED BY <2>1, <2>2, <2>3
<1>8. CASE StartScan BY <1>8, LinksUntouched DEF StartScan, radio, mail
<1>9. CASE NoteScan BY <1>9, LinksUntouched DEF NoteScan, radio, mail
<1>10. CASE ScanResult
  <2>1. Result(scans) \in Event /\ Result(scans).kind = "scan"
    BY <1>0, EventTypes DEF Result
  <2>2. QED BY <1>7, <1>10, <2>1 DEF ScanResult, radio
<1>11. CASE ScanEnds BY <1>11, LinksUntouched DEF ScanEnds, radio, mail
<1>12. CASE Connect \/ Disconnect
  BY <1>12, LinksUntouched DEF Connect, Disconnect, radio, mail
<1>13. ASSUME NEW s \in Status, LinkChange(s) PROVE LinkHistory'
  BY <1>13, LinksUntouched DEF LinkChange, radio, mail
<1>14. CASE ServiceScan
  <2>1. CASE scanRequested /\ ~scanning
    <3>1. Complete(scans) \in Event /\ Complete(scans).kind = "scan"
      BY <1>0, EventTypes DEF Complete
    <3>2. Post(Complete(scans)) /\ UNCHANGED <<taken, lastLink, wifi>>
      BY <1>14, <2>1 DEF ServiceScan, radio
    <3>3. QED BY <1>7, <3>1, <3>2
  <2>2. CASE ~(scanRequested /\ ~scanning)
    BY <1>14, <2>2, LinksUntouched DEF ServiceScan, radio, mail
  <2>3. QED BY <2>1, <2>2
<1>15. CASE ReadLink BY <1>15, LinksUntouched DEF ReadLink, radio, mail
<1>16. CASE ReportLink
  <2>1. pc = "report" /\ UNCHANGED <<taken, wifi>> BY <1>16 DEF ReportLink, Goto, radio
  <2>2. LinkChanges /\ LinkEnds BY <2>1 DEF Held, LinkHistory
  <2>3. CASE status # lastLink
    <3>1. /\ status \in Status /\ Post(LinkState(status))
          /\ lastLink' = IF Stored THEN status ELSE lastLink
      BY <1>16, <2>3 DEF ReportLink, TypeOK
    <3>2. LinkState(status) \in Event BY <3>1, EventTypes
    <3>3. CASE Stored
      <4>1. Appends(LinkState(status)) /\ lastLink' = status
        BY <3>1, <3>2, <3>3, PostFacts
      <4>2. QED BY <2>1, <2>2, <2>3, <3>1, <4>1, LinkQueued DEF LinkHistory
    <3>4. CASE ~Stored
      <4>1. queue' = queue /\ lastLink' = lastLink BY <3>1, <3>2, <3>4, PostFacts
      <4>2. QED BY <2>1, <4>1, LinksUntouched
    <3>5. QED BY <3>3, <3>4
  <2>4. CASE status = lastLink BY <1>16, <2>1, <2>4, LinksUntouched DEF ReportLink, mail
  <2>5. QED BY <2>3, <2>4
<1>17. CASE TakeEvent
  <2>1. LosesHead /\ Head(queue) = queue[1] BY <1>17, TakeFacts DEF TakeEvent
  <2>2. Learns BY <1>17, <2>1 DEF TakeEvent, Learns
  <2>3. lastLink' = lastLink /\ wifi' = wifi BY <1>17 DEF TakeEvent, radio
  <2>4. QED BY <2>1, <2>2, <2>3, HeadTaken DEF LinkHistory
<1>18. CASE StartAccessPoint BY <1>18, LinksUntouched DEF StartAccessPoint, mail
<1>19. CASE StopAccessPoint BY <1>19, LinksUntouched DEF StopAccessPoint, mail
<1>20. CASE OpenSocket \/ CloseSocket
  BY <1>20, LinksUntouched DEF OpenSocket, CloseSocket, radio, mail
<1>21. CASE UNCHANGED vars BY <1>21, LinksUntouched DEF vars, radio, mail
<1>22. QED BY <1>1, <1>2, <1>3, <1>5, <1>6, <1>8, <1>9, <1>10, <1>11, <1>12,
              <1>13, <1>14, <1>15, <1>16, <1>17, <1>18, <1>19, <1>20, <1>21
           DEF Next, Claims, Station, Driver, Network

-----------------------------------------------------------------------------
LEMMA Invariance == Spec => []IInv
<1>1. Init => IInv
  BY TypeInit, HeldInit, FreshInit, ScanHistoryInit, LinkHistoryInit DEF IInv
<1>2. IInv /\ [Next]_vars => IInv'
  BY TypeStep, HeldStep, FreshStep, ScanHistoryStep, LinkHistoryStep DEF IInv
<1>3. QED BY <1>1, <1>2, PTL DEF Spec

(* Between calls the radio is on exactly while Wi-Fi or BLE claims it, and *)
(* no socket, station, access point or scan is left without it, in         *)
(* whatever order the two come, fail to power on and go.                   *)
THEOREM RadioOnWhileClaimed == Spec => []RadioClaimed
<1>1. IInv => RadioClaimed
  BY DEF IInv, Held, RadioClaimed, RadioHeld, UsersHaveRadio
<1>2. QED BY <1>1, Invariance, PTL

(* What waits in the event queue continues what the program was told: of   *)
(* the scans in order, each with one completion, and of the link without   *)
(* repetition up to the status last reported.                              *)
THEOREM HistoryUnbroken == Spec => []EventHistory
<1>1. IInv => EventHistory BY DEF IInv, ScanHistory, EventHistory
<1>2. QED BY <1>1, Invariance, PTL

=============================================================================
