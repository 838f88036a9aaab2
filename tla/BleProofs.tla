------------------------------ MODULE BleProofs ------------------------------
(***************************************************************************)
(* Proofs about BleGatt and BleLink for any capacities of the queues and   *)
(* any number of connections, queries, scans and events of peers.          *)
(*                                                                         *)
(* None of the invariants of the runs is inductive.  That gatt_query is    *)
(* set exactly while the stack works needs to know what it is inside a     *)
(* call whose connection may be gone (Linked, Queried).  That answers are  *)
(* in order speaks of what was taken; the induction needs the same of any  *)
(* two events that wait, and that whatever is added concerns the           *)
(* connection or the query of the moment (Timely, Completed).  That the    *)
(* events of the link continue what the program knows needs the module and *)
(* the stack to agree on the connection (Sessions) and the reports that    *)
(* wait to be of scans that began (ScansBegun).                            *)
(***************************************************************************)
EXTENDS BleGatt, BleLink, WellFoundedInduction, TLAPS

Linked ==
  /\ handle = live
  /\ live # 0 => live = count.conns
  /\ indicating => live # 0
  /\ ~Idle => pc.conn <= count.conns

Queried ==
  /\ pc.at = "querying" => count.queries < MaxQueries /\ running = 0
  /\ running # 0 => running = count.queries /\ live # 0
  /\ query # "none" <=> (running # 0 \/ (pc.at = "querying" /\ pc.conn = live))

Reading ==
  /\ read.query <= count.queries /\ read.conn <= count.conns
  /\ read.conn # 0 => read.query # 0
  /\ running # 0 /\ query = "read" => read.query = running /\ read.answers = 0
  /\ running # 0 /\ read.query = running => query = "read"
  /\ ReadAnsweredOnce

(* Every event of a queue concerns a connection after the last one ended,  *)
(* and up to the last one made.                                            *)
Later(q, ended) == \A i \in DOMAIN q : ended < q[i].conn
Made(q, last) == \A i \in DOMAIN q : q[i].conn <= last
(* After the end of a connection only later ones are told.                 *)
Ends(q, now) ==
  \A i \in DOMAIN q : q[i].kind = "disconnected" =>
    /\ now # 0 => q[i].conn < now
    /\ \A j \in DOMAIN q : i < j => q[i].conn < q[j].conn

Timely ==
  /\ live # 0 => told.ended < live
  /\ ~Idle => told.ended < pc.conn
  /\ told.ended <= count.conns
  /\ Later(ordinary, told.ended) /\ Later(critical, told.ended)
  /\ Made(critical, count.conns)
  /\ Ends(critical, live)
  /\ \A i \in DOMAIN ordinary : ordinary[i].kind # "disconnected"

(* A query that is answered is not the one at work.                        *)
Answered(q, now, last) ==
  \A i \in DOMAIN q : Answers(q[i]) =>
    /\ q[i].query <= last /\ (now # 0 => q[i].query < now)
    /\ \A j \in DOMAIN q : i < j /\ q[j].kind = "result" => q[i].query < q[j].query
Results(q, last) == \A i \in DOMAIN q : q[i].kind = "result" => last < q[i].query

Completed ==
  /\ told.completed <= count.queries /\ (running # 0 => told.completed < running)
  /\ Answered(ordinary, running, count.queries)
  /\ Answered(critical, running, count.queries)
  /\ Results(ordinary, told.completed)

IInv == TypeOK /\ Linked /\ Queried /\ Reading /\ Timely /\ Completed

-----------------------------------------------------------------------------
(* What the proofs use of the constants and the types.                     *)
LEMMA ConstantFacts ==
  /\ Capacity \in Nat \ {0} /\ CriticalCapacity \in Nat \ {0}
  /\ MaxConns \in Nat /\ MaxQueries \in Nat /\ MaxPeer \in Nat
  BY QueueAssumption, GattAssumption

LEMMA EventFields ==
  ASSUME NEW e \in Event
  PROVE  /\ e.conn \in Conn
         /\ Answers(e) \/ e.kind = "result" => e.query \in Query
  BY DEF Event, Answers

LEMMA EventTypes ==
  /\ \A c \in Conn : \A k \in {"connected", "disconnected", "attribute", "sent", "notified"} :
       /\ Link(k, c) \in Event /\ Link(k, c).conn = c /\ Link(k, c).kind = k
  /\ \A c \in Conn, q \in Query : \A k \in {"result", "value", "complete"} :
       /\ Answer(k, c, q) \in Event /\ Answer(k, c, q).conn = c
       /\ Answer(k, c, q).kind = k /\ Answer(k, c, q).query = q
  BY DEF Event, Link, Answer

(* A queue gains an event, or drops it.                                    *)
Gains(q, r, e) ==
  /\ r \in Seq(Event) /\ Len(r) \in {Len(q), Len(q) + 1}
  /\ \A i \in 1 .. Len(r) : r[i] = IF i <= Len(q) THEN q[i] ELSE e

LEMMA Appended ==
  ASSUME NEW q \in Seq(Event), NEW e \in Event
  PROVE  Gains(q, Append(q, e), e) /\ Append(q, e) # q /\ Len(Append(q, e)) = Len(q) + 1
<1>1. Append(q, e) \in Seq(Event) /\ Len(Append(q, e)) = Len(q) + 1 OBVIOUS
<1>2. \A i \in 1 .. Len(q) + 1 : Append(q, e)[i] = IF i <= Len(q) THEN q[i] ELSE e OBVIOUS
<1>3. QED BY <1>1, <1>2 DEF Gains

LEMMA Kept ==
  ASSUME NEW q \in Seq(Event), NEW e PROVE Gains(q, q, e)
  BY DEF Gains

LEMMA EventQueued ==
  ASSUME TypeOK, NEW e \in Event, QueueEvent(e)
  PROVE  /\ Gains(ordinary, ordinary', e) /\ QueuesOK(Event)'
         /\ Stored => ordinary' # ordinary
         /\ UNCHANGED <<critical, missed>>
<1>1. ordinary \in Seq(Event) /\ Len(ordinary) <= Capacity BY DEF TypeOK, QueuesOK
<1>2. /\ Gains(ordinary, ordinary', e) /\ Len(ordinary') <= Capacity
      /\ Stored => ordinary' # ordinary
      /\ UNCHANGED <<critical, missed>>
  BY <1>1, Appended, Kept, ConstantFacts DEF QueueEvent, Stored
<1>3. QueuesOK(Event)' BY <1>2 DEF TypeOK, QueuesOK, Gains
<1>4. QED BY <1>2, <1>3

LEMMA PushedGains ==
  ASSUME NEW q \in Seq(Event), Len(q) <= CriticalCapacity, NEW e \in Event
  PROVE  /\ Gains(q, Pushed(q, e), e) /\ Pushed(q, e) \in Seq(Event)
         /\ Len(Pushed(q, e)) <= CriticalCapacity
         /\ Pushed(q, e) # q \/ Len(q) >= CriticalCapacity
<1>1. CASE Len(q) < CriticalCapacity BY <1>1, Appended, ConstantFacts DEF Pushed
<1>2. CASE ~(Len(q) < CriticalCapacity) BY <1>2, Kept, ConstantFacts DEF Pushed
<1>3. QED BY <1>1, <1>2

LEMMA CriticalEventQueued ==
  ASSUME TypeOK, NEW e \in Event, QueueCriticalEvent(e)
  PROVE  /\ Gains(critical, critical', e) /\ QueuesOK(Event)'
         /\ critical' # critical \/ missed'
         /\ missed => missed'
         /\ UNCHANGED ordinary
<1>1. critical \in Seq(Event) /\ Len(critical) <= CriticalCapacity /\ missed \in BOOLEAN
  BY DEF TypeOK, QueuesOK
<1>2. /\ Gains(critical, critical', e) /\ Len(critical') <= CriticalCapacity
      /\ critical' # critical \/ missed'
      /\ missed' \in BOOLEAN /\ (missed => missed')
      /\ UNCHANGED ordinary
  BY <1>1, PushedGains DEF QueueCriticalEvent
<1>3. QueuesOK(Event)' BY <1>2 DEF TypeOK, QueuesOK, Gains
<1>4. QED BY <1>2, <1>3

LEMMA GivenUp ==
  ASSUME TypeOK, live \in Conn, NEW c \in BOOLEAN, c => running \in Query, GivesUp(c)
  PROVE  /\ \E m \in Seq(Event) :
              /\ IF c THEN Gains(critical, m, Answer("complete", live, running)) ELSE m = critical
              /\ Gains(m, critical', Link("disconnected", live))
         /\ QueuesOK(Event)'
         /\ UNCHANGED ordinary
<1> DEFINE a == Answer("complete", live, running)
           d == Link("disconnected", live)
           m == IF c THEN Pushed(critical, a) ELSE critical
<1>1. critical \in Seq(Event) /\ Len(critical) <= CriticalCapacity
  BY DEF TypeOK, QueuesOK
<1>2. d \in Event /\ (c => a \in Event) BY EventTypes
<1>3. missed' \in BOOLEAN /\ ordinary' = ordinary BY DEF GivesUp, TypeOK, QueuesOK
<1>4. critical' = Pushed(m, d) BY DEF GivesUp
<1> HIDE DEF a, d
<1>5. /\ m \in Seq(Event) /\ Len(m) <= CriticalCapacity
      /\ IF c THEN Gains(critical, m, a) ELSE m = critical
  BY <1>1, <1>2, PushedGains
<1> HIDE DEF m
<1>6. Gains(m, critical', d) /\ Len(critical') <= CriticalCapacity
  BY <1>2, <1>4, <1>5, PushedGains
<1>7. QueuesOK(Event)' BY <1>3, <1>6 DEF TypeOK, QueuesOK, Gains
<1>8. QED BY <1>3, <1>5, <1>6, <1>7 DEF a, d

(* What a program takes, and what is left.                                 *)
LEMMA Taken ==
  ASSUME TypeOK, Waiting, PopOldest
  PROVE  /\ Oldest \in Event /\ QueuesOK(Event)'
         /\ \/ /\ ordinary = <<>> /\ UNCHANGED ordinary
               /\ critical # <<>> /\ Oldest = critical[1]
               /\ critical' \in Seq(Event) /\ Len(critical') = Len(critical) - 1
               /\ \A i \in 1 .. Len(critical') : critical'[i] = critical[i + 1]
            \/ /\ ordinary # <<>> /\ Oldest = ordinary[1] /\ UNCHANGED critical
               /\ ordinary' \in Seq(Event) /\ Len(ordinary') = Len(ordinary) - 1
               /\ \A i \in 1 .. Len(ordinary') : ordinary'[i] = ordinary[i + 1]
<1>1. ordinary \in Seq(Event) /\ critical \in Seq(Event) BY DEF TypeOK, QueuesOK
<1>2. ASSUME NEW q \in Seq(Event), q # <<>>
      PROVE  /\ Head(q) \in Event /\ Head(q) = q[1]
             /\ Tail(q) \in Seq(Event) /\ Len(Tail(q)) = Len(q) - 1
             /\ \A i \in 1 .. Len(Tail(q)) : Tail(q)[i] = q[i + 1]
  BY <1>2
<1>3. CASE ordinary = <<>>
  <2>1. critical # <<>> /\ Oldest = Head(critical) BY <1>3 DEF Waiting, Oldest, CriticalFirst
  <2>2. critical' = Tail(critical) /\ ordinary' = ordinary /\ missed' = missed
    BY <1>3 DEF PopOldest, CriticalFirst
  <2>3. critical' \in Seq(Event) /\ Len(critical') = Len(critical) - 1
    BY <1>1, <1>2, <2>1, <2>2
  <2>4. QueuesOK(Event)' BY <1>1, <2>2, <2>3, ConstantFacts DEF TypeOK, QueuesOK
  <2>5. QED BY <1>1, <1>2, <1>3, <2>1, <2>2, <2>4
<1>4. CASE ordinary # <<>>
  <2>1. Oldest = Head(ordinary) BY <1>4 DEF Oldest, CriticalFirst
  <2>2. ordinary' = Tail(ordinary) /\ critical' = critical /\ missed' = missed
    BY <1>4 DEF PopOldest, CriticalFirst
  <2>3. ordinary' \in Seq(Event) /\ Len(ordinary') = Len(ordinary) - 1
    BY <1>1, <1>2, <1>4, <2>2
  <2>4. QueuesOK(Event)' BY <1>1, <2>2, <2>3, ConstantFacts DEF TypeOK, QueuesOK
  <2>5. QED BY <1>1, <1>2, <1>4, <2>1, <2>2, <2>4
<1>5. QED BY <1>3, <1>4

-----------------------------------------------------------------------------
(* Types. *)
LEMMA TypeFacts ==
  ASSUME TypeOK
  PROVE  /\ live \in Nat /\ handle \in Nat /\ running \in Nat
         /\ count.conns \in 0 .. MaxConns /\ count.queries \in 0 .. MaxQueries
         /\ count.peer \in 0 .. MaxPeer
         /\ read.query \in {0} \cup Query /\ read.conn \in {0} \cup Conn
         /\ read.answers \in 0 .. 2
         /\ told.ended \in {0} \cup Conn /\ told.completed \in {0} \cup Query
         /\ told.waiting \in {0} \cup Query
         /\ Idle <=> pc.at = "idle"
         /\ ~Idle => pc.conn \in Conn
  BY ConstantFacts DEF TypeOK, Conn, Query, Idle, At

LEMMA TypeInit == Init => TypeOK
<1> SUFFICES ASSUME Init PROVE TypeOK OBVIOUS
<1>1. QueuesOK(Event)
  <2>1. ordinary = <<>> /\ critical = <<>> /\ missed = FALSE BY DEF Init, EmptyQueues
  <2>2. <<>> \in Seq(Event) /\ Len(<<>>) = 0 OBVIOUS
  <2>3. ordinary \in Seq(Event) /\ Len(ordinary) = 0 BY <2>1, <2>2
  <2>4. critical \in Seq(Event) /\ Len(critical) = 0 BY <2>1, <2>2
  <2>5. missed \in BOOLEAN BY <2>1
  <2>6. QED BY <2>3, <2>4, <2>5, ConstantFacts DEF QueuesOK
<1>2. count \in [conns : 0 .. MaxConns, queries : 0 .. MaxQueries, peer : 0 .. MaxPeer]
  BY ConstantFacts DEF Init
<1>3. pc \in {At("idle")} /\ query \in {"none"} /\ indicating \in BOOLEAN BY DEF Init
<1>4. /\ read \in [query : {0} \cup Query, conn : {0} \cup Conn, answers : 0 .. 2]
      /\ told \in [ended : {0} \cup Conn, completed : {0} \cup Query, waiting : {0} \cup Query]
  BY DEF Init
<1>5. QED BY <1>1, <1>2, <1>3, <1>4 DEF Init, TypeOK

LEMMA QueuesUnchanged ==
  ASSUME QueuesOK(Event), UNCHANGED queues PROVE QueuesOK(Event)'
  BY DEF queues, QueuesOK

(* What concerns a query concerns the connection it is made on.            *)
LEMMA QueryOnConnection ==
  ASSUME TypeOK, Linked, Queried, running # 0
  PROVE  handle = live /\ live \in Conn /\ running \in Query /\ query \in Sort
  BY DEF TypeOK, Linked, Queried

(* A read that is under way has no answer yet.                             *)
LEMMA OneAnswer ==
  ASSUME TypeOK, Reading, NEW due, due => running # 0 /\ query = "read",
         read' = [read EXCEPT !.answers = @ + Added(due)]
  PROVE  /\ read' \in [query : {0} \cup Query, conn : {0} \cup Conn, answers : 0 .. 2]
         /\ read'.query = read.query /\ read'.conn = read.conn
         /\ read'.answers = read.answers + Added(due) /\ read'.answers <= 1
<1>1. Added(due) \in {0, 1} /\ (~due => Added(due) = 0) BY DEF Added
<1>2. read.answers + Added(due) \in 0 .. 1
  BY <1>1, TypeFacts DEF Reading, ReadAnsweredOnce
<1>3. QED BY <1>2 DEF TypeOK

LEMMA TypeStep == ASSUME TypeOK, Linked, Queried, Reading, [Next]_vars PROVE TypeOK'
<1>0. QueuesOK(Event) BY DEF TypeOK
<1>1. ASSUME ConnectionComplete PROVE TypeOK'
  <2>1. live' \in Conn /\ count.conns + 1 \in 0 .. MaxConns
    BY <1>1, ConstantFacts, TypeFacts DEF ConnectionComplete, Conn
  <2>2. QueuesOK(Event)'
    BY <1>1, <2>1, CriticalEventQueued, EventTypes DEF ConnectionComplete
  <2>3. QED BY <1>1, <2>1, <2>2 DEF ConnectionComplete, TypeOK
<1>2. ASSUME NEW first \in BOOLEAN, DisconnectionComplete(first) PROVE TypeOK'
  <2>1. live \in Conn /\ (first /\ running # 0) \in BOOLEAN
    BY <1>2 DEF DisconnectionComplete, TypeOK
  <2>2. QueuesOK(Event)'
    BY <1>2, <2>1, GivenUp DEF DisconnectionComplete, TypeOK
  <2>3. read' \in [query : {0} \cup Query, conn : {0} \cup Conn, answers : 0 .. 2]
    BY <1>2, OneAnswer DEF DisconnectionComplete
  <2>4. QED BY <1>2, <2>1, <2>2, <2>3 DEF DisconnectionComplete, TypeOK
<1>3. ASSUME NEW sort \in Sort, StartQuery(sort) PROVE TypeOK'
  BY <1>0, <1>3, QueuesUnchanged DEF StartQuery, TypeOK, link
<1>4. ASSUME NEW accepts \in BOOLEAN, AskStack(accepts) PROVE TypeOK'
  <2>1. count.queries + 1 \in Query /\ count.queries + 1 \in 0 .. MaxQueries
    BY <1>4, ConstantFacts, TypeFacts DEF AskStack, Queried, Query
  <2>2. CASE accepts /\ live = pc.conn
    BY <1>0, <1>4, <2>1, <2>2, QueuesUnchanged DEF AskStack, TypeOK, link
  <2>3. CASE ~(accepts /\ live = pc.conn)
    BY <1>0, <1>4, <2>3, QueuesUnchanged DEF AskStack, TypeOK, link
  <2>4. QED BY <2>2, <2>3
<1>5. ASSUME QueryResult PROVE TypeOK'
  <2>1. QueuesOK(Event)'
    BY <1>5, QueryOnConnection, EventQueued, EventTypes DEF QueryResult
  <2>2. QED BY <1>5, <2>1 DEF QueryResult, TypeOK, link
<1>6. ASSUME QueryComplete PROVE TypeOK'
  <2>1. QueuesOK(Event)'
    BY <1>6, QueryOnConnection, CriticalEventQueued, EventTypes DEF QueryComplete
  <2>2. read' \in [query : {0} \cup Query, conn : {0} \cup Conn, answers : 0 .. 2]
    BY <1>6, OneAnswer DEF QueryComplete
  <2>3. QED BY <1>6, <2>1, <2>2 DEF QueryComplete, TypeOK, link
<1>7. ASSUME ReadResponse PROVE TypeOK'
  <2>1. QueuesOK(Event)'
    BY <1>7, QueryOnConnection, EventQueued, CriticalEventQueued, EventTypes
    DEF ReadResponse
  <2>2. read' \in [query : {0} \cup Query, conn : {0} \cup Conn, answers : 0 .. 2]
    BY <1>7, OneAnswer DEF ReadResponse
  <2>3. QED BY <1>7, <2>1, <2>2 DEF ReadResponse, TypeOK, link
<1>8. ASSUME PeerNotifies PROVE TypeOK'
  <2>1. QueuesOK(Event)' /\ count.peer + 1 \in 0 .. MaxPeer
    BY <1>8, CriticalEventQueued, EventTypes, TypeFacts, ConstantFacts
    DEF PeerNotifies, TypeOK
  <2>2. QED BY <1>8, <2>1 DEF PeerNotifies, TypeOK, link
<1>9. ASSUME StartWrite PROVE TypeOK'
  BY <1>0, <1>9, QueuesUnchanged DEF StartWrite, TypeOK, link
<1>10. ASSUME PeerWrites PROVE TypeOK'
  <2>1. QueuesOK(Event)' /\ count.peer + 1 \in 0 .. MaxPeer
    BY <1>10, EventQueued, EventTypes, TypeFacts, ConstantFacts DEF PeerWrites, TypeOK
  <2>2. QED BY <1>10, <2>1 DEF PeerWrites, TypeOK, link
<1>11. ASSUME NEW bits \in SUBSET {"notify", "indicate"}, PeerSubscribes(bits) PROVE TypeOK'
  <2>1. QueuesOK(Event)' /\ count.peer + 1 \in 0 .. MaxPeer
    BY <1>11, EventQueued, EventTypes, TypeFacts, ConstantFacts DEF PeerSubscribes, TypeOK
  <2>2. QED BY <1>11, <2>1 DEF PeerSubscribes, TypeOK
<1>12. ASSUME StartNotify PROVE TypeOK'
  BY <1>0, <1>12, QueuesUnchanged DEF StartNotify, TypeOK, link
<1>13. ASSUME StartIndicate PROVE TypeOK'
  BY <1>0, <1>13, QueuesUnchanged DEF StartIndicate, TypeOK, link
<1>14. ASSUME NEW accepts \in BOOLEAN, Send(accepts) PROVE TypeOK'
  BY <1>0, <1>14, QueuesUnchanged DEF Send, TypeOK, link, At
<1>15. ASSUME ReportSent PROVE TypeOK'
  <2>1. pc.conn \in Conn BY <1>15, TypeFacts DEF ReportSent
  <2>2. QueuesOK(Event)' BY <1>15, <2>1, EventQueued, EventTypes DEF ReportSent
  <2>3. count' \in [conns : 0 .. MaxConns, queries : 0 .. MaxQueries, peer : 0 .. MaxPeer]
    BY <1>15, ConstantFacts DEF ReportSent, TypeOK
  <2>4. QED BY <1>15, <2>2, <2>3 DEF ReportSent, TypeOK, link
<1>16. ASSUME NEW accepts \in BOOLEAN, SendIndication(accepts) PROVE TypeOK'
  BY <1>0, <1>16, QueuesUnchanged DEF SendIndication, TypeOK
<1>17. ASSUME IndicationComplete PROVE TypeOK'
  <2>1. live \in Conn BY <1>17 DEF IndicationComplete, Linked, TypeOK
  <2>2. QueuesOK(Event)'
    BY <1>17, <2>1, CriticalEventQueued, EventTypes DEF IndicationComplete
  <2>3. count' \in [conns : 0 .. MaxConns, queries : 0 .. MaxQueries, peer : 0 .. MaxPeer]
    BY <1>17, ConstantFacts DEF IndicationComplete, TypeOK
  <2>4. /\ indicating' \in BOOLEAN
        /\ UNCHANGED <<handle, subscriptions, live, query, running, pc, read, told>>
    BY <1>17 DEF IndicationComplete
  <2>5. QED BY <2>2, <2>3, <2>4 DEF TypeOK
<1>18. ASSUME TakeEvent PROVE TypeOK'
  <2>1. QueuesOK(Event)' /\ Oldest \in Event BY <1>18, Taken DEF TakeEvent
  <2>2. Oldest.conn \in Conn /\ (Answers(Oldest) => Oldest.query \in Query)
    BY <2>1, EventFields
  <2>3. told' \in [ended : {0} \cup Conn, completed : {0} \cup Query, waiting : {0} \cup Query]
    BY <1>18, <2>2 DEF TakeEvent, TypeOK
  <2>4. QED BY <1>18, <2>1, <2>3 DEF TakeEvent, TypeOK, link
<1>19. CASE UNCHANGED vars
  BY <1>0, <1>19, QueuesUnchanged DEF vars, TypeOK
<1>20. QED
  BY <1>1, <1>2, <1>3, <1>4, <1>5, <1>6, <1>7, <1>8, <1>9, <1>10, <1>11, <1>12, <1>13,
     <1>14, <1>15, <1>16, <1>17, <1>18, <1>19 DEF Next, Start, Continue, Stack

-----------------------------------------------------------------------------
(* Connections, queries and reads. *)
LEMMA LinkedStep == ASSUME TypeOK, Linked, Queried, [Next]_vars PROVE Linked'
<1> USE TypeFacts DEF Linked
<1>1. CASE ConnectionComplete
  <2>1. count'.conns = count.conns + 1 BY <1>1 DEF ConnectionComplete, TypeOK
  <2>2. ~Idle => pc.conn <= count.conns + 1 BY ConstantFacts DEF Conn
  <2>3. QED BY <1>1, <2>1, <2>2 DEF ConnectionComplete, Idle
<1>2. ASSUME NEW first \in BOOLEAN, DisconnectionComplete(first) PROVE Linked'
  BY <1>2 DEF DisconnectionComplete, Idle
<1>3. ASSUME NEW sort \in Sort, StartQuery(sort) PROVE Linked'
  BY <1>3 DEF StartQuery, link
<1>4. ASSUME NEW accepts \in BOOLEAN, AskStack(accepts) PROVE Linked'
  <2>1. count'.conns = count.conns BY <1>4 DEF AskStack, TypeOK
  <2>2. QED BY <1>4, <2>1 DEF AskStack, link, Idle
<1>5. CASE QueryResult BY <1>5 DEF QueryResult, link, Idle
<1>6. CASE QueryComplete BY <1>6 DEF QueryComplete, link, Idle
<1>7. CASE ReadResponse BY <1>7 DEF ReadResponse, link, Idle
<1>8. CASE PeerNotifies BY <1>8 DEF PeerNotifies, link, Idle, TypeOK
<1>9. CASE StartWrite BY <1>9 DEF StartWrite, link
<1>10. CASE PeerWrites BY <1>10 DEF PeerWrites, link, Idle, TypeOK
<1>11. ASSUME NEW bits \in SUBSET {"notify", "indicate"}, PeerSubscribes(bits) PROVE Linked'
  BY <1>11 DEF PeerSubscribes, Idle, TypeOK
<1>12. CASE StartNotify BY <1>12 DEF StartNotify, link
<1>13. CASE StartIndicate BY <1>13 DEF StartIndicate, link
<1>14. ASSUME NEW accepts \in BOOLEAN, Send(accepts) PROVE Linked'
  <2>1. pc' = At("idle") \/ (~Idle /\ pc'.conn = pc.conn)
    BY <1>14 DEF Send, TypeOK
  <2>2. QED BY <1>14, <2>1 DEF Send, link, Idle
<1>15. CASE ReportSent BY <1>15 DEF ReportSent, link, Idle, TypeOK
<1>16. ASSUME NEW accepts \in BOOLEAN, SendIndication(accepts) PROVE Linked'
  <2>1. pc.at = "indicating" => pc.conn # 0 BY DEF Conn
  <2>2. QED BY <1>16, <2>1 DEF SendIndication, Idle
<1>17. CASE IndicationComplete BY <1>17 DEF IndicationComplete, Idle, TypeOK
<1>18. CASE TakeEvent BY <1>18 DEF TakeEvent, link, Idle
<1>19. CASE UNCHANGED vars BY <1>19 DEF vars, Idle
<1>20. QED
  BY <1>1, <1>2, <1>3, <1>4, <1>5, <1>6, <1>7, <1>8, <1>9, <1>10, <1>11, <1>12, <1>13,
     <1>14, <1>15, <1>16, <1>17, <1>18, <1>19 DEF Next, Start, Continue, Stack

LEMMA QueriedStep == ASSUME TypeOK, Linked, Queried, [Next]_vars PROVE Queried'
<1> USE TypeFacts DEF Queried, Linked
<1>1. CASE ConnectionComplete
  <2>1. count'.conns = count.conns + 1 /\ count'.queries = count.queries
    BY <1>1 DEF ConnectionComplete, TypeOK
  <2>2. pc.at = "querying" => pc.conn # live' /\ pc.conn # live
    BY <1>1, ConstantFacts DEF ConnectionComplete, Conn
  <2>3. live = 0 /\ live' # 0 /\ UNCHANGED <<query, running, pc>>
    BY <1>1 DEF ConnectionComplete
  <2>4. QED BY <2>1, <2>2, <2>3
<1>2. ASSUME NEW first \in BOOLEAN, DisconnectionComplete(first) PROVE Queried'
  <2>1. pc.at = "querying" => pc.conn # 0 BY DEF Conn, Idle
  <2>2. QED BY <1>2, <2>1 DEF DisconnectionComplete
<1>3. ASSUME NEW sort \in Sort, StartQuery(sort) PROVE Queried'
  BY <1>3 DEF StartQuery, link, Sort
<1>4. ASSUME NEW accepts \in BOOLEAN, AskStack(accepts) PROVE Queried'
  <2>1. pc'.at = "idle" BY <1>4 DEF AskStack, At
  <2>2. CASE accepts /\ live = pc.conn
    <3>1. count'.queries = count.queries + 1 /\ live # 0
      BY <1>4, <2>2 DEF AskStack, TypeOK, Conn, Idle
    <3>2. QED BY <1>4, <2>1, <2>2, <3>1 DEF AskStack, link
  <2>3. CASE ~(accepts /\ live = pc.conn)
    BY <1>4, <2>1, <2>3 DEF AskStack, link
  <2>4. QED BY <2>2, <2>3
<1>5. CASE QueryResult BY <1>5 DEF QueryResult, link
<1>6. CASE QueryComplete BY <1>6 DEF QueryComplete, link
<1>7. CASE ReadResponse BY <1>7 DEF ReadResponse, link
<1>8. CASE PeerNotifies BY <1>8 DEF PeerNotifies, link, TypeOK
<1>9. CASE StartWrite BY <1>9 DEF StartWrite, link
<1>10. CASE PeerWrites BY <1>10 DEF PeerWrites, link, TypeOK
<1>11. ASSUME NEW bits \in SUBSET {"notify", "indicate"}, PeerSubscribes(bits) PROVE Queried'
  BY <1>11 DEF PeerSubscribes, TypeOK
<1>12. CASE StartNotify BY <1>12 DEF StartNotify, link
<1>13. CASE StartIndicate BY <1>13 DEF StartIndicate, link
<1>14. ASSUME NEW accepts \in BOOLEAN, Send(accepts) PROVE Queried'
  <2>1. pc'.at \in {"idle", "sent"} BY <1>14 DEF Send, At, TypeOK
  <2>2. QED BY <1>14, <2>1 DEF Send, link
<1>15. CASE ReportSent BY <1>15 DEF ReportSent, link, At, TypeOK
<1>16. ASSUME NEW accepts \in BOOLEAN, SendIndication(accepts) PROVE Queried'
  BY <1>16 DEF SendIndication, At
<1>17. CASE IndicationComplete BY <1>17 DEF IndicationComplete, TypeOK
<1>18. CASE TakeEvent BY <1>18 DEF TakeEvent, link
<1>19. CASE UNCHANGED vars BY <1>19 DEF vars
<1>20. QED
  BY <1>1, <1>2, <1>3, <1>4, <1>5, <1>6, <1>7, <1>8, <1>9, <1>10, <1>11, <1>12, <1>13,
     <1>14, <1>15, <1>16, <1>17, <1>18, <1>19 DEF Next, Start, Continue, Stack

(* The completion of a query, with what was queued of it.                  *)
LEMMA ReadEnds ==
  ASSUME TypeOK, Queried, Reading, running # 0, query' = "none", running' = 0,
         UNCHANGED <<link, count>>, NEW due, query = "read" => due,
         due => query = "read",
         read' = [read EXCEPT !.answers = @ + Added(due)],
         missed => missed',
         due => missed' \/ <<ordinary', critical'>> # <<ordinary, critical>>
  PROVE  Reading'
<1>1. /\ read'.query = read.query /\ read'.conn = read.conn
      /\ read'.answers = read.answers + Added(due) /\ read'.answers <= 1
  BY OneAnswer
<1>2. live' = live BY DEF link
<1>3. Added(due) \in {0, 1} /\ (due => missed' \/ Added(due) = 1) BY DEF Added
<1>4. ASSUME read'.conn = live', live' # 0, running' # read'.query
      PROVE  read'.answers = 1 \/ missed'
  <2>1. CASE query = "read"
    <3>1. missed' \/ Added(due) = 1 BY <1>3, <2>1
    <3>2. read.answers = 0 BY <2>1 DEF Reading
    <3>3. QED BY <1>1, <3>1, <3>2
  <2>2. CASE query # "read"
    <3>1. ~due /\ Added(due) = 0 BY <2>2 DEF Added
    <3>2. read.answers = 1 \/ missed
      BY <1>1, <1>2, <1>4, <2>2 DEF Reading, ReadAnsweredOnce
    <3>3. QED BY <1>1, <3>1, <3>2, TypeFacts
  <2>3. QED BY <2>1, <2>2
<1>5. QED BY <1>1, <1>4 DEF Reading, ReadAnsweredOnce

(* A step that leaves connection, query and read alone.                    *)
LEMMA ReadUnmoved ==
  ASSUME Reading, UNCHANGED <<query, live, running, read>>, missed => missed',
         count'.conns = count.conns, count'.queries = count.queries
  PROVE  Reading'
  BY DEF Reading, ReadAnsweredOnce

LEMMA ReadingStep == ASSUME TypeOK, Linked, Queried, Reading, [Next]_vars PROVE Reading'
<1> USE TypeFacts
<1>1. CASE ConnectionComplete
  <2>1. /\ live' = count.conns + 1 /\ count'.conns = count.conns + 1
        /\ count'.queries = count.queries
    BY <1>1 DEF ConnectionComplete, TypeOK
  <2>2. QED BY <1>1, <2>1, ConstantFacts DEF ConnectionComplete, Reading, ReadAnsweredOnce, Conn
<1>2. ASSUME NEW first \in BOOLEAN, DisconnectionComplete(first) PROVE Reading'
  <2>1. /\ read'.query = read.query /\ read'.conn = read.conn /\ read'.answers <= 1
    BY <1>2, OneAnswer DEF DisconnectionComplete
  <2>2. QED BY <1>2, <2>1 DEF DisconnectionComplete, Reading, ReadAnsweredOnce
<1>3. ASSUME NEW sort \in Sort, StartQuery(sort) PROVE Reading'
  BY <1>3 DEF StartQuery, link, queues, Queried, Reading, ReadAnsweredOnce
<1>4. ASSUME NEW accepts \in BOOLEAN, AskStack(accepts) PROVE Reading'
  <2>1. running = 0 BY <1>4 DEF AskStack, Queried
  <2>2. CASE accepts /\ live = pc.conn
    <3>1. /\ running' = count.queries + 1 /\ count'.queries = count.queries + 1
          /\ count'.conns = count.conns
      BY <1>4, <2>2 DEF AskStack, TypeOK
    <3>2. live # 0 /\ live = count.conns BY <1>4, <2>2 DEF AskStack, Conn, Linked
    <3>3. CASE query = "read"
      <4>1. read' = [query |-> running', conn |-> live, answers |-> 0]
        BY <1>4, <2>2, <3>3 DEF AskStack
      <4>2. QED BY <1>4, <2>2, <3>1, <3>2, <3>3, <4>1
                DEF AskStack, link, Reading, ReadAnsweredOnce
    <3>4. CASE query # "read"
      <4>1. read' = read /\ query' = query /\ live' = live /\ missed' = missed
        BY <1>4, <2>2, <3>4 DEF AskStack, link, queues
      <4>2. running' # read.query BY <3>1, ConstantFacts DEF Reading, Query
      <4>3. read.conn = live => running # read.query BY <2>1, <3>2 DEF Reading
      <4>4. read.conn = live => read.answers = 1 \/ missed
        BY <3>2, <4>3 DEF Reading, ReadAnsweredOnce
      <4>5. read.query <= count.queries + 1 BY ConstantFacts DEF Reading, Query
      <4>6. QED BY <3>1, <3>4, <4>1, <4>2, <4>4, <4>5 DEF Reading, ReadAnsweredOnce
    <3>5. QED BY <3>3, <3>4
  <2>3. CASE ~(accepts /\ live = pc.conn)
    BY <1>4, <2>1, <2>3 DEF AskStack, link, queues, Reading, ReadAnsweredOnce
  <2>4. QED BY <2>2, <2>3
<1>5. CASE QueryResult
  BY <1>5, ReadUnmoved, QueryOnConnection, EventQueued, EventTypes DEF QueryResult, link
<1>6. CASE QueryComplete
  <2>1. (missed => missed') /\ (critical' # critical \/ missed')
    BY <1>6, QueryOnConnection, CriticalEventQueued, EventTypes DEF QueryComplete
  <2>2. /\ running # 0 /\ query' = "none" /\ running' = 0 /\ UNCHANGED <<link, count>>
        /\ read' = [read EXCEPT !.answers = @ + Added(query = "read")]
    BY <1>6 DEF QueryComplete
  <2>3. QED BY <2>1, <2>2, ReadEnds
<1>7. CASE ReadResponse
  <2>1. /\ missed => missed'
        /\ missed' \/ <<ordinary', critical'>> # <<ordinary, critical>>
    <3>1. CASE Stored
      BY <1>7, <3>1, QueryOnConnection, EventQueued, EventTypes DEF ReadResponse
    <3>2. CASE ~Stored
      BY <1>7, <3>2, QueryOnConnection, CriticalEventQueued, EventTypes DEF ReadResponse
    <3>3. QED BY <3>1, <3>2
  <2>2. /\ running # 0 /\ query = "read" /\ query' = "none" /\ running' = 0
        /\ UNCHANGED <<link, count>>
        /\ read' = [read EXCEPT !.answers = @ + Added(TRUE)]
    BY <1>7 DEF ReadResponse
  <2>3. QED BY <2>1, <2>2, ReadEnds
<1>8. CASE PeerNotifies
  BY <1>8, ReadUnmoved, CriticalEventQueued, EventTypes DEF PeerNotifies, TypeOK, link
<1>9. CASE StartWrite BY <1>9, ReadUnmoved DEF StartWrite, link, queues
<1>10. CASE PeerWrites
  BY <1>10, ReadUnmoved, EventQueued, EventTypes DEF PeerWrites, TypeOK, link
<1>11. ASSUME NEW bits \in SUBSET {"notify", "indicate"}, PeerSubscribes(bits) PROVE Reading'
  BY <1>11, ReadUnmoved, EventQueued, EventTypes DEF PeerSubscribes, TypeOK
<1>12. CASE StartNotify BY <1>12, ReadUnmoved DEF StartNotify, link, queues
<1>13. CASE StartIndicate BY <1>13, ReadUnmoved DEF StartIndicate, link, queues
<1>14. ASSUME NEW accepts \in BOOLEAN, Send(accepts) PROVE Reading'
  BY <1>14, ReadUnmoved DEF Send, link, queues
<1>15. CASE ReportSent
  BY <1>15, ReadUnmoved, EventQueued, EventTypes DEF ReportSent, TypeOK, link
<1>16. ASSUME NEW accepts \in BOOLEAN, SendIndication(accepts) PROVE Reading'
  BY <1>16, ReadUnmoved DEF SendIndication, queues
<1>17. CASE IndicationComplete
  <2>1. live \in Conn BY <1>17 DEF IndicationComplete, Linked, TypeOK
  <2>2. QED
    BY <1>17, <2>1, ReadUnmoved, CriticalEventQueued, EventTypes DEF IndicationComplete, TypeOK
<1>18. CASE TakeEvent
  BY <1>18, ReadUnmoved DEF TakeEvent, PopOldest, link
<1>19. CASE UNCHANGED vars BY <1>19, ReadUnmoved DEF vars, queues
<1>20. QED
  BY <1>1, <1>2, <1>3, <1>4, <1>5, <1>6, <1>7, <1>8, <1>9, <1>10, <1>11, <1>12, <1>13,
     <1>14, <1>15, <1>16, <1>17, <1>18, <1>19 DEF Next, Start, Continue, Stack

-----------------------------------------------------------------------------
(* What a queue has in order, it keeps when it gains an event of the       *)
(* connection and the query of the moment.                                 *)
LEMMA GainedOrder ==
  ASSUME NEW q \in Seq(Event), NEW r, NEW e \in Event, Gains(q, r, e)
  PROVE  /\ \A x \in Nat : Later(q, x) /\ x < e.conn => Later(r, x)
         /\ \A x \in Nat : Made(q, x) /\ e.conn <= x => Made(r, x)
         /\ \A x \in Nat : Results(q, x) /\ (e.kind = "result" => x < e.query) => Results(r, x)
<1>1. \A i \in DOMAIN r : (i \in DOMAIN q /\ r[i] = q[i]) \/ r[i] = e
  BY DEF Gains
<1>2. QED BY <1>1 DEF Later, Made, Results

LEMMA GainedEnds ==
  ASSUME NEW q \in Seq(Event), NEW r, NEW e \in Event, Gains(q, r, e),
         NEW x \in Nat, x # 0, Ends(q, x), e.conn = x
  PROVE  Ends(r, IF e.kind = "disconnected" THEN 0 ELSE x)
<1>1. \A i \in DOMAIN r : (i \in DOMAIN q /\ r[i] = q[i]) \/ (i \notin DOMAIN q /\ r[i] = e)
  BY DEF Gains
<1>2. \A i, j \in DOMAIN r : i < j => i \in DOMAIN q BY DEF Gains
<1>3. \A i \in DOMAIN q : q[i].kind = "disconnected" =>
        /\ q[i].conn < x
        /\ \A j \in DOMAIN q : i < j => q[i].conn < q[j].conn
  BY DEF Ends
<1>4. ASSUME NEW i \in DOMAIN r, r[i].kind = "disconnected", e.kind # "disconnected"
      PROVE  r[i].conn < x
  BY <1>1, <1>3, <1>4
<1>5. ASSUME NEW i \in DOMAIN r, NEW j \in DOMAIN r, r[i].kind = "disconnected", i < j
      PROVE  r[i].conn < r[j].conn
  <2>1. i \in DOMAIN q /\ r[i] = q[i] BY <1>1, <1>2, <1>5
  <2>2. CASE j \in DOMAIN q BY <1>1, <1>3, <1>5, <2>1, <2>2
  <2>3. CASE j \notin DOMAIN q BY <1>1, <1>3, <1>5, <2>1, <2>3
  <2>4. QED BY <2>2, <2>3
<1>6. QED BY <1>4, <1>5 DEF Ends

(* A new event of the connection of the moment keeps the events timely.    *)
LEMMA TimelyCritical ==
  ASSUME NEW q \in Seq(Event), NEW r, NEW e \in Event, Gains(q, r, e),
         NEW x \in Nat, NEW c \in Nat, NEW last \in Nat, c # 0, x < c, c <= last, e.conn = c,
         Later(q, x), Made(q, last), Ends(q, c)
  PROVE  /\ Later(r, x) /\ Made(r, last)
         /\ Ends(r, IF e.kind = "disconnected" THEN 0 ELSE c)
  BY GainedOrder, GainedEnds

LEMMA EndsLater ==
  ASSUME NEW q \in Seq(Event), NEW x \in Nat, Made(q, x), NEW n \in Nat, Ends(q, n)
  PROVE  Ends(q, x + 1) /\ Ends(q, 0)
<1>1. \A i \in DOMAIN q : q[i].conn \in Nat /\ q[i].conn <= x
  <2>1. \A i \in DOMAIN q : q[i] \in Event OBVIOUS
  <2>2. QED BY <2>1, EventFields DEF Made, Conn
<1>2. QED BY <1>1 DEF Ends

(* What is left after the oldest event was taken.                          *)
LEMMA Shifted ==
  ASSUME NEW q \in Seq(Event), NEW r \in Seq(Event), Len(r) = Len(q) - 1,
         \A i \in 1 .. Len(r) : r[i] = q[i + 1]
  PROVE  \A i \in DOMAIN r : i + 1 \in DOMAIN q /\ 1 < i + 1 /\ r[i] = q[i + 1]
<1>1. DOMAIN r = 1 .. Len(r) /\ DOMAIN q = 1 .. Len(q) /\ Len(q) \in Nat OBVIOUS
<1>2. \A i \in 1 .. Len(r) : i + 1 \in 1 .. Len(q) /\ 1 < i + 1 BY <1>1
<1>3. QED BY <1>1, <1>2

LEMMA LeftOver ==
  ASSUME NEW q \in Seq(Event), NEW r \in Seq(Event), Len(r) = Len(q) - 1,
         \A i \in 1 .. Len(r) : r[i] = q[i + 1]
  PROVE  /\ \A x \in Nat : Later(q, x) => Later(r, x)
         /\ \A x \in Nat : Made(q, x) => Made(r, x)
         /\ \A x \in Nat : Ends(q, x) => Ends(r, x)
         /\ \A x \in Nat : Results(q, x) => Results(r, x)
         /\ \A x, y \in Nat : Answered(q, x, y) => Answered(r, x, y)
<1>1. \A i \in DOMAIN r : i + 1 \in DOMAIN q /\ r[i] = q[i + 1] /\ i \in Int
  OBVIOUS
<1>2. \A i, j \in DOMAIN r : i < j => i + 1 < j + 1 OBVIOUS
<1>3. /\ \A x \in Nat : Later(q, x) => Later(r, x)
      /\ \A x \in Nat : Made(q, x) => Made(r, x)
      /\ \A x \in Nat : Results(q, x) => Results(r, x)
  BY <1>1 DEF Later, Made, Results
<1>4. \A x \in Nat : Ends(q, x) => Ends(r, x) BY <1>1, <1>2 DEF Ends
<1>5. \A x, y \in Nat : Answered(q, x, y) => Answered(r, x, y) BY <1>1, <1>2 DEF Answered
<1>6. QED BY <1>3, <1>4, <1>5

-----------------------------------------------------------------------------
(* Events are timely. *)
LEMMA QueueFacts ==
  ASSUME TypeOK
  PROVE  ordinary \in Seq(Event) /\ critical \in Seq(Event)
  BY DEF TypeOK, QueuesOK

(* A step that adds an ordinary event of a connection not ended, or none.  *)
LEMMA TimelyOrdinary ==
  ASSUME TypeOK, Timely, UNCHANGED <<live, told, critical>>,
         count'.conns = count.conns,
         ~Idle' => told.ended < pc'.conn,
         \/ UNCHANGED ordinary
         \/ \E e \in Event : /\ told.ended < e.conn /\ e.kind # "disconnected"
                            /\ Gains(ordinary, ordinary', e)
  PROVE  Timely'
<1>1. told.ended \in Nat BY TypeFacts DEF Conn
<1>2. Later(ordinary', told.ended)
  BY <1>1, QueueFacts, GainedOrder DEF Timely
<1>3. \A i \in DOMAIN ordinary' : ordinary'[i].kind # "disconnected"
  BY QueueFacts DEF Timely, Gains
<1>4. QED BY <1>2, <1>3 DEF Timely

(* A step that adds a critical event of the connection.                    *)
LEMMA TimelyAdded ==
  ASSUME TypeOK, Linked, Timely, live # 0, UNCHANGED <<live, told, ordinary, pc>>,
         count'.conns = count.conns,
         NEW e \in Event, e.conn = live, e.kind # "disconnected",
         Gains(critical, critical', e)
  PROVE  Timely'
<1>1. told.ended \in Nat /\ live \in Nat /\ count.conns \in Nat
  BY TypeFacts, ConstantFacts DEF Conn
<1>2. Later(critical', told.ended) /\ Made(critical', count.conns) /\ Ends(critical', live)
  BY <1>1, QueueFacts, TimelyCritical DEF Timely, Linked
<1>3. QED BY <1>2 DEF Timely, Idle

LEMMA TimelyStep ==
  ASSUME TypeOK, Linked, Queried, Timely, [Next]_vars
  PROVE  Timely'
<1> USE TypeFacts
<1>0. /\ told.ended \in Nat /\ live \in Nat /\ count.conns \in Nat
      /\ live # 0 => live \in Conn /\ told.ended < live
  BY ConstantFacts DEF Conn, Timely, TypeOK
<1>1. CASE ConnectionComplete
  <2> DEFINE c == count.conns + 1
  <2>1. /\ live = 0 /\ live' = c /\ count'.conns = c /\ c \in Conn
        /\ UNCHANGED <<told, pc>>
    BY <1>1, ConstantFacts DEF ConnectionComplete, TypeOK, Conn
  <2>2. Gains(critical, critical', Link("connected", c)) /\ ordinary' = ordinary
    BY <1>1, <2>1, CriticalEventQueued, EventTypes DEF ConnectionComplete
  <2>3. Made(critical, c) BY <1>0, QueueFacts, EventFields DEF Timely, Made, Conn
  <2>4. Ends(critical, c) BY <1>0, <2>1, QueueFacts, EndsLater DEF Timely
  <2>5. told.ended < c /\ c \in Nat /\ c # 0 BY <1>0 DEF Timely
  <2>6. Later(critical', told.ended) /\ Made(critical', c) /\ Ends(critical', c)
    <3>1. Link("connected", c) \in Event /\ Link("connected", c).conn = c
          /\ Link("connected", c).kind # "disconnected"
      BY <2>1, EventTypes
    <3> HIDE DEF c
    <3>2. QED BY <1>0, <2>2, <2>3, <2>4, <2>5, <3>1, QueueFacts, TimelyCritical DEF Timely
  <2>7. count'.conns = c /\ told'.ended <= c BY <1>0, <2>1 DEF Timely
  <2>8. ~Idle' => told.ended < pc'.conn BY <2>1 DEF Timely, Idle
  <2> HIDE DEF c
  <2>9. QED BY <2>1, <2>2, <2>5, <2>6, <2>7, <2>8 DEF Timely
<1>2. ASSUME NEW first \in BOOLEAN, DisconnectionComplete(first) PROVE Timely'
  <2> DEFINE done == first /\ running # 0
  <2>1. /\ live # 0 /\ live' = 0 /\ UNCHANGED <<told, pc, count>> /\ GivesUp(done)
    BY <1>2 DEF DisconnectionComplete
  <2>2. done => running \in Query BY DEF TypeOK
  <2>3. PICK m \in Seq(Event) :
          /\ IF done THEN Gains(critical, m, Answer("complete", live, running)) ELSE m = critical
          /\ Gains(m, critical', Link("disconnected", live))
    BY <1>0, <2>1, <2>2, GivenUp
  <2>4. ordinary' = ordinary BY <1>0, <2>1, <2>2, GivenUp
  <2>5. live <= count.conns BY <2>1 DEF Linked
  <2>6. Later(m, told.ended) /\ Made(m, count.conns) /\ Ends(m, live)
    <3>1. CASE ~done BY <2>1, <2>3, <3>1 DEF Timely
    <3>2. CASE done
      <4>1. /\ Answer("complete", live, running) \in Event
            /\ Answer("complete", live, running).conn = live
            /\ Answer("complete", live, running).kind # "disconnected"
        BY <1>0, <2>1, <2>2, <3>2, EventTypes
      <4>2. QED BY <1>0, <2>1, <2>3, <2>5, <3>2, <4>1, QueueFacts, TimelyCritical DEF Timely
    <3>3. QED BY <3>1, <3>2
  <2>7. Later(critical', told.ended) /\ Made(critical', count.conns) /\ Ends(critical', 0)
    <3>1. /\ Link("disconnected", live) \in Event
          /\ Link("disconnected", live).conn = live
          /\ Link("disconnected", live).kind = "disconnected"
      BY <1>0, <2>1, EventTypes
    <3>2. QED BY <1>0, <2>1, <2>3, <2>5, <2>6, <3>1, TimelyCritical
  <2>8. QED BY <2>1, <2>4, <2>7 DEF Timely, Idle
<1>3. ASSUME NEW sort \in Sort, StartQuery(sort) PROVE Timely'
  BY <1>0, <1>3, TimelyOrdinary DEF StartQuery, link, queues, Linked
<1>4. ASSUME NEW accepts \in BOOLEAN, AskStack(accepts) PROVE Timely'
  <2>1. /\ UNCHANGED <<live, ordinary, critical>> /\ Idle' /\ count'.conns = count.conns
        /\ told'.ended = told.ended
    BY <1>4 DEF AskStack, link, queues, Idle, TypeOK
  <2>2. QED BY <2>1 DEF Timely
<1>5. CASE QueryResult
  <2>1. live # 0 /\ handle = live /\ live \in Conn /\ running \in Query
    BY <1>5, QueryOnConnection DEF QueryResult, Queried
  <2>2. /\ Answer("result", live, running) \in Event
        /\ Answer("result", live, running).conn = live
        /\ Answer("result", live, running).kind # "disconnected"
    BY <2>1, EventTypes
  <2>3. Gains(ordinary, ordinary', Answer("result", live, running)) /\ UNCHANGED critical
    BY <1>5, <2>1, <2>2, EventQueued DEF QueryResult
  <2>4. QED BY <1>0, <1>5, <2>1, <2>2, <2>3, TimelyOrdinary DEF QueryResult, link, Idle, Timely
<1>6. CASE QueryComplete
  <2>1. live # 0 /\ handle = live /\ live \in Conn /\ running \in Query
    BY <1>6, QueryOnConnection DEF QueryComplete, Queried
  <2>2. /\ Answer("complete", live, running) \in Event
        /\ Answer("complete", live, running).conn = live
        /\ Answer("complete", live, running).kind # "disconnected"
    BY <2>1, EventTypes
  <2>3. Gains(critical, critical', Answer("complete", live, running)) /\ UNCHANGED ordinary
    BY <1>6, <2>1, <2>2, CriticalEventQueued DEF QueryComplete
  <2>4. QED BY <1>6, <2>1, <2>2, <2>3, TimelyAdded DEF QueryComplete, link
<1>7. CASE ReadResponse
  <2>1. live # 0 /\ handle = live /\ live \in Conn /\ running \in Query
    BY <1>7, QueryOnConnection DEF ReadResponse, Queried
  <2>2. /\ Answer("value", live, running) \in Event
        /\ Answer("value", live, running).conn = live
        /\ Answer("value", live, running).kind # "disconnected"
        /\ Answer("complete", live, running) \in Event
        /\ Answer("complete", live, running).conn = live
        /\ Answer("complete", live, running).kind # "disconnected"
    BY <2>1, EventTypes
  <2>3. UNCHANGED <<live, told, pc, count>> BY <1>7 DEF ReadResponse, link
  <2>4. CASE Stored
    <3>1. Gains(ordinary, ordinary', Answer("value", live, running)) /\ UNCHANGED critical
      BY <1>7, <2>1, <2>2, <2>4, EventQueued DEF ReadResponse
    <3>2. QED BY <1>0, <2>1, <2>2, <2>3, <3>1, TimelyOrdinary DEF Idle, Timely
  <2>5. CASE ~Stored
    <3>1. Gains(critical, critical', Answer("complete", live, running)) /\ UNCHANGED ordinary
      BY <1>7, <2>1, <2>2, <2>5, CriticalEventQueued DEF ReadResponse
    <3>2. QED BY <2>1, <2>2, <2>3, <3>1, TimelyAdded
  <2>6. QED BY <2>4, <2>5
<1>8. CASE PeerNotifies
  <2>1. /\ live # 0 /\ UNCHANGED <<live, told, pc>> /\ count'.conns = count.conns
        /\ QueueCriticalEvent(Link("notified", live))
    BY <1>8 DEF PeerNotifies, link, TypeOK
  <2>2. /\ Link("notified", live) \in Event /\ Link("notified", live).conn = live
        /\ Link("notified", live).kind # "disconnected"
    BY <1>0, <2>1, EventTypes
  <2>3. QED BY <2>1, <2>2, CriticalEventQueued, TimelyAdded
<1>9. CASE StartWrite
  BY <1>0, <1>9, TimelyOrdinary DEF StartWrite, link, queues, Linked
<1>10. CASE PeerWrites \/ \E bits \in SUBSET {"notify", "indicate"} : PeerSubscribes(bits)
  <2>1. /\ live # 0 /\ UNCHANGED <<live, told, pc>> /\ count'.conns = count.conns
        /\ QueueEvent(Link("attribute", live))
    BY <1>10 DEF PeerWrites, PeerSubscribes, link, TypeOK
  <2>2. /\ Link("attribute", live) \in Event /\ Link("attribute", live).conn = live
        /\ Link("attribute", live).kind # "disconnected"
    BY <1>0, <2>1, EventTypes
  <2>3. Gains(ordinary, ordinary', Link("attribute", live)) /\ UNCHANGED critical
    BY <2>1, <2>2, EventQueued
  <2>4. QED BY <1>0, <2>1, <2>2, <2>3, TimelyOrdinary DEF Idle, Timely
<1>12. CASE StartNotify
  BY <1>0, <1>12, TimelyOrdinary DEF StartNotify, link, queues, Linked
<1>13. CASE StartIndicate
  BY <1>0, <1>13, TimelyOrdinary DEF StartIndicate, link, queues, Linked
<1>14. ASSUME NEW accepts \in BOOLEAN, Send(accepts) PROVE Timely'
  <2>1. Idle' \/ (~Idle /\ pc'.conn = pc.conn) BY <1>14 DEF Send, Idle, At, TypeOK
  <2>2. QED BY <1>14, <2>1, TimelyOrdinary DEF Send, link, queues, Timely
<1>15. CASE ReportSent
  <2>1. /\ ~Idle /\ Idle' /\ UNCHANGED <<live, told>> /\ count'.conns = count.conns
        /\ pc.conn \in Conn /\ QueueEvent(Link("sent", pc.conn))
    BY <1>15 DEF ReportSent, link, Idle, At, TypeOK
  <2>2. /\ Link("sent", pc.conn) \in Event /\ Link("sent", pc.conn).conn = pc.conn
        /\ Link("sent", pc.conn).kind # "disconnected"
    BY <2>1, EventTypes
  <2>3. Gains(ordinary, ordinary', Link("sent", pc.conn)) /\ UNCHANGED critical
    BY <2>1, <2>2, EventQueued
  <2>4. told.ended < pc.conn BY <2>1 DEF Timely
  <2>5. QED BY <2>1, <2>2, <2>3, <2>4, TimelyOrdinary
<1>16. ASSUME NEW accepts \in BOOLEAN, SendIndication(accepts) PROVE Timely'
  BY <1>16, TimelyOrdinary DEF SendIndication, queues, Idle
<1>17. CASE IndicationComplete
  <2>1. /\ live # 0 /\ UNCHANGED <<live, told, pc>> /\ count'.conns = count.conns
        /\ QueueCriticalEvent(Link("sent", live))
    BY <1>17 DEF IndicationComplete, Linked, TypeOK
  <2>2. /\ Link("sent", live) \in Event /\ Link("sent", live).conn = live
        /\ Link("sent", live).kind # "disconnected"
    BY <1>0, <2>1, EventTypes
  <2>3. QED BY <2>1, <2>2, CriticalEventQueued, TimelyAdded
<1>18. CASE TakeEvent
  <2>1. /\ Idle /\ Idle' /\ UNCHANGED <<live, count>> /\ Waiting /\ PopOldest
        /\ told'.ended = IF Oldest.kind = "disconnected" THEN Oldest.conn ELSE told.ended
    BY <1>18 DEF TakeEvent, link, Idle
  <2>2. CASE ordinary # <<>>
    <3>1. /\ Oldest = ordinary[1] /\ ordinary[1] \in Event /\ UNCHANGED critical
          /\ ordinary' \in Seq(Event) /\ Len(ordinary') = Len(ordinary) - 1
          /\ \A i \in 1 .. Len(ordinary') : ordinary'[i] = ordinary[i + 1]
      BY <2>1, <2>2, Taken
    <3>2. 1 \in DOMAIN ordinary BY <2>2, QueueFacts
    <3>3. told'.ended = told.ended BY <2>1, <3>1, <3>2 DEF Timely
    <3>4. Later(ordinary', told.ended) BY <1>0, <3>1, QueueFacts, LeftOver DEF Timely
    <3>5. \A i \in DOMAIN ordinary' : ordinary'[i].kind # "disconnected"
      <4>1. \A i \in DOMAIN ordinary' : i + 1 \in DOMAIN ordinary /\ ordinary'[i] = ordinary[i + 1]
        BY <3>1, QueueFacts, Shifted
      <4>2. QED BY <4>1 DEF Timely
    <3>6. QED BY <2>1, <3>1, <3>3, <3>4, <3>5 DEF Timely
  <2>3. CASE ordinary = <<>>
    <3>1. /\ UNCHANGED ordinary /\ critical # <<>> /\ Oldest = critical[1]
          /\ critical' \in Seq(Event) /\ Len(critical') = Len(critical) - 1
          /\ \A i \in 1 .. Len(critical') : critical'[i] = critical[i + 1]
      BY <2>1, <2>3, Taken
    <3>2. /\ Later(critical', told.ended) /\ Made(critical', count.conns)
          /\ Ends(critical', live)
      BY <1>0, <3>1, QueueFacts, LeftOver DEF Timely
    <3>3. 1 \in DOMAIN critical BY <3>1, QueueFacts
    <3>4. CASE Oldest.kind # "disconnected"
      BY <2>1, <2>3, <3>1, <3>2, <3>4 DEF Timely
    <3>5. CASE Oldest.kind = "disconnected"
      <4>1. told'.ended = Oldest.conn BY <2>1, <3>5
      <4>2. /\ live # 0 => Oldest.conn < live
            /\ \A j \in DOMAIN critical : 1 < j => Oldest.conn < critical[j].conn
        BY <3>1, <3>3, <3>5 DEF Timely, Ends
      <4>3. Oldest.conn <= count.conns BY <3>1, <3>3 DEF Timely, Made
      <4>4. Later(critical', Oldest.conn)
        <5>1. \A i \in DOMAIN critical' :
                i + 1 \in DOMAIN critical /\ 1 < i + 1 /\ critical'[i] = critical[i + 1]
          BY <3>1, QueueFacts, Shifted
        <5>2. QED BY <4>2, <5>1 DEF Later
      <4>5. Later(ordinary', Oldest.conn) BY <2>3, <3>1 DEF Later
      <4>6. QED BY <2>1, <3>1, <3>2, <4>1, <4>2, <4>3, <4>4, <4>5 DEF Timely
    <3>6. QED BY <3>4, <3>5
  <2>4. QED BY <2>2, <2>3
<1>19. CASE UNCHANGED vars BY <1>19 DEF vars, queues, Timely, Idle
<1>20. QED
  BY <1>1, <1>2, <1>3, <1>4, <1>5, <1>6, <1>7, <1>8, <1>9, <1>10, <1>12, <1>13,
     <1>14, <1>15, <1>16, <1>17, <1>18, <1>19 DEF Next, Start, Continue, Stack

-----------------------------------------------------------------------------
(* Answers come in the order of their queries. *)
LEMMA GainedAnswers ==
  ASSUME NEW q \in Seq(Event), NEW r, NEW e \in Event, Gains(q, r, e),
         NEW now \in Nat, NEW last \in Nat, Answered(q, now, last),
         e.kind = "result" => now # 0 /\ e.query = now,
         Answers(e) => now # 0 /\ e.query = now /\ now <= last
  PROVE  Answered(r, IF Answers(e) THEN 0 ELSE now, last)
<1>1. \A i \in DOMAIN r : (i \in DOMAIN q /\ r[i] = q[i]) \/ (i \notin DOMAIN q /\ r[i] = e)
  BY DEF Gains
<1>2. \A i, j \in DOMAIN r : i < j => i \in DOMAIN q BY DEF Gains
<1>3. \A i \in DOMAIN q : Answers(q[i]) =>
        /\ q[i].query <= last /\ (now # 0 => q[i].query < now)
        /\ \A j \in DOMAIN q : i < j /\ q[j].kind = "result" => q[i].query < q[j].query
  BY DEF Answered
<1>4. ASSUME NEW i \in DOMAIN r, Answers(r[i])
      PROVE  r[i].query <= last /\ (~Answers(e) /\ now # 0 => r[i].query < now)
  BY <1>1, <1>3, <1>4
<1>5. ASSUME NEW i \in DOMAIN r, NEW j \in DOMAIN r, Answers(r[i]), i < j, r[j].kind = "result"
      PROVE  r[i].query < r[j].query
  <2>1. i \in DOMAIN q /\ r[i] = q[i] BY <1>1, <1>2, <1>5
  <2>2. CASE j \in DOMAIN q BY <1>1, <1>3, <1>5, <2>1, <2>2
  <2>3. CASE j \notin DOMAIN q BY <1>1, <1>3, <1>5, <2>1, <2>3
  <2>4. QED BY <2>2, <2>3
<1>6. QED BY <1>4, <1>5 DEF Answered

(* No query is at work, or a new one.                                      *)
LEMMA NothingAtWork ==
  ASSUME NEW q \in Seq(Event), NEW now \in Nat, NEW last \in Nat, Answered(q, now, last)
  PROVE  /\ Answered(q, 0, last)
         /\ Answered(q, last + 1, last + 1)
<1>1. \A i \in DOMAIN q : Answers(q[i]) => q[i].query \in Nat
  <2>1. \A i \in DOMAIN q : q[i] \in Event OBVIOUS
  <2>2. QED BY <2>1, EventFields DEF Query
<1>2. QED BY <1>1 DEF Answered

(* A step of no query, whose event, if any, is not about one.              *)
LEMMA CompletedAside ==
  ASSUME TypeOK, Completed, running' = running, told'.completed = told.completed,
         count'.queries = count.queries,
         \/ UNCHANGED ordinary
         \/ \E e \in Event : ~Answers(e) /\ e.kind # "result" /\ Gains(ordinary, ordinary', e),
         \/ UNCHANGED critical
         \/ \E e \in Event : ~Answers(e) /\ e.kind # "result" /\ Gains(critical, critical', e)
  PROVE  Completed'
<1>1. /\ running \in Nat /\ count.queries \in Nat /\ told.completed \in Nat
  BY TypeFacts, ConstantFacts DEF Query
<1>2. Answered(ordinary', running, count.queries)
  BY <1>1, QueueFacts, GainedAnswers DEF Completed
<1>3. Answered(critical', running, count.queries)
  BY <1>1, QueueFacts, GainedAnswers DEF Completed
<1>4. Results(ordinary', told.completed)
  BY <1>1, QueueFacts, GainedOrder DEF Completed
<1>5. QED BY <1>1, <1>2, <1>3, <1>4 DEF Completed

LEMMA CompletedStep ==
  ASSUME TypeOK, Linked, Queried, Completed, [Next]_vars
  PROVE  Completed'
<1>0. /\ running \in Nat /\ count.queries \in Nat /\ told.completed \in Nat
      /\ running # 0 => running = count.queries
      /\ live # 0 => live \in Conn
  BY TypeFacts, ConstantFacts DEF Query, Queried, TypeOK
<1>1. CASE ConnectionComplete
  <2>1. /\ live' \in Conn /\ UNCHANGED <<running, told>> /\ count'.queries = count.queries
        /\ QueueCriticalEvent(Link("connected", live'))
    BY <1>1, ConstantFacts, TypeFacts DEF ConnectionComplete, TypeOK, Conn
  <2>2. /\ Link("connected", live') \in Event /\ ~Answers(Link("connected", live'))
        /\ Link("connected", live').kind # "result"
    BY <2>1, EventTypes DEF Answers
  <2>3. QED BY <2>1, <2>2, CriticalEventQueued, CompletedAside
<1>2. ASSUME NEW first \in BOOLEAN, DisconnectionComplete(first) PROVE Completed'
  <2> DEFINE done == first /\ running # 0
  <2>1. /\ live \in Conn /\ running' = 0 /\ UNCHANGED <<told, count>> /\ GivesUp(done)
    BY <1>0, <1>2 DEF DisconnectionComplete
  <2>2. done => running \in Query BY DEF TypeOK
  <2>3. PICK m \in Seq(Event) :
          /\ IF done THEN Gains(critical, m, Answer("complete", live, running)) ELSE m = critical
          /\ Gains(m, critical', Link("disconnected", live))
    BY <1>0, <2>1, <2>2, GivenUp
  <2>4. ordinary' = ordinary BY <1>0, <2>1, <2>2, GivenUp
  <2>5. Answered(m, 0, count.queries)
    <3>1. CASE ~done BY <1>0, <2>3, <3>1, QueueFacts, NothingAtWork DEF Completed
    <3>2. CASE done
      <4>1. /\ Answer("complete", live, running) \in Event
            /\ Answers(Answer("complete", live, running))
            /\ Answer("complete", live, running).query = running
            /\ Answer("complete", live, running).kind # "result"
        BY <2>1, <2>2, <3>2, EventTypes DEF Answers
      <4>2. QED BY <1>0, <2>3, <3>2, <4>1, QueueFacts, GainedAnswers DEF Completed
    <3>3. QED BY <3>1, <3>2
  <2>6. Answered(critical', 0, count.queries)
    <3>1. /\ Link("disconnected", live) \in Event
          /\ ~Answers(Link("disconnected", live))
          /\ Link("disconnected", live).kind # "result"
      BY <2>1, EventTypes DEF Answers
    <3>2. QED BY <1>0, <2>3, <2>5, <3>1, GainedAnswers
  <2>7. Answered(ordinary, 0, count.queries)
    BY <1>0, QueueFacts, NothingAtWork DEF Completed
  <2>8. QED BY <2>1, <2>4, <2>6, <2>7 DEF Completed
<1>3. ASSUME NEW sort \in Sort, StartQuery(sort) PROVE Completed'
  BY <1>3, CompletedAside DEF StartQuery, queues
<1>4. ASSUME NEW accepts \in BOOLEAN, AskStack(accepts) PROVE Completed'
  <2>1. UNCHANGED <<ordinary, critical>> BY <1>4 DEF AskStack, queues
  <2>2. CASE accepts /\ live = pc.conn
    <3>1. /\ running' = count.queries + 1 /\ count'.queries = count.queries + 1
          /\ told'.completed = told.completed
      BY <1>4, <2>2 DEF AskStack, TypeOK
    <3>2. /\ Answered(ordinary, count.queries + 1, count.queries + 1)
          /\ Answered(critical, count.queries + 1, count.queries + 1)
      BY <1>0, QueueFacts, NothingAtWork DEF Completed
    <3>3. QED BY <1>0, <2>1, <3>1, <3>2 DEF Completed
  <2>3. CASE ~(accepts /\ live = pc.conn)
    BY <1>4, <2>1, <2>3, CompletedAside DEF AskStack
  <2>4. QED BY <2>2, <2>3
<1>5. CASE QueryResult
  <2> DEFINE e == Answer("result", handle, running)
  <2>1. e \in Event /\ e.kind = "result" /\ e.query = running /\ ~Answers(e) /\ running # 0
    BY <1>5, QueryOnConnection, EventTypes DEF QueryResult, Answers
  <2>2. Gains(ordinary, ordinary', e) /\ UNCHANGED <<critical, running, told, count>>
    BY <1>5, <2>1, EventQueued DEF QueryResult
  <2> HIDE DEF e
  <2>3. Answered(ordinary', running, count.queries)
    BY <1>0, <2>1, <2>2, QueueFacts, GainedAnswers DEF Completed
  <2>4. Results(ordinary', told.completed)
    BY <1>0, <2>1, <2>2, QueueFacts, GainedOrder DEF Completed
  <2>5. QED BY <2>2, <2>3, <2>4 DEF Completed
<1>6. CASE QueryComplete
  <2> DEFINE e == Answer("complete", handle, running)
  <2>1. e \in Event /\ Answers(e) /\ e.query = running /\ e.kind # "result" /\ running # 0
    BY <1>6, QueryOnConnection, EventTypes DEF QueryComplete, Answers
  <2>2. /\ Gains(critical, critical', e) /\ UNCHANGED <<ordinary, told, count>>
        /\ running' = 0
    BY <1>6, <2>1, CriticalEventQueued DEF QueryComplete
  <2> HIDE DEF e
  <2>3. Answered(critical', 0, count.queries)
    BY <1>0, <2>1, <2>2, QueueFacts, GainedAnswers DEF Completed
  <2>4. Answered(ordinary, 0, count.queries)
    BY <1>0, QueueFacts, NothingAtWork DEF Completed
  <2>5. QED BY <2>2, <2>3, <2>4 DEF Completed
<1>7. CASE ReadResponse
  <2> DEFINE e == IF Stored THEN Answer("value", handle, running)
                  ELSE Answer("complete", handle, running)
  <2>1. e \in Event /\ Answers(e) /\ e.query = running /\ e.kind # "result" /\ running # 0
    BY <1>7, QueryOnConnection, EventTypes DEF ReadResponse, Answers
  <2>2. UNCHANGED <<told, count>> /\ running' = 0 BY <1>7 DEF ReadResponse
  <2>3. \/ Gains(ordinary, ordinary', e) /\ UNCHANGED critical
        \/ Gains(critical, critical', e) /\ UNCHANGED ordinary
    <3>1. CASE Stored BY <1>7, <2>1, <3>1, EventQueued DEF ReadResponse
    <3>2. CASE ~Stored BY <1>7, <2>1, <3>2, CriticalEventQueued DEF ReadResponse
    <3>3. QED BY <3>1, <3>2
  <2> HIDE DEF e
  <2>4. Answered(ordinary, 0, count.queries) /\ Answered(critical, 0, count.queries)
    BY <1>0, QueueFacts, NothingAtWork DEF Completed
  <2>5. Answered(ordinary', 0, count.queries) /\ Answered(critical', 0, count.queries)
    BY <1>0, <2>1, <2>3, <2>4, QueueFacts, GainedAnswers DEF Completed
  <2>6. Results(ordinary', told.completed)
    BY <1>0, <2>1, <2>3, QueueFacts, GainedOrder DEF Completed
  <2>7. QED BY <1>0, <2>2, <2>5, <2>6 DEF Completed
<1>8. CASE PeerNotifies
  <2>1. /\ live # 0 /\ UNCHANGED <<running, told>> /\ count'.queries = count.queries
        /\ QueueCriticalEvent(Link("notified", live))
    BY <1>8 DEF PeerNotifies, TypeOK
  <2>2. /\ Link("notified", live) \in Event /\ ~Answers(Link("notified", live))
        /\ Link("notified", live).kind # "result"
    BY <1>0, <2>1, EventTypes DEF Answers
  <2>3. QED BY <2>1, <2>2, CriticalEventQueued, CompletedAside
<1>9. CASE StartWrite BY <1>9, CompletedAside DEF StartWrite, queues
<1>10. CASE PeerWrites \/ \E bits \in SUBSET {"notify", "indicate"} : PeerSubscribes(bits)
  <2>1. /\ live # 0 /\ UNCHANGED <<running, told>> /\ count'.queries = count.queries
        /\ QueueEvent(Link("attribute", live))
    BY <1>10 DEF PeerWrites, PeerSubscribes, TypeOK
  <2>2. /\ Link("attribute", live) \in Event /\ ~Answers(Link("attribute", live))
        /\ Link("attribute", live).kind # "result"
    BY <1>0, <2>1, EventTypes DEF Answers
  <2>3. QED BY <2>1, <2>2, EventQueued, CompletedAside
<1>12. CASE StartNotify BY <1>12, CompletedAside DEF StartNotify, queues
<1>13. CASE StartIndicate BY <1>13, CompletedAside DEF StartIndicate, queues
<1>14. ASSUME NEW accepts \in BOOLEAN, Send(accepts) PROVE Completed'
  BY <1>14, CompletedAside DEF Send, queues
<1>15. CASE ReportSent
  <2>1. /\ UNCHANGED <<running, told>> /\ count'.queries = count.queries
        /\ pc.conn \in Conn /\ QueueEvent(Link("sent", pc.conn))
    BY <1>15, TypeFacts DEF ReportSent, TypeOK
  <2>2. /\ Link("sent", pc.conn) \in Event /\ ~Answers(Link("sent", pc.conn))
        /\ Link("sent", pc.conn).kind # "result"
    BY <2>1, EventTypes DEF Answers
  <2>3. QED BY <2>1, <2>2, EventQueued, CompletedAside
<1>16. ASSUME NEW accepts \in BOOLEAN, SendIndication(accepts) PROVE Completed'
  BY <1>16, CompletedAside DEF SendIndication, queues
<1>17. CASE IndicationComplete
  <2>1. /\ live # 0 /\ UNCHANGED <<running, told>> /\ count'.queries = count.queries
        /\ QueueCriticalEvent(Link("sent", live))
    BY <1>17 DEF IndicationComplete, Linked, TypeOK
  <2>2. /\ Link("sent", live) \in Event /\ ~Answers(Link("sent", live))
        /\ Link("sent", live).kind # "result"
    BY <1>0, <2>1, EventTypes DEF Answers
  <2>3. QED BY <2>1, <2>2, CriticalEventQueued, CompletedAside
<1>18. CASE TakeEvent
  <2>1. /\ UNCHANGED <<running, count>> /\ Waiting /\ PopOldest
        /\ told'.completed = IF Answers(Oldest) THEN Oldest.query ELSE told.completed
    BY <1>18 DEF TakeEvent
  <2>2. CASE ordinary # <<>>
    <3>1. /\ Oldest = ordinary[1] /\ UNCHANGED critical
          /\ ordinary' \in Seq(Event) /\ Len(ordinary') = Len(ordinary) - 1
          /\ \A i \in 1 .. Len(ordinary') : ordinary'[i] = ordinary[i + 1]
      BY <2>1, <2>2, Taken
    <3>2. /\ Answered(ordinary', running, count.queries)
          /\ Results(ordinary', told.completed)
      BY <1>0, <3>1, QueueFacts, LeftOver DEF Completed
    <3>3. 1 \in DOMAIN ordinary BY <2>2, QueueFacts
    <3>4. CASE ~Answers(Oldest) BY <2>1, <3>1, <3>2, <3>4 DEF Completed
    <3>5. CASE Answers(Oldest)
      <4>1. told'.completed = Oldest.query BY <2>1, <3>5
      <4>2. /\ Oldest.query <= count.queries /\ (running # 0 => Oldest.query < running)
            /\ \A j \in DOMAIN ordinary :
                 1 < j /\ ordinary[j].kind = "result" => Oldest.query < ordinary[j].query
        BY <3>1, <3>3, <3>5 DEF Completed, Answered
      <4>3. Results(ordinary', Oldest.query)
        <5>1. \A i \in DOMAIN ordinary' :
                i + 1 \in DOMAIN ordinary /\ 1 < i + 1 /\ ordinary'[i] = ordinary[i + 1]
          BY <3>1, QueueFacts, Shifted
        <5>2. QED BY <4>2, <5>1 DEF Results
      <4>4. QED BY <2>1, <3>1, <3>2, <4>1, <4>2, <4>3 DEF Completed
    <3>6. QED BY <3>4, <3>5
  <2>3. CASE ordinary = <<>>
    <3>1. /\ UNCHANGED ordinary /\ critical # <<>> /\ Oldest = critical[1]
          /\ critical' \in Seq(Event) /\ Len(critical') = Len(critical) - 1
          /\ \A i \in 1 .. Len(critical') : critical'[i] = critical[i + 1]
      BY <2>1, <2>3, Taken
    <3>2. Answered(critical', running, count.queries)
      BY <1>0, <3>1, QueueFacts, LeftOver DEF Completed
    <3>3. 1 \in DOMAIN critical BY <3>1, QueueFacts
    <3>4. \A x : Results(ordinary', x) BY <2>3, <3>1 DEF Results
    <3>5. /\ told'.completed <= count.queries
          /\ running # 0 => told'.completed < running
      BY <2>1, <3>1, <3>3 DEF Completed, Answered
    <3>6. QED BY <2>1, <3>1, <3>2, <3>4, <3>5 DEF Completed
  <2>4. QED BY <2>2, <2>3
<1>19. CASE UNCHANGED vars BY <1>19 DEF vars, queues, Completed
<1>20. QED
  BY <1>1, <1>2, <1>3, <1>4, <1>5, <1>6, <1>7, <1>8, <1>9, <1>10, <1>12, <1>13,
     <1>14, <1>15, <1>16, <1>17, <1>18, <1>19 DEF Next, Start, Continue, Stack

-----------------------------------------------------------------------------
(* The theorems. *)
LEMMA Initially == Init => IInv
<1> SUFFICES ASSUME Init PROVE IInv OBVIOUS
<1>1. ordinary = <<>> /\ critical = <<>> BY DEF Init, EmptyQueues
<1>2. Timely /\ Completed
  BY <1>1 DEF Init, Timely, Completed, Later, Made, Ends, Answered, Results, Idle
<1>3. Linked /\ Queried /\ Reading
  BY DEF Init, Linked, Queried, Reading, ReadAnsweredOnce, Idle, At
<1>4. QED BY <1>2, <1>3, TypeInit DEF IInv

LEMMA Invariance == Spec => []IInv
<1>1. IInv /\ [Next]_vars => IInv'
  BY TypeStep, LinkedStep, QueriedStep, ReadingStep, TimelyStep, CompletedStep DEF IInv
<1>2. QED BY <1>1, Initially, PTL DEF Spec

(* Whatever concerns a connection is taken before its end, no result of a  *)
(* query after its completion, and a read is answered exactly once while   *)
(* its connection lasts, unless the critical queue overflowed: however     *)
(* callbacks and calls interleave.                                         *)
THEOREM AnswersComeInOrder == Spec => []AnswersInOrder
<1>1. IInv => AnswersInOrder
  <2> SUFFICES ASSUME IInv PROVE AnswersInOrder OBVIOUS
  <2>1. NothingAfterDisconnected
    BY DEF IInv, Timely, Later, NothingAfterDisconnected, Range
  <2>2. ResultsBeforeCompletion
    BY DEF IInv, Completed, Results, ResultsBeforeCompletion, Range
  <2>3. QED BY <2>1, <2>2 DEF IInv, Reading, AnswersInOrder, EventsInOrder
<1>2. QED BY <1>1, Invariance, PTL

(* Between calls gatt_query is set exactly while the stack works on a      *)
(* query, and every variable keeps its type: a client is never refused for *)
(* a query that is over, whatever became of its connection in the call.    *)
THEOREM QueriesAccounted == Spec => []QueryAccounted
<1>1. IInv => QueryAccounted BY TypeFacts DEF IInv, Queried, QueryAccounted
<1>2. QED BY <1>1, Invariance, PTL

-----------------------------------------------------------------------------
(* BleLink: the session, the scans, the advertisements and the connection. *)

(* The constants, and what the types say of the variables.                 *)
LEMMA LinkConstants ==
  /\ Capacity \in Nat \ {0} /\ CriticalCapacity \in Nat \ {0}
  /\ MaxScans \in Nat /\ MaxConnections \in Nat /\ MaxStarts \in Nat
  BY QueueAssumption, LinkAssumption


LEMMA LeastNatural ==
  ASSUME NEW T \in SUBSET Nat, T # {}
  PROVE  \E x \in T : \A y \in T : x <= y
<1> DEFINE Below == {ss \in Nat \X Nat : ss[1] < ss[2]}
<1>1. IsWellFoundedOn(Below, Nat) BY NatLessThanWellFounded DEF OpToRel
<1> HIDE DEF Below
<1>2. PICK x \in T : \A y \in T : ~(<<y, x>> \in Below) BY <1>1, WFMin
<1>3. ASSUME NEW y \in T PROVE x <= y
  <2>1. x \in Nat /\ y \in Nat /\ <<y, x>> \notin Below BY <1>2
  <2>2. ~(y < x) BY <2>1 DEF Below
  <2>3. QED BY <2>1, <2>2
<1>4. QED BY <1>2, <1>3

LEMMA LastPosition ==
  ASSUME NEW n \in Nat, NEW S \in SUBSET (1 .. n), S # {}
  PROVE  Max(S) \in S /\ \A j \in S : Max(S) >= j
<1> DEFINE Mirror == {k \in Nat : k <= n /\ n - k \in S}
<1>1. PICK j \in S : TRUE OBVIOUS
<1>2. n - j \in Mirror BY <1>1
<1>3. PICK k \in Mirror : \A m \in Mirror : k <= m BY <1>2, LeastNatural
<1>4. ASSUME NEW i \in S PROVE n - k >= i
  <2>1. n - i \in Mirror OBVIOUS
  <2>2. k <= n - i BY <1>3, <2>1
  <2>3. QED BY <1>3, <2>2
<1>5. n - k \in S BY <1>3
<1>6. QED BY <1>4, <1>5 DEF Max

LEMMA LinkEventTypes ==
  /\ Ready \in LinkEvent /\ Ready.kind = "ready"
  /\ Failed \in LinkEvent /\ Failed.kind = "failed"
  /\ \A n \in 1 .. MaxScans : /\ Report(n) \in LinkEvent
                              /\ Report(n).kind = "report" /\ Report(n).scan = n
  /\ \A c \in Connection :
       /\ Connected(c) \in LinkEvent /\ Connected(c).kind = "connected" /\ Connected(c).conn = c
       /\ Disconnected(c) \in LinkEvent /\ Disconnected(c).kind = "disconnected"
       /\ Disconnected(c).conn = c
  BY DEF LinkEvent, Ready, Failed, Report, Connected, Disconnected

IsLink(e) == e.kind \in {"connected", "disconnected"}

LEMMA LinkEventFields ==
  ASSUME NEW e \in LinkEvent
  PROVE  /\ IsLink(e) => e.conn \in Connection
         /\ e.kind = "report" => e.scan \in 1 .. MaxScans
  BY DEF LinkEvent, Ready, Failed, Report, Connected, Disconnected, IsLink

-----------------------------------------------------------------------------
(* What a queue makes of the connection a program knows.                   *)
LEMMA KnownCases ==
  ASSUME NEW q \in Seq(LinkEvent), NEW known, NEW i \in 1 .. Len(q) + 1
  PROVE  \/ /\ \A j \in Links(q) : ~(j < i)
            /\ KnownBefore(q, known, i) = known
         \/ \E j \in Links(q) : /\ j < i /\ \A k \in Links(q) : k < i => k <= j
                                /\ KnownBefore(q, known, i) = Leaves(q[j])
<1> DEFINE earlier == {j \in Links(q) : j < i}
<1>1. KnownBefore(q, known, i) = IF earlier = {} THEN known ELSE Leaves(q[Max(earlier)])
  BY DEF KnownBefore
<1>2. CASE earlier = {} BY <1>1, <1>2
<1>3. CASE earlier # {}
  <2>1. Len(q) \in Nat /\ earlier \in SUBSET (1 .. Len(q)) BY DEF Links
  <2> HIDE DEF earlier
  <2>2. Max(earlier) \in earlier /\ \A k \in earlier : Max(earlier) >= k
    BY <1>3, <2>1, LastPosition
  <2>3. KnownBefore(q, known, i) = Leaves(q[Max(earlier)]) BY <1>1, <1>3
  <2>4. Max(earlier) \in Links(q) /\ Max(earlier) < i BY <2>2 DEF earlier
  <2>5. \A k \in Links(q) : k < i => Max(earlier) >= k BY <2>2 DEF earlier
  <2>6. \A k \in Links(q) : k < i => k <= Max(earlier)
    <3>1. Max(earlier) \in Int /\ \A k \in Links(q) : k \in Int BY <2>4 DEF Links
    <3>2. QED BY <2>5, <3>1
  <2>7. QED BY <2>3, <2>4, <2>6
<1>4. QED BY <1>2, <1>3

(* An event at the end of a queue changes nothing before it.               *)
LEMMA KnownAppended ==
  ASSUME NEW q \in Seq(LinkEvent), NEW e \in LinkEvent, NEW known
  PROVE  LET r == Append(q, e) IN
         /\ \A i \in 1 .. Len(q) + 1 : KnownBefore(r, known, i) = KnownBefore(q, known, i)
         /\ KnownBefore(r, known, Len(r) + 1) =
              IF IsLink(e) THEN Leaves(e) ELSE KnownBefore(q, known, Len(q) + 1)
<1> DEFINE r == Append(q, e)
<1>1. /\ r \in Seq(LinkEvent) /\ Len(r) = Len(q) + 1 /\ r[Len(q) + 1] = e
      /\ \A i \in 1 .. Len(q) : r[i] = q[i]
  OBVIOUS
<1> HIDE DEF r
<1>2. /\ \A j \in 1 .. Len(q) : j \in Links(r) <=> j \in Links(q)
      /\ Len(q) + 1 \in Links(r) <=> IsLink(e)
      /\ \A j \in Links(r) : j \in 1 .. Len(q) + 1
      /\ \A j \in Links(q) : j \in 1 .. Len(q)
  BY <1>1 DEF Links, IsLink
<1>3. ASSUME NEW i \in 1 .. Len(q) + 1
      PROVE  KnownBefore(r, known, i) = KnownBefore(q, known, i)
  <2>1. i \in 1 .. Len(r) + 1 BY <1>1
  <2>2. CASE \A j \in Links(q) : ~(j < i)
    <3>1. \A j \in Links(r) : ~(j < i) BY <1>2, <2>2
    <3>2. QED BY <1>1, <2>1, <2>2, <3>1, KnownCases
  <2>3. CASE ~ \A j \in Links(q) : ~(j < i)
    <3>1. PICK j \in Links(q) : /\ j < i /\ \A k \in Links(q) : k < i => k <= j
                                /\ KnownBefore(q, known, i) = Leaves(q[j])
      BY <2>3, KnownCases
    <3>2. j \in Links(r) /\ j \in 1 .. Len(q) BY <1>2
    <3>3. PICK m \in Links(r) : /\ m < i /\ \A k \in Links(r) : k < i => k <= m
                                /\ KnownBefore(r, known, i) = Leaves(r[m])
      BY <1>1, <2>1, <3>1, <3>2, KnownCases
    <3>4. m \in Links(q) /\ m \in 1 .. Len(q) BY <1>2, <3>3
    <3>5. m = j BY <3>1, <3>2, <3>3, <3>4
    <3>6. QED BY <1>1, <3>1, <3>2, <3>3, <3>5
  <2>4. QED BY <2>2, <2>3
<1>4. CASE IsLink(e)
  <2>1. Len(r) + 1 \in 1 .. Len(r) + 1 /\ Len(q) + 1 \in Links(r) /\ Len(q) + 1 < Len(r) + 1
    BY <1>1, <1>2, <1>4
  <2>2. PICK m \in Links(r) : /\ m < Len(r) + 1
                              /\ \A k \in Links(r) : k < Len(r) + 1 => k <= m
                              /\ KnownBefore(r, known, Len(r) + 1) = Leaves(r[m])
    BY <1>1, <2>1, KnownCases
  <2>3. m = Len(q) + 1 BY <1>1, <1>2, <2>1, <2>2
  <2>4. QED BY <1>1, <1>3, <1>4, <2>2, <2>3 DEF r
<1>5. CASE ~IsLink(e)
  <2>1. {j \in Links(r) : j < Len(r) + 1} = {j \in Links(r) : j < Len(q) + 1}
    BY <1>1, <1>2, <1>5
  <2>2. KnownBefore(r, known, Len(r) + 1) = KnownBefore(r, known, Len(q) + 1)
    BY <2>1 DEF KnownBefore
  <2>3. Len(q) + 1 \in 1 .. Len(q) + 1 BY <1>1
  <2>4. QED BY <1>3, <1>5, <2>2, <2>3 DEF r
<1>6. QED BY <1>4, <1>5

(* What the program learns from the oldest event it no longer has to.      *)
LEMMA KnownTaken ==
  ASSUME NEW q \in Seq(LinkEvent), q # <<>>, NEW known
  PROVE  LET r == Tail(q)
             now == IF IsLink(q[1]) THEN Leaves(q[1]) ELSE known
         IN \A i \in 1 .. Len(r) + 1 : KnownBefore(r, now, i) = KnownBefore(q, known, i + 1)
<1> DEFINE r == Tail(q)
           now == IF IsLink(q[1]) THEN Leaves(q[1]) ELSE known
<1>1. /\ r \in Seq(LinkEvent) /\ Len(r) = Len(q) - 1 /\ Len(r) \in Nat
      /\ \A i \in 1 .. Len(r) : r[i] = q[i + 1]
  OBVIOUS
<1> HIDE DEF r
<1> SUFFICES ASSUME NEW i \in 1 .. Len(r) + 1
             PROVE  KnownBefore(r, now, i) = KnownBefore(q, known, i + 1)
  BY DEF r
<1>2. /\ \A j \in 1 .. Len(r) : j \in Links(r) <=> j + 1 \in Links(q)
      /\ 1 \in Links(q) <=> IsLink(q[1])
      /\ \A j \in Links(r) : j \in 1 .. Len(r)
      /\ \A j \in Links(q) : j \in Int /\ (j = 1 \/ j - 1 \in 1 .. Len(r))
      /\ i + 1 \in 1 .. Len(q) + 1
  BY <1>1 DEF Links, IsLink
<1> HIDE DEF now
<1>3. CASE \A j \in Links(r) : ~(j < i)
  <2>1. \A j \in Links(q) : j < i + 1 => j = 1
    <3> SUFFICES ASSUME NEW j \in Links(q), j < i + 1, j # 1 PROVE FALSE OBVIOUS
    <3>1. j - 1 \in 1 .. Len(r) /\ j = (j - 1) + 1 BY <1>2
    <3>2. j - 1 \in Links(r) BY <1>2, <3>1
    <3>3. QED BY <1>2, <1>3, <3>1, <3>2
  <2>2. KnownBefore(r, now, i) = now BY <1>1, <1>3, KnownCases
  <2>3. CASE IsLink(q[1])
    <3>1. 1 \in Links(q) /\ 1 < i + 1 BY <1>2, <2>3
    <3>2. PICK m \in Links(q) : m < i + 1 /\ KnownBefore(q, known, i + 1) = Leaves(q[m])
      BY <1>2, <3>1, KnownCases
    <3>3. QED BY <2>1, <2>2, <2>3, <3>2 DEF now
  <2>4. CASE ~IsLink(q[1])
    <3>1. \A j \in Links(q) : ~(j < i + 1) BY <1>2, <2>1, <2>4
    <3>2. KnownBefore(q, known, i + 1) = known BY <1>2, <3>1, KnownCases
    <3>3. QED BY <2>2, <2>4, <3>2 DEF now
  <2>5. QED BY <2>3, <2>4
<1>4. CASE ~ \A j \in Links(r) : ~(j < i)
  <2>1. PICK j \in Links(r) : /\ j < i /\ \A k \in Links(r) : k < i => k <= j
                              /\ KnownBefore(r, now, i) = Leaves(r[j])
    BY <1>1, <1>4, KnownCases
  <2>2. j \in 1 .. Len(r) /\ j + 1 \in Links(q) /\ j + 1 < i + 1 BY <1>2, <2>1
  <2>3. PICK m \in Links(q) : /\ m < i + 1 /\ \A k \in Links(q) : k < i + 1 => k <= m
                              /\ KnownBefore(q, known, i + 1) = Leaves(q[m])
    BY <1>2, <2>2, KnownCases
  <2>4. j + 1 <= m BY <2>2, <2>3
  <2>5. m - 1 \in 1 .. Len(r) /\ m = (m - 1) + 1 BY <1>2, <2>2, <2>4
  <2>6. m - 1 \in Links(r) BY <1>2, <2>5
  <2>7. m - 1 < i BY <2>3, <2>5
  <2>8. m = j + 1 BY <2>1, <2>2, <2>4, <2>5, <2>6, <2>7
  <2>9. QED BY <1>1, <2>1, <2>2, <2>3, <2>8
<1>5. QED BY <1>3, <1>4

-----------------------------------------------------------------------------
(* A session keeps the handle of the stack's connection, and none before   *)
(* it begins: what is left of the last session does not count.             *)
Sessions ==
  /\ ready => initialized
  /\ ~initialized => stack.live = 0
  /\ initialized => conn.handle = stack.live

(* The reports that wait are of scans that began, and of none that is told *)
(* to be complete; the scan under way is not.                              *)
ScansBegun ==
  /\ scan.on => heard.scans < begun.scans
  /\ heard.scans <= begun.scans
  /\ \A i \in DOMAIN ordinary :
       /\ ordinary[i].kind = "report"
       /\ heard.scans < ordinary[i].scan /\ ordinary[i].scan <= begun.scans

(* What the program knows of its advertisement.  A stop that has found     *)
(* something to stop reports an end, so it must be the end of what the     *)
(* program waits for, or a stray one (Stopping); and what waits to be told *)
(* is the end of the last advertisement, unless the flag is older than it  *)
(* (EndKnown).                                                             *)
Stopping == call.at \in {"silencing", "silenced", "resuming"}
Expected == heard.advertising \/ heard.stray
EndKnown ==
  initialized /\ adv.complete /\ ~heard.older /\ ~heard.stray => ~adv.on /\ ~adv.resume
AdvertisingKnown ==
  /\ heard.advertising => Advertised
  /\ initialized /\ Advertised => Expected
  /\ initialized /\ Stopping => Expected
  /\ EndKnown

LinkInv == LinkTypeOK /\ Sessions /\ ScansBegun /\ AdvertisingKnown /\ LinkHistory

LEMMA LinkTypes ==
  ASSUME LinkTypeOK
  PROVE  /\ begun.scans \in 0 .. MaxScans /\ begun.conns \in 0 .. MaxConnections
         /\ begun.starts \in 0 .. MaxStarts
         /\ heard.scans \in 0 .. MaxScans /\ heard.conn \in {0} \cup Connection
         /\ stack.live \in {0} \cup Connection /\ conn.handle \in {0} \cup Connection
         /\ ordinary \in Seq(LinkEvent) /\ critical \in Seq(LinkEvent)
         /\ Len(ordinary) <= Capacity /\ Len(critical) <= CriticalCapacity
         /\ missed \in BOOLEAN
  BY LinkConstants DEF LinkTypeOK, QueuesOK

(* The queues. *)
LEMMA CriticalPushed ==
  ASSUME LinkTypeOK, NEW e \in LinkEvent, QueueCriticalEvent(e)
  PROVE  /\ QueuesOK(LinkEvent)' /\ UNCHANGED ordinary
         /\ ~missed' => ~missed /\ critical' = Append(critical, e)
<1>1. CASE Len(critical) < CriticalCapacity
  <2>1. critical' = Append(critical, e) /\ missed' = missed /\ ordinary' = ordinary
    BY <1>1, LinkTypes, LinkConstants DEF QueueCriticalEvent, Pushed
  <2>2. Append(critical, e) \in Seq(LinkEvent) /\ Len(Append(critical, e)) = Len(critical) + 1
    BY LinkTypes
  <2>3. QED BY <1>1, <2>1, <2>2, LinkTypes, LinkConstants DEF QueuesOK
<1>2. CASE ~(Len(critical) < CriticalCapacity)
  <2>1. critical' = critical /\ ordinary' = ordinary
    BY <1>2 DEF QueueCriticalEvent, Pushed
  <2>2. missed' \in BOOLEAN /\ missed'
    <3>1. Len(critical) >= CriticalCapacity BY <1>2, LinkTypes, LinkConstants
    <3>2. QED BY <3>1 DEF QueueCriticalEvent
  <2>3. QED BY <2>1, <2>2, LinkTypes DEF QueuesOK
<1>3. QED BY <1>1, <1>2

LEMMA ReportPushed ==
  ASSUME LinkTypeOK, NEW e \in LinkEvent, QueueEvent(e)
  PROVE  /\ QueuesOK(LinkEvent)' /\ UNCHANGED <<critical, missed>>
         /\ \A i \in DOMAIN ordinary' : \/ ordinary'[i] = e
                                        \/ i \in DOMAIN ordinary /\ ordinary'[i] = ordinary[i]
<1>1. CASE Stored
  <2>1. ordinary' = Append(ordinary, e) /\ missed' = missed /\ critical' = critical
    BY <1>1 DEF QueueEvent
  <2>2. Append(ordinary, e) \in Seq(LinkEvent) /\ Len(Append(ordinary, e)) = Len(ordinary) + 1
    BY LinkTypes
  <2>3. \A i \in 1 .. Len(ordinary) + 1 :
          Append(ordinary, e)[i] = IF i = Len(ordinary) + 1 THEN e ELSE ordinary[i]
    BY LinkTypes
  <2>4. QED BY <1>1, <2>1, <2>2, <2>3, LinkTypes, LinkConstants DEF QueuesOK, Stored
<1>2. CASE ~Stored
  <2>1. ordinary' = ordinary /\ missed' = missed /\ critical' = critical
    BY <1>2 DEF QueueEvent
  <2>2. QED BY <2>1, LinkTypes DEF QueuesOK
<1>3. QED BY <1>1, <1>2

LEMMA EventTaken ==
  ASSUME LinkTypeOK, Waiting, PopOldest
  PROVE  /\ Oldest \in LinkEvent /\ QueuesOK(LinkEvent)' /\ UNCHANGED missed
         /\ \/ /\ ordinary = <<>> /\ UNCHANGED ordinary
               /\ critical # <<>> /\ Oldest = critical[1] /\ critical' = Tail(critical)
            \/ /\ ordinary # <<>> /\ UNCHANGED critical
               /\ Oldest = ordinary[1] /\ ordinary' = Tail(ordinary)
<1>1. ASSUME NEW q \in Seq(LinkEvent), q # <<>>
      PROVE  /\ Head(q) \in LinkEvent /\ Head(q) = q[1]
             /\ Tail(q) \in Seq(LinkEvent) /\ Len(Tail(q)) = Len(q) - 1
  BY <1>1
<1>2. CASE ordinary = <<>>
  <2>1. critical # <<>> /\ Oldest = Head(critical) BY <1>2 DEF Waiting, Oldest, CriticalFirst
  <2>2. critical' = Tail(critical) /\ ordinary' = ordinary /\ missed' = missed
    BY <1>2 DEF PopOldest, CriticalFirst
  <2>3. Len(critical') <= CriticalCapacity BY <1>1, <2>1, <2>2, LinkTypes, LinkConstants
  <2>4. QED BY <1>1, <1>2, <2>1, <2>2, <2>3, LinkTypes DEF QueuesOK
<1>3. CASE ordinary # <<>>
  <2>1. Oldest = Head(ordinary) BY <1>3 DEF Oldest, CriticalFirst
  <2>2. ordinary' = Tail(ordinary) /\ critical' = critical /\ missed' = missed
    BY <1>3 DEF PopOldest, CriticalFirst
  <2>3. Len(ordinary') <= Capacity BY <1>1, <1>3, <2>2, LinkTypes, LinkConstants
  <2>4. QED BY <1>1, <1>3, <2>1, <2>2, <2>3, LinkTypes DEF QueuesOK
<1>4. QED BY <1>2, <1>3

LEMMA NoEvents ==
  ASSUME LinkTypeOK, ordinary' = <<>>, critical' = <<>>, missed' \in BOOLEAN
  PROVE  QueuesOK(LinkEvent)'
<1>1. <<>> \in Seq(LinkEvent) /\ Len(<<>>) = 0 OBVIOUS
<1>2. ordinary' \in Seq(LinkEvent) /\ Len(ordinary') = 0 BY <1>1
<1>3. critical' \in Seq(LinkEvent) /\ Len(critical') = 0 BY <1>1
<1>4. QED BY <1>2, <1>3, LinkConstants DEF QueuesOK

LEMMA SameEvents ==
  ASSUME LinkTypeOK, UNCHANGED queues PROVE QueuesOK(LinkEvent)'
  BY DEF LinkTypeOK, QueuesOK, queues

-----------------------------------------------------------------------------
(* Where the program may be in a call. *)
Places ==
  {At("idle"), At("pollAdv"), At("pollConn"), At("pop"), At("powerOff")}
     \cup [at : {"aired", "flagged"}, auto : BOOLEAN, limited : BOOLEAN]
     \cup [at : {"stopAdv", "resuming", "silencing", "silenced"},
           next : {"idle", "pollConn"}]
     \cup [at : {"asked"}, limited : BOOLEAN]
     \cup [at : {"cancelled"}, next : {"idle", "pop"}]

Scans == [on : BOOLEAN, due : Deadline, complete : BOOLEAN]
Advertisements ==
  [on : BOOLEAN, auto : BOOLEAN, limited : BOOLEAN, due : Deadline,
   resume : BOOLEAN, complete : BOOLEAN]
Connections ==
  [connecting : BOOLEAN, due : Deadline, timeout : BOOLEAN, handle : {0} \cup Connection]
Stacks == [airing : Airing, attempt : BOOLEAN, live : {0} \cup Connection]
Beginnings ==
  [scans : 0 .. MaxScans, conns : 0 .. MaxConnections, starts : 0 .. MaxStarts]
Tidings ==
  [scans : 0 .. MaxScans, conn : {0} \cup Connection, connecting : BOOLEAN,
   advertising : BOOLEAN, older : BOOLEAN, stray : BOOLEAN]

Typed ==
  /\ initialized \in BOOLEAN /\ ready \in BOOLEAN
  /\ scan \in Scans /\ adv \in Advertisements /\ conn \in Connections
  /\ stack \in Stacks /\ QueuesOK(LinkEvent) /\ call \in Places
  /\ begun \in Beginnings /\ heard \in Tidings

LEMMA TypeParts == (LinkTypeOK <=> Typed) /\ (LinkTypeOK' <=> Typed')
  BY DEF LinkTypeOK, Typed, Scans, Advertisements, Connections, Stacks, Beginnings, Tidings,
         Places

LEMMA Deadlines ==
  /\ {"none", "armed", "passed"} \subseteq Deadline
  /\ \A limited \in BOOLEAN : DeadlineFor(limited) \in Deadline
  BY DEF Deadline, DeadlineFor

LEMMA CallArguments ==
  ASSUME call \in Places
  PROVE  /\ call.at \in {"aired", "flagged"} =>
              call \in [at : {"aired", "flagged"}, auto : BOOLEAN, limited : BOOLEAN]
         /\ call.at \in {"stopAdv", "resuming", "silencing", "silenced"} =>
              call \in [at : {"stopAdv", "resuming", "silencing", "silenced"},
                        next : {"idle", "pollConn"}]
         /\ call.at = "asked" => call \in [at : {"asked"}, limited : BOOLEAN]
         /\ call.at = "cancelled" => call \in [at : {"cancelled"}, next : {"idle", "pop"}]
  BY DEF Places, At

LEMMA LinkTypeStep == ASSUME LinkInv, [LinkNext]_linkVars PROVE LinkTypeOK'
<1>0. LinkTypeOK /\ Typed BY TypeParts DEF LinkInv
<1> USE <1>0
<1> SUFFICES Typed' BY TypeParts
<1>1. ASSUME NEW ok \in BOOLEAN, Initialize(ok) PROVE Typed'
  <2>1. QueuesOK(LinkEvent)' BY <1>1, NoEvents DEF Initialize, ResetQueues
  <2>2. scan' \in Scans /\ conn' \in Connections
    BY <1>1, Deadlines DEF Initialize, Still, Apart, Scans, Connections
  <2>3. adv' \in Advertisements
    BY <1>1, Deadlines DEF Initialize, Quiet, Typed, Advertisements
  <2>4. begun' \in Beginnings /\ heard' \in Tidings
    BY <1>1, LinkConstants DEF Initialize, Fresh, Untold, Beginnings, Tidings
  <2>5. QED BY <1>1, <2>1, <2>2, <2>3, <2>4 DEF Initialize, Typed
<1>2. ASSUME StartPowerOff PROVE Typed'
  <2>1. call' \in Places BY <1>2 DEF StartPowerOff, Places
  <2>2. QED BY <1>2, <2>1, SameEvents DEF StartPowerOff, Typed
<1>3. ASSUME PowerOff PROVE Typed'
  <2>1. QueuesOK(LinkEvent)' BY <1>3, NoEvents, LinkTypes DEF PowerOff, DiscardEvents
  <2>2. scan' \in Scans BY <1>3, Deadlines DEF PowerOff, Typed, Scans
  <2>3. adv' \in Advertisements BY <1>3, Deadlines DEF PowerOff, Typed, Advertisements
  <2>4. begun' \in Beginnings /\ heard' \in Tidings /\ stack' \in Stacks
    BY <1>3, LinkConstants
    DEF PowerOff, Fresh, Untold, Off, Airing, Beginnings, Tidings, Stacks
  <2>5. call' \in Places BY <1>3 DEF PowerOff, Places
  <2>6. QED BY <1>3, <2>1, <2>2, <2>3, <2>4, <2>5 DEF PowerOff, Typed
<1>4. ASSUME StackWorks PROVE Typed'
  <2>1. QueuesOK(LinkEvent)' BY <1>4, CriticalPushed, LinkEventTypes DEF StackWorks
  <2>2. QED BY <1>4, <2>1 DEF StackWorks, Typed
<1>5. ASSUME NEW limited \in BOOLEAN, StartScan(limited) PROVE Typed'
  <2>1. begun.scans + 1 \in 0 .. MaxScans /\ begun.starts + 1 \in 0 .. MaxStarts
    BY <1>5, LinkTypes, LinkConstants DEF StartScan
  <2>2. begun' \in Beginnings BY <1>5, <2>1 DEF StartScan, Typed, Beginnings
  <2>3. scan' \in Scans BY <1>5, Deadlines DEF StartScan, Typed, Scans
  <2>4. QED BY <1>5, <2>2, <2>3, SameEvents DEF StartScan, Typed
<1>6. ASSUME StopScan PROVE Typed'
  <2>1. scan' \in Scans BY <1>6, Deadlines DEF StopScan, Stopped, Scans
  <2>2. QED BY <1>6, <2>1, SameEvents DEF StopScan, Typed
<1>7. ASSUME AdvertisingReport PROVE Typed'
  <2>1. begun.scans \in 1 .. MaxScans
    BY <1>7, LinkTypes, LinkConstants DEF AdvertisingReport, LinkInv, ScansBegun
  <2>2. QueuesOK(LinkEvent)' BY <1>7, <2>1, ReportPushed, LinkEventTypes DEF AdvertisingReport
  <2>3. QED BY <1>7, <2>2 DEF AdvertisingReport, Typed
<1>8. ASSUME NEW auto \in BOOLEAN, NEW limited \in BOOLEAN, StartAdvertising(auto, limited)
      PROVE  Typed'
  <2>1. begun.starts + 1 \in 0 .. MaxStarts
    BY <1>8, LinkTypes, LinkConstants DEF StartAdvertising
  <2>2. begun' \in Beginnings /\ stack' \in Stacks
    BY <1>8, <2>1 DEF StartAdvertising, Airing, Typed, Beginnings, Stacks
  <2>3. call' \in Places BY <1>8 DEF StartAdvertising, Places
  <2>4. QED BY <1>8, <2>2, <2>3, SameEvents DEF StartAdvertising, Typed
<1>9. ASSUME FlagAdvertising PROVE Typed'
  <2>1. call' \in Places BY <1>9, CallArguments DEF FlagAdvertising, Places, Typed
  <2>2. adv' \in Advertisements /\ heard' \in Tidings
    BY <1>9 DEF FlagAdvertising, Typed, Advertisements, Tidings
  <2>3. QED BY <1>9, <2>1, <2>2, SameEvents DEF FlagAdvertising, Typed
<1>10. ASSUME NoteAdvertising PROVE Typed'
  <2>1. call' \in Places BY <1>10 DEF NoteAdvertising, Places
  <2>2. call.auto \in BOOLEAN /\ call.limited \in BOOLEAN
    BY <1>10, CallArguments DEF NoteAdvertising, Typed
  <2>3. adv' \in Advertisements
    BY <1>10, <2>2, Deadlines DEF NoteAdvertising, Typed, Advertisements
  <2>4. QED BY <1>10, <2>1, <2>3, SameEvents DEF NoteAdvertising, Typed
<1>11. ASSUME StopAdvertising PROVE Typed'
  <2>1. call' \in Places BY <1>11 DEF StopAdvertising, Places
  <2>2. QED BY <1>11, <2>1, SameEvents DEF StopAdvertising, Typed
<1>12. ASSUME TestAdvertising PROVE Typed'
  <2>1. call' \in Places BY <1>12, CallArguments DEF TestAdvertising, Places, Typed
  <2>2. QED BY <1>12, <2>1, SameEvents DEF TestAdvertising, Typed
<1>13. ASSUME EndAdvertising PROVE Typed'
  <2>1. call' \in Places BY <1>13, CallArguments DEF EndAdvertising, Places, Typed
  <2>2. adv' \in Advertisements /\ heard' \in Tidings
    BY <1>13, Deadlines DEF EndAdvertising, Typed, Advertisements, Tidings
  <2>3. QED BY <1>13, <2>1, <2>2, SameEvents DEF EndAdvertising, Typed
<1>14. ASSUME ForgetResume PROVE Typed'
  <2>1. call' \in Places BY <1>14, CallArguments DEF ForgetResume, Places, Typed
  <2>2. adv' \in Advertisements /\ heard' \in Tidings
    BY <1>14 DEF ForgetResume, Typed, Advertisements, Tidings
  <2>3. QED BY <1>14, <2>1, <2>2, SameEvents DEF ForgetResume, Typed
<1>15. ASSUME NEW limited \in BOOLEAN, Connect(limited) PROVE Typed'
  <2>1. begun.starts + 1 \in 0 .. MaxStarts BY <1>15, LinkTypes, LinkConstants DEF Connect
  <2>2. begun' \in Beginnings /\ stack' \in Stacks
    BY <1>15, <2>1 DEF Connect, Typed, Beginnings, Stacks
  <2>3. call' \in Places /\ heard' \in Tidings BY <1>15 DEF Connect, Places, Typed, Tidings
  <2>4. QED BY <1>15, <2>2, <2>3, SameEvents DEF Connect, Typed
<1>16. ASSUME NoteConnecting PROVE Typed'
  <2>1. call' \in Places BY <1>16 DEF NoteConnecting, Places
  <2>2. call.limited \in BOOLEAN BY <1>16, CallArguments DEF NoteConnecting, Typed
  <2>3. conn' \in Connections
    BY <1>16, <2>2, Deadlines DEF NoteConnecting, Typed, Connections
  <2>4. QED BY <1>16, <2>1, <2>3, SameEvents DEF NoteConnecting, Typed
<1>17. ASSUME CancelConnect PROVE Typed'
  <2>1. call' \in Places /\ heard' \in Tidings
    BY <1>17 DEF CancelConnect, Places, Typed, Tidings
  <2>2. QED BY <1>17, <2>1, SameEvents DEF CancelConnect, Typed
<1>18. ASSUME NoteCancelled PROVE Typed'
  <2>1. call' \in Places BY <1>18, CallArguments DEF NoteCancelled, Places, Typed
  <2>2. conn' \in Connections
    BY <1>18, Deadlines DEF NoteCancelled, Unasked, Typed, Connections
  <2>3. QED BY <1>18, <2>1, <2>2, SameEvents DEF NoteCancelled, Typed
<1>19. ASSUME NEW central \in BOOLEAN, LinkConnected(central) PROVE Typed'
  <2> DEFINE c == begun.conns + 1
  <2>1. c \in Connection /\ c \in 0 .. MaxConnections
    <3>1. begun.conns < MaxConnections BY <1>19 DEF LinkConnected
    <3>2. begun.conns \in Nat /\ MaxConnections \in Nat BY LinkTypes, LinkConstants
    <3>3. QED BY ONLY <3>1, <3>2 DEF Connection
  <2>2. QueuesOK(LinkEvent)'
    BY <1>19, <2>1, CriticalPushed, LinkEventTypes DEF LinkConnected
  <2>3. adv' \in Advertisements
    BY <1>19, Deadlines DEF LinkConnected, AfterCentral, Typed, Advertisements
  <2>4. stack' \in Stacks /\ begun' \in Beginnings
    BY <1>19, <2>1 DEF LinkConnected, Airing, Typed, Stacks, Beginnings
  <2>5. conn' \in Connections
    BY <1>19, <2>1, Deadlines DEF LinkConnected, Apart, Connections
  <2>6. QED BY <1>19, <2>2, <2>3, <2>4, <2>5 DEF LinkConnected, Typed
<1>20. ASSUME ConnectionFails PROVE Typed'
  <2>1. QueuesOK(LinkEvent)'
    BY <1>20, CriticalPushed, SameEvents, LinkEventTypes DEF ConnectionFails
  <2>2. stack' \in Stacks /\ conn' \in Connections
    BY <1>20, Deadlines DEF ConnectionFails, Unasked, Typed, Stacks, Connections
  <2>3. QED BY <1>20, <2>1, <2>2 DEF ConnectionFails, Typed
<1>21. ASSUME LinkDisconnected PROVE Typed'
  <2>1. QueuesOK(LinkEvent)'
    <3>1. stack.live \in Connection BY <1>21, LinkTypes DEF LinkDisconnected
    <3>2. QED BY <1>21, <3>1, CriticalPushed, SameEvents, LinkEventTypes DEF LinkDisconnected
  <2>2. stack' \in Stacks BY <1>21 DEF LinkDisconnected, Airing, Typed, Stacks
  <2>3. conn' \in Connections BY <1>21 DEF LinkDisconnected, Typed, Connections
  <2>4. adv' \in Advertisements
    <3>1. adv.limited \in BOOLEAN BY DEF Typed, Advertisements
    <3>2. QED BY <1>21, <3>1, Deadlines DEF LinkDisconnected, Typed, Advertisements
  <2>5. QED BY <1>21, <2>1, <2>2, <2>3, <2>4 DEF LinkDisconnected, Typed
<1>22. ASSUME Poll PROVE Typed'
  <2>1. scan' \in Scans /\ call' \in Places
    BY <1>22, Deadlines DEF Poll, Stopped, Typed, Scans, Places
  <2>2. QED BY <1>22, <2>1, SameEvents DEF Poll, Typed
<1>23. ASSUME PollAdvertising \/ PollConnecting PROVE Typed'
  <2>1. call' \in Places BY <1>23 DEF PollAdvertising, PollConnecting, Places
  <2>2. QED BY <1>23, <2>1, SameEvents DEF PollAdvertising, PollConnecting, Typed
<1>24. ASSUME TakeQueued PROVE Typed'
  <2>1. QueuesOK(LinkEvent)' /\ Oldest \in LinkEvent BY <1>24, EventTaken DEF TakeQueued
  <2>2. heard' \in Tidings
    BY <1>24, <2>1, LinkEventFields DEF TakeQueued, Learn, Typed, Tidings, IsLink
  <2>3. call' \in Places BY <1>24 DEF TakeQueued, Places
  <2>4. QED BY <1>24, <2>1, <2>2, <2>3 DEF TakeQueued, Typed
<1>25. ASSUME TakeFlag PROVE Typed'
  <2>1. /\ begun.scans \in 0 .. MaxScans
        /\ scan.on => begun.scans - 1 \in 0 .. MaxScans
    BY LinkTypes, LinkConstants DEF LinkInv, ScansBegun
  <2>2. heard' \in Tidings
    BY <1>25, <2>1 DEF TakeFlag, Typed, Tidings, Advertisements
  <2>3. scan' \in Scans BY <1>25 DEF TakeFlag, Typed, Scans
  <2>4. adv' \in Advertisements BY <1>25 DEF TakeFlag, Typed, Advertisements
  <2>5. conn' \in Connections BY <1>25 DEF TakeFlag, Typed, Connections
  <2>6. call' \in Places BY <1>25 DEF TakeFlag, Places
  <2>7. QED BY <1>25, <2>2, <2>3, <2>4, <2>5, <2>6, SameEvents DEF TakeFlag, Typed
<1>26. ASSUME Time PROVE Typed'
  <2>1. scan' \in Scans /\ conn' \in Connections /\ adv' \in Advertisements
    BY <1>26, Deadlines
    DEF Time, PassScan, PassAdvertising, PassConnecting, Typed, Scans, Connections,
        Advertisements
  <2>2. QED BY <1>26, <2>1, SameEvents DEF Time, PassScan, PassAdvertising, PassConnecting, Typed
<1>27. ASSUME SilenceAdvertising PROVE Typed'
  <2>1. call' \in Places BY <1>27, CallArguments DEF SilenceAdvertising, Places, Typed
  <2>2. stack' \in Stacks BY <1>27 DEF SilenceAdvertising, Airing, Typed, Stacks
  <2>3. QED BY <1>27, <2>1, <2>2, SameEvents DEF SilenceAdvertising, Typed
<1>28. ASSUME AirIsSilent PROVE Typed'
  <2>1. stack' \in Stacks BY <1>28 DEF AirIsSilent, Airing, Typed, Stacks
  <2>2. QED BY <1>28, <2>1, SameEvents DEF AirIsSilent, Typed
<1>29. ASSUME UNCHANGED linkVars PROVE Typed'
  BY <1>29, SameEvents DEF linkVars, Typed
<1>30. QED
  BY <1>1, <1>2, <1>3, <1>4, <1>5, <1>6, <1>7, <1>8, <1>9, <1>10, <1>11, <1>12, <1>13,
     <1>14, <1>15, <1>16, <1>17, <1>18, <1>19, <1>20, <1>21, <1>22, <1>23, <1>24, <1>25,
     <1>26, <1>27, <1>28, <1>29
  DEF LinkNext, StartCall, ContinueCall, LinkCallback

-----------------------------------------------------------------------------
LEMMA SessionsStep == ASSUME LinkInv, [LinkNext]_linkVars PROVE Sessions'
<1> USE DEF Sessions
<1>0. Sessions /\ Typed BY TypeParts DEF LinkInv
<1> USE <1>0
<1>1. ASSUME NEW ok \in BOOLEAN, Initialize(ok) PROVE Sessions'
  BY <1>1 DEF Initialize, Apart
<1>2. ASSUME PowerOff PROVE Sessions' BY <1>2 DEF PowerOff, Off
<1>3. ASSUME StackWorks PROVE Sessions' BY <1>3 DEF StackWorks
<1>4. ASSUME NEW auto \in BOOLEAN, NEW limited \in BOOLEAN, StartAdvertising(auto, limited)
      PROVE  Sessions'
  BY <1>4 DEF StartAdvertising, Typed, Stacks
<1>5. ASSUME SilenceAdvertising \/ AirIsSilent PROVE Sessions'
  BY <1>5 DEF SilenceAdvertising, AirIsSilent, Typed, Stacks
<1>6. ASSUME NEW limited \in BOOLEAN, Connect(limited) PROVE Sessions'
  BY <1>6 DEF Connect, Typed, Stacks
<1>7. ASSUME NoteConnecting PROVE Sessions' BY <1>7 DEF NoteConnecting, Typed, Connections
<1>8. ASSUME NoteCancelled PROVE Sessions'
  BY <1>8 DEF NoteCancelled, Unasked, Typed, Connections
<1>9. ASSUME NEW central \in BOOLEAN, LinkConnected(central) PROVE Sessions'
  BY <1>9 DEF LinkConnected, Apart, Typed, Stacks
<1>10. ASSUME ConnectionFails PROVE Sessions'
  BY <1>10 DEF ConnectionFails, Unasked, Typed, Stacks, Connections
<1>11. ASSUME LinkDisconnected PROVE Sessions'
  BY <1>11 DEF LinkDisconnected, Typed, Stacks, Connections
<1>12. ASSUME TakeFlag PROVE Sessions' BY <1>12 DEF TakeFlag, Typed, Connections
<1>13. ASSUME Time PROVE Sessions'
  BY <1>13 DEF Time, PassScan, PassAdvertising, PassConnecting, Typed, Connections
<1>14. ASSUME NEW limited \in BOOLEAN,
              \/ StartPowerOff \/ StartScan(limited) \/ StopScan \/ AdvertisingReport
              \/ FlagAdvertising \/ NoteAdvertising \/ StopAdvertising \/ TestAdvertising
              \/ EndAdvertising \/ ForgetResume \/ CancelConnect \/ Poll
              \/ PollAdvertising \/ PollConnecting \/ TakeQueued \/ UNCHANGED linkVars
       PROVE  Sessions'
  BY <1>14
  DEF StartPowerOff, StartScan, StopScan, AdvertisingReport, FlagAdvertising, NoteAdvertising,
      StopAdvertising, TestAdvertising, EndAdvertising, ForgetResume, CancelConnect, Poll,
      PollAdvertising, PollConnecting, TakeQueued, linkVars
<1>15. QED
  BY <1>1, <1>2, <1>3, <1>4, <1>5, <1>6, <1>7, <1>8, <1>9, <1>10, <1>11, <1>12, <1>13, <1>14
  DEF LinkNext, StartCall, ContinueCall, LinkCallback

LEMMA AdvertisingStep == ASSUME LinkInv, [LinkNext]_linkVars PROVE AdvertisingKnown'
<1> USE DEF AdvertisingKnown, Advertised, Expected, Stopping, EndKnown
<1>0. AdvertisingKnown /\ Typed BY TypeParts DEF LinkInv
<1> USE <1>0
<1>1. ASSUME NEW ok \in BOOLEAN, Initialize(ok) PROVE AdvertisingKnown'
  BY <1>1 DEF Initialize, Quiet, Untold, NoCall, At, Typed, Advertisements
<1>2. ASSUME PowerOff PROVE AdvertisingKnown' BY <1>2 DEF PowerOff, Untold
<1>3. ASSUME FlagAdvertising PROVE AdvertisingKnown'
  <2>1. call'.at = "flagged"
    <3>1. call \in [at : {"aired", "flagged"}, auto : BOOLEAN, limited : BOOLEAN]
      BY <1>3, CallArguments DEF FlagAdvertising, Typed
    <3>2. QED BY <1>3, <3>1 DEF FlagAdvertising
  <2>2. /\ adv'.on /\ adv'.resume = adv.resume /\ adv'.complete = adv.complete
        /\ heard'.advertising /\ heard'.older = adv.complete
    BY <1>3 DEF FlagAdvertising, Typed, Advertisements, Tidings
  <2>3. QED BY <2>1, <2>2
<1>4. ASSUME NoteAdvertising PROVE AdvertisingKnown'
  BY <1>4 DEF NoteAdvertising, At, Typed, Advertisements
<1>5. ASSUME TestAdvertising PROVE AdvertisingKnown'
  <2>1. call \in [at : {"stopAdv", "resuming", "silencing", "silenced"},
                  next : {"idle", "pollConn"}]
    BY <1>5, CallArguments DEF TestAdvertising, Typed
  <2>2. call'.at \in {"silencing", "resuming"} => adv.on \/ adv.resume
    BY <1>5, <2>1 DEF TestAdvertising, At
  <2>3. call'.at \in {"silencing", "resuming", "idle", "pollConn"}
    BY <1>5, <2>1 DEF TestAdvertising, At
  <2>4. UNCHANGED <<initialized, adv, heard>> BY <1>5 DEF TestAdvertising
  <2>5. QED BY <2>2, <2>3, <2>4
<1>6. ASSUME SilenceAdvertising PROVE AdvertisingKnown'
  BY <1>6 DEF SilenceAdvertising
<1>7. ASSUME EndAdvertising PROVE AdvertisingKnown'
  <2>1. ~Stopping'
    <3>1. call \in [at : {"stopAdv", "resuming", "silencing", "silenced"},
                    next : {"idle", "pollConn"}]
      BY <1>7, CallArguments DEF EndAdvertising, Typed
    <3>2. QED BY <1>7, <3>1 DEF EndAdvertising, At
  <2>2. /\ ~adv'.on /\ adv'.complete /\ adv'.resume = adv.resume
        /\ heard'.advertising = heard.advertising
        /\ heard'.stray = (heard.stray \/ adv.resume)
    BY <1>7 DEF EndAdvertising, Typed, Advertisements, Tidings
  <2>3. QED BY <1>7, <2>1, <2>2 DEF EndAdvertising
<1>8. ASSUME ForgetResume PROVE AdvertisingKnown'
  <2>1. ~Stopping'
    <3>1. call \in [at : {"stopAdv", "resuming", "silencing", "silenced"},
                    next : {"idle", "pollConn"}]
      BY <1>8, CallArguments DEF ForgetResume, Typed
    <3>2. QED BY <1>8, <3>1 DEF ForgetResume, At
  <2>2. /\ adv'.on = adv.on /\ adv'.complete /\ ~adv'.resume
        /\ heard'.advertising = heard.advertising
        /\ heard'.stray = (heard.stray \/ adv.on)
    BY <1>8 DEF ForgetResume, Typed, Advertisements, Tidings
  <2>3. QED BY <1>8, <2>1, <2>2 DEF ForgetResume
<1>9. ASSUME NEW limited \in BOOLEAN, Connect(limited) PROVE AdvertisingKnown'
  BY <1>9 DEF Connect, Typed, Tidings
<1>10. ASSUME CancelConnect PROVE AdvertisingKnown'
  BY <1>10 DEF CancelConnect, Typed, Tidings
<1>11. ASSUME NEW central \in BOOLEAN, LinkConnected(central) PROVE AdvertisingKnown'
  <2>1. UNCHANGED <<initialized, call, heard>> BY <1>11 DEF LinkConnected
  <2>2. CASE adv.on /\ adv' = AfterCentral
    <3>1. /\ ~adv'.on /\ adv'.resume = adv.auto
          /\ adv'.complete = (adv.complete \/ ~adv.auto)
      BY <2>2 DEF AfterCentral, Typed, Advertisements
    <3>2. QED BY <2>1, <2>2, <3>1
  <2>3. CASE adv' = adv BY <2>1, <2>3
  <2>4. QED BY <1>11, <2>2, <2>3 DEF LinkConnected
<1>12. ASSUME LinkDisconnected PROVE AdvertisingKnown'
  <2>1. UNCHANGED <<initialized, call, heard>> BY <1>12 DEF LinkDisconnected
  <2>2. \/ adv' = adv
        \/ adv.resume /\ adv'.on /\ ~adv'.resume /\ adv'.complete = adv.complete
    BY <1>12 DEF LinkDisconnected, Typed, Advertisements
  <2>3. QED BY <2>1, <2>2
<1>13. ASSUME TakeQueued PROVE AdvertisingKnown'
  <2>1. /\ heard'.advertising = heard.advertising /\ heard'.older = heard.older
        /\ heard'.stray = heard.stray
    BY <1>13 DEF TakeQueued, Learn, Typed, Tidings
  <2>2. QED BY <1>13, <2>1 DEF TakeQueued, At
<1>14. ASSUME TakeFlag PROVE AdvertisingKnown'
  <2>1. ~Stopping' /\ UNCHANGED initialized BY <1>14 DEF TakeFlag, At
  <2>2. CASE adv.complete /\ ~scan.complete
    <3>1. /\ adv'.on = adv.on /\ adv'.resume = adv.resume /\ ~adv'.complete
          /\ heard'.advertising = (heard.older /\ (adv.on \/ adv.resume))
          /\ heard'.stray = (heard.stray /\ (adv.on \/ adv.resume))
      BY <1>14, <2>2 DEF TakeFlag, Typed, Advertisements, Tidings
    <3>2. QED BY <2>1, <2>2, <3>1
  <2>3. CASE scan.complete \/ ~adv.complete
    <3>1. /\ adv' = adv /\ heard'.advertising = heard.advertising
          /\ heard'.older = heard.older /\ heard'.stray = heard.stray
      BY <1>14, <2>3 DEF TakeFlag, Typed, Tidings
    <3>2. QED BY <2>1, <3>1
  <2>4. QED BY <2>2, <2>3
<1>15. ASSUME Time PROVE AdvertisingKnown'
  BY <1>15 DEF Time, PassScan, PassAdvertising, PassConnecting, Typed, Advertisements
<1>16. ASSUME NEW limited \in BOOLEAN, NEW auto \in BOOLEAN,
              \/ StackWorks \/ StartScan(limited) \/ StopScan \/ AdvertisingReport
              \/ ConnectionFails \/ AirIsSilent \/ UNCHANGED linkVars
       PROVE  AdvertisingKnown'
  BY <1>16
  DEF StackWorks, StartScan, StopScan, AdvertisingReport, ConnectionFails, AirIsSilent, linkVars
<1>17. ASSUME NEW limited \in BOOLEAN, NEW auto \in BOOLEAN,
              \/ StartPowerOff \/ StartAdvertising(auto, limited) \/ StopAdvertising
              \/ NoteConnecting \/ NoteCancelled \/ Poll \/ PollAdvertising
              \/ PollConnecting
       PROVE  AdvertisingKnown'
  <2>1. UNCHANGED <<initialized, adv, heard>>
    BY <1>17
    DEF StartPowerOff, StartAdvertising, StopAdvertising, NoteConnecting, NoteCancelled, Poll,
        PollAdvertising, PollConnecting
  <2>2. ~Stopping'
    <3>1. CASE NoteCancelled
      <4>1. call \in [at : {"cancelled"}, next : {"idle", "pop"}]
        BY <3>1, CallArguments DEF NoteCancelled, Typed
      <4>2. QED BY <3>1, <4>1 DEF NoteCancelled, At
    <3>2. QED
      BY <1>17, <3>1
      DEF StartPowerOff, StartAdvertising, StopAdvertising, NoteConnecting, Poll,
          PollAdvertising, PollConnecting, At
  <2>3. QED BY <2>1, <2>2
<1>18. QED
  BY <1>1, <1>2, <1>3, <1>4, <1>5, <1>6, <1>7, <1>8, <1>9, <1>10, <1>11, <1>12, <1>13, <1>14,
     <1>15, <1>16, <1>17
  DEF LinkNext, StartCall, ContinueCall, LinkCallback

LEMMA ScansStep == ASSUME LinkInv, [LinkNext]_linkVars PROVE ScansBegun'
<1> USE DEF ScansBegun
<1>0. /\ ScansBegun /\ LinkTypeOK /\ Typed
      /\ begun.scans \in Nat /\ heard.scans \in Nat
  BY TypeParts, LinkTypes, LinkConstants DEF LinkInv
<1> USE <1>0
<1>1. ASSUME NEW ok \in BOOLEAN, Initialize(ok) PROVE ScansBegun'
  BY <1>1 DEF Initialize, ResetQueues, Still, Fresh, Untold
<1>2. ASSUME PowerOff PROVE ScansBegun'
  <2>1. scan'.on = FALSE BY <1>2 DEF PowerOff, Typed, Scans
  <2>2. QED BY <1>2, <2>1 DEF PowerOff, DiscardEvents, Fresh, Untold
<1>3. ASSUME NEW limited \in BOOLEAN, StartScan(limited) PROVE ScansBegun'
  <2>1. begun'.scans = begun.scans + 1 BY <1>3 DEF StartScan, Typed, Beginnings
  <2>2. UNCHANGED <<ordinary, heard>> BY <1>3 DEF StartScan, queues
  <2>3. \A i \in DOMAIN ordinary : ordinary[i].scan <= begun.scans + 1
    <3> SUFFICES ASSUME NEW i \in DOMAIN ordinary PROVE ordinary[i].scan <= begun.scans + 1
      OBVIOUS
    <3>1. ordinary[i] \in LinkEvent /\ ordinary[i].kind = "report" BY LinkTypes
    <3>2. ordinary[i].scan \in 1 .. MaxScans BY <3>1, LinkEventFields
    <3>3. QED BY <3>2, LinkConstants
  <2>4. QED BY <2>1, <2>2, <2>3
<1>4. ASSUME StopScan \/ Poll PROVE ScansBegun'
  BY <1>4 DEF StopScan, Poll, Stopped, queues
<1>5. ASSUME AdvertisingReport PROVE ScansBegun'
  <2>1. begun.scans \in 1 .. MaxScans BY <1>5, LinkTypes, LinkConstants DEF AdvertisingReport
  <2>2. QED BY <1>5, <2>1, ReportPushed, LinkEventTypes DEF AdvertisingReport
<1>6. ASSUME FlagAdvertising \/ EndAdvertising \/ ForgetResume PROVE ScansBegun'
  BY <1>6 DEF FlagAdvertising, EndAdvertising, ForgetResume, Typed, Tidings, queues
<1>7. ASSUME NEW auto \in BOOLEAN, NEW limited \in BOOLEAN, StartAdvertising(auto, limited)
      PROVE  ScansBegun'
  BY <1>7 DEF StartAdvertising, Typed, Beginnings, queues
<1>8. ASSUME NEW limited \in BOOLEAN, Connect(limited) PROVE ScansBegun'
  BY <1>8 DEF Connect, Typed, Beginnings, Tidings, queues
<1>9. ASSUME CancelConnect PROVE ScansBegun' BY <1>9 DEF CancelConnect, Typed, Tidings, queues
<1>10. ASSUME NEW central \in BOOLEAN, LinkConnected(central) PROVE ScansBegun'
  BY <1>10 DEF LinkConnected, QueueCriticalEvent, Typed, Beginnings
<1>11. ASSUME TakeQueued PROVE ScansBegun'
  <2>1. heard'.scans = heard.scans /\ UNCHANGED <<scan, begun>>
    BY <1>11 DEF TakeQueued, Learn, Typed, Tidings
  <2>2. \A i \in DOMAIN ordinary' : \E j \in DOMAIN ordinary : ordinary'[i] = ordinary[j]
    <3>1. CASE UNCHANGED ordinary BY <3>1
    <3>2. CASE ordinary # <<>> /\ ordinary' = Tail(ordinary)
      <4>1. /\ Len(ordinary') = Len(ordinary) - 1 /\ DOMAIN ordinary' = 1 .. Len(ordinary')
            /\ \A i \in 1 .. Len(ordinary') : ordinary'[i] = ordinary[i + 1]
            /\ DOMAIN ordinary = 1 .. Len(ordinary) /\ Len(ordinary) \in Nat
        BY <3>2, LinkTypes
      <4>2. QED BY <4>1
    <3>3. QED BY <1>11, <3>1, <3>2, EventTaken DEF TakeQueued
  <2>3. QED BY <2>1, <2>2
<1>12. ASSUME TakeFlag PROVE ScansBegun'
  <2>1. ordinary = <<>> /\ UNCHANGED <<ordinary, begun>>
    BY <1>12 DEF TakeFlag, Waiting, queues
  <2>2. /\ scan'.on = scan.on
        /\ heard'.scans = IF scan.complete
                          THEN IF scan.on THEN begun.scans - 1 ELSE begun.scans
                          ELSE heard.scans
    BY <1>12 DEF TakeFlag, Typed, Tidings, Scans
  <2>3. QED BY <2>1, <2>2
<1>13. ASSUME Time PROVE ScansBegun'
  BY <1>13 DEF Time, PassScan, PassAdvertising, PassConnecting, Typed, Scans, queues
<1>14. ASSUME StackWorks \/ ConnectionFails \/ LinkDisconnected PROVE ScansBegun'
  BY <1>14
  DEF StackWorks, ConnectionFails, LinkDisconnected, QueueCriticalEvent, queues
<1>15. ASSUME \/ StartPowerOff \/ NoteAdvertising \/ StopAdvertising \/ TestAdvertising
              \/ SilenceAdvertising \/ AirIsSilent \/ NoteConnecting \/ NoteCancelled
              \/ PollAdvertising \/ PollConnecting \/ UNCHANGED linkVars
       PROVE  ScansBegun'
  BY <1>15
  DEF StartPowerOff, NoteAdvertising, StopAdvertising, TestAdvertising, SilenceAdvertising,
      AirIsSilent, NoteConnecting, NoteCancelled, PollAdvertising, PollConnecting, linkVars,
      queues
<1>16. QED
  BY <1>1, <1>2, <1>3, <1>4, <1>5, <1>6, <1>7, <1>8, <1>9, <1>10, <1>11, <1>12, <1>13,
     <1>14, <1>15
  DEF LinkNext, StartCall, ContinueCall, LinkCallback

-----------------------------------------------------------------------------
(* The history stays as it is while nothing it speaks of changes, ...      *)
LEMMA HistoryKept ==
  ASSUME LinkHistory, UNCHANGED <<initialized, critical, missed>>,
         heard'.conn = heard.conn, conn'.handle = conn.handle
  PROVE  LinkHistory'
<1>1. /\ Links(critical)' = Links(critical)
      /\ \A i \in Links(critical) :
           KnownBefore(critical', heard'.conn, i) = KnownBefore(critical, heard.conn, i)
      /\ KnownBefore(critical', heard'.conn, Len(critical') + 1)
           = KnownBefore(critical, heard.conn, Len(critical) + 1)
  OBVIOUS
<1>2. QED BY <1>1 DEF LinkHistory

(* ... begins with nothing told and nothing connected, ...                 *)
LEMMA HistoryBegins ==
  ASSUME critical = <<>>, heard.conn = 0, conn.handle = 0
  PROVE  LinkHistory
<1>1. Links(critical) = {} BY DEF Links
<1>2. KnownBefore(critical, heard.conn, Len(critical) + 1) = 0 BY <1>1 DEF KnownBefore
<1>3. QED BY <1>1, <1>2 DEF LinkHistory

(* ... and continues with an event that fits the connection there is and   *)
(* leaves the one there is then.                                           *)
LEMMA HistoryContinued ==
  ASSUME LinkTypeOK, LinkHistory, initialized, NEW e \in LinkEvent, QueueCriticalEvent(e),
         heard' = heard,
         IF IsLink(e) THEN Needs(e) = conn.handle /\ conn'.handle = Leaves(e)
         ELSE conn'.handle = conn.handle
  PROVE  LinkHistory'
<1> SUFFICES ASSUME ~missed'
             PROVE  /\ KnownBefore(critical', heard.conn, Len(critical') + 1) = conn'.handle
                    /\ \A i \in Links(critical') :
                         KnownBefore(critical', heard.conn, i) = Needs(critical'[i])
  BY DEF LinkHistory
<1>1. ~missed /\ critical' = Append(critical, e) BY CriticalPushed
<1>2. /\ KnownBefore(critical, heard.conn, Len(critical) + 1) = conn.handle
      /\ \A i \in Links(critical) :
           KnownBefore(critical, heard.conn, i) = Needs(critical[i])
  BY <1>1 DEF LinkHistory
<1>3. critical \in Seq(LinkEvent) BY LinkTypes
<1>4. /\ \A i \in 1 .. Len(critical) + 1 :
           KnownBefore(critical', heard.conn, i) = KnownBefore(critical, heard.conn, i)
      /\ KnownBefore(critical', heard.conn, Len(critical') + 1) =
           IF IsLink(e) THEN Leaves(e) ELSE KnownBefore(critical, heard.conn, Len(critical) + 1)
  BY <1>1, <1>3, KnownAppended
<1>5. \A i \in Links(critical') :
        \/ i \in Links(critical) /\ i \in 1 .. Len(critical) /\ critical'[i] = critical[i]
        \/ i = Len(critical) + 1 /\ critical'[i] = e /\ IsLink(e)
  BY <1>1, <1>3 DEF Links, IsLink
<1>6. ASSUME NEW i \in Links(critical')
      PROVE  KnownBefore(critical', heard.conn, i) = Needs(critical'[i])
  <2>1. i \in 1 .. Len(critical) + 1 BY <1>3, <1>5
  <2>2. QED BY <1>2, <1>4, <1>5, <2>1
<1>7. QED BY <1>2, <1>4, <1>6

LEMMA HistoryTaken == ASSUME LinkInv, TakeQueued PROVE LinkHistory'
<1>0. /\ LinkTypeOK /\ Typed /\ LinkHistory /\ ScansBegun
      /\ ordinary \in Seq(LinkEvent) /\ critical \in Seq(LinkEvent)
  BY TypeParts, LinkTypes DEF LinkInv
<1>1. /\ Waiting /\ PopOldest /\ Learn(Oldest) /\ UNCHANGED <<initialized, conn>>
  BY DEF TakeQueued
<1>2. CASE ordinary # <<>> /\ UNCHANGED critical /\ Oldest = ordinary[1]
  <2>1. 1 \in DOMAIN ordinary BY <1>0, <1>2
  <2>2. Oldest.kind = "report" BY <1>0, <1>2, <2>1 DEF ScansBegun
  <2>3. heard' = heard BY <1>1, <2>2 DEF Learn
  <2>4. UNCHANGED missed BY <1>0, <1>1, EventTaken
  <2>5. QED BY <1>0, <1>1, <1>2, <2>3, <2>4, HistoryKept
<1>3. CASE critical # <<>> /\ Oldest = critical[1] /\ critical' = Tail(critical)
  <2> DEFINE now == IF IsLink(critical[1]) THEN Leaves(critical[1]) ELSE heard.conn
  <2>1. UNCHANGED missed BY <1>0, <1>1, EventTaken
  <2>2. heard'.conn = now
    <3>1. critical[1].kind = "disconnected" => Leaves(critical[1]) = 0 BY DEF Leaves
    <3>2. critical[1].kind = "connected" => Leaves(critical[1]) = critical[1].conn BY DEF Leaves
    <3>3. QED BY <1>0, <1>1, <1>3, <3>1, <3>2 DEF Learn, IsLink, Typed, Tidings
  <2> HIDE DEF now
  <2>3. \A i \in 1 .. Len(critical') + 1 :
          KnownBefore(critical', now, i) = KnownBefore(critical, heard.conn, i + 1)
    BY <1>0, <1>3, KnownTaken DEF now
  <2>4. /\ critical' \in Seq(LinkEvent) /\ Len(critical) = Len(critical') + 1
        /\ \A i \in 1 .. Len(critical') : critical'[i] = critical[i + 1]
    BY <1>0, <1>3
  <2>5. \A i \in Links(critical') : /\ i + 1 \in Links(critical) /\ i \in 1 .. Len(critical')
                                    /\ critical'[i] = critical[i + 1]
    BY <1>0, <2>4 DEF Links
  <2>6. SUFFICES ASSUME initialized, ~missed
                 PROVE  /\ KnownBefore(critical', now, Len(critical') + 1) = conn.handle
                        /\ \A i \in Links(critical') :
                             KnownBefore(critical', now, i) = Needs(critical'[i])
    BY <1>1, <2>1, <2>2 DEF LinkHistory
  <2>7. /\ KnownBefore(critical, heard.conn, Len(critical) + 1) = conn.handle
        /\ \A i \in Links(critical) :
             KnownBefore(critical, heard.conn, i) = Needs(critical[i])
    BY <1>0, <2>6 DEF LinkHistory
  <2>8. Len(critical') + 1 \in 1 .. Len(critical') + 1 BY <2>4
  <2>9. KnownBefore(critical', now, Len(critical') + 1) = conn.handle BY <2>3, <2>4, <2>7, <2>8
  <2>10. ASSUME NEW i \in Links(critical')
         PROVE  KnownBefore(critical', now, i) = Needs(critical'[i])
    <3>1. i \in 1 .. Len(critical') + 1 BY <2>4, <2>5
    <3>2. QED BY <2>3, <2>5, <2>7, <3>1
  <2>11. QED BY <2>9, <2>10
<1>4. QED BY <1>0, <1>1, <1>2, <1>3, EventTaken

LEMMA HistoryStep == ASSUME LinkInv, [LinkNext]_linkVars PROVE LinkHistory'
<1>0. LinkTypeOK /\ Typed /\ Sessions /\ LinkHistory BY TypeParts DEF LinkInv
<1> USE <1>0
<1>1. ASSUME NEW ok \in BOOLEAN, Initialize(ok) PROVE LinkHistory'
  <2>1. critical' = <<>> /\ heard'.conn = 0 /\ conn'.handle = 0
    BY <1>1 DEF Initialize, ResetQueues, Untold, Apart
  <2>2. Links(critical') = {} BY <2>1 DEF Links
  <2>3. KnownBefore(critical', heard'.conn, Len(critical') + 1) = 0
    BY <2>1, <2>2 DEF KnownBefore
  <2>4. QED BY <2>1, <2>2, <2>3 DEF LinkHistory
<1>2. ASSUME PowerOff PROVE LinkHistory' BY <1>2 DEF PowerOff, LinkHistory
<1>3. ASSUME StackWorks PROVE LinkHistory'
  BY <1>3, HistoryContinued, LinkEventTypes DEF StackWorks, IsLink
<1>4. ASSUME NEW central \in BOOLEAN, LinkConnected(central) PROVE LinkHistory'
  <2> DEFINE c == begun.conns + 1
  <2>1. c \in Connection
    <3>1. begun.conns < MaxConnections BY <1>4 DEF LinkConnected
    <3>2. QED BY <3>1, LinkTypes, LinkConstants DEF Connection
  <2>2. /\ initialized /\ conn.handle = 0 /\ conn'.handle = c /\ heard' = heard
        /\ QueueCriticalEvent(Connected(c))
    BY <1>4 DEF LinkConnected, Sessions, Apart
  <2> HIDE DEF c
  <2>3. Connected(c) \in LinkEvent /\ IsLink(Connected(c)) BY <2>1, LinkEventTypes DEF IsLink
  <2>4. Needs(Connected(c)) = 0 /\ Leaves(Connected(c)) = c
    BY <2>1, LinkEventTypes DEF Needs, Leaves
  <2>5. QED BY <2>2, <2>3, <2>4, HistoryContinued
<1>5. ASSUME ConnectionFails PROVE LinkHistory'
  <2>1. initialized /\ heard' = heard BY <1>5 DEF ConnectionFails
  <2>2. conn'.handle = conn.handle BY <1>5 DEF ConnectionFails, Unasked, Typed, Connections
  <2>3. CASE conn.connecting
    <3>1. QueueCriticalEvent(Failed) BY <1>5, <2>3 DEF ConnectionFails
    <3>2. QED BY <2>1, <2>2, <3>1, HistoryContinued, LinkEventTypes DEF IsLink
  <2>4. CASE ~conn.connecting
    BY <1>5, <2>1, <2>2, <2>4, HistoryKept DEF ConnectionFails, queues
  <2>5. QED BY <2>3, <2>4
<1>6. ASSUME LinkDisconnected PROVE LinkHistory'
  <2>1. /\ initialized /\ stack.live \in Connection /\ conn.handle = stack.live
        /\ heard' = heard /\ QueueCriticalEvent(Disconnected(stack.live))
    BY <1>6, LinkTypes DEF LinkDisconnected, Sessions
  <2>2. conn'.handle = 0 BY <1>6, <2>1 DEF LinkDisconnected, Typed, Connections
  <2>3. /\ Disconnected(stack.live) \in LinkEvent /\ IsLink(Disconnected(stack.live))
        /\ Disconnected(stack.live).kind = "disconnected"
        /\ Disconnected(stack.live).conn = stack.live
    BY <2>1, LinkEventTypes DEF IsLink
  <2>4. Needs(Disconnected(stack.live)) = stack.live /\ Leaves(Disconnected(stack.live)) = 0
    BY <2>3 DEF Needs, Leaves
  <2>5. QED BY <2>1, <2>2, <2>3, <2>4, HistoryContinued
<1>7. ASSUME TakeQueued PROVE LinkHistory' BY <1>7, HistoryTaken
<1>8. ASSUME NEW limited \in BOOLEAN, NEW auto \in BOOLEAN,
             \/ StartPowerOff \/ StartScan(limited) \/ StopScan
             \/ StartAdvertising(auto, limited) \/ NoteAdvertising \/ StopAdvertising
             \/ TestAdvertising \/ SilenceAdvertising \/ AirIsSilent \/ Poll \/ PollAdvertising
             \/ PollConnecting \/ PassScan \/ PassAdvertising \/ UNCHANGED linkVars
      PROVE  LinkHistory'
  <2>1. UNCHANGED <<initialized, critical, missed, heard, conn>>
    BY <1>8
    DEF StartPowerOff, StartScan, StopScan, StartAdvertising, NoteAdvertising,
        StopAdvertising, TestAdvertising, SilenceAdvertising, AirIsSilent, Poll,
        PollAdvertising, PollConnecting, PassScan, PassAdvertising, linkVars, queues
  <2>2. QED BY <2>1, HistoryKept
<1>9. ASSUME AdvertisingReport PROVE LinkHistory'
  BY <1>9, HistoryKept DEF AdvertisingReport, QueueEvent
<1>10. ASSUME NEW limited \in BOOLEAN,
              \/ FlagAdvertising \/ EndAdvertising \/ ForgetResume
              \/ Connect(limited) \/ CancelConnect
       PROVE  LinkHistory'
  <2>1. UNCHANGED <<initialized, critical, missed, conn>> /\ heard'.conn = heard.conn
    BY <1>10
    DEF FlagAdvertising, EndAdvertising, ForgetResume, Connect, CancelConnect, queues, Typed,
        Tidings
  <2>2. QED BY <2>1, HistoryKept
<1>11. ASSUME NoteConnecting \/ NoteCancelled \/ PassConnecting PROVE LinkHistory'
  <2>1. UNCHANGED <<initialized, critical, missed, heard>> /\ conn'.handle = conn.handle
    BY <1>11
    DEF NoteConnecting, NoteCancelled, PassConnecting, Unasked, queues, Typed, Connections
  <2>2. QED BY <2>1, HistoryKept
<1>12. ASSUME TakeFlag PROVE LinkHistory'
  <2>1. UNCHANGED <<initialized, critical, missed>> BY <1>12 DEF TakeFlag, queues
  <2>2. heard'.conn = heard.conn BY <1>12 DEF TakeFlag, Typed, Tidings
  <2>3. conn'.handle = conn.handle BY <1>12 DEF TakeFlag, Typed, Connections
  <2>4. QED BY <2>1, <2>2, <2>3, HistoryKept
<1>13. QED
  BY <1>1, <1>2, <1>3, <1>4, <1>5, <1>6, <1>7, <1>8, <1>9, <1>10, <1>11, <1>12
  DEF LinkNext, StartCall, ContinueCall, LinkCallback, Time

-----------------------------------------------------------------------------
LEMMA LinkInitially == LinkInit => LinkInv
<1> SUFFICES ASSUME LinkInit PROVE LinkInv OBVIOUS
<1>1. QueuesOK(LinkEvent)
  <2>1. <<>> \in Seq(LinkEvent) /\ Len(<<>>) = 0 OBVIOUS
  <2>2. ordinary = <<>> /\ critical = <<>> /\ missed = FALSE BY DEF LinkInit, EmptyQueues
  <2>3. ordinary \in Seq(LinkEvent) /\ Len(ordinary) = 0 BY <2>1, <2>2
  <2>4. critical \in Seq(LinkEvent) /\ Len(critical) = 0 BY <2>1, <2>2
  <2>5. missed \in BOOLEAN BY <2>2
  <2>6. QED BY <2>3, <2>4, <2>5, LinkConstants DEF QueuesOK
<1>2. Typed
  <2>1. scan \in Scans /\ adv \in Advertisements
    BY Deadlines DEF LinkInit, Still, Quiet, Scans, Advertisements
  <2>2. conn \in Connections /\ stack \in Stacks
    BY Deadlines DEF LinkInit, Apart, Off, Airing, Connections, Stacks
  <2>3. begun \in Beginnings /\ heard \in Tidings
    BY LinkConstants DEF LinkInit, Fresh, Untold, Beginnings, Tidings
  <2>4. call \in Places BY DEF LinkInit, Places
  <2>5. QED BY <1>1, <2>1, <2>2, <2>3, <2>4 DEF LinkInit, Typed
<1>3. Sessions BY DEF LinkInit, Off, Apart, Sessions
<1>4. ScansBegun BY DEF LinkInit, EmptyQueues, Still, Fresh, Untold, ScansBegun
<1>5. AdvertisingKnown BY DEF LinkInit, Untold, EndKnown, AdvertisingKnown
<1>6. LinkHistory BY HistoryBegins DEF LinkInit, EmptyQueues, Untold, Apart
<1>7. QED BY <1>2, <1>3, <1>4, <1>5, <1>6, TypeParts DEF LinkInv

LEMMA LinkInvariance == LinkSpec => []LinkInv
<1>1. LinkInv /\ [LinkNext]_linkVars => LinkInv'
  BY LinkTypeStep, SessionsStep, ScansStep, AdvertisingStep, HistoryStep DEF LinkInv
<1>2. QED BY <1>1, LinkInitially, PTL DEF LinkSpec

(* A program that takes every event learns of each connection before its   *)
(* end and of its end before the next connection, and ends up with the one *)
(* the module keeps, as long as no critical event was dropped; and no scan *)
(* is reported complete before its last report.                            *)
THEOREM LinkEventsInOrder == LinkSpec => []EventHistory
<1>1. LinkInv => EventHistory
  <2> SUFFICES ASSUME LinkInv PROVE ReportsPrecedeCompletion BY DEF EventHistory, LinkInv
  <2>1. ASSUME NEW i \in DOMAIN ordinary PROVE ordinary[i].scan > heard.scans
    <3>1. ordinary[i] \in LinkEvent /\ ordinary[i].kind = "report"
      BY LinkTypes DEF LinkInv, ScansBegun
    <3>2. ordinary[i].scan \in Int /\ heard.scans \in Int
      BY <3>1, LinkEventFields, LinkTypes, LinkConstants DEF LinkInv
    <3>3. heard.scans < ordinary[i].scan BY DEF LinkInv, ScansBegun
    <3>4. QED BY <3>2, <3>3
  <2>2. QED BY <2>1 DEF ReportsPrecedeCompletion
<1>2. QED BY <1>1, LinkInvariance, PTL

(* A program that waits for its advertisement to end is not forgotten,     *)
(* whoever connects or leaves between the steps of start_advertising,      *)
(* stop_advertising and take_event, a central the controller accepted      *)
(* before it was silenced among them: the advertisement is on the air,     *)
(* waits for its central to leave, or its completion waits to be taken.    *)
(* And what is on the air, waits to resume or is complete is something the *)
(* program waits for, except what a stop that kept                         *)
(* advertising_resume_pending, or met a resumed one, left behind.  Every   *)
(* variable keeps its type.                                                *)
THEOREM AdvertisingNeverForgotten == LinkSpec => []AdvertisingAccounted
<1>1. LinkInv => AdvertisingAccounted
  BY DEF LinkInv, AdvertisingKnown, Expected, AdvertisingAccounted
<1>2. QED BY <1>1, LinkInvariance, PTL

=============================================================================
