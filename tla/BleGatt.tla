------------------------------ MODULE BleGatt ------------------------------
(***************************************************************************)
(* The GATT side of pico_ble.c on the connections BleLink makes: the one   *)
(* client query, the local characteristics a peer writes and subscribes    *)
(* to, and the events of both.  As in BleLink the stack's callbacks run in *)
(* the background between the steps of a call.  Handles are numbered, so   *)
(* the controller gives no new connection the handle of the one that ended *)
(* in the middle of a call.                                                *)
(***************************************************************************)
EXTENDS BleEvents, SequencesExt

CONSTANTS
  MaxConns,    \* bound: connections
  MaxQueries,  \* bound: queries the stack accepts
  MaxPeer      \* bound: ordinary events of peers, writes and notifications sent

ASSUME GattAssumption ==
  MaxConns \in Nat /\ MaxQueries \in Nat /\ MaxPeer \in Nat

VARIABLES
  handle,         \* connection_handle (0: none)
  query,          \* gatt_query; the three discoveries are alike
  subscriptions,  \* what the peer subscribed to at the one characteristic
  live, running,  \* BTstack: its connection and the query it works on (0: none)
  indicating,     \* BTstack: an indication waits for its confirmation
  pc,             \* where the program is in a call
  count,          \* connections, accepted queries and ordinary events so far
  read,           \* the last read, its connection and the answers queued
  told            \* the last connection whose end and the last query whose
                  \* completion were taken, and whether one is waited for

vars == <<handle, query, subscriptions, live, running, indicating, queues, pc,
          count, read, told>>

Conn == 1 .. MaxConns
Query == 1 .. MaxQueries
Sort == {"discover", "read", "write"}

Link(kind, c) == [kind |-> kind, conn |-> c]
Answer(kind, c, q) == [kind |-> kind, conn |-> c, query |-> q]

Event ==
  [kind : {"connected", "disconnected", "attribute", "sent", "notified"}, conn : Conn]
    \cup [kind : {"result", "value", "complete"}, conn : Conn, query : Query]

(* Whether an answer was due and found room in its queue. *)
Added(due) == IF due /\ <<ordinary', critical'>> # <<ordinary, critical>>
              THEN 1 ELSE 0

Idle == pc = At("idle")

TypeOK ==
  /\ handle \in {0} \cup Conn /\ live \in {0} \cup Conn
  /\ query \in {"none"} \cup Sort /\ running \in {0} \cup Query
  /\ subscriptions \in SUBSET {"notify", "indicate"}
  /\ indicating \in BOOLEAN
  /\ QueuesOK(Event)
  /\ pc \in {At("idle")}
            \cup [at : {"querying", "writing", "notifying", "indicating", "sent"}, conn : Conn]
  /\ count \in [conns : 0 .. MaxConns, queries : 0 .. MaxQueries, peer : 0 .. MaxPeer]
  /\ read \in [query : {0} \cup Query, conn : {0} \cup Conn, answers : 0 .. 2]
  /\ told \in [ended : {0} \cup Conn, completed : {0} \cup Query, waiting : {0} \cup Query]

Init ==
  /\ handle = 0 /\ query = "none" /\ subscriptions = {}
  /\ live = 0 /\ running = 0 /\ indicating = FALSE
  /\ EmptyQueues
  /\ pc = At("idle")
  /\ count = [conns |-> 0, queries |-> 0, peer |-> 0]
  /\ read = [query |-> 0, conn |-> 0, answers |-> 0]
  /\ told = [ended |-> 0, completed |-> 0, waiting |-> 0]

link == <<handle, subscriptions, live, indicating>>

-----------------------------------------------------------------------------
(* Connections come and go. *)

ConnectionComplete ==
  /\ live = 0 /\ count.conns < MaxConns
  /\ live' = count.conns + 1 /\ handle' = live'
  /\ count' = [count EXCEPT !.conns = @ + 1]
  /\ QueueCriticalEvent(Link("connected", live'))
  /\ UNCHANGED <<query, subscriptions, running, indicating, pc, read, told>>

(* The stack gives up its query with the connection, and says so before or *)
(* after it reports the disconnection; afterwards gatt_query is reset and  *)
(* the completion belongs to no query.                                     *)
GivesUp(completes) ==
  LET completed == IF completes THEN Pushed(critical, Answer("complete", live, running))
                   ELSE critical
  IN /\ critical' = Pushed(completed, Link("disconnected", live))
     /\ missed' = (missed \/ Len(completed) >= CriticalCapacity)
     /\ UNCHANGED ordinary

(* HCI_EVENT_DISCONNECTION_COMPLETE. *)
DisconnectionComplete(first) ==
  /\ live # 0
  /\ live' = 0 /\ handle' = 0
  /\ GivesUp(first /\ running # 0)
  /\ query' = "none" /\ running' = 0
  /\ subscriptions' = {} /\ indicating' = FALSE
  /\ read' = [read EXCEPT !.answers = @ + Added(first /\ running # 0 /\ query = "read")]
  /\ UNCHANGED <<pc, count, told>>

-----------------------------------------------------------------------------
(* The client: one query at a time. *)

(* discover_services, _characteristics, _descriptors, client_read, and     *)
(* client_write with response: gatt_query is set before the stack is asked.*)
StartQuery(sort) ==
  /\ Idle
  /\ handle # 0 /\ query = "none"
  /\ count.queries < MaxQueries
  /\ query' = sort
  /\ pc' = [at |-> "querying", conn |-> handle]
  /\ UNCHANGED <<link, running, queues, count, read, told>>

(* A fault: gatt_query stays set when the stack refuses. *)
BadAskStack(accepts) ==
  /\ pc.at = "querying" /\ pc' = At("idle")
  /\ IF accepts /\ live = pc.conn
     THEN /\ running' = count.queries + 1
          /\ count' = [count EXCEPT !.queries = @ + 1]
          /\ read' = IF query # "read" THEN read
                     ELSE [query |-> running', conn |-> live, answers |-> 0]
          /\ told' = [told EXCEPT !.waiting = running']
     ELSE UNCHANGED <<running, count, read, told>>
  /\ UNCHANGED <<query, link, queues>>

(* The stack refuses a handle it does not know. *)
AskStack(accepts) ==
  /\ pc.at = "querying" /\ pc' = At("idle")
  /\ IF accepts /\ live = pc.conn
     THEN /\ running' = count.queries + 1
          /\ count' = [count EXCEPT !.queries = @ + 1]
          /\ read' = IF query # "read" THEN read
                     ELSE [query |-> running', conn |-> live, answers |-> 0]
          /\ told' = [told EXCEPT !.waiting = running']
          /\ UNCHANGED query
     ELSE query' = "none" /\ UNCHANGED <<running, count, read, told>>
  /\ UNCHANGED <<link, queues>>

(* A discovery's results: they may find the queue full. *)
QueryResult ==
  /\ running # 0 /\ query = "discover"
  /\ QueueEvent(Answer("result", handle, running))
  /\ UNCHANGED <<link, query, running, pc, count, read, told>>

(* A fault: the completion waits with the results. *)
BadQueryComplete ==
  /\ running # 0
  /\ query' = "none" /\ running' = 0
  /\ QueueEvent(Answer("complete", handle, running))
  /\ read' = [read EXCEPT !.answers = @ + Added(query = "read")]
  /\ UNCHANGED <<link, pc, count, told>>

(* GATT_EVENT_QUERY_COMPLETE of a discovery or a write, or of a read that  *)
(* failed: a critical event.                                               *)
QueryComplete ==
  /\ running # 0
  /\ query' = "none" /\ running' = 0
  /\ QueueCriticalEvent(Answer("complete", handle, running))
  /\ read' = [read EXCEPT !.answers = @ + Added(query = "read")]
  /\ UNCHANGED <<link, pc, count, told>>

(* The value of a read and its completion, which the stack reports in one  *)
(* go: a value that found the queue full becomes an error.                 *)
ReadResponse ==
  /\ running # 0 /\ query = "read"
  /\ query' = "none" /\ running' = 0
  /\ IF Stored THEN QueueEvent(Answer("value", handle, running))
     ELSE QueueCriticalEvent(Answer("complete", handle, running))
  /\ read' = [read EXCEPT !.answers = @ + Added(TRUE)]
  /\ UNCHANGED <<link, pc, count, told>>

(* A notification or an indication of the peer. *)
PeerNotifies ==
  /\ live # 0 /\ count.peer < MaxPeer
  /\ count' = [count EXCEPT !.peer = @ + 1]
  /\ QueueCriticalEvent(Link("notified", live))
  /\ UNCHANGED <<link, query, running, pc, read, told>>

(* client_write without response: the stack takes it, and the call itself  *)
(* reports it.                                                             *)
StartWrite ==
  /\ Idle
  /\ handle # 0 /\ query = "none" /\ count.peer < MaxPeer
  /\ pc' = [at |-> "writing", conn |-> handle]
  /\ UNCHANGED <<link, query, running, queues, count, read, told>>

-----------------------------------------------------------------------------
(* The server. *)

(* server_write: a value, or the subscriptions; and an exchanged MTU. *)
PeerWrites ==
  /\ live # 0 /\ count.peer < MaxPeer
  /\ count' = [count EXCEPT !.peer = @ + 1]
  /\ QueueEvent(Link("attribute", live))
  /\ UNCHANGED <<link, query, running, pc, read, told>>

PeerSubscribes(bits) ==
  /\ live # 0 /\ count.peer < MaxPeer
  /\ count' = [count EXCEPT !.peer = @ + 1]
  /\ subscriptions' = bits
  /\ QueueEvent(Link("attribute", live))
  /\ UNCHANGED <<handle, live, indicating, query, running, pc, read, told>>

(* gatt_notify, also called by gatt_set_value. *)
StartNotify ==
  /\ Idle
  /\ handle # 0 /\ "notify" \in subscriptions /\ count.peer < MaxPeer
  /\ pc' = [at |-> "notifying", conn |-> handle]
  /\ UNCHANGED <<link, query, running, queues, count, read, told>>

StartIndicate ==
  /\ Idle
  /\ handle # 0 /\ "indicate" \in subscriptions /\ count.peer < MaxPeer
  /\ pc' = [at |-> "indicating", conn |-> handle]
  /\ UNCHANGED <<link, query, running, queues, count, read, told>>

(* The stack sends what goes without a confirmation, or refuses. *)
Send(accepts) ==
  /\ pc.at \in {"writing", "notifying"}
  /\ pc' = IF accepts /\ live = pc.conn THEN [pc EXCEPT !.at = "sent"] ELSE At("idle")
  /\ UNCHANGED <<link, query, running, queues, count, read, told>>

(* The connection may be gone by now, and its end already be queued. *)
ReportSent ==
  /\ pc.at = "sent" /\ pc' = At("idle")
  /\ count' = [count EXCEPT !.peer = IF @ < MaxPeer THEN @ + 1 ELSE @]
  /\ QueueEvent(Link("sent", pc.conn))
  /\ UNCHANGED <<link, query, running, read, told>>

SendIndication(accepts) ==
  /\ pc.at = "indicating" /\ pc' = At("idle")
  /\ indicating' = (indicating \/ (accepts /\ live = pc.conn))
  /\ UNCHANGED <<handle, subscriptions, live, query, running, queues,
                 count, read, told>>

(* ATT_EVENT_HANDLE_VALUE_INDICATION_COMPLETE. *)
IndicationComplete ==
  /\ indicating
  /\ indicating' = FALSE
  /\ count' = [count EXCEPT !.peer = IF @ < MaxPeer THEN @ + 1 ELSE @]
  /\ QueueCriticalEvent(Link("sent", live))
  /\ UNCHANGED <<handle, subscriptions, live, query, running, pc, read, told>>

-----------------------------------------------------------------------------
(* bmx_embedded_ble_take_event, without the flags of BleLink. *)

Answers(e) == e.kind \in {"value", "complete"}

TakeEvent ==
  /\ Idle /\ Waiting
  /\ PopOldest
  /\ LET e == Oldest IN
       told' = [ended |-> IF e.kind = "disconnected" THEN e.conn ELSE told.ended,
                completed |-> IF Answers(e) THEN e.query ELSE told.completed,
                waiting |-> IF e.kind = "disconnected" \/ (Answers(e) /\ e.query = told.waiting)
                            THEN 0 ELSE told.waiting]
  /\ UNCHANGED <<link, query, running, pc, count, read>>

-----------------------------------------------------------------------------
Start ==
  \/ \E sort \in Sort : StartQuery(sort)
  \/ StartWrite \/ StartNotify \/ StartIndicate

Continue ==
  \/ ReportSent
  \/ \E accepts \in BOOLEAN : AskStack(accepts) \/ Send(accepts) \/ SendIndication(accepts)

Stack ==
  \/ ConnectionComplete \/ \E first \in BOOLEAN : DisconnectionComplete(first)
  \/ QueryResult \/ QueryComplete \/ ReadResponse
  \/ PeerNotifies \/ PeerWrites \/ IndicationComplete
  \/ \E bits \in SUBSET {"notify", "indicate"} : PeerSubscribes(bits)

Next == Start \/ Continue \/ TakeEvent \/ Stack

Spec == Init /\ [][Next]_vars

(* Calls return, the program polls, and the stack ends every query: ATT    *)
(* has a transaction timeout.                                              *)
FairSpec == Spec /\ WF_vars(Continue) /\ SF_vars(TakeEvent)
                 /\ WF_vars(QueryComplete)

-----------------------------------------------------------------------------
(* Properties. *)

(* Whatever concerns a connection is taken before its end, although calls  *)
(* report what they sent after the connection may have gone.               *)
NothingAfterDisconnected ==
  \A e \in Range(ordinary) \cup Range(critical) : e.conn > told.ended

(* Between calls gatt_query is set exactly while the stack works on a      *)
(* query: the client is never refused for a query that is over.  Every     *)
(* variable keeps its type.                                                *)
QueryAccounted == TypeOK /\ (Idle => (query # "none" <=> running # 0))

(* No result of a query is taken after its completion. *)
ResultsBeforeCompletion ==
  \A e \in Range(ordinary) : e.kind = "result" => e.query > told.completed

(* What waits in the queues continues what the program knows.              *)
EventsInOrder == NothingAfterDisconnected /\ ResultsBeforeCompletion

(* A read is answered once: never twice, and never not at all while its    *)
(* connection lasts, unless the critical queue overflowed.                 *)
ReadAnsweredOnce ==
  /\ read.answers <= 1
  /\ read.conn = live /\ live # 0 /\ running # read.query
       => read.answers = 1 \/ missed

(* What a client hears of its queries is in order and complete.            *)
AnswersInOrder == EventsInOrder /\ ReadAnsweredOnce

(* A program that waits for a query learns of its completion or of the end *)
(* of the connection, unless the critical queue overflowed.                *)
QueryAnswered == told.waiting # 0 ~> (told.waiting = 0 \/ missed)

=============================================================================
