------------------------------ MODULE BleLink ------------------------------
(***************************************************************************)
(* The link side of pico_ble.c: session, scanning, advertising, connecting *)
(* and the one connection.  The program calls from core 0.  The stack's    *)
(* callbacks run in the background of the same core and are kept out only  *)
(* between cyw43_arch_lwip_begin and cyw43_arch_lwip_end, so a call that   *)
(* tests a flag, enters the stack and then sets a flag takes several steps.*)
(***************************************************************************)
EXTENDS BleEvents, FiniteSetsExt

CONSTANTS
  MaxScans,        \* bound: scans started in a session
  MaxConnections,  \* bound: connections made in a session
  MaxStarts        \* bound: scans, advertisements and connects of a session

ASSUME LinkAssumption ==
  MaxScans \in Nat /\ MaxConnections \in Nat /\ MaxStarts \in Nat

VARIABLES
  initialized, ready,
  scan,    \* scanning, scan_deadline, scan_complete_pending
  adv,     \* advertising and its auto_restart, duration, deadline, resume and
           \* complete flags; a deadline is "none" while nothing looks at it
  conn,    \* connecting, connect_deadline, connect_timeout_pending and
           \* connection_handle (0: HCI_CON_HANDLE_INVALID)
  stack,   \* BTstack: advertising (until the controller has done what it was
           \* asked, a central may connect), outgoing attempt, live connection
  call,    \* where the program is in a call, and the call's arguments
  begun,   \* scans, connections and starts of any kind of this session
  heard    \* what the program was told: completed scans, its connection,
           \* whether it waits for a connect or an advertisement to end, with
           \* the end of an older one still to be told, and whether the last
           \* stop left something behind that will be on the air again

linkVars == <<initialized, ready, scan, adv, conn, stack, queues, call, begun,
              heard>>

Deadline == {"none", "armed", "passed"}
DeadlineFor(limited) == IF limited THEN "armed" ELSE "none"

Airing == {"off", "on", "ending"}

Connection == 1 .. MaxConnections
Ready == [kind |-> "ready"]
Report(n) == [kind |-> "report", scan |-> n]
Connected(c) == [kind |-> "connected", conn |-> c]
Failed == [kind |-> "failed"]
Disconnected(c) == [kind |-> "disconnected", conn |-> c]

LinkEvent ==
  {Ready, Failed} \cup {Report(n) : n \in 1 .. MaxScans}
    \cup {Connected(c) : c \in Connection} \cup {Disconnected(c) : c \in Connection}

NoCall == call = At("idle")

LinkTypeOK ==
  /\ initialized \in BOOLEAN /\ ready \in BOOLEAN
  /\ scan \in [on : BOOLEAN, due : Deadline, complete : BOOLEAN]
  /\ adv \in [on : BOOLEAN, auto : BOOLEAN, limited : BOOLEAN, due : Deadline,
              resume : BOOLEAN, complete : BOOLEAN]
  /\ conn \in [connecting : BOOLEAN, due : Deadline, timeout : BOOLEAN,
               handle : {0} \cup Connection]
  /\ stack \in [airing : Airing, attempt : BOOLEAN, live : {0} \cup Connection]
  /\ QueuesOK(LinkEvent)
  /\ call \in {At("idle"), At("pollAdv"), At("pollConn"), At("pop"), At("powerOff")}
              \cup [at : {"aired", "flagged"}, auto : BOOLEAN, limited : BOOLEAN]
              \cup [at : {"stopAdv", "resuming", "silencing", "silenced"},
                    next : {"idle", "pollConn"}]
              \cup [at : {"asked"}, limited : BOOLEAN]
              \cup [at : {"cancelled"}, next : {"idle", "pop"}]
  /\ begun \in [scans : 0 .. MaxScans, conns : 0 .. MaxConnections,
                starts : 0 .. MaxStarts]
  /\ heard \in [scans : 0 .. MaxScans, conn : {0} \cup Connection,
                connecting : BOOLEAN, advertising : BOOLEAN, older : BOOLEAN,
                stray : BOOLEAN]

Still == [on |-> FALSE, due |-> "none", complete |-> FALSE]
Quiet == [on |-> FALSE, auto |-> FALSE, limited |-> FALSE, due |-> "none",
          resume |-> FALSE, complete |-> FALSE]
Apart == [connecting |-> FALSE, due |-> "none", timeout |-> FALSE, handle |-> 0]
Off == [airing |-> "off", attempt |-> FALSE, live |-> 0]
Fresh == [scans |-> 0, conns |-> 0, starts |-> 0]
Untold == [scans |-> 0, conn |-> 0, connecting |-> FALSE, advertising |-> FALSE,
           older |-> FALSE, stray |-> FALSE]

LinkInit ==
  /\ initialized = FALSE /\ ready = FALSE
  /\ scan = Still /\ adv = Quiet /\ conn = Apart /\ stack = Off
  /\ EmptyQueues
  /\ call = At("idle") /\ begun = Fresh /\ heard = Untold

-----------------------------------------------------------------------------
(* The session. *)

(* bmx_embedded_ble_initialize, ok if the stack powers up; auto_restart    *)
(* keeps its value until the next start, and so does the duration, which   *)
(* nothing looks at before.                                                *)
Initialize(ok) ==
  /\ NoCall /\ ~initialized
  /\ initialized' = ok /\ ready' = FALSE
  /\ scan' = Still
  /\ adv' = [Quiet EXCEPT !.auto = adv.auto]
  /\ conn' = Apart
  /\ ResetQueues
  /\ begun' = Fresh /\ heard' = Untold
  /\ UNCHANGED <<stack, call>>

(* bmx_embedded_ble_deinitialize: a connection can still be made between   *)
(* the test and the moment the handler is removed.                         *)
MayPowerOff == conn.handle = 0 /\ ~conn.connecting

StartPowerOff ==
  /\ NoCall /\ initialized
  /\ MayPowerOff
  /\ call' = At("powerOff")
  /\ UNCHANGED <<initialized, ready, scan, adv, conn, stack, queues, begun, heard>>

PowerOff ==
  /\ call = At("powerOff") /\ call' = At("idle")
  /\ initialized' = FALSE /\ ready' = FALSE
  /\ scan' = [scan EXCEPT !.on = FALSE, !.due = "none"]
  /\ adv' = [adv EXCEPT !.on = FALSE, !.due = "none"]
  /\ stack' = Off
  /\ DiscardEvents
  /\ begun' = Fresh /\ heard' = Untold
  /\ UNCHANGED conn

(* BTSTACK_EVENT_STATE: the stack works. *)
StackWorks ==
  /\ initialized /\ ~ready
  /\ ready' = TRUE
  /\ QueueCriticalEvent(Ready)
  /\ UNCHANGED <<initialized, scan, adv, conn, stack, call, begun, heard>>

-----------------------------------------------------------------------------
(* Scanning. *)

StartScan(limited) ==
  /\ NoCall /\ ready /\ ~scan.on
  /\ begun.scans < MaxScans /\ begun.starts < MaxStarts
  /\ scan' = [scan EXCEPT !.on = TRUE, !.due = DeadlineFor(limited)]
  /\ begun' = [begun EXCEPT !.scans = @ + 1, !.starts = @ + 1]
  /\ UNCHANGED <<initialized, ready, adv, conn, stack, queues, call, heard>>

Stopped == [on |-> FALSE, due |-> "none", complete |-> TRUE]

StopScan ==
  /\ NoCall /\ scan.on
  /\ scan' = Stopped
  /\ UNCHANGED <<initialized, ready, adv, conn, stack, queues, call, begun, heard>>

(* GAP_EVENT_ADVERTISING_REPORT; without the flag it is ignored. *)
AdvertisingReport ==
  /\ scan.on
  /\ QueueEvent(Report(begun.scans))
  /\ UNCHANGED <<initialized, ready, scan, adv, conn, stack, call, begun, heard>>

-----------------------------------------------------------------------------
(* Advertising. *)

(* bmx_embedded_ble_start_advertising: the stack starts first, then the    *)
(* flag is set, and only then what to do when a central connects.  What a  *)
(* callback does after the test of advertising and before the stack is     *)
(* entered it may as well do right after.                                  *)
StartAdvertising(auto, limited) ==
  /\ NoCall /\ ready /\ ~adv.on
  /\ begun.starts < MaxStarts
  /\ stack' = [stack EXCEPT !.airing = "on"]
  /\ begun' = [begun EXCEPT !.starts = @ + 1]
  /\ call' = [at |-> "aired", auto |-> auto, limited |-> limited]
  /\ UNCHANGED <<initialized, ready, scan, adv, conn, queues, heard>>

FlagAdvertising ==
  /\ call.at = "aired" /\ call' = [call EXCEPT !.at = "flagged"]
  /\ adv' = [adv EXCEPT !.on = TRUE]
  /\ heard' = [heard EXCEPT !.advertising = TRUE, !.older = adv.complete,
                            !.stray = FALSE]
  /\ UNCHANGED <<initialized, ready, scan, conn, stack, queues, begun>>

NoteAdvertising ==
  /\ call.at = "flagged" /\ call' = At("idle")
  /\ adv' = [adv EXCEPT !.auto = call.auto, !.limited = call.limited,
                        !.due = DeadlineFor(call.limited)]
  /\ UNCHANGED <<initialized, ready, scan, conn, stack, queues, begun, heard>>

(* bmx_embedded_ble_stop_advertising, called by the program or, when the   *)
(* deadline has passed, by take_event.                                     *)
StopAdvertising ==
  /\ NoCall /\ initialized
  /\ call' = [at |-> "stopAdv", next |-> "idle"]
  /\ UNCHANGED <<initialized, ready, scan, adv, conn, stack, queues, begun, heard>>

TestAdvertising ==
  /\ call.at = "stopAdv"
  /\ call' = IF adv.on THEN [call EXCEPT !.at = "silencing"]
             ELSE IF adv.resume THEN [call EXCEPT !.at = "resuming"] ELSE At(call.next)
  /\ UNCHANGED <<initialized, ready, scan, adv, conn, stack, queues, begun, heard>>

(* The flag was tested outside of the stack: a central may have connected  *)
(* since, and one that the controller has accepted already is still told.  *)
SilenceAdvertising ==
  /\ call.at = "silencing" /\ call' = [call EXCEPT !.at = "silenced"]
  /\ stack' = [stack EXCEPT !.airing = IF @ = "on" THEN "ending" ELSE @]
  /\ UNCHANGED <<initialized, ready, scan, adv, conn, queues, begun, heard>>

(* advertising_resume_pending, which a central may have set meanwhile or   *)
(* an earlier advertisement may have left, stays as it is.                 *)
EndAdvertising ==
  /\ call.at = "silenced" /\ call' = At(call.next)
  /\ adv' = [adv EXCEPT !.on = FALSE, !.due = "none", !.complete = TRUE]
  /\ heard' = [heard EXCEPT !.stray = @ \/ adv.resume]
  /\ UNCHANGED <<initialized, ready, scan, conn, stack, queues, begun>>

(* The central may have left, and the advertisement resumed, since the     *)
(* test.                                                                   *)
ForgetResume ==
  /\ call.at = "resuming" /\ call' = At(call.next)
  /\ adv' = [adv EXCEPT !.resume = FALSE, !.complete = TRUE]
  /\ heard' = [heard EXCEPT !.stray = @ \/ adv.on]
  /\ UNCHANGED <<initialized, ready, scan, conn, stack, queues, begun>>

(* The controller has stopped advertising. *)
AirIsSilent ==
  /\ initialized /\ stack.airing = "ending"
  /\ stack' = [stack EXCEPT !.airing = "off"]
  /\ UNCHANGED <<initialized, ready, scan, adv, conn, queues, call, begun, heard>>

-----------------------------------------------------------------------------
(* Connecting. *)

(* bmx_embedded_ble_connect: the attempt is under way, and may be decided, *)
(* before the call has set connecting.                                     *)
Connect(limited) ==
  /\ NoCall /\ ready
  /\ ~conn.connecting /\ conn.handle = 0
  /\ begun.starts < MaxStarts
  /\ ~stack.attempt /\ stack.live = 0
  /\ stack' = [stack EXCEPT !.attempt = TRUE]
  /\ begun' = [begun EXCEPT !.starts = @ + 1]
  /\ heard' = [heard EXCEPT !.connecting = limited]
  /\ call' = [at |-> "asked", limited |-> limited]
  /\ UNCHANGED <<initialized, ready, scan, adv, conn, queues>>

NoteConnecting ==
  /\ call.at = "asked" /\ call' = At("idle")
  /\ conn' = [conn EXCEPT !.connecting = TRUE, !.due = DeadlineFor(call.limited)]
  /\ UNCHANGED <<initialized, ready, scan, adv, stack, queues, begun, heard>>

(* bmx_embedded_ble_cancel_connect: the stack only takes note, and still   *)
(* reports how the attempt ended.                                          *)
CancelConnect ==
  /\ NoCall /\ initialized /\ conn.connecting
  /\ call' = [at |-> "cancelled", next |-> "idle"]
  /\ heard' = [heard EXCEPT !.connecting = FALSE]
  /\ UNCHANGED <<initialized, ready, scan, adv, conn, stack, queues, begun>>

Unasked == [conn EXCEPT !.connecting = FALSE, !.due = "none"]

(* A fault: the end of a timed-out attempt is not kept for the program. *)
BadNoteCancelled ==
  /\ call.at = "cancelled" /\ call' = At(call.next)
  /\ conn' = Unasked
  /\ UNCHANGED <<initialized, ready, scan, adv, stack, queues, begun, heard>>

(* The end of the call, and of its use in take_event. *)
NoteCancelled ==
  /\ call.at = "cancelled" /\ call' = At(call.next)
  /\ conn' = [Unasked EXCEPT !.timeout = @ \/ call.next = "pop"]
  /\ UNCHANGED <<initialized, ready, scan, adv, stack, queues, begun, heard>>

(* A fault: a central ends an advertisement that will not resume, and      *)
(* nothing says that it is complete.                                       *)
BadAfterCentral == [adv EXCEPT !.on = FALSE, !.due = "none", !.resume = adv.auto]

(* A fault: an advertisement that will resume is reported complete. *)
BadEarlyAfterCentral ==
  [adv EXCEPT !.on = FALSE, !.due = "none", !.resume = adv.auto, !.complete = TRUE]

(* What a central's connection does to an active advertisement. *)
AfterCentral ==
  [adv EXCEPT !.on = FALSE, !.due = "none", !.resume = adv.auto,
              !.complete = @ \/ ~adv.auto]

(* HCI_EVENT_META_GAP with status 0; the stack has room for one connection. *)
LinkConnected(central) ==
  /\ initialized
  /\ stack.live = 0 /\ begun.conns < MaxConnections
  /\ IF central THEN stack.airing # "off" ELSE stack.attempt
  /\ LET c == begun.conns + 1 IN
       /\ stack' = IF central
                   THEN [stack EXCEPT !.live = c, !.airing = IF @ = "on" THEN @ ELSE "off"]
                   ELSE [stack EXCEPT !.live = c, !.attempt = FALSE]
       /\ begun' = [begun EXCEPT !.conns = c]
       /\ conn' = [Apart EXCEPT !.handle = c]
       /\ adv' = IF central /\ adv.on THEN AfterCentral ELSE adv
       /\ QueueCriticalEvent(Connected(c))
  /\ UNCHANGED <<initialized, ready, scan, call, heard>>

(* HCI_EVENT_META_GAP with an error, which only a program that still       *)
(* connects is told of.                                                    *)
ConnectionFails ==
  /\ initialized /\ stack.attempt
  /\ stack' = [stack EXCEPT !.attempt = FALSE]
  /\ IF conn.connecting
     THEN /\ conn' = [Unasked EXCEPT !.timeout = FALSE]
          /\ QueueCriticalEvent(Failed)
     ELSE UNCHANGED <<conn, queues>>
  /\ UNCHANGED <<initialized, ready, scan, adv, call, begun, heard>>

(* A fault: connection_handle outlives its connection. *)
BadLinkDisconnected ==
  /\ initialized /\ stack.live # 0
  /\ stack' = [stack EXCEPT !.live = 0, !.airing = IF adv.resume THEN "on" ELSE @]
  /\ adv' = IF adv.resume
            THEN [adv EXCEPT !.on = TRUE, !.resume = FALSE, !.due = DeadlineFor(adv.limited)]
            ELSE adv
  /\ QueueCriticalEvent(Disconnected(stack.live))
  /\ UNCHANGED <<initialized, ready, scan, conn, call, begun, heard>>

(* HCI_EVENT_DISCONNECTION_COMPLETE, because either side left. *)
LinkDisconnected ==
  /\ initialized /\ stack.live # 0
  /\ stack' = [stack EXCEPT
       !.live = 0,
       !.airing = IF adv.resume /\ conn.handle = stack.live THEN "on" ELSE @]
  /\ IF stack.live = conn.handle
     THEN /\ conn' = [conn EXCEPT !.handle = 0]
          /\ adv' = IF adv.resume
                    THEN [adv EXCEPT !.on = TRUE, !.resume = FALSE,
                                     !.due = DeadlineFor(adv.limited)]
                    ELSE adv
          /\ QueueCriticalEvent(Disconnected(stack.live))
     ELSE UNCHANGED <<conn, adv, queues>>
  /\ UNCHANGED <<initialized, ready, scan, call, begun, heard>>

-----------------------------------------------------------------------------
(* bmx_embedded_ble_take_event: the deadlines are looked at one after the  *)
(* other, then one event is taken.                                         *)

Poll ==
  /\ NoCall
  /\ scan' = IF scan.on /\ scan.due = "passed" THEN Stopped ELSE scan
  /\ call' = At("pollAdv")
  /\ UNCHANGED <<initialized, ready, adv, conn, stack, queues, begun, heard>>

PollAdvertising ==
  /\ call = At("pollAdv")
  /\ call' = IF adv.on /\ adv.due = "passed"
             THEN [at |-> "stopAdv", next |-> "pollConn"] ELSE At("pollConn")
  /\ UNCHANGED <<initialized, ready, scan, adv, conn, stack, queues, begun, heard>>

PollConnecting ==
  /\ call = At("pollConn")
  /\ call' = IF conn.connecting /\ conn.due = "passed"
             THEN [at |-> "cancelled", next |-> "pop"] ELSE At("pop")
  /\ UNCHANGED <<initialized, ready, scan, adv, conn, stack, queues, begun, heard>>

(* What the program learns from an event. *)
Learn(e) ==
  heard' = CASE e.kind = "connected" -> [heard EXCEPT !.conn = e.conn, !.connecting = FALSE]
            [] e.kind = "disconnected" -> [heard EXCEPT !.conn = 0]
            [] e.kind = "failed" -> [heard EXCEPT !.connecting = FALSE]
            [] OTHER -> heard

TakeQueued ==
  /\ call = At("pop") /\ Waiting
  /\ call' = At("idle")
  /\ PopOldest /\ Learn(Oldest)
  /\ UNCHANGED <<initialized, ready, scan, adv, conn, stack, begun>>

(* The flags that stand for an event, in the order of the branches.  The   *)
(* end of an advertisement that was over before the next one began is not  *)
(* the end of that one.                                                    *)
TakeFlag ==
  /\ call = At("pop") /\ ~Waiting
  /\ call' = At("idle")
  /\ IF scan.complete
     THEN /\ scan' = [scan EXCEPT !.complete = FALSE]
          /\ heard' = [heard EXCEPT !.scans = IF scan.on THEN begun.scans - 1 ELSE begun.scans]
          /\ UNCHANGED <<adv, conn>>
     ELSE IF adv.complete
     THEN /\ adv' = [adv EXCEPT !.complete = FALSE]
          /\ heard' = [heard EXCEPT !.advertising = heard.older /\ (adv.on \/ adv.resume),
                                    !.older = FALSE,
                                    !.stray = @ /\ (adv.on \/ adv.resume)]
          /\ UNCHANGED <<scan, conn>>
     ELSE IF conn.timeout
     THEN /\ conn' = [conn EXCEPT !.timeout = FALSE]
          /\ heard' = [heard EXCEPT !.connecting = FALSE]
          /\ UNCHANGED <<scan, adv>>
     ELSE UNCHANGED <<scan, adv, conn, heard>>
  /\ UNCHANGED <<initialized, ready, stack, queues, begun>>

(* Time passes a deadline somebody still looks at. *)
PassScan ==
  /\ scan.on /\ scan.due = "armed" /\ scan' = [scan EXCEPT !.due = "passed"]
  /\ UNCHANGED <<initialized, ready, adv, conn, stack, queues, call, begun, heard>>
PassAdvertising ==
  /\ adv.on /\ adv.due = "armed" /\ adv' = [adv EXCEPT !.due = "passed"]
  /\ UNCHANGED <<initialized, ready, scan, conn, stack, queues, call, begun, heard>>
PassConnecting ==
  /\ conn.connecting /\ conn.due = "armed" /\ conn' = [conn EXCEPT !.due = "passed"]
  /\ UNCHANGED <<initialized, ready, scan, adv, stack, queues, call, begun, heard>>

-----------------------------------------------------------------------------
StartCall ==
  \/ StartPowerOff \/ StopScan \/ StopAdvertising \/ CancelConnect
  \/ \E ok \in BOOLEAN : Initialize(ok)
  \/ \E limited \in BOOLEAN :
       \/ StartScan(limited) \/ Connect(limited)
       \/ \E auto \in BOOLEAN : StartAdvertising(auto, limited)

ContinueCall ==
  \/ PowerOff \/ FlagAdvertising \/ NoteAdvertising \/ TestAdvertising
  \/ SilenceAdvertising \/ EndAdvertising \/ ForgetResume \/ NoteConnecting \/ NoteCancelled
  \/ PollAdvertising \/ PollConnecting \/ TakeQueued \/ TakeFlag

LinkCallback ==
  \/ StackWorks \/ AdvertisingReport \/ ConnectionFails \/ LinkDisconnected \/ AirIsSilent
  \/ \E central \in BOOLEAN : LinkConnected(central)

Time == PassScan \/ PassAdvertising \/ PassConnecting

LinkNext == StartCall \/ Poll \/ ContinueCall \/ LinkCallback \/ Time

LinkSpec == LinkInit /\ [][LinkNext]_linkVars

(* Calls return, time passes, and the program polls again and again. *)
FairLinkSpec == LinkSpec /\ WF_linkVars(ContinueCall) /\ SF_linkVars(Poll)
                         /\ WF_linkVars(PassScan) /\ WF_linkVars(PassConnecting)

-----------------------------------------------------------------------------
(* Properties. *)

(* The connection a program that knows of one knows of when it has taken   *)
(* the events of a queue that are before i.                                *)
Links(q) == {i \in DOMAIN q : q[i].kind \in {"connected", "disconnected"}}
Leaves(e) == IF e.kind = "connected" THEN e.conn ELSE 0
Needs(e) == IF e.kind = "connected" THEN 0 ELSE e.conn
KnownBefore(q, known, i) ==
  LET earlier == {j \in Links(q) : j < i}
  IN IF earlier = {} THEN known ELSE Leaves(q[Max(earlier)])

(* The connection the program was told of, continued by the events that    *)
(* wait, ends in the connection the module keeps: each connection is told  *)
(* before its end and its end before the next one, whatever was cancelled, *)
(* timed out or advertised in between.                                     *)
LinkHistory ==
  initialized /\ ~missed =>
    /\ KnownBefore(critical, heard.conn, Len(critical) + 1) = conn.handle
    /\ \A i \in Links(critical) :
         KnownBefore(critical, heard.conn, i) = Needs(critical[i])

(* Once a scan is reported complete, none of its reports follows. *)
ReportsPrecedeCompletion ==
  \A i \in DOMAIN ordinary : ordinary[i].scan > heard.scans

(* What waits in the queues continues what the program knows.              *)
EventHistory == LinkHistory /\ ReportsPrecedeCompletion

(* A program learns that its advertisement is over when it is over, and    *)
(* once: while it waits, the advertisement is active, waits for its        *)
(* central to leave, or its completion is waiting; and what is active,     *)
(* waits to resume or is complete is something the program waits for.  The *)
(* exception is what a stop left behind (stray): stop_advertising reports  *)
(* the end but keeps advertising_resume_pending, or does not look at       *)
(* advertising again, so that the advertisement comes back by itself.      *)
(* Every variable keeps its type.                                          *)
Advertised == adv.on \/ adv.resume \/ adv.complete
AdvertisingAccounted ==
  /\ LinkTypeOK
  /\ heard.advertising => Advertised
  /\ initialized /\ Advertised => heard.advertising \/ heard.stray

(* A connect with a timeout comes to an end the program learns of, unless  *)
(* the critical queue overflowed or an endless scan keeps the ordinary one *)
(* from running empty.                                                     *)
EndlessScan == scan.on /\ scan.due = "none"
ConnectResolved == heard.connecting ~> (~heard.connecting \/ missed \/ EndlessScan)

=============================================================================
