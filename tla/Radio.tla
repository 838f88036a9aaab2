------------------------------- MODULE Radio -------------------------------
(***************************************************************************)
(* The CYW43 radio that Wi-Fi and BLE share: the claims that keep it       *)
(* powered, the station scan, the access point and the event queue of      *)
(* pico_wifi.c.  The program calls from core 0; scan results arrive in the *)
(* background of the driver, so a call that looks at the driver and acts   *)
(* afterwards takes several steps.                                         *)
(***************************************************************************)
EXTENDS Integers, Sequences

CONSTANTS
  Status,       \* link states of the station interface
  Down,         \* CYW43_LINK_DOWN
  MaxScans,     \* bound: scans that can be started
  MaxSockets,   \* bound: open sockets
  Capacity,     \* entries of the event queue
  MaxDropped    \* where the drop counter saturates

ASSUME RadioAssumption ==
  /\ Down \in Status
  /\ MaxScans \in Nat /\ MaxSockets \in Nat
  /\ Capacity \in Nat \ {0} /\ MaxDropped \in Nat \ {0}

VARIABLES
  initialized,    \* bmx_pico_wifi_is_initialized: the radio is powered
  wifi, ble,      \* the claims: wifi_claimed, ble_claimed
  sta, ap,        \* station interface enabled, access point active
  scanRequested,  \* bmx_pico_wifi_scan_requested
  scanning,       \* cyw43_wifi_scan_active
  scans,          \* how many scans were started
  joined, link,   \* a join is under way or complete, and the link's state
  lastLink,       \* bmx_pico_wifi_last_link_status
  queue, dropped, \* the event queue
  sockets,        \* bmx_embedded_net_active_socket_count
  pc, status,     \* the rest of a call, and the link status it has read
  seen,           \* rank of the last scan event taken or given up
  told            \* the last link status taken

radio == <<initialized, wifi, ble, sta, ap>>
scan == <<scanRequested, scanning, scans>>
station == <<joined, link>>
mail == <<queue, dropped>>
taken == <<seen, told>>
vars == <<radio, scan, station, lastLink, mail, sockets, pc, status, taken>>

(* Results of scan n rank 2n and its completion ranks 2n + 1. *)
Rank == 0 .. 2 * MaxScans + 1
Event == [kind : {"scan"}, rank : Rank] \cup [kind : {"link"}, status : Status]
Result(n) == [kind |-> "scan", rank |-> 2 * n]
Complete(n) == [kind |-> "scan", rank |-> 2 * n + 1]
LinkState(s) == [kind |-> "link", status |-> s]

TypeOK ==
  /\ initialized \in BOOLEAN /\ wifi \in BOOLEAN /\ ble \in BOOLEAN
  /\ sta \in BOOLEAN /\ ap \in BOOLEAN
  /\ scanRequested \in BOOLEAN /\ scanning \in BOOLEAN /\ scans \in 0 .. MaxScans
  /\ joined \in BOOLEAN /\ link \in Status /\ lastLink \in Status
  /\ queue \in Seq(Event) /\ Len(queue) <= Capacity /\ dropped \in 0 .. MaxDropped
  /\ sockets \in 0 .. MaxSockets
  /\ pc \in {"idle", "powerOn", "scanStarted", "readLink", "report"}
  /\ status \in Status
  /\ seen \in Rank /\ told \in Status

Init ==
  /\ initialized = FALSE /\ wifi = FALSE /\ ble = FALSE /\ sta = FALSE /\ ap = FALSE
  /\ scanRequested = FALSE /\ scanning = FALSE /\ scans = 0
  /\ joined = FALSE /\ link = Down /\ lastLink = Down
  /\ queue = <<>> /\ dropped = 0
  /\ sockets = 0
  /\ pc = "idle" /\ status = Down
  /\ seen = 1 /\ told = Down

-----------------------------------------------------------------------------
(* The event queue. *)

Mail == INSTANCE EventQueue

(* bmx_pico_wifi_queue_event; the caller learns whether it was stored. *)
Post(e) == Mail!Accept(e) \/ Mail!Refuse
Stored == Len(queue) < Capacity

Idle == pc = "idle"
Goto(from, to) == pc = from /\ pc' = to

-----------------------------------------------------------------------------
(* Claiming and releasing the radio. *)

ScanBusy == scanRequested \/ scanning

(* bmx_pico_radio_initialize when the chip answers. *)
PowerUp ==
  /\ initialized' = TRUE
  /\ ap' = (initialized /\ ap)

(* bmx_pico_radio_deinitialize: the chip is switched off unless somebody   *)
(* claims the radio or uses it; w and b are the claims that are left, and  *)
(* q is what is left in the queue.                                         *)
PowerDown(w, b, q) ==
  LET stays == initialized /\ (w \/ b \/ ap \/ ScanBusy \/ sockets > 0) IN
  /\ initialized' = stays
  /\ ap' = (stays /\ ap)
  /\ queue' = IF stays THEN q ELSE <<>>

(* A fault: the state of the link survives when BLE keeps the radio on. *)
BadWifiInitialize ==
  /\ Idle
  /\ PowerUp
  /\ IF wifi THEN UNCHANGED <<wifi, sta, scanRequested, lastLink, mail, told>>
     ELSE /\ wifi' = TRUE /\ sta' = TRUE
          /\ scanRequested' = FALSE /\ queue' = <<>> /\ dropped' = 0
          /\ lastLink' = (IF initialized THEN lastLink ELSE Down)
          /\ told' = Down
  /\ UNCHANGED <<ble, scanning, scans, station, sockets, pc, status, seen>>

(* bmx_embedded_wifi_initialize; a program without Wi-Fi sees the link as  *)
(* down (bmx_embedded_wifi_link_status), so that is what it starts from.   *)
WifiInitialize ==
  /\ Idle
  /\ PowerUp
  /\ IF wifi THEN UNCHANGED <<wifi, sta, scanRequested, lastLink, mail, told>>
     ELSE /\ wifi' = TRUE /\ sta' = TRUE
          /\ scanRequested' = FALSE /\ queue' = <<>> /\ dropped' = 0
          /\ lastLink' = Down /\ told' = Down
  /\ UNCHANGED <<ble, scanning, scans, station, sockets, pc, status, seen>>

MayLeaveWifi == ~ap /\ ~ScanBusy /\ sockets = 0

(* bmx_embedded_wifi_deinitialize: with BLE still on only the station goes *)
(* down, otherwise the chip does.  No report of an old scan is owed.       *)
WifiDeinitialize ==
  /\ Idle
  /\ wifi /\ MayLeaveWifi
  /\ wifi' = FALSE /\ sta' = FALSE
  /\ joined' = FALSE /\ link' = Down
  /\ PowerDown(FALSE, ble, <<>>)
  /\ seen' = 2 * scans + 1
  /\ UNCHANGED <<ble, scan, lastLink, dropped, sockets, pc, status, told>>

(* bmx_embedded_ble_initialize takes the radio and then powers the stack.  *)
BleInitialize ==
  /\ Goto("idle", "powerOn")
  /\ ~ble
  /\ PowerUp /\ ble' = TRUE
  /\ IF initialized THEN UNCHANGED <<scanRequested, lastLink, mail>>
     ELSE /\ scanRequested' = FALSE /\ queue' = <<>> /\ dropped' = 0
          /\ lastLink' = Down
  /\ UNCHANGED <<wifi, sta, scanning, scans, station, sockets, status, taken>>

BlePowerOn(ok) ==
  /\ Goto("powerOn", "idle")
  /\ IF ok THEN UNCHANGED <<ble, initialized, ap, queue>>
     ELSE ble' = FALSE /\ PowerDown(wifi, FALSE, queue)
  /\ UNCHANGED <<wifi, sta, scan, station, lastLink, dropped, sockets, status, taken>>

(* A fault: BLE leaves without asking who else still needs the radio. *)
BadBleReleaseAllowed == TRUE

(* bmx_pico_radio_ble_release_allowed. *)
BleReleaseAllowed == wifi \/ sockets = 0

BleDeinitialize ==
  /\ Idle
  /\ ble /\ BleReleaseAllowed
  /\ ble' = FALSE
  /\ PowerDown(wifi, FALSE, queue)
  /\ UNCHANGED <<wifi, sta, scan, station, lastLink, dropped, sockets, pc, status, taken>>

-----------------------------------------------------------------------------
(* The station: scans, joins and the link. *)

(* bmx_embedded_wifi_start_scan: the driver starts, and its results may    *)
(* arrive, before the call notes that a scan was requested.                *)
StartScan ==
  /\ Goto("idle", "scanStarted")
  /\ wifi /\ ~ScanBusy /\ scans < MaxScans
  /\ scanning' = TRUE /\ scans' = scans + 1
  /\ UNCHANGED <<radio, scanRequested, station, lastLink, mail, sockets, status, taken>>

NoteScan ==
  /\ Goto("scanStarted", "idle")
  /\ scanRequested' = TRUE
  /\ UNCHANGED <<radio, scanning, scans, station, lastLink, mail, sockets, status, taken>>

(* bmx_pico_wifi_scan_callback, in the background. *)
ScanResult ==
  /\ scanning
  /\ Post(Result(scans))
  /\ UNCHANGED <<radio, scan, station, lastLink, sockets, pc, status, taken>>

ScanEnds ==
  /\ scanning
  /\ scanning' = FALSE
  /\ UNCHANGED <<radio, scanRequested, scans, station, lastLink, mail, sockets,
                 pc, status, taken>>

(* bmx_embedded_wifi_connect and bmx_embedded_wifi_disconnect. *)
Connect ==
  /\ Idle
  /\ wifi /\ ~ScanBusy
  /\ joined' = TRUE
  /\ UNCHANGED <<radio, scan, link, lastLink, mail, sockets, pc, status, taken>>

Disconnect ==
  /\ Idle
  /\ wifi
  /\ joined' = FALSE
  /\ UNCHANGED <<radio, scan, link, lastLink, mail, sockets, pc, status, taken>>

(* A join progresses, fails or is lost; a left network brings the link down. *)
LinkChange(s) ==
  /\ sta
  /\ joined \/ s = Down
  /\ link' = s
  /\ UNCHANGED <<radio, scan, joined, lastLink, mail, sockets, pc, status, taken>>

-----------------------------------------------------------------------------
(* bmx_embedded_wifi_service, polled: first the end of a scan, then the    *)
(* link, which is read under the driver's lock and queued outside it.      *)

(* A fault: the request is forgotten although the queue was full. *)
BadServiceScan ==
  /\ Goto("idle", "readLink")
  /\ wifi
  /\ IF scanRequested /\ ~scanning
     THEN Post(Complete(scans)) /\ scanRequested' = FALSE
     ELSE UNCHANGED <<mail, scanRequested>>
  /\ UNCHANGED <<radio, scanning, scans, station, lastLink, sockets, status, taken>>

ServiceScan ==
  /\ Goto("idle", "readLink")
  /\ wifi
  /\ IF scanRequested /\ ~scanning
     THEN Post(Complete(scans)) /\ scanRequested' = ~Stored
     ELSE UNCHANGED <<mail, scanRequested>>
  /\ UNCHANGED <<radio, scanning, scans, station, lastLink, sockets, status, taken>>

ReadLink ==
  /\ Goto("readLink", "report")
  /\ status' = link
  /\ UNCHANGED <<radio, scan, station, lastLink, mail, sockets, taken>>

ReportLink ==
  /\ Goto("report", "idle")
  /\ IF status # lastLink
     THEN Post(LinkState(status)) /\ lastLink' = (IF Stored THEN status ELSE lastLink)
     ELSE UNCHANGED <<mail, lastLink>>
  /\ status' = Down
  /\ UNCHANGED <<radio, scan, station, sockets, taken>>

(* bmx_embedded_wifi_take_event. *)
TakeEvent ==
  /\ Idle
  /\ Mail!Take
  /\ LET e == Head(queue) IN
       IF e.kind = "scan" THEN seen' = e.rank /\ UNCHANGED told
       ELSE told' = e.status /\ UNCHANGED seen
  /\ UNCHANGED <<radio, scan, station, lastLink, sockets, pc, status>>

-----------------------------------------------------------------------------
(* The access point and the sockets of the network stack. *)

StartAccessPoint ==
  /\ Idle
  /\ wifi /\ ~ap
  /\ ap' = TRUE
  /\ UNCHANGED <<initialized, wifi, ble, sta, scan, station, lastLink, mail, sockets,
                 pc, status, taken>>

StopAccessPoint ==
  /\ Idle
  /\ wifi /\ ap /\ sockets = 0
  /\ ap' = FALSE
  /\ UNCHANGED <<initialized, wifi, ble, sta, scan, station, lastLink, mail, sockets,
                 pc, status, taken>>

(* The stack is there while the radio is on, whoever claims it. *)
OpenSocket ==
  /\ Idle
  /\ initialized /\ sockets < MaxSockets
  /\ sockets' = sockets + 1
  /\ UNCHANGED <<radio, scan, station, lastLink, mail, pc, status, taken>>

CloseSocket ==
  /\ Idle
  /\ sockets > 0
  /\ sockets' = sockets - 1
  /\ UNCHANGED <<radio, scan, station, lastLink, mail, pc, status, taken>>

-----------------------------------------------------------------------------
Claims ==
  \/ WifiInitialize \/ WifiDeinitialize \/ BleInitialize \/ BleDeinitialize
  \/ \E ok \in BOOLEAN : BlePowerOn(ok)

Station ==
  \/ StartScan \/ NoteScan \/ Connect \/ Disconnect
  \/ ServiceScan \/ ReadLink \/ ReportLink \/ TakeEvent

Driver == ScanResult \/ ScanEnds \/ \E s \in Status : LinkChange(s)

Network == StartAccessPoint \/ StopAccessPoint \/ OpenSocket \/ CloseSocket

Next == Claims \/ Station \/ Driver \/ Network

Spec == Init /\ [][Next]_vars

(* Scans end, calls return, and the program polls again and again. *)
FairSpec ==
  /\ Spec
  /\ WF_vars(ScanEnds)
  /\ WF_vars(NoteScan) /\ WF_vars(ReadLink) /\ WF_vars(ReportLink)
  /\ WF_vars(\E ok \in BOOLEAN : BlePowerOn(ok))
  /\ SF_vars(ServiceScan) /\ SF_vars(TakeEvent)

-----------------------------------------------------------------------------
(* Properties. *)

(* Between calls the radio is on exactly when Wi-Fi or BLE claims it: the  *)
(* last one to leave switches it off, and a refused release changes        *)
(* nothing.                                                                *)
RadioHeld == Idle => (initialized <=> wifi \/ ble)

(* Nobody loses the chip while using it: sockets need the radio, and the   *)
(* station, the access point and a scan need Wi-Fi as well.                *)
UsersHaveRadio ==
  /\ sockets > 0 => initialized
  /\ sta \/ ap \/ ScanBusy => wifi /\ initialized

(* The claims, the power and the users of the radio agree, and every       *)
(* variable keeps its type.                                                *)
RadioClaimed == TypeOK /\ RadioHeld /\ UsersHaveRadio

(* What the program was told of each kind is a history that the queue      *)
(* continues: entry 0 is the last event taken.  Entry i is the last one of *)
(* its kind before place j.                                                *)
Precedes(kind, i, j) ==
  /\ i < j
  /\ i = 0 \/ queue[i].kind = kind
  /\ \A k \in i + 1 .. j - 1 : queue[k].kind # kind

RankAt(i) == IF i = 0 THEN seen ELSE queue[i].rank
StatusAt(i) == IF i = 0 THEN told ELSE queue[i].status

Place == 1 .. Len(queue)
End == Len(queue) + 1

(* The program learns of the scans one after the other: results of a scan, *)
(* its completion once, and only then anything of the next scan.           *)
Follows(r, q) ==
  \/ r % 2 = 0 /\ q \in {r, r + 1}
  \/ r % 2 = 1 /\ q \in {r + 1, r + 2}

ScanEventsOrdered ==
  \A j \in Place : \A i \in 0 .. j :
    queue[j].kind = "scan" /\ Precedes("scan", i, j) => Follows(RankAt(i), queue[j].rank)

(* What the program was told of the link, continued by what is queued, is  *)
(* a history without repetitions that ends in the last status reported.    *)
LinkChanges ==
  \A j \in Place : \A i \in 0 .. j :
    queue[j].kind = "link" /\ Precedes("link", i, j) => StatusAt(i) # queue[j].status

LinkEnds == \A i \in 0 .. Len(queue) : Precedes("link", i, End) => StatusAt(i) = lastLink

LinkHistory == wifi => LinkChanges /\ LinkEnds

(* What waits in the queue continues what the program knows.               *)
EventHistory == ScanEventsOrdered /\ LinkHistory

(* Every scan that was started is reported complete, even when the queue   *)
(* was full at its end, unless the program gives up Wi-Fi first.           *)
ScanCompletes ==
  \A n \in 1 .. MaxScans : (scans = n /\ wifi) ~> (seen >= 2 * n + 1 \/ ~wifi)

(* The program learns the state a link settles in. *)
LinkReported ==
  \A s \in Status : <>[](wifi /\ link = s) => <>[](told = s)

(* What the driver did in the background the program hears of.             *)
OutcomesReported == ScanCompletes /\ LinkReported

=============================================================================
