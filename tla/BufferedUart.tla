---------------------------- MODULE BufferedUart ----------------------------
(***************************************************************************)
(* The interrupt-buffered UART of pico_runtime.c: for one controller, a    *)
(* receive and a transmit ring with free-running counters between ordinary *)
(* code of core 0 and the UART's handler, beside the hardware FIFOs.       *)
(*                                                                         *)
(* A step moves one byte, so that bytes arrive and leave on the wire       *)
(* within the loops of the handler and of the calls.  The handler preempts *)
(* ordinary code wherever its interrupts are enabled.                      *)
(***************************************************************************)
EXTENDS RingArithmetic, Sequences

CONSTANTS
  RxByte, TxByte,  \* the bytes on the wire, in each direction
  RxCapacity,   \* elements of the receive ring
  TxCapacity,   \* elements of the transmit ring
  Wrap,         \* range of the counters, 2^32
  MaxDropped,   \* where rx_dropped saturates, UINT32_MAX
  Fifo,         \* depth of each hardware FIFO
  MaxRead, MaxWrite  \* bounds: the most bytes one call asks for

ASSUME UartAssumption ==
  /\ RxByte # {} /\ TxByte # {}
  /\ RxCapacity \in Nat \ {0} /\ TxCapacity \in Nat \ {0}
  /\ Wrap \in Nat /\ Wrap > RxCapacity /\ Wrap > TxCapacity
  /\ Wrap % RxCapacity = 0 /\ Wrap % TxCapacity = 0
  /\ MaxDropped \in Nat \ {0} /\ Fifo \in Nat \ {0}
  /\ MaxRead \in Nat \ {0} /\ MaxWrite \in Nat \ {0}

VARIABLES
  open,         \* the stream is open
  rx, tx,       \* the rings: slots, put and get
  dropped,      \* rx_dropped
  rxIrq, txIrq, \* the UART's interrupt enables
  fifoIn,       \* bytes the hardware has received
  fifoOut,      \* bytes the hardware has still to send
  txRaised,     \* the hardware's transmit interrupt flag
  error,        \* the hardware's receive error flag
  masked,       \* ordinary code has interrupts disabled
  pc,           \* what ordinary code does next
  left, count,  \* bytes its call still wants, bytes it has accepted
  hpc,          \* what the handler does next, "off" outside it
  wasEmpty, hadData,  \* its rx_was_empty and tx_had_data, FALSE when dead
  posted,       \* events in the mailbox: "rx", "tx", "error"
  told          \* an rx event was taken since the receive ring was empty

hardware == <<fifoIn, fifoOut, txRaised, error>>
rings == <<rx, tx, dropped>>
irqs == <<rxIrq, txIrq>>
progress == <<masked, left, count>>
call == <<pc, progress>>
handler == <<hpc, wasEmpty, hadData>>
news == <<posted, told>>
vars == <<open, rings, irqs, hardware, call, handler, news>>

Counter == 0 .. Wrap - 1
Ring(capacity, bytes) ==
  [slots : [0 .. capacity - 1 -> bytes], put : Counter, get : Counter]
Event == {"rx", "tx", "error"}

TypeOK ==
  /\ open \in BOOLEAN
  /\ rx \in Ring(RxCapacity, RxByte) /\ tx \in Ring(TxCapacity, TxByte)
  /\ dropped \in 0 .. MaxDropped
  /\ rxIrq \in BOOLEAN /\ txIrq \in BOOLEAN
  /\ fifoIn \in Seq(RxByte) /\ Len(fifoIn) <= Fifo
  /\ fifoOut \in Seq(TxByte) /\ Len(fifoOut) <= Fifo
  /\ txRaised \in BOOLEAN /\ error \in BOOLEAN /\ masked \in BOOLEAN
  /\ pc \in {"idle", "read", "fill", "drain", "sent", "close"}
  /\ left \in 0 .. MaxRead \cup 0 .. MaxWrite /\ count \in 0 .. MaxWrite
  /\ hpc \in {"off", "rx", "tx"}
  /\ wasEmpty \in BOOLEAN /\ hadData \in BOOLEAN
  /\ posted \subseteq Event /\ told \in BOOLEAN

(* Free counters and the elements between them, oldest first. *)
Used(r) == Distance(r.put, r.get, Wrap)
Empty(r) == r.put = r.get
Oldest(r, capacity) == r.slots[r.get % capacity]
Contents(r, capacity) ==
  [i \in 1 .. Used(r) |-> r.slots[(r.get + i - 1) % capacity]]

Put(r, capacity, b) ==
  [r EXCEPT !.slots[r.put % capacity] = b, !.put = Advance(@, Wrap)]
Drop(r) == [r EXCEPT !.get = Advance(@, Wrap)]

(* A ring on a zeroed state; what its buffer holds is never read. *)
Cleared(capacity, bytes) ==
  [slots |-> [i \in 0 .. capacity - 1 |-> CHOOSE b \in bytes : TRUE],
   put |-> 0, get |-> 0]

Init ==
  /\ open = FALSE
  /\ rx = Cleared(RxCapacity, RxByte) /\ tx = Cleared(TxCapacity, TxByte)
  /\ dropped = 0
  /\ rxIrq = FALSE /\ txIrq = FALSE
  /\ fifoIn = <<>> /\ fifoOut = <<>> /\ txRaised = FALSE /\ error = FALSE
  /\ masked = FALSE /\ pc = "idle" /\ left = 0 /\ count = 0
  /\ hpc = "off" /\ wasEmpty = FALSE /\ hadData = FALSE
  /\ posted = {} /\ told = FALSE

-----------------------------------------------------------------------------
(* The wire. *)

HwReceive(b) ==
  /\ IF Len(fifoIn) < Fifo
     THEN fifoIn' = Append(fifoIn, b) /\ error' \in {error, TRUE}
     ELSE error' = TRUE /\ UNCHANGED fifoIn
  /\ UNCHANGED <<open, rings, irqs, fifoOut, txRaised, call, handler, news>>

(* Sending makes room, which raises the transmit interrupt. *)
HwSend ==
  /\ fifoOut # <<>>
  /\ fifoOut' = Tail(fifoOut)
  /\ txRaised' = TRUE
  /\ UNCHANGED <<open, rings, irqs, fifoIn, error, call, handler, news>>

(* uart_is_writable, and a store into the data register. *)
Writable == Len(fifoOut) < Fifo

Transmit ==
  /\ ~Empty(tx) /\ Writable
  /\ fifoOut' = Append(fifoOut, Oldest(tx, TxCapacity))
  /\ txRaised' = FALSE

-----------------------------------------------------------------------------
(* bmx_pico_uart_async_irq. *)

HandlerEnter ==
  /\ open /\ hpc = "off" /\ ~masked
  /\ (rxIrq /\ fifoIn # <<>>) \/ (txIrq /\ txRaised)
  /\ error' = FALSE
  /\ posted' = IF error THEN posted \cup {"error"} ELSE posted
  /\ wasEmpty' = Empty(rx)
  /\ hpc' = "rx"
  /\ UNCHANGED <<open, rings, irqs, fifoIn, fifoOut, txRaised, call,
                 hadData, told>>

(* A fault: one byte too many is stored into a full ring. *)
BadHandlerReceiveFull ==
  /\ hpc = "rx" /\ fifoIn # <<>>
  /\ fifoIn' = Tail(fifoIn)
  /\ IF Used(rx) > RxCapacity
     THEN /\ dropped' = IF dropped = MaxDropped THEN dropped ELSE dropped + 1
          /\ UNCHANGED rx
     ELSE rx' = Put(rx, RxCapacity, Head(fifoIn)) /\ UNCHANGED dropped
  /\ UNCHANGED <<open, tx, irqs, fifoOut, txRaised, error, call, handler,
                 news>>

HandlerReceive ==
  /\ hpc = "rx" /\ fifoIn # <<>>
  /\ fifoIn' = Tail(fifoIn)
  /\ IF Used(rx) >= RxCapacity
     THEN /\ dropped' = IF dropped = MaxDropped THEN dropped ELSE dropped + 1
          /\ UNCHANGED rx
     ELSE /\ rx' = Put(rx, RxCapacity, Head(fifoIn))
          /\ UNCHANGED dropped
  /\ UNCHANGED <<open, tx, irqs, fifoOut, txRaised, error, call, handler,
                 news>>

(* A fault: the ring is tested for empty after the bytes were stored. *)
BadHandlerReceived ==
  /\ hpc = "rx" /\ fifoIn = <<>>
  /\ wasEmpty' = FALSE /\ hadData' = ~Empty(tx)
  /\ hpc' = "tx"
  /\ UNCHANGED <<open, rings, irqs, hardware, call, news>>

HandlerReceived ==
  /\ hpc = "rx" /\ fifoIn = <<>>
  /\ posted' = IF wasEmpty /\ ~Empty(rx) THEN posted \cup {"rx"} ELSE posted
  /\ wasEmpty' = FALSE /\ hadData' = ~Empty(tx)
  /\ hpc' = "tx"
  /\ UNCHANGED <<open, rings, irqs, hardware, call, told>>

HandlerTransmit ==
  /\ hpc = "tx" /\ Transmit
  /\ tx' = Drop(tx)
  /\ UNCHANGED <<open, rx, dropped, irqs, fifoIn, error, call, handler, news>>

(* A fault: the transmit interrupt stays off after a partial refill. *)
BadHandlerLeave ==
  /\ hpc = "tx" /\ ~(~Empty(tx) /\ Writable)
  /\ rxIrq' = TRUE /\ txIrq' = FALSE
  /\ posted' = IF hadData /\ Empty(tx) THEN posted \cup {"tx"} ELSE posted
  /\ hpc' = "off" /\ hadData' = FALSE
  /\ UNCHANGED <<open, rings, hardware, call, wasEmpty, told>>

HandlerLeave ==
  /\ hpc = "tx" /\ ~(~Empty(tx) /\ Writable)
  /\ rxIrq' = TRUE /\ txIrq' = ~Empty(tx)
  /\ posted' = IF hadData /\ Empty(tx) THEN posted \cup {"tx"} ELSE posted
  /\ hpc' = "off" /\ hadData' = FALSE
  /\ UNCHANGED <<open, rings, hardware, call, wasEmpty, told>>

-----------------------------------------------------------------------------
(* Calls of core 0.  A handler that is active has preempted them. *)

OpenUart ==
  /\ pc = "idle" /\ hpc = "off" /\ ~open
  /\ open' = TRUE
  /\ rx' = Cleared(RxCapacity, RxByte) /\ tx' = Cleared(TxCapacity, TxByte)
  /\ dropped' = 0
  /\ rxIrq' = TRUE /\ txIrq' = FALSE
  /\ told' = FALSE
  /\ UNCHANGED <<hardware, call, handler, posted>>

CloseIrqs ==
  /\ pc = "idle" /\ hpc = "off" /\ open
  /\ pc' = "close"
  /\ rxIrq' = FALSE /\ txIrq' = FALSE
  /\ UNCHANGED <<open, rings, hardware, progress, handler, news>>

CloseState ==
  /\ pc = "close" /\ hpc = "off"
  /\ pc' = "idle"
  /\ open' = FALSE
  /\ rx' = Cleared(RxCapacity, RxByte) /\ tx' = Cleared(TxCapacity, TxByte)
  /\ dropped' = 0
  /\ told' = FALSE
  /\ UNCHANGED <<irqs, hardware, progress, handler, posted>>

(* A fault: the call leaves interrupts enabled. *)
BadBegin(to, n) ==
  /\ pc = "idle" /\ hpc = "off" /\ open
  /\ pc' = to /\ left' = n /\ count' = 0
  /\ UNCHANGED <<open, rings, irqs, hardware, masked, handler, news>>

Begin(to, n) ==
  /\ pc = "idle" /\ hpc = "off" /\ open
  /\ pc' = to /\ left' = n /\ count' = 0
  /\ masked' = TRUE
  /\ UNCHANGED <<open, rings, irqs, hardware, handler, news>>

Read(n) == Begin("read", n)
Write(n) == Begin("fill", n)

End == pc' = "idle" /\ left' = 0 /\ count' = 0 /\ masked' = FALSE

ReadByte ==
  /\ pc = "read" /\ hpc = "off" /\ left > 0 /\ ~Empty(rx)
  /\ rx' = Drop(rx)
  /\ left' = left - 1
  /\ told' = (told /\ ~Empty(rx'))
  /\ UNCHANGED <<open, tx, dropped, irqs, hardware, masked, pc, count,
                 handler, posted>>

ReadEnd ==
  /\ pc = "read" /\ hpc = "off" /\ (left = 0 \/ Empty(rx))
  /\ End
  /\ UNCHANGED <<open, rings, irqs, hardware, handler, news>>

WriteByte ==
  /\ pc = "fill" /\ hpc = "off" /\ left > 0 /\ Used(tx) < TxCapacity
  /\ \E b \in TxByte : tx' = Put(tx, TxCapacity, b)
  /\ left' = left - 1 /\ count' = count + 1
  /\ UNCHANGED <<open, rx, dropped, irqs, hardware, masked, pc, handler, news>>

WriteFilled ==
  /\ pc = "fill" /\ hpc = "off" /\ (left = 0 \/ Used(tx) >= TxCapacity)
  /\ pc' = "drain"
  /\ UNCHANGED <<open, rings, irqs, hardware, progress, handler, news>>

WriteTransmit ==
  /\ pc = "drain" /\ hpc = "off" /\ Transmit
  /\ pc' = "sent"
  /\ UNCHANGED <<open, rings, irqs, fifoIn, error, progress, handler, news>>

WriteAdvance ==
  /\ pc = "sent" /\ hpc = "off"
  /\ tx' = Drop(tx)
  /\ pc' = "drain"
  /\ UNCHANGED <<open, rx, dropped, irqs, hardware, progress, handler, news>>

WriteEnd ==
  /\ pc = "drain" /\ hpc = "off" /\ ~(~Empty(tx) /\ Writable)
  /\ rxIrq' = TRUE /\ txIrq' = ~Empty(tx)
  /\ posted' = IF count > 0 /\ Empty(tx) THEN posted \cup {"tx"} ELSE posted
  /\ End
  /\ UNCHANGED <<open, rings, hardware, handler, told>>

(* PollSystem takes an event; a receive event tells the program to read.   *)
TakeEvent(e) ==
  /\ pc = "idle" /\ hpc = "off" /\ e \in posted
  /\ posted' = posted \ {e}
  /\ told' = (told \/ (e = "rx" /\ ~Empty(rx)))
  /\ UNCHANGED <<open, rings, irqs, hardware, call, handler>>

-----------------------------------------------------------------------------
Handler ==
  \/ HandlerEnter \/ HandlerReceive \/ HandlerReceived
  \/ HandlerTransmit \/ HandlerLeave

Step ==
  \/ CloseState \/ ReadByte \/ ReadEnd \/ WriteByte \/ WriteFilled
  \/ WriteTransmit \/ WriteAdvance \/ WriteEnd

Next ==
  \/ \E b \in RxByte : HwReceive(b)
  \/ HwSend
  \/ Handler \/ Step
  \/ OpenUart \/ CloseIrqs
  \/ \E n \in 0 .. MaxRead : Read(n)
  \/ \E n \in 0 .. MaxWrite : Write(n)
  \/ \E e \in Event : TakeEvent(e)

Spec == Init /\ [][Next]_vars

(* The wire sends, calls return, and a pending interrupt is served although *)
(* calls that disable interrupts follow each other.  The handler empties   *)
(* the receive FIFO faster than the wire fills it.                         *)
Fairness ==
  /\ WF_vars(HwSend) /\ WF_vars(Step)
  /\ SF_vars(HandlerEnter) /\ SF_vars(HandlerReceived)
  /\ WF_vars(HandlerReceive) /\ WF_vars(HandlerTransmit) /\ WF_vars(HandlerLeave)

FairSpec == Spec /\ Fairness

-----------------------------------------------------------------------------
(* Properties. *)

(* The receive ring is a byte pipe from the handler to the program.        *)
Rx == INSTANCE BytePipe
        WITH Byte <- RxByte, pipe <- Contents(rx, RxCapacity), lost <- dropped,
             Capacity <- RxCapacity, MaxLost <- MaxDropped
ReceivePipe == Rx!Spec

(* From an accepted write to the wire, ring and hardware FIFO together are *)
(* a byte pipe: nothing is sent twice, out of order or not at all.         *)
Unsent == IF pc = "sent" THEN Contents(Drop(tx), TxCapacity)
          ELSE Contents(tx, TxCapacity)
Tx == INSTANCE BytePipe
        WITH Byte <- TxByte, pipe <- fifoOut \o Unsent, lost <- 0,
             Capacity <- TxCapacity + Fifo, MaxLost <- 0
TransmitPipe == Tx!Spec

(* Received bytes never wait unannounced: a receive event is in the        *)
(* mailbox, or was taken since the ring was last empty.  Every variable    *)
(* keeps its type.                                                         *)
NewsOfBytes ==
  /\ TypeOK
  /\ (open /\ hpc = "off" /\ ~Empty(rx)) => ("rx" \in posted \/ told)

(* A byte accepted by a write leaves the ring unless the stream is closed. *)
BytesAreSent ==
  <>[](open /\ ~Empty(tx)) => []<><<tx' = Drop(tx)>>_tx

=============================================================================
