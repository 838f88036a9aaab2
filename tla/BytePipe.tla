------------------------------ MODULE BytePipe ------------------------------
(***************************************************************************)
(* What one direction of a buffered UART promises while it is open: bytes  *)
(* leave in the order in which they were accepted, each exactly once; a    *)
(* byte is turned away only when Capacity bytes wait, and is then counted. *)
(* Closing may discard bytes that wait, the youngest first.                *)
(***************************************************************************)
EXTENDS Integers, Sequences

CONSTANTS
  Byte,        \* what is transferred
  Capacity,    \* how many accepted bytes may wait
  MaxLost      \* where the count of lost bytes saturates

VARIABLES
  pipe,        \* accepted bytes that have not left, oldest first
  lost,        \* bytes turned away since the pipe was opened
  open         \* the stream is open

vars == <<pipe, lost, open>>

Init == pipe = <<>> /\ lost = 0 /\ open = FALSE

Accept ==
  /\ open /\ Len(pipe) < Capacity
  /\ \E b \in Byte : pipe' = Append(pipe, b)
  /\ UNCHANGED <<lost, open>>

Lose ==
  /\ open /\ Len(pipe) = Capacity
  /\ lost' = IF lost = MaxLost THEN lost ELSE lost + 1
  /\ UNCHANGED <<pipe, open>>

Leave ==
  /\ pipe # <<>>
  /\ pipe' = Tail(pipe)
  /\ UNCHANGED <<lost, open>>

Open == ~open /\ open' = TRUE /\ UNCHANGED <<pipe, lost>>

Close ==
  /\ open /\ open' = FALSE
  /\ \E n \in 0 .. Len(pipe) : pipe' = SubSeq(pipe, 1, n)
  /\ lost' = 0

Next == Accept \/ Lose \/ Leave \/ Open \/ Close

Spec == Init /\ [][Next]_vars

=============================================================================
