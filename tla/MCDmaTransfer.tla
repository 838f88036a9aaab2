---------------------------- MODULE MCDmaTransfer ----------------------------
(* Model-checking instance of DmaTransfer. *)
EXTENDS DmaTransfer

CONSTANTS l1, l2, b1, b2

(* Copies that announce their completion on one line and quiet reads on    *)
(* another that trigger any channel; the two share a buffer.               *)
CopiesAndChains ==
  [line : {l2}, read : {b1}, write : {b2}, chain : {None}, quiet : {FALSE}]
    \cup
  [line : {l1}, read : {None}, write : {b1}, chain : Channel, quiet : {TRUE}]
=============================================================================
