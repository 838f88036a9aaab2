----------------------------- MODULE MCBleGatt -----------------------------
(* Model-checking instance of BleGatt. *)
EXTENDS BleGatt

=============================================================================
