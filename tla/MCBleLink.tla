----------------------------- MODULE MCBleLink -----------------------------
(* Model-checking instance of BleLink. *)
EXTENDS BleLink

=============================================================================
