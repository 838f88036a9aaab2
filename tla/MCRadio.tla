------------------------------ MODULE MCRadio ------------------------------
(* Model-checking instance of Radio. *)
EXTENDS Radio

=============================================================================
