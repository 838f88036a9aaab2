--------------------------- MODULE MCBufferedUart ---------------------------
(* Model-checking instance of BufferedUart. *)
EXTENDS BufferedUart
=============================================================================
