--------------------------- MODULE RingArithmetic ---------------------------
(***************************************************************************)
(* Free-running ring counters in w-ary unsigned arithmetic: w stands for   *)
(* 2^32, the range of the uint32_t counters of pico_runtime.c.             *)
(***************************************************************************)
EXTENDS Integers

(* x + 1u *)
Advance(x, w) == IF x = w - 1 THEN 0 ELSE x + 1

(* put - get: the number of elements between two counters. *)
Distance(put, get, w) == IF put >= get THEN put - get ELSE put + w - get

=============================================================================
