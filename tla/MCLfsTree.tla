----------------------------- MODULE MCLfsTree -----------------------------
EXTENDS LfsTree

(* Two directories below the root; names are ordered as numbers. *)
A == <<1>>
B == <<2>>
In(d, n) == Append(d, n)
Op(k, p) == [kind |-> k, path |-> p, to |-> <<>>]
MCPath == {A, B, In(A, 1), In(A, 2), In(A, 3), In(A, 4), In(B, 1)}
Built ==
  <<Op("mkdir", A), Op("mkdir", B), Op("create", In(A, 1)),
    Op("settime", In(A, 1)), Op("create", In(A, 2)), Op("create", In(A, 4))>>
(* The second entry of the second pair is open; the last entry of a first. *)
MCSetup == Append(Built, Op("open", In(A, 4)))
FirstPairSetup == Append(Built, Op("open", In(A, 1)))
NestedSetup == <<Op("mkdir", A), Op("mkdir", B), Op("mkdir", In(B, 1))>>
=============================================================================
