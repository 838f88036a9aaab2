------------------------------ MODULE AtomicCell ------------------------------
(***************************************************************************)
(* What a metadata pair promises to the code above it (littlefs/DESIGN.md, *)
(* "Metadata pairs"): its content changes from what one commit wrote to    *)
(* what the next one writes, at one instant, or stays as it was.           *)
(***************************************************************************)
EXTENDS Naturals

VARIABLES
  value,  \* the commit whose content a fetch reads
  call,   \* the commit called last
  res     \* "none" while it runs, then how it ended

vars == <<value, call, res>>

Begin ==
  /\ res # "none" /\ res' = "none"
  /\ call' \in {call, call + 1}
  /\ UNCHANGED value
Take ==
  /\ res = "none" /\ value' = call
  /\ UNCHANGED <<call, res>>
(* Success: the content is there.  An error: it is not.                    *)
End ==
  /\ res = "none"
  /\ \/ res' = "ok" /\ value = call
     \/ res' \in {"error", "nospace"} /\ value # call
  /\ UNCHANGED <<value, call>>
Crash ==
  /\ res = "none" /\ res' = "lost"
  /\ UNCHANGED <<value, call>>

Init == value = 0 /\ call = 0 /\ res = "ok"
Next == Begin \/ Take \/ End \/ Crash
Spec == Init /\ [][Next]_vars
=============================================================================
