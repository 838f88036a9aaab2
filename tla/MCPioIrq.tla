------------------------------ MODULE MCPioIrq ------------------------------
(***************************************************************************)
(* The two resources of a PIO controller in one run: an interrupt line     *)
(* with its sources, and the instruction memory with the state machines.   *)
(* They share nothing, so the one that does not run stays in its initial   *)
(* state.                                                                  *)
(***************************************************************************)
EXTENDS PioIrq, PioPrograms

VARIABLE runs                                        \* the one that runs

(* One program that goes anywhere, and one that must start at 0.           *)
TwoPrograms == {[length |-> 1, origin |-> 0], [length |-> 2, origin |-> -1]}

PioInit == runs \in {"line", "memory"} /\ Init /\ ProgramsInit
PioNext ==
  \/ runs = "line" /\ Next /\ UNCHANGED <<runs, programsVars>>
  \/ runs = "memory" /\ ProgramsNext /\ UNCHANGED <<runs, vars>>
PioSpec ==
  /\ PioInit /\ [][PioNext]_<<runs, vars, programsVars>>
  /\ Fairness
=============================================================================
