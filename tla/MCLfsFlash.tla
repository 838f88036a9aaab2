----------------------------- MODULE MCLfsFlash -----------------------------
(***************************************************************************)
(* Two specifications in one run: the files and handles of LfsFile, which  *)
(* are alike, on a few small blocks, and one metadata pair of LfsPair.     *)
(* They share nothing, so one of them stays in its initial state.          *)
(***************************************************************************)
EXTENDS LfsFile, LfsPair, TLC

VARIABLE runs    \* the one that runs

Alike == Permutations(Files) \cup Permutations(Handles)

FlashInit ==
  /\ runs \in {"pair", "files"} /\ Init /\ PairInit
  /\ runs = "pair" => \A n \in Files : ~disk[n].live
  /\ runs = "files" => /\ ptr = Root
                       /\ chip[ptr[1]][1].rev = Min(FirstRevs)
                       /\ chip[Blocks - 1][1].rev = Min(NoiseRevs)
FlashNext ==
  \/ runs = "files" /\ Next /\ UNCHANGED <<runs, pairVars>>
  \/ runs = "pair" /\ PairNext /\ UNCHANGED <<runs, vars>>
FlashSpec == FlashInit /\ [][FlashNext]_<<runs, vars, pairVars>>
=============================================================================
