--------------------------------- MODULE MCCut ---------------------------------
(***************************************************************************)
(* What a node keeps in flash over power cuts and failing flash, for TLC:  *)
(* the journal, and the boot manager's application slot.  They share no    *)
(* state, so a run explores each of its Explored parts on its own; `runs`  *)
(* says which one moves, and the other rests where it started.             *)
(***************************************************************************)
EXTENDS MCJournal, Boot

CONSTANT Explored

ASSUME ExploredAssumption == Explored \subseteq {"journal", "boot"}

VARIABLE runs

cutVars == <<vars, bootVars, runs>>

CutInit ==
    /\ runs \in Explored
    /\ Init
    /\ BootInit /\ (runs # "boot" => slot.hdr = "blank")

CutNext ==
    /\ UNCHANGED runs
    /\ \/ runs = "journal" /\ UNCHANGED bootVars /\ Next
       \/ runs = "boot" /\ UNCHANGED vars /\ BootNext

CutSpec == CutInit /\ [][CutNext]_cutVars

===============================================================================
