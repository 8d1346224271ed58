----------------------------- MODULE MCJournal -----------------------------
(***************************************************************************)
(* Instances of Journal for TLC.  A value of LongValues is a chain of two  *)
(* records, every other value is plain.                                    *)
(***************************************************************************)
EXTENDS Journal, TLC

CONSTANT LongValues

ASSUME LongValuesAssumption == LongValues \subseteq Values

MCParts == [v \in Values |-> IF v \in LongValues THEN 2 ELSE 1]
MCSchemas == {{b} : b \in Ids}
MCNoSchemas == {}

BlockSymmetry == Permutations(Ids)
Symmetry == Permutations(Ids) \cup Permutations(Values)
=============================================================================
