---------------------------- MODULE MCFailureLab ----------------------------
(***************************************************************************)
(* Instances of FailureLab for TLC.                                        *)
(***************************************************************************)
EXTENDS FailureLab, TLC

MCAmounts == {1, 1000}
Symmetry == Permutations(Items)
=============================================================================
