------------------------- MODULE MCGuardedExecution -------------------------
(***************************************************************************)
(* Instances of GuardedExecution for TLC.                                  *)
(***************************************************************************)
EXTENDS GuardedExecution, TLC

MCBudgets == {1, 2}

Symmetry == Permutations(Stores)
=============================================================================
