--------------------------- MODULE MCExceptionApi ---------------------------
(***************************************************************************)
(* Instances of ExceptionApi for TLC.                                      *)
(***************************************************************************)
EXTENDS ExceptionApi, TLC

Symmetry == Permutations(Cases) \cup Permutations(Requests)
=============================================================================
