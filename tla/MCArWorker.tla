----------------------------- MODULE MCArWorker -----------------------------
(***************************************************************************)
(* Instances of ArWorker for TLC.                                          *)
(***************************************************************************)
EXTENDS ArWorker, TLC
=============================================================================
