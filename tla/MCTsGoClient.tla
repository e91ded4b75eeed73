---------------------------- MODULE MCTsGoClient ----------------------------
(* TsGoClient for TLC.                                                     *)
EXTENDS TsGoClient, TLC

Symmetry == Permutations(Callers)
=============================================================================
