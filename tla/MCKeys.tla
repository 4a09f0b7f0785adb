------------------------------- MODULE MCKeys -------------------------------
(***************************************************************************)
(* Small instances of Keys for TLC.                                        *)
(***************************************************************************)
EXTENDS Keys, TLC

Symmetry == Permutations(Caller)
=============================================================================
