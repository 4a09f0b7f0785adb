--------------------------- MODULE MCReplyBinding ---------------------------
(***************************************************************************)
(* Small instances of ReplyBinding for TLC.                                *)
(***************************************************************************)
EXTENDS ReplyBindingInv, TLC

Symmetry == Permutations(Cmd)
=============================================================================
