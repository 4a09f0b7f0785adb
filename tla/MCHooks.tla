------------------------------ MODULE MCHooks -------------------------------
(***************************************************************************)
(* Small instances of Hooks for TLC: hooks of two tables, and a third that *)
(* nothing is kept in.                                                     *)
(***************************************************************************)
EXTENDS Hooks, TLC

Kept == ("alert-bell" :> "session") @@ ("pane-exited" :> "window")
=============================================================================
