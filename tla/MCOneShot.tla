----------------------------- MODULE MCOneShot ------------------------------
(***************************************************************************)
(* A small instance of OneShot for TLC: a tmux with the fault of 3.4,      *)
(* where the remembered version makes a difference to what a name reads    *)
(* as.                                                                     *)
(***************************************************************************)
EXTENDS OneShot
=============================================================================
