----------------------------- MODULE MCLifecycle ----------------------------
(***************************************************************************)
(* A small instance of Lifecycle for TLC: two goroutines that call Close,  *)
(* besides the one that Connect makes of a failed probe.                   *)
(***************************************************************************)
EXTENDS Lifecycle
=============================================================================
