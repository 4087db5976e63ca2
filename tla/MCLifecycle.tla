------------------------------ MODULE MCLifecycle -------------------------------
(***************************************************************************)
(* An instance of Lifecycle for TLC: one client, who may come, go and come *)
(* again.                                                                  *)
(***************************************************************************)
EXTENDS Lifecycle, TLC

CONSTANTS c1
===============================================================================
