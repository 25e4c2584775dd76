---------------------------- MODULE MCDaemonGuard ----------------------------
(* Two builds of the agent: the one installed and one to update to. *)
EXTENDS DaemonGuard

CONSTANTS v1, v2
=============================================================================
