--------------------------- MODULE MCAgentUplink ---------------------------
(* Two servers, either of which may start, die and come back. *)
EXTENDS AgentUplink, TLC

CONSTANTS s1, s2
=============================================================================
