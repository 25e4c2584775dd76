--------------------------- MODULE MCClientHealth ---------------------------
(* One host among others, and the threads of one server. *)
EXTENDS ClientHealth, TLC

CONSTANTS h1, s1
=============================================================================
