--------------------------- MODULE MCInstallWizard ---------------------------
(* Two operators install one console. *)
EXTENDS InstallWizard
CONSTANTS p1, p2
=============================================================================
