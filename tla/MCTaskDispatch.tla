--------------------------- MODULE MCTaskDispatch ---------------------------
(* Small instances of TaskDispatch. *)
EXTENDS TaskDispatch, TLC

CONSTANTS i1, i2, i3, h1, h2, t1, t2, s1, s2

MCTaskOf == [i \in Items |-> IF i = i3 THEN t2 ELSE t1]

\* Every document is for h1: they compete for one accept loop.
OneHost == [i \in Items |-> h1]
\* i3 has an empty host field.
BlankHost == [i \in Items |-> IF i = i3 THEN None ELSE h1]

\* A command that is answered, and one that ends the daemon unanswered.
KillAndQuit == [i \in Items |-> IF i = i2 THEN "quit" ELSE "kill"]
KillAndUninstall == [i \in Items |-> IF i = i1 THEN "uninstall" ELSE "update"]

\* The servers run the same code.
ServerSymmetry == Permutations(Servers)
=============================================================================
