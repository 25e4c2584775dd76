----------------------------- MODULE TaskService -----------------------------
(***************************************************************************)
(* What pushing a task promises the operator, without servers, threads,    *)
(* connections or daemons: a queue document is claimed at most once, its   *)
(* command is executed at most once and only after the claim, and a reply  *)
(* is on record only for a command that was executed.  It does not promise *)
(* that a command is executed, nor that one reported as failed was not.    *)
(***************************************************************************)
EXTENDS Naturals

CONSTANT Items       \* the queue documents

VARIABLES phase,     \* how far the operator's request for an item has come
          runs,      \* how often its command was executed
          replied    \* the items with a reply on record

vars == <<phase, runs, replied>>

Init ==
    /\ phase = [i \in Items |-> "absent"]
    /\ runs = [i \in Items |-> 0]
    /\ replied = {}

\* The request is queued, or is lost before it got there.
Submit(i) ==
    /\ phase[i] = "absent"
    /\ \E p \in {"queued", "refused"} : phase' = [phase EXCEPT ![i] = p]
    /\ UNCHANGED <<runs, replied>>

\* Some server takes it on, or drops it.
Claim(i) ==
    /\ phase[i] = "queued"
    /\ \E p \in {"claimed", "closed"} : phase' = [phase EXCEPT ![i] = p]
    /\ UNCHANGED <<runs, replied>>

\* The host may still receive a command whose server has given up.
Execute(i) ==
    /\ phase[i] \in {"claimed", "closed"}
    /\ runs[i] = 0
    /\ runs' = [runs EXCEPT ![i] = 1]
    /\ UNCHANGED <<phase, replied>>

Reply(i) ==
    /\ phase[i] = "claimed" /\ runs[i] = 1
    /\ replied' = replied \cup {i}
    /\ \E p \in {"claimed", "closed"} : phase' = [phase EXCEPT ![i] = p]
    /\ UNCHANGED runs

\* The servers give up on some items: one that failed, or all that one held.
Close(S) ==
    /\ \A i \in S : phase[i] = "claimed"
    /\ phase' = [i \in Items |-> IF i \in S THEN "closed" ELSE phase[i]]
    /\ UNCHANGED <<runs, replied>>

Next ==
    \/ \E i \in Items : Submit(i) \/ Claim(i) \/ Execute(i) \/ Reply(i)
    \/ \E S \in SUBSET Items : Close(S)

Spec == Init /\ [][Next]_vars
=============================================================================
