-------------------------- MODULE MCScanPipeline ---------------------------
(* Two lists of users of one host and the logons of another. *)
EXTENDS ScanPipeline, TLC

CONSTANTS u1, u2, l1, w1, w2, x, y, h1, h2, first

Hosts == [m \in Message |-> IF m = l1 THEN h2 ELSE h1]
Kinds == [m \in Message |-> IF m = l1 THEN "loginlog" ELSE "userlist"]
Lists == [m \in Message |-> IF m = u1 THEN <<y, x>> ELSE <<x>>]

Configured == {[learn |-> FALSE, black |-> {}, white |-> {y}]}
\* In the watch mode or not.
Watching == [learn: BOOLEAN, black: {{}}, white: {{y}}]
Accept == first :> ({"userlist", "loginlog"} \X Item)
=============================================================================
