----------------------------- MODULE TaskTargets -----------------------------
(***************************************************************************)
(* From the operator's host list to the documents of the collection       *)
(* "queue": Task.Save and BetweenIP (web/models/task.go, web/utils/net.go).*)
(* Addresses are small integers; BetweenIP compares and counts them as     *)
(* such.  A list entry is an address, a range, a tag, or text with one     *)
(* hyphen that is not two addresses, on which IP2Int panics.  Queries and  *)
(* inserts may fail; the code logs that and goes on.                       *)
(***************************************************************************)
EXTENDS Integers, SequencesExt

CONSTANTS
    Addresses,   \* the addresses hosts may have
    Ranges,      \* the pairs <<lo, hi>> a range entry may name
    MaxEntries,  \* the longest list considered
    MaxFaults    \* bound: queries and addresses whose insert failed

ASSUME TaskTargetsAssumption ==
    /\ Addresses \subseteq Int /\ IsFiniteSet(Addresses)
    /\ Ranges \subseteq Addresses \X Addresses
    /\ MaxEntries \in Nat /\ MaxFaults \in Nat

Entry(kind, lo, hi) == [kind |-> kind, lo |-> lo, hi |-> hi]
Ip(a) == Entry("ip", a, a)
Tag(name) == Entry(name, 0, 0)
Malformed == Tag("malformed")
Tags == {"all", "windows", "linux"}
Entries == {Ip(a) : a \in Addresses} \cup {Entry("range", r[1], r[2]) : r \in Ranges}
           \cup {Tag(name) : name \in Tags} \cup {Malformed}

Systems == {"windows", "linux", "none"}   \* "none": no agent registered there

VARIABLES
    request,    \* the HostList the operator posted
    client,     \* the collection "client": what runs at each address
    hostList,   \* c.HostList, then what the loop has not seen yet
    subs,       \* what addQueue is still to be called with in this turn
    addedLst,   \* addedLst
    queue,      \* the ip fields of the inserted queue documents, in order
    unasked,    \* history: the tags whose query failed
    lost,       \* history: the addresses whose insert failed
    pc          \* "expand", "loop", "saved", or "panic"

vars == <<request, client, hostList, subs, addedLst, queue, unasked, lost, pc>>

\* Save after its own insert of the task: if that fails, nothing else happens.
Init ==
    /\ request \in BoundedSeq(Entries, MaxEntries)
    /\ client \in [Addresses -> Systems]
    /\ hostList = request
    /\ subs = <<>> /\ addedLst = {} /\ queue = <<>>
    /\ unasked = {} /\ lost = {}
    /\ pc = "expand"

\* Mutant: one address too few.
BetweenIPShort(lo, hi) == IF hi > lo THEN [n \in 1..(hi - lo) |-> lo + n - 1] ELSE <<>>

\* BetweenIP: both ends, in order; a range must end after it starts.
BetweenIP(lo, hi) == IF hi > lo THEN [n \in 1..(hi - lo + 1) |-> lo + n - 1] ELSE <<>>

\* The query Save makes for a tag.
Filter(name) == IF name = "all" THEN {"windows", "linux"} ELSE {name}

\* Mutant: Distinct without the query.
DistinctAny(name, failing) ==
    IF name \in failing THEN {<<>>}
    ELSE SetToSeqs({Ip(a) : a \in {b \in Addresses : client[b] # "none"}})

\* clientdb.Distinct: the matching addresses in whatever order MongoDB has them;
\* none if the query failed.
Distinct(name, failing) ==
    IF name \in failing THEN {<<>>}
    ELSE SetToSeqs({Ip(a) : a \in {b \in Addresses : client[b] \in Filter(name)}})

\* A tag in the list: its first occurrence goes, its hosts come at the end.
ExpandTag(list, name, failing) ==
    IF Contains(list, Tag(name))
    THEN {RemoveFirst(list, Tag(name)) \o ips : ips \in Distinct(name, failing)}
    ELSE {list}

\* The tags that are asked for: "all" leaves no other in the list.
Asked ==
    IF Contains(request, Tag("all")) THEN {"all"}
    ELSE {name \in {"windows", "linux"} : Contains(request, Tag(name))}

\* "all" replaces the list, then "windows" and "linux" are expanded.
Expand ==
    /\ pc = "expand"
    /\ unasked' \in SUBSET Asked /\ Cardinality(unasked') <= MaxFaults
    /\ \E all \in IF Contains(request, Tag("all"))
                   THEN Distinct("all", unasked') ELSE {request} :
       \E win \in ExpandTag(all, "windows", unasked') :
            hostList' \in ExpandTag(win, "linux", unasked')
    /\ pc' = "loop"
    /\ UNCHANGED <<request, client, subs, addedLst, queue, lost>>

\* What an entry puts into the queue: the addresses of a range, or its own text.
Ips(e) ==
    IF e.kind = "range"
    THEN LET between == BetweenIP(e.lo, e.hi) IN [n \in DOMAIN between |-> Ip(between[n])]
    ELSE <<e>>

\* One turn of the loop over HostList.  An entry met before breaks the loop; a
\* range is entered in addedLst by its own text, if it gave an address.
Turn ==
    /\ pc = "loop" /\ subs = <<>> /\ hostList # <<>>
    /\ LET e == Head(hostList) IN
       \/ /\ e \in addedLst
          /\ pc' = "saved"
          /\ UNCHANGED <<addedLst, subs>>
       \/ /\ e \notin addedLst /\ e = Malformed
          /\ pc' = "panic"
          /\ UNCHANGED <<addedLst, subs>>
       \/ /\ e \notin addedLst /\ e # Malformed
          /\ subs' = Ips(e)
          /\ addedLst' = IF Ips(e) = <<>> THEN addedLst ELSE addedLst \cup {e}
          /\ UNCHANGED pc
    /\ hostList' = Tail(hostList)
    /\ UNCHANGED <<request, client, queue, unasked, lost>>

\* addQueue: a failed insert is logged, whether or not it left a document.
AddQueue ==
    /\ pc = "loop" /\ subs # <<>>
    /\ \/ queue' = Append(queue, Head(subs)) /\ UNCHANGED lost
       \/ /\ queue' \in {queue, Append(queue, Head(subs))}
          /\ lost' = lost \cup {Head(subs).lo}
          /\ Cardinality(unasked) + Cardinality(lost') <= MaxFaults
    /\ subs' = Tail(subs)
    /\ UNCHANGED <<request, client, hostList, addedLst, unasked, pc>>

EndLoop ==
    /\ pc = "loop" /\ subs = <<>> /\ hostList = <<>>
    /\ pc' = "saved"
    /\ UNCHANGED <<request, client, hostList, subs, addedLst, queue, unasked, lost>>

Next == Expand \/ Turn \/ AddQueue \/ EndLoop
Spec == Init /\ [][Next]_vars

-----------------------------------------------------------------------------
(* What the list means *)

\* The addresses an entry stands for, by the list of formats in docs/help.md.
Meant(e) ==
    CASE e.kind \in {"ip", "range"} -> e.lo..e.hi
      [] e.kind = "all"             -> {a \in Addresses : client[a] # "none"}
      [] e.kind \in Systems         -> {a \in Addresses : client[a] = e.kind}
      [] OTHER                      -> {}
Targets == UNION {Meant(e) : e \in ToSet(request)}
Queued == {q.lo : q \in ToSet(queue)}

\* No task reaches a host the list does not stand for, whatever the list
\* (Task.Save, BetweenIP); a tag given twice is queued as if it were an address.
NoStranger ==
    \A q \in ToSet(queue) : q.kind = "ip" => q.lo \in Targets

\* A list that names every host once, by well-formed entries and without "all".
\* Two forms of docs/help.md are left out because the code does not carry them
\* out: a range of one address, and entries that name a host twice.
PreciseList ==
    /\ \A e \in ToSet(request) :
        /\ e # Malformed /\ e.kind # "all"
        /\ e.kind = "range" => e.lo # e.hi
    /\ \A m, n \in DOMAIN request :
        m # n => request[m] # request[n] /\ Meant(request[m]) \cap Meant(request[n]) = {}

\* The hosts that are missed because a tag's query failed.
Missed == UNION {Meant(Tag(name)) : name \in unasked}

\* When Save returns, a precise list has one document for each host it stands for
\* and none for another, and a host is missing only if its own insert or its tag's
\* query failed, whatever failed beside it (Task.Save, addQueue).
PreciseListDone ==
    pc = "saved" /\ PreciseList =>
        /\ Queued \subseteq Targets
        /\ Targets \subseteq Queued \cup lost \cup Missed
        /\ Len(queue) = Cardinality(Queued)
=============================================================================
