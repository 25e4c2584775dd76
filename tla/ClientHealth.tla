---------------------------- MODULE ClientHealth ----------------------------
(***************************************************************************)
(* What the console shows of the hosts.  Every server writes the           *)
(* collection "client" from four sides at once: the handler of GetInfo     *)
(* (server/action/save.go), and the three threads of                       *)
(* server/safecheck/health.go, which look for hosts that fell silent, for  *)
(* hosts silent for three days, and for hosts behind a firewall.  They     *)
(* query lists and then change the hosts on them one by one, whatever      *)
(* happened to these in between.                                           *)
(*                                                                         *)
(* A host's uptime is followed by its age alone: five minutes and 72 hours *)
(* are all the code tells apart.  Hosts meet only in the number of those   *)
(* that are silent, of which the code tells 20 and 100 apart: "crowd" says *)
(* how many others there are besides the hosts followed.                   *)
(***************************************************************************)
EXTENDS Integers

CONSTANTS
    Host,          \* hosts followed, few enough not to matter in number
    Server,        \* server processes, each with the three threads
    OfflineCheck,  \* the setting: are silent hosts pinged and told of
    MaxChanges,    \* bound: outages and recoveries
    MaxFaults      \* bound: failed queries and inserts, crashes of servers

ASSUME HealthAssumption ==
    /\ OfflineCheck \in BOOLEAN
    /\ MaxChanges \in Nat /\ MaxFaults \in Nat

VARIABLES
    power,      \* "up": its agent reports; "stopped": it only answers pings; "gone"
    door,       \* hosts whose port 65512 answers
    health,     \* the field of its document, "nil" without it, "absent" without a document
    age,        \* of its uptime: "fresh", "old" (5 minutes) or "ancient" (72 hours)
    saving,     \* hosts whose report is between the two queries of ComputerInfoSave
    crowd,      \* other hosts: "few" silent, "silent": 20, "ancient": 100 for 72 hours
    list,       \* offlineIPList of each server's offlineCheckThread
    many,       \* servers where it has 20 entries
    todo,       \* the part of it the loop has not seen
    turn,       \* where its loop is: [at |-> step, of |-> the host in question]
    cache,      \* the hosts it need not tell of until the cache is emptied
    trash,      \* what cleanThread is about to remove
    dial,       \* where firewallCheckThread is: [state looked for, hosts to dial]
    told,       \* history: hosts a notice stood or was made about in this outage
    ever,       \* history: the same, in any outage
    lost,       \* history: hosts about which an insert failed
    changes, faults   \* the two bounds' counters

machine == <<power, door, crowd>>
client  == <<health, age, saving>>
offline == <<list, many, todo, turn, cache>>
notices == <<told, ever, lost>>
vars == <<machine, client, offline, trash, dial, notices, changes, faults>>

Silent == {h \in Host : health[h] # "absent" /\ age[h] # "fresh"}
Ancient == {h \in Host : health[h] # "absent" /\ age[h] = "ancient"}
Shown(state) == {h \in Host : health[h] = state}

TypeOK ==
    /\ power \in [Host -> {"up", "stopped", "gone"}]
    /\ door \subseteq Host
    /\ health \in [Host -> {"absent", "nil", "ok", "offline", "walled"}]
    /\ age \in [Host -> {"fresh", "old", "ancient"}]
    /\ saving \subseteq Host
    /\ crowd \in {"few", "silent", "ancient"}
    /\ list \in [Server -> SUBSET Host]
    /\ many \subseteq Server
    /\ \A s \in Server : todo[s] \subseteq list[s]
    /\ todo \in [Server -> SUBSET Host]
    /\ turn \in [Server -> [at : {"loop", "ping", "insert", "call"}, of : SUBSET Host]]
    /\ cache \in [Server -> SUBSET Host]
    /\ trash \in [Server -> SUBSET Host]
    /\ dial \in [Server -> [at : {"ok", "walled"}, todo : SUBSET Host]]
    /\ told \subseteq ever /\ ever \subseteq Host /\ lost \subseteq Host
    /\ changes \in 0..MaxChanges /\ faults \in 0..MaxFaults

\* Between two hosts, or between two turns.
Loop == [at |-> "loop", of |-> {}]

\* The servers start on the database of an earlier run; some hosts went down since.
Init ==
    /\ power \in [Host -> {"up", "stopped", "gone"}]
    /\ door = {h \in Host : power[h] = "up"}
    /\ health = [h \in Host |-> "ok"]
    /\ age = [h \in Host |-> "fresh"]
    /\ saving = {}
    /\ crowd = "few"
    /\ list = [s \in Server |-> {}] /\ many = {} /\ todo = list /\ cache = list /\ trash = list
    /\ turn = [s \in Server |-> Loop]
    /\ dial = [s \in Server |-> [at |-> "ok", todo |-> {}]]
    /\ told = {} /\ ever = {} /\ lost = {}
    /\ changes = 0 /\ faults = 0

Fault == faults < MaxFaults /\ faults' = faults + 1

---------------------------------------------------------------------------
(* The hosts, the operator and the clock.                                  *)

\* An outage, a recovery, a firewall that opens or closes.
Change(h) ==
    /\ changes < MaxChanges
    /\ changes' = changes + 1
    /\ \E p \in {"up", "stopped", "gone"}, d \in SUBSET {h} :
         /\ p = "gone" => d = {}
         /\ power' = [power EXCEPT ![h] = p]
         /\ door' = (door \ {h}) \cup d
         /\ <<power', door'>> # <<power, door>>
         /\ told' = IF power[h] = "up" THEN told \ {h} ELSE told
    /\ UNCHANGED <<crowd, client, offline, trash, dial, ever, lost, faults>>

\* Other hosts fall silent, or report again.
CrowdChanges ==
    /\ changes < MaxChanges
    /\ changes' = changes + 1
    /\ crowd' \in {"few", "silent", "ancient"} \ {crowd}
    /\ UNCHANGED <<power, door, client, offline, trash, dial, notices, faults>>

\* Agents that run report every minute: only others grow old.
Age(h, from, to) ==
    /\ power[h] # "up" /\ health[h] # "absent"
    /\ age[h] = from
    /\ age' = [age EXCEPT ![h] = to]
    /\ UNCHANGED <<machine, health, saving, offline, trash, dial, notices, changes, faults>>

GrowOld(h) == Age(h, "fresh", "old")
GrowAncient(h) == Age(h, "old", "ancient")

---------------------------------------------------------------------------
(* ComputerInfoSave, at every GetInfo of the host's agent.                 *)

\* The upsert, which leaves the field health as it is.
Save(h) ==
    /\ power[h] = "up" /\ h \notin saving
    /\ health' = [health EXCEPT ![h] = IF @ = "absent" THEN "nil" ELSE @]
    /\ age' = [age EXCEPT ![h] = "fresh"]
    /\ saving' = saving \cup {h}
    /\ UNCHANGED <<machine, offline, trash, dial, notices, changes, faults>>

\* Mutant of SetHealthy: only a host without the field.
SetHealthyNew(h) ==
    /\ h \in saving
    /\ saving' = saving \ {h}
    /\ health' = [health EXCEPT ![h] = IF @ = "nil" THEN "ok" ELSE @]
    /\ UNCHANGED <<machine, age, offline, trash, dial, notices, changes, faults>>

\* The update: offline or without the field; "walled" is for others to change.
SetHealthy(h) ==
    /\ h \in saving
    /\ saving' = saving \ {h}
    /\ health' = [health EXCEPT ![h] = IF @ \in {"nil", "offline"} THEN "ok" ELSE @]
    /\ UNCHANGED <<machine, age, offline, trash, dial, notices, changes, faults>>

---------------------------------------------------------------------------
(* offlineCheckThread.                                                     *)

GoTo(s, point) == turn' = [turn EXCEPT ![s].at = point]
NextHost(s) == turn' = [turn EXCEPT ![s] = Loop]

\* The insert, or its refusal because the index has an open notice about h,
\* whose text it does not see.
Tell(h) == told' = told \cup {h} /\ ever' = ever \cup {h} /\ UNCHANGED lost

\* The one notice for all is on the first of the list, which may be another
\* host; sendNotice follows if it was inserted.
TellMass(s, hosts) ==
    /\ UNCHANGED notices \/ \E h \in hosts : Tell(h)
    /\ UNCHANGED turn \/ GoTo(s, "call")

StartTurn(s, hosts) ==
    /\ turn[s].at = "loop" /\ todo[s] = {}
    /\ todo' = [todo EXCEPT ![s] = hosts]
    /\ UNCHANGED <<machine, client, cache, trash, dial, changes>>

\* The start of a turn, up to its first call of sendNotice.
QueryOffline(s) ==
    /\ StartTurn(s, Silent)
    /\ list' = [list EXCEPT ![s] = Silent]
    /\ IF crowd = "few"
         THEN many' = many \ {s} /\ UNCHANGED <<turn, notices>>
         ELSE many' = many \cup {s} /\ TellMass(s, Silent)
    /\ UNCHANGED faults

\* Distinct leaves the list of the turn before.
QueryOfflineFails(s) ==
    /\ Fault
    /\ StartTurn(s, list[s])
    /\ IF s \in many THEN TellMass(s, list[s]) ELSE UNCHANGED <<turn, notices>>
    /\ UNCHANGED <<list, many>>

\* Mutant of ShowOffline: only healthy hosts are updated.
ShowOfflineHealthy(h) == health' = [health EXCEPT ![h] = IF @ = "ok" THEN "offline" ELSE @]

ShowOffline(h) == health' = [health EXCEPT ![h] = IF @ = "absent" THEN @ ELSE "offline"]

\* The update, and whether to ping.
SetOffline(s, h) ==
    /\ turn[s].at = "loop" /\ h \in todo[s]
    /\ todo' = [todo EXCEPT ![s] = @ \ {h}]
    /\ ShowOffline(h)
    /\ IF OfflineCheck /\ s \notin many
         THEN turn' = [turn EXCEPT ![s] = [at |-> "ping", of |-> {h}]] ELSE UNCHANGED turn
    /\ UNCHANGED <<machine, age, saving, list, many, cache, trash, dial, notices, changes, faults>>

\* Mutant of Ping: a host goes to the cache whether or not it answers.
PingCachesFirst(s) ==
    /\ turn[s].at = "ping"
    /\ \E h \in turn[s].of :
         /\ cache' = [cache EXCEPT ![s] = @ \cup {h}]
         /\ IF power[h] # "gone" /\ h \notin cache[s] THEN GoTo(s, "insert") ELSE NextHost(s)
    /\ UNCHANGED <<machine, client, list, many, todo, trash, dial, notices, changes, faults>>

\* A host that answers is told of, and cached before that, unless it is cached.
Ping(s) ==
    /\ turn[s].at = "ping"
    /\ \E h \in turn[s].of :
         IF power[h] # "gone" /\ h \notin cache[s]
           THEN cache' = [cache EXCEPT ![s] = @ \cup {h}] /\ GoTo(s, "insert")
           ELSE NextHost(s) /\ UNCHANGED cache
    /\ UNCHANGED <<machine, client, list, many, todo, trash, dial, notices, changes, faults>>

\* sendNotice only follows an insert that was not refused; a failed one is logged.
InsertAbnormal(s) ==
    /\ turn[s].at = "insert"
    /\ \E h \in turn[s].of :
         \/ Tell(h) /\ (GoTo(s, "call") \/ NextHost(s)) /\ UNCHANGED faults
         \/ Fault /\ lost' = lost \cup {h} /\ UNCHANGED <<told, ever>> /\ NextHost(s)
    /\ UNCHANGED <<machine, client, list, many, todo, cache, trash, dial, changes>>

\* sendNotice returns: http.Get has no deadline, so it may as well never.
SendNotice(s) ==
    /\ turn[s].at = "call"
    /\ NextHost(s)
    /\ UNCHANGED <<machine, client, list, many, todo, cache, trash, dial, notices, changes, faults>>

\* Mutant of EmptyCache: the ticker's goroutine is not there.
EmptyCacheNever(s) == FALSE /\ UNCHANGED vars

\* The ticker of 24 hours.  Nothing keeps it from the loop's append: an emptying
\* that is overwritten is one that comes the next day.
EmptyCache(s) ==
    /\ cache' = [cache EXCEPT ![s] = {}]
    /\ UNCHANGED <<machine, client, list, many, todo, turn, trash, dial, notices, changes, faults>>

---------------------------------------------------------------------------
(* cleanThread; when its query fails the list is empty.                    *)

QueryClean(s) ==
    /\ trash[s] = {}
    /\ crowd # "ancient"
    /\ trash' = [trash EXCEPT ![s] = Ancient]
    /\ UNCHANGED <<machine, client, offline, dial, notices, changes, faults>>

\* Whether or not the host has reported since; the uptime goes too.
Remove(s, h) ==
    /\ h \in trash[s]
    /\ trash' = [trash EXCEPT ![s] = @ \ {h}]
    /\ health' = [health EXCEPT ![h] = "absent"]
    /\ age' = [age EXCEPT ![h] = "fresh"]
    /\ UNCHANGED <<machine, saving, offline, dial, notices, changes, faults>>

---------------------------------------------------------------------------
(* firewallCheckThread, a turn a minute: the healthy, then the walled.     *)

\* A turn over one list is over, and the other is queried.
QueryFirewall(s, hosts) ==
    LET next == IF dial[s].at = "ok" THEN "walled" ELSE "ok"
    IN  /\ dial[s].todo = {}
        /\ hosts = Shown(next)
        /\ dial' = [dial EXCEPT ![s] = [at |-> next, todo |-> hosts]]
        /\ UNCHANGED <<machine, client, offline, trash, notices, changes, faults>>

\* The error is not looked at; the list is that of an earlier turn.
QueryFirewallFails(s, hosts) ==
    /\ Fault
    /\ dial[s].todo = {}
    /\ dial' = [dial EXCEPT ![s] = [at |-> IF @.at = "ok" THEN "walled" ELSE "ok", todo |-> hosts]]
    /\ UNCHANGED <<machine, client, offline, trash, notices, changes>>

\* What the dial makes of a host: the first loop only finds walls, the second
\* only takes them away.
Dialled(h, at) ==
    CASE at = "ok" /\ h \notin door   -> "walled"
      [] at = "walled" /\ h \in door  -> "ok"
      [] OTHER                        -> health[h]

\* The dial, of at most three seconds, and the update, as one step.
Dial(s, h) ==
    /\ h \in dial[s].todo
    /\ dial' = [dial EXCEPT ![s].todo = @ \ {h}]
    /\ health' = [health EXCEPT ![h] = IF @ = "absent" THEN @ ELSE Dialled(h, dial[s].at)]
    /\ UNCHANGED <<machine, age, saving, offline, trash, notices, changes, faults>>

\* A server is killed and started again; reports it was saving end there.
Restart(s) ==
    /\ Fault
    /\ list' = [list EXCEPT ![s] = {}]
    /\ many' = many \ {s}
    /\ todo' = [todo EXCEPT ![s] = {}]
    /\ turn' = [turn EXCEPT ![s] = Loop]
    /\ cache' = [cache EXCEPT ![s] = {}]
    /\ trash' = [trash EXCEPT ![s] = {}]
    /\ dial' = [dial EXCEPT ![s] = [at |-> "ok", todo |-> {}]]
    /\ saving' \in SUBSET saving
    /\ UNCHANGED <<machine, health, age, notices, changes>>

---------------------------------------------------------------------------
Report(h) == Save(h) \/ SetHealthy(h)
OfflineCheckThread(s) ==
    \/ QueryOffline(s) \/ QueryOfflineFails(s)
    \/ \E h \in todo[s] : SetOffline(s, h)
    \/ Ping(s) \/ InsertAbnormal(s)
CleanThread(s) == QueryClean(s) \/ \E h \in trash[s] : Remove(s, h)
FirewallCheckThread(s) ==
    \/ \E hosts \in SUBSET Host : QueryFirewall(s, hosts) \/ QueryFirewallFails(s, hosts)
    \/ \E h \in dial[s].todo : Dial(s, h)

Next ==
    \/ \E h \in Host : Change(h) \/ GrowOld(h) \/ GrowAncient(h) \/ Report(h)
    \/ CrowdChanges
    \/ \E s \in Server : \/ OfflineCheckThread(s) \/ SendNotice(s) \/ EmptyCache(s)
                         \/ CleanThread(s) \/ FirewallCheckThread(s) \/ Restart(s)

Spec == Init /\ [][Next]_vars

\* Agents that run go on to report, five minutes pass, and the threads of every
\* server go on: their queries, pings and dials have deadlines.  SendNotice has
\* none (lib.go:60, 67), and no fairness.  Nothing says when the 72 hours are
\* over, which are longer than all that.
Fairness ==
    /\ \A h \in Host : WF_vars(GrowOld(h)) /\ WF_vars(Save(h)) /\ WF_vars(SetHealthy(h))
    /\ \A s \in Server :
         /\ WF_vars(OfflineCheckThread(s)) /\ WF_vars(EmptyCache(s))
         /\ WF_vars(CleanThread(s)) /\ WF_vars(FirewallCheckThread(s))

FairSpec == Spec /\ Fairness

---------------------------------------------------------------------------
(* What it is for.                                                         *)

\* A thread that is not for ever in a call of the notice API.
GoesOn(s) == []<>(turn[s].at # "call")

\* A host that is in the cache, and so passed over for up to a day, was told of
\* once, or is about to be, unless an insert about it failed (health.go:87-98).
CachedWereTold ==
    \A s \in Server :
        cache[s] \subseteq ever \cup lost \cup (IF turn[s].at = "insert" THEN turn[s].of ELSE {})

\* Once a host stays as it is, the handlers and threads agree on it, although
\* each of them writes over the others from an old list: it is shown healthy,
\* or behind a firewall (health.go:111-130, save.go:73-78).
RunningIsShown ==
    \A h \in Host : <>[](power[h] = "up") =>
        /\ <>[](h \in door) => <>[](health[h] = "ok")
        /\ <>[](h \notin door) => <>[](health[h] = "walled")

\* A host that is down for good is shown offline until it is removed, if the
\* notice API leaves one server's thread going; and once its 72 hours are over
\* it is removed for good, whatever that API does, unless too many hosts are
\* silent (health.go:23-44, 77-79).
DownIsShown ==
    \A h \in Host : <>[](power[h] # "up") =>
        /\ (\E s \in Server : GoesOn(s)) => <>[](health[h] \in {"absent", "offline"})
        /\ []<>(age[h] # "old") /\ <>[](crowd # "ancient") => <>[](health[h] = "absent")

\* A host that answers pings and does not report is told of in the end, the
\* second time within a day included, if its 72 hours are not over before, which
\* are three turns of the ticker, and the notice API leaves one server's thread
\* going (health.go:85-95, 53-59).
StoppedIsTold ==
    OfflineCheck /\ (\E s \in Server : GoesOn(s)) => \A h \in Host :
        <>[](power[h] = "stopped" /\ age[h] = "old" /\ crowd = "few") => <>[](h \in told)
=============================================================================
