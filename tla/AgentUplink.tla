---------------------------- MODULE AgentUplink ----------------------------
(***************************************************************************)
(* How what happens on a host reaches a server (agent/client/agent.go).    *)
(* Servers register in MongoDB at every heartbeat (models/common.go), the  *)
(* console lists those registered within the last minute, and the agent    *)
(* keeps an rpcx client over that list.  Two of its goroutines send over   *)
(* the client, getInfo the lists that changed and monitor the events; a    *)
(* third, configRefresh, replaces the client when the list changes.        *)
(*                                                                         *)
(* One list of the host is followed, by its content.  The library rpcx is  *)
(* modelled from its copy under agent/vendor.                              *)
(***************************************************************************)
EXTENDS Integers

CONSTANTS
    Server,      \* hosts a server may run on
    MaxContent,  \* bound: what the list may hold
    MaxEvents,   \* bound: events of the monitors
    MaxConfig,   \* bound: versions of the configuration
    MaxFaults    \* bound: crashes, broken links, slow answers, failed queries

ASSUME UplinkAssumption ==
    /\ Server # {}
    /\ MaxContent \in Nat /\ MaxEvents \in Nat /\ MaxConfig \in Nat /\ MaxFaults \in Nat

VARIABLES
    alive,      \* servers that run
    fresh,      \* servers whose registration is at most a minute old
    db,         \* version of the agents' configuration in the database
    agent,      \* "down" or "up"
    known,      \* a.ServerList
    nodes,      \* the servers the current client was made for
    link,       \* its cached connection to each of them
    Config,     \* version of common.Config, 0 when it is empty
    refresh,    \* where configRefresh is
    target,     \* the server its call of GetInfo goes to, while it waits
    late,       \* configurations in answers nobody waits for any more
    Mutex,      \* who holds a.Mutex
    pc,         \* where each of the two senders is
    item,       \* what it sends
    holds,      \* the state of the client it has copied: none, open or closed
    value,      \* what the list on the host holds, 0 when it is empty
    historyCache,
    events,     \* number of events so far
    flight,     \* calls written and not yet received
    received,   \* history: items servers received
    lost,       \* history: items sent in vain
    faults      \* the bound's counter

servers == <<alive, fresh, db>>
conn    == <<known, nodes, link>>
ticker  == <<Config, refresh, target, late>>
sender  == <<Mutex, pc, item, holds, historyCache>>
host    == <<value, events>>
net     == <<flight, received, lost>>
vars    == <<servers, agent, conn, ticker, sender, host, net, faults>>

Sender == {"info", "monitor"}
Item == ({"info"} \X (1..MaxContent)) \cup ({"monitor"} \X (1..MaxEvents))
NoItem == <<"none", 0>>

TypeOK ==
    /\ alive \subseteq Server /\ fresh \subseteq Server
    /\ db \in 1..(MaxConfig + 1) /\ Config \in 0..(MaxConfig + 1)
    /\ agent \in {"down", "up"}
    /\ known \subseteq Server /\ nodes \subseteq Server
    /\ link \in [Server -> {"none", "up", "broken"}]
    /\ refresh \in {"tick", "wait", "fetch", "lock", "close", "new"}
    /\ target \subseteq Server
    /\ late \subseteq 1..(MaxConfig + 1)
    /\ Mutex \in Sender \cup {"free", "refresh"}
    /\ pc \in [Sender -> {"idle", "lock", "write"}]
    /\ item \in [Sender -> Item \cup {NoItem}]
    /\ holds \in [Sender -> {"none", "open", "closed"}]
    /\ value \in 0..MaxContent /\ historyCache \in 0..MaxContent
    /\ events \in 0..MaxEvents
    /\ flight \subseteq Item \X Server
    /\ received \subseteq Item /\ lost \subseteq Item
    /\ faults \in 0..MaxFaults

NoLinks == [s \in Server |-> "none"]

\* The agent's process before init: nothing of it is kept anywhere.
Blank ==
    /\ known' = {} /\ nodes' = {} /\ link' = NoLinks
    /\ Config' = 0 /\ refresh' = "tick" /\ target' = {} /\ late' = {}
    /\ Mutex' = "free" /\ pc' = [p \in Sender |-> "idle"]
    /\ item' = [p \in Sender |-> NoItem] /\ holds' = [p \in Sender |-> "none"]
    /\ historyCache' = 0

Init ==
    /\ alive \in SUBSET Server /\ fresh = alive
    /\ db = 1
    /\ agent = "down"
    /\ known = {} /\ nodes = {} /\ link = NoLinks
    /\ Config = 0 /\ refresh = "tick" /\ target = {} /\ late = {}
    /\ Mutex = "free" /\ pc = [p \in Sender |-> "idle"]
    /\ item = [p \in Sender |-> NoItem] /\ holds = [p \in Sender |-> "none"]
    /\ value = 0 /\ historyCache = 0 /\ events = 0
    /\ flight = {} /\ received = {} /\ lost = {}
    /\ faults = 0

Fault == faults < MaxFaults /\ faults' = faults + 1

---------------------------------------------------------------------------
(* The servers and their registry.                                         *)

\* regServer, every 30 seconds while the server runs.
Register(s) ==
    /\ s \in alive
    /\ fresh' = fresh \cup {s}
    /\ UNCHANGED <<alive, db, agent, conn, ticker, sender, host, net, faults>>

\* A minute after the last registration; a running server renews it in time.
Expire(s) ==
    /\ s \notin alive
    /\ fresh' = fresh \ {s}
    /\ UNCHANGED <<alive, db, agent, conn, ticker, sender, host, net, faults>>

\* Its first heartbeat follows; an old registration may still count.
ServerStarts(s) ==
    /\ s \notin alive
    /\ alive' = alive \cup {s}
    /\ UNCHANGED <<fresh, db, agent, conn, ticker, sender, host, net, faults>>

Unreceived(s) == {f \in flight : f[2] = s}
Cut(s) == link' = [link EXCEPT ![s] = IF @ = "up" THEN "broken" ELSE @]

\* The calls it has not handled end with it.
ServerDies(s) ==
    /\ s \in alive /\ Fault
    /\ alive' = alive \ {s}
    /\ Cut(s)
    /\ flight' = flight \ Unreceived(s)
    /\ lost' = lost \cup {f[1] : f \in Unreceived(s)}
    /\ UNCHANGED <<fresh, db, agent, known, nodes, ticker, sender, host, received>>

\* A reset connection, in either direction, takes calls along.
LinkBreaks(s) ==
    /\ link[s] = "up" /\ Fault
    /\ Cut(s)
    /\ \E gone \in SUBSET Unreceived(s) :
         /\ flight' = flight \ gone
         /\ lost' = lost \cup {f[1] : f \in gone}
    /\ UNCHANGED <<servers, agent, known, nodes, ticker, sender, host, received>>

\* rpcx runs every call in a goroutine of its own: any of them may come first.
PutInfo(f) ==
    /\ f \in flight /\ f[2] \in alive
    /\ flight' = flight \ {f}
    /\ received' = received \cup {f[1]}
    /\ UNCHANGED <<servers, agent, conn, ticker, sender, host, lost, faults>>

\* An operator edits the configuration of the agents.
ConfigChanges ==
    /\ db <= MaxConfig
    /\ db' = db + 1
    /\ UNCHANGED <<alive, fresh, agent, conn, ticker, sender, host, net, faults>>

---------------------------------------------------------------------------
(* The agent's process.                                                    *)

GetAliveServerList == fresh

\* init: without a list, or without an answer to GetInfo, the agent panics and
\* the daemon starts it again.  The answer is empty when the server's query fails.
AgentStarts(s) ==
    /\ agent = "down"
    /\ s \in GetAliveServerList /\ s \in alive
    /\ agent' = "up"
    /\ known' = GetAliveServerList /\ nodes' = GetAliveServerList
    /\ link' = [NoLinks EXCEPT ![s] = "up"]
    /\ \/ Config' = db /\ UNCHANGED faults
       \/ Config' = 0 /\ Fault
    /\ UNCHANGED <<servers, refresh, target, late, sender, host, net>>

\* What the two senders have in hand is lost.
AgentDies ==
    /\ agent = "up" /\ Fault
    /\ agent' = "down"
    /\ Blank
    /\ lost' = lost \cup {item[p] : p \in {q \in Sender : pc[q] # "idle"}}
    /\ UNCHANGED <<servers, host, flight, received>>

---------------------------------------------------------------------------
(* configRefresh, a turn a minute.  GetInfo runs in a goroutine of its own *)
(* that is waited for three seconds.                                       *)

Refresh(from, to) == agent = "up" /\ refresh = from /\ refresh' = to

\* RandomSelect
Tick(s) ==
    /\ Refresh("tick", "wait")
    /\ s \in nodes
    /\ target' = {s}
    /\ UNCHANGED <<servers, agent, conn, Config, late, sender, host, net, faults>>

\* Mutant of Reconnect: the library's cache keeps a client that was shut down.
ReconnectNever(s) == link' = [link EXCEPT ![s] = IF @ = "none" THEN "up" ELSE @]

\* Failtry: a client that fails is removed and the same server dialled again.
Reconnect(s) == link' = [link EXCEPT ![s] = "up"]

\* GetAgentConfig answers with an empty configuration when its query fails.
Answer(s) ==
    /\ Refresh("wait", "fetch") /\ target' = {}
    /\ s \in alive
    /\ Reconnect(s)
    /\ \/ Config' = db /\ UNCHANGED faults
       \/ Config' = 0 /\ Fault
    /\ UNCHANGED <<servers, agent, known, nodes, late, sender, host, net>>

\* Mutant of NoAnswer: the wait for the goroutine has no end.
NoAnswerWaits(s) ==
    /\ FALSE
    /\ UNCHANGED vars

\* No retry finds the server; nothing is written to ch, and the wait ends.
NoAnswer(s) ==
    /\ Refresh("wait", "tick") /\ target' = {}
    /\ s \notin alive
    /\ link' = [link EXCEPT ![s] = "none"]
    /\ UNCHANGED <<servers, agent, known, nodes, Config, late, sender, host, net, faults>>

\* The answer comes, but after more than three seconds.
SlowAnswer(s) ==
    /\ Refresh("wait", "tick") /\ target' = {}
    /\ s \in alive /\ Fault
    /\ Reconnect(s)
    /\ late' = late \cup {db}
    /\ UNCHANGED <<servers, agent, known, nodes, Config, sender, host, net>>

\* It is decoded into common.Config all the same.
LateAnswer(v) ==
    /\ agent = "up" /\ v \in late
    /\ late' = late \ {v}
    /\ Config' = v
    /\ UNCHANGED <<servers, agent, conn, refresh, target, sender, host, net, faults>>

\* Mutant of Fetch: the new list is kept, but the client is not made anew.
FetchUnapplied ==
    /\ Refresh("fetch", "tick")
    /\ known' = IF GetAliveServerList # {} THEN GetAliveServerList ELSE known
    /\ UNCHANGED <<servers, agent, nodes, link, Config, target, late, sender, host, net, faults>>

\* The console answers with the list, an empty one is ignored.  The lists are
\* compared entry by entry; documents keep their order between two queries.
Fetch ==
    LET list == GetAliveServerList
    IN  /\ IF list # {} /\ list # known
             THEN Refresh("fetch", "lock") /\ known' = list
             ELSE Refresh("fetch", "tick") /\ UNCHANGED known
        /\ UNCHANGED <<servers, agent, nodes, link, Config, target, late, sender, host, net, faults>>

FetchFails ==
    /\ Refresh("fetch", "tick") /\ Fault
    /\ UNCHANGED <<servers, agent, conn, Config, target, late, sender, host, net>>

\* Mutant of ResetLock: the client is replaced without the lock.
ResetLockLess ==
    /\ Refresh("lock", "close")
    /\ UNCHANGED <<servers, agent, conn, Config, target, late, sender, host, net, faults>>

ResetLock ==
    /\ Refresh("lock", "close")
    /\ Mutex = "free" /\ Mutex' = "refresh"
    /\ UNCHANGED <<servers, agent, conn, Config, target, late, pc, item, holds, historyCache, host, net, faults>>

\* Client.Close: what was written before is still delivered.
Close ==
    /\ Refresh("close", "new")
    /\ link' = NoLinks
    /\ holds' = [p \in Sender |-> IF holds[p] = "open" THEN "closed" ELSE holds[p]]
    /\ UNCHANGED <<servers, agent, known, nodes, Config, target, late, Mutex, pc, item, historyCache, host, net, faults>>

\* newClient, and the lock is given back.
NewClient ==
    /\ Refresh("new", "tick")
    /\ nodes' = known
    /\ Mutex' = "free"
    /\ UNCHANGED <<servers, agent, known, link, Config, target, late, pc, item, holds, historyCache, host, net, faults>>

---------------------------------------------------------------------------
(* getInfo and monitor, the senders.                                       *)

Move(p, from, to) == agent = "up" /\ pc[p] = from /\ pc' = [pc EXCEPT ![p] = to]

\* Also back to what it was, or to nothing.
ListChanges ==
    /\ value' \in (0..MaxContent) \ {value}
    /\ UNCHANGED <<servers, agent, conn, ticker, sender, events, net, faults>>

\* Mutant of GetInfo: the cache is written before the data are sent.
GetInfoMarksFirst ==
    /\ Config # 0
    /\ value # 0 /\ value # historyCache
    /\ Move("info", "idle", "idle")
    /\ historyCache' = value
    /\ UNCHANGED <<servers, agent, conn, ticker, Mutex, item, holds, host, net, faults>>

\* A turn of getInfo that finds a change; without MonitorPath it waits.  A list
\* that has become empty is never sent.
GetInfo ==
    /\ Config # 0
    /\ value # 0 /\ value # historyCache
    /\ Move("info", "idle", "lock")
    /\ item' = [item EXCEPT !["info"] = <<"info", value>>]
    /\ UNCHANGED <<servers, agent, conn, ticker, Mutex, holds, historyCache, host, net, faults>>

Monitor ==
    /\ events < MaxEvents
    /\ events' = events + 1
    /\ Move("monitor", "idle", "lock")
    /\ item' = [item EXCEPT !["monitor"] = <<"monitor", events + 1>>]
    /\ UNCHANGED <<servers, agent, conn, ticker, Mutex, holds, historyCache, value, net, faults>>

\* Mutex.Lock; put has a value receiver and so a copy of a, its client included.
Lock(p) ==
    /\ Move(p, "lock", "write")
    /\ Mutex = "free" /\ Mutex' = p
    /\ holds' = [holds EXCEPT ![p] = IF refresh = "new" THEN "closed" ELSE "open"]
    /\ UNCHANGED <<servers, agent, conn, ticker, item, historyCache, host, net, faults>>

\* XClient.Go writes the call before it returns.  A server without a cached
\* connection is dialled; one whose connection broke is not, and the error is
\* left in the call, where nobody looks for it.
Write(p, s) ==
    /\ Move(p, "write", "idle")
    /\ s \in nodes
    /\ Mutex' = "free"
    /\ holds' = [holds EXCEPT ![p] = "none"]
    /\ item' = [item EXCEPT ![p] = NoItem]
    /\ historyCache' = IF p = "info" THEN item[p][2] ELSE historyCache
    /\ IF /\ holds[p] = "open"
          /\ link[s] = "up" \/ (link[s] = "none" /\ s \in alive)
         THEN /\ link' = [link EXCEPT ![s] = "up"]
              /\ flight' = flight \cup {<<item[p], s>>}
              /\ UNCHANGED lost
         ELSE lost' = lost \cup {item[p]} /\ UNCHANGED <<link, flight>>
    /\ UNCHANGED <<servers, agent, known, nodes, ticker, host, received, faults>>

---------------------------------------------------------------------------
Send(p) == Lock(p) \/ \E s \in Server : Write(p, s)

AwaitAnswer == \E s \in target : Answer(s) \/ NoAnswer(s) \/ SlowAnswer(s)
Replace == Fetch \/ FetchFails \/ ResetLock \/ Close \/ NewClient

Next ==
    \/ \E s \in Server : \/ Register(s) \/ Expire(s) \/ ServerStarts(s) \/ ServerDies(s)
                         \/ LinkBreaks(s) \/ AgentStarts(s) \/ Tick(s)
    \/ \E f \in flight : PutInfo(f)
    \/ ConfigChanges \/ ListChanges
    \/ AgentDies
    \/ AwaitAnswer \/ (\E v \in late : LateAnswer(v)) \/ Replace
    \/ GetInfo \/ Monitor \/ \E p \in Sender : Send(p)

Spec == Init /\ [][Next]_vars

\* The heartbeats, the agent's goroutines, the calls that reached a server that stays, and the
\* minute after which a registration is too old.  A sender competes for the
\* mutex with one that takes it for a few steps a minute.  RandomSelect chooses
\* every server of the list again and again.
Fairness ==
    /\ \A s \in Server : WF_vars(Register(s) \/ Expire(s)) /\ SF_vars(Tick(s))
    /\ WF_vars(\E s \in Server : AgentStarts(s))
    /\ WF_vars(\E f \in flight : PutInfo(f))
    /\ WF_vars(AwaitAnswer) /\ WF_vars(Replace) /\ SF_vars(ResetLock)
    /\ WF_vars(\E v \in late : LateAnswer(v))
    /\ WF_vars(GetInfo) /\ \A p \in Sender : SF_vars(Send(p))

FairSpec == Spec /\ Fairness

---------------------------------------------------------------------------
(* What it is for.                                                         *)

\* The lock is there to keep data from being lost when the client is replaced
\* (agent.go:212): as long as no server dies, no link breaks and the agent
\* lives, nothing the senders take is lost, whichever servers join meanwhile.
ResetLosesNothing == faults = 0 => lost = {}

\* The agent runs and one of the servers it knows does.
Reachable == agent = "up" /\ known \cap alive # {}

\* configRefresh follows the cluster (agent.go:93): the agent's list becomes
\* the servers that run, those that joined included, once faults cease and if
\* a server it knows is among them; otherwise no GetInfo is answered, and the
\* list is never asked for again.
FindsServers == <>[]Reachable => <>[](known = alive /\ nodes = known)

\* A connection that broke stays in the library's cache and takes all data
\* with it; in the end a GetInfo hits the same server and replaces it
\* (agent.go:184, xclient.go:166-199).
LinksHeal == <>[]Reachable => []<>(\A s \in nodes \cap alive : link[s] # "broken")

\* The configuration of the console reaches the agent, though answers that
\* came too late may bring back an old one (agent.go:183-190).
ConfigCatchesUp == <>[]Reachable => []<>(Config = db)

\* The list as it is now, unless it is empty, reaches a server, whatever servers
\* join and configRefresh does meanwhile (agent.go:284-300).  Only a fault may take
\* it on the way, and then historyCache keeps it from being sent again until it
\* changes: put does not look at what becomes of a call.  An agent that gets no
\* configuration sends nothing.
ListIsSent ==
    LET current == <<"info", value>>
    IN  []<>(\/ value = 0 \/ agent = "down" \/ Config = 0
             \/ current \in received
             \/ faults > 0 /\ current \in lost)
=============================================================================
