---------------------------- MODULE TaskDispatch ----------------------------
(***************************************************************************)
(* Pushing an operator's task to the hosts.                                *)
(*                                                                         *)
(* The web console inserts one document per target host into the MongoDB   *)
(* collection "queue" (web/models/task.go).  On every Server node one      *)
(* TaskThread pops documents and hands each to a goroutine, sendTask,      *)
(* under a semaphore channel, threadpool (server/action/task.go).  The     *)
(* goroutine sends the command over TCP to port 65512 of the host, where   *)
(* the Daemon serves one connection at a time (daemon/task/tcp.go), and    *)
(* files the answer, or the error, in the collection "task_result".        *)
(*                                                                         *)
(* A queue document is dialled by at most one goroutine, so a connection   *)
(* is named by its document.  What travels on it is abstracted to wire     *)
(* (what the daemon's end can see) and back (what the server's end can     *)
(* see).                                                                   *)
(***************************************************************************)
EXTENDS Naturals, Sequences, FiniteSets

CONSTANTS
    Items,       \* the documents of the collection "queue"
    Servers,     \* the Server nodes, all popping the same collection
    Hosts,       \* the hosts a Daemon runs on
    Tasks,       \* the ids of the documents of the collection "task"
    None,        \* no document; also the empty string in the field "ip"
    TaskOf,      \* the field "task_id" of a queue document
    HostOf,      \* the field "ip" of a queue document: a host, or None if empty
    KindOf,      \* the field "type" of a queue document
    PoolSize,    \* the capacity of threadpool, 100 in the code
    MaxFaults,   \* how many crashes and broken links a behaviour may have
    DbFaults,    \* whether a MongoDB call may fail
    SilentLoss   \* whether a peer may vanish without closing its connections

Kinds     == {"kill", "uninstall", "update", "delete", "exec", "reload", "quit"}
ExitKinds == {"uninstall", "quit"}   \* Task.Run does not come back from these

ASSUME TaskDispatchAssumption ==
    /\ IsFiniteSet(Items)
    /\ None \notin Items \cup Hosts \cup Servers
    /\ TaskOf \in [Items -> Tasks]
    /\ HostOf \in [Items -> Hosts \cup {None}]
    /\ KindOf \in [Items -> Kinds]
    /\ PoolSize \in Nat \ {0}
    /\ MaxFaults \in Nat
    /\ DbFaults \in BOOLEAN
    /\ SilentLoss \in BOOLEAN

VARIABLES
    job,         \* where each document is, from the console to its end
    owner,       \* the server that popped it
    thread,      \* the TaskThread of each server
    pool,        \* the tokens in each server's threadpool
    wire,        \* the connection of a document, as the daemon sees it
    back,        \* the connection of a document, as sendTask sees it
    daemon,      \* the Daemon of each host
    keyOk,       \* the daemon holds the public key that fits the private one
    backlog,     \* connections the kernel holds for the daemon's Accept
    serving,     \* the connection in tcpPipe
    taskResult,  \* the collection "task_result"
    runs,        \* history: how often the host executed the document's command
    faults       \* the faults so far

serverVars == <<job, owner, thread, pool, taskResult>>
daemonVars == <<daemon, keyOk, backlog, serving, runs>>
linkVars   == <<wire, back>>
vars       == <<serverVars, daemonVars, linkVars, faults>>

JobStates == {"absent", "queued", "popped", "dial", "send", "await", "record",
              "saveError", "done", "lost"}
Sending   == {"dial", "send", "await", "record", "saveError"}

\* "closed" and "silent": the server's end ended before a command was written,
\* with and without the daemon being told.  "gone": the daemon's end is over.
WireStates == {"none", "open", "command", "ran", "closed", "silent", "gone"}
BackStates == {"none", "answer", "eof"}

ReplyDoc(i) == [item |-> i, doc |-> "reply", task_id |-> TaskOf[i]]
\* saveError builds its document with task.ID, the _id of the queue document.
ErrorDoc(i) == [item |-> i, doc |-> "error", task_id |-> i]
Docs == [item : Items, doc : {"reply", "error"}, task_id : Tasks \cup Items]

Goroutines(s) == {i \in Items : owner[i] = s /\ job[i] \in Sending}
Linked(h) == {i \in Items : HostOf[i] = h /\ wire[i] \notin {"none", "gone"}}

Init ==
    /\ job = [i \in Items |-> "absent"]
    /\ owner = [i \in Items |-> None]
    /\ thread = [s \in Servers |-> "poll"]
    /\ pool = [s \in Servers |-> 0]
    /\ wire = [i \in Items |-> "none"]
    /\ back = [i \in Items |-> "none"]
    /\ daemon = [h \in Hosts |-> "up"]
    /\ keyOk \in [Hosts -> BOOLEAN]
    /\ backlog = [h \in Hosts |-> <<>>]
    /\ serving = [h \in Hosts |-> None]
    /\ taskResult = {}
    /\ runs = [i \in Items |-> 0]
    /\ faults = 0

-----------------------------------------------------------------------------
(* The web console and the TaskThread of server s *)

\* addQueue: one insert per host; a failed one is only logged.
AddQueue(i) ==
    /\ job[i] = "absent"
    /\ \/ job' = [job EXCEPT ![i] = "queued"]
       \/ DbFaults /\ job' = [job EXCEPT ![i] = "lost"]
    /\ UNCHANGED <<owner, thread, pool, taskResult, daemonVars, linkVars, faults>>

\* findAndModify with Remove: the document leaves the collection with the read.
\* When its ip is empty, or the answer of the database is lost after the removal
\* was applied, res.IP is "" and the thread sleeps as if the queue were empty.
Pop(s) ==
    /\ thread[s] = "poll"
    /\ \E i \in Items : \E blank \in {HostOf[i] = None, HostOf[i] = None \/ DbFaults} :
        /\ job[i] = "queued"
        /\ owner' = [owner EXCEPT ![i] = s]
        /\ job' = [job EXCEPT ![i] = IF blank THEN "lost" ELSE "popped"]
        /\ thread' = [thread EXCEPT ![s] = IF blank THEN "sleep" ELSE "acquire"]
    /\ UNCHANGED <<pool, taskResult, daemonVars, linkVars, faults>>

PopNothing(s) ==
    /\ thread[s] = "poll"
    /\ DbFaults \/ \A i \in Items : job[i] # "queued"
    /\ thread' = [thread EXCEPT ![s] = "sleep"]
    /\ UNCHANGED <<job, owner, pool, taskResult, daemonVars, linkVars, faults>>

Wake(s) ==
    /\ thread[s] = "sleep"
    /\ thread' = [thread EXCEPT ![s] = "poll"]
    /\ UNCHANGED <<job, owner, pool, taskResult, daemonVars, linkVars, faults>>

\* Mutant: threadpool without a capacity.
SpawnUnlimited(s) ==
    /\ thread[s] = "acquire"
    /\ pool' = [pool EXCEPT ![s] = @ + 1]
    /\ thread' = [thread EXCEPT ![s] = "poll"]
    /\ \E i \in Items :
        /\ job[i] = "popped" /\ owner[i] = s
        /\ job' = [job EXCEPT ![i] = "dial"]
    /\ UNCHANGED <<owner, taskResult, daemonVars, linkVars, faults>>

\* threadpool <- true; go sendTask(res, threadpool).  The document is already
\* out of the collection while the thread waits for room.
Spawn(s) ==
    /\ thread[s] = "acquire"
    /\ pool[s] < PoolSize
    /\ pool' = [pool EXCEPT ![s] = @ + 1]
    /\ thread' = [thread EXCEPT ![s] = "poll"]
    /\ \E i \in Items :
        /\ job[i] = "popped" /\ owner[i] = s
        /\ job' = [job EXCEPT ![i] = "dial"]
    /\ UNCHANGED <<owner, taskResult, daemonVars, linkVars, faults>>

-----------------------------------------------------------------------------
(* The goroutine sendTask of document i *)

Goto(i, state) == job' = [job EXCEPT ![i] = state]

\* Mutant: the slot is not given back.
ReturnKeepsSlot(i) ==
    /\ Goto(i, "done")
    /\ wire' = [wire EXCEPT ![i] = IF @ = "open" THEN "closed" ELSE @]
    /\ UNCHANGED pool

\* Mutant: the connection is not closed.
ReturnKeepsLink(i) ==
    /\ Goto(i, "done")
    /\ pool' = [pool EXCEPT ![owner[i]] = @ - 1]
    /\ UNCHANGED wire

\* The goroutine returns: the deferred receive frees its slot, and the deferred
\* Close ends a connection nothing was written to.
Return(i) ==
    /\ Goto(i, "done")
    /\ pool' = [pool EXCEPT ![owner[i]] = @ - 1]
    /\ wire' = [wire EXCEPT ![i] = IF @ = "open" THEN "closed" ELSE @]

\* DialTimeout: the kernel of a host whose daemon listens accepts at once.
Dial(i) ==
    /\ job[i] = "dial"
    /\ daemon[HostOf[i]] = "up"
    /\ Goto(i, "send")
    /\ wire' = [wire EXCEPT ![i] = "open"]
    /\ backlog' = [backlog EXCEPT ![HostOf[i]] = Append(@, i)]
    /\ UNCHANGED <<owner, thread, pool, taskResult, daemon, keyOk, serving, runs, back, faults>>

\* Mutant: a failed dial is not recorded.
DialFailsUnrecorded(i) ==
    /\ job[i] = "dial"
    /\ Return(i)
    /\ UNCHANGED <<owner, thread, taskResult, daemonVars, back, faults>>

\* Mutant: a failed dial puts the document back into the collection.
DialFailsRequeues(i) ==
    /\ job[i] = "dial"
    /\ Goto(i, "queued")
    /\ pool' = [pool EXCEPT ![owner[i]] = @ - 1]
    /\ owner' = [owner EXCEPT ![i] = None]
    /\ UNCHANGED <<thread, taskResult, daemonVars, linkVars, faults>>

DialFails(i) ==
    /\ job[i] = "dial"
    /\ Goto(i, "saveError")
    /\ UNCHANGED <<owner, thread, pool, taskResult, daemonVars, linkVars, faults>>

\* rsaEncrypt, then Write, whose error is ignored.
Send(i) ==
    /\ job[i] = "send"
    /\ Goto(i, "await")
    /\ wire' = [wire EXCEPT ![i] = IF @ = "open" THEN "command" ELSE @]
    /\ UNCHANGED <<owner, thread, pool, taskResult, daemonVars, back, faults>>

\* rsaEncrypt fails: no usable private key in Config, or the command is too long.
EncryptFails(i) ==
    /\ job[i] = "send"
    /\ Goto(i, "saveError")
    /\ UNCHANGED <<owner, thread, pool, taskResult, daemonVars, linkVars, faults>>

\* Mutant: a connection that ended is dialled again.
ReadAnswerRetries(i) ==
    /\ job[i] = "await"
    /\ \/ back[i] = "answer" /\ Goto(i, "record") /\ UNCHANGED linkVars
       \/ /\ back[i] = "eof" /\ Goto(i, "dial")
          /\ wire' = [wire EXCEPT ![i] = "none"]
          /\ back' = [back EXCEPT ![i] = "none"]
    /\ UNCHANGED <<owner, thread, pool, taskResult, daemonVars, faults>>

\* Mutant: the error of ReadString is not looked at.
ReadAnswerUnchecked(i) ==
    /\ job[i] = "await" /\ back[i] # "none"
    /\ Goto(i, "record")
    /\ UNCHANGED <<owner, thread, pool, taskResult, daemonVars, linkVars, faults>>

\* ReadString has no deadline: it waits for a line or for the end.
ReadAnswer(i) ==
    /\ job[i] = "await"
    /\ \/ back[i] = "answer" /\ Goto(i, "record")
       \/ back[i] = "eof" /\ Goto(i, "saveError")
    /\ UNCHANGED <<owner, thread, pool, taskResult, daemonVars, linkVars, faults>>

\* The insert of the answer.  A failed insert goes to saveError, also when the
\* database applied it and only the acknowledgement was lost.
Record(i) ==
    /\ job[i] = "record"
    /\ \/ taskResult' = taskResult \cup {ReplyDoc(i)} /\ Return(i)
       \/ /\ DbFaults
          /\ taskResult' \in {taskResult, taskResult \cup {ReplyDoc(i)}}
          /\ Goto(i, "saveError")
          /\ UNCHANGED <<pool, wire>>
    /\ UNCHANGED <<owner, thread, daemonVars, back, faults>>

SaveError(i) ==
    /\ job[i] = "saveError"
    /\ \/ taskResult' = taskResult \cup {ErrorDoc(i)}
       \/ DbFaults /\ UNCHANGED taskResult
    /\ Return(i)
    /\ UNCHANGED <<owner, thread, daemonVars, back, faults>>

-----------------------------------------------------------------------------
(* The daemon of host h *)

\* The daemon's end of document i's connection closes.  An answer already sent
\* can still be read, and a server that gave up sees nothing more.
CloseLink(i) ==
    /\ wire' = [wire EXCEPT ![i] = "gone"]
    /\ back' = [back EXCEPT ![i] = IF @ = "none" THEN "eof" ELSE @]

\* Mutant: a goroutine per connection.
AcceptWhileBusy(h) ==
    /\ daemon[h] = "up" /\ backlog[h] # <<>>
    /\ backlog' = [backlog EXCEPT ![h] = Tail(@)]
    /\ \/ serving' = [serving EXCEPT ![h] = Head(backlog[h])] /\ UNCHANGED linkVars
       \/ CloseLink(Head(backlog[h])) /\ UNCHANGED serving
    /\ UNCHANGED <<serverVars, daemon, keyOk, runs, faults>>

\* Mutant: a peer that is no server is left connected.
AcceptKeepsStranger(h) ==
    /\ daemon[h] = "up" /\ serving[h] = None /\ backlog[h] # <<>>
    /\ backlog' = [backlog EXCEPT ![h] = Tail(@)]
    /\ serving' \in {[serving EXCEPT ![h] = Head(backlog[h])], serving}
    /\ UNCHANGED <<serverVars, linkVars, daemon, keyOk, runs, faults>>

\* Accept, then isServer, which asks the web console for the server list (and
\* keeps the old one when that fails): the peer is on it or is turned away.
Accept(h) ==
    /\ daemon[h] = "up" /\ serving[h] = None /\ backlog[h] # <<>>
    /\ backlog' = [backlog EXCEPT ![h] = Tail(@)]
    /\ \/ serving' = [serving EXCEPT ![h] = Head(backlog[h])] /\ UNCHANGED linkVars
       \/ CloseLink(Head(backlog[h])) /\ UNCHANGED serving
    /\ UNCHANGED <<serverVars, daemon, keyOk, runs, faults>>

\* ReadBytes ends without a line, or the line does not decrypt: no answer.
Reject(h) ==
    LET i == serving[h] IN
    /\ daemon[h] = "up" /\ i # None
    /\ wire[i] = "closed" \/ (wire[i] = "command" /\ ~keyOk[h])
    /\ CloseLink(i)
    /\ serving' = [serving EXCEPT ![h] = None]
    /\ UNCHANGED <<serverVars, daemon, keyOk, backlog, runs, faults>>

\* The daemon process of h ends: the kernel ends its connections.  When the
\* whole host vanishes (silent) the servers are told nothing.
DaemonEnds(h, after, silent) ==
    /\ daemon' = [daemon EXCEPT ![h] = after]
    /\ wire' = [i \in Items |-> IF i \in Linked(h) THEN "gone" ELSE wire[i]]
    /\ back' = [i \in Items |->
                    IF i \in Linked(h) /\ ~silent /\ back[i] = "none" THEN "eof" ELSE back[i]]
    /\ backlog' = [backlog EXCEPT ![h] = <<>>]
    /\ serving' = [serving EXCEPT ![h] = None]

\* Task.Run.  "quit" panics and "uninstall" exits, so neither is answered.  The
\* service manager starts the daemon again, unless it was really uninstalled
\* (UnInstallALL exits whether or not Service.Uninstall worked).
Run(h) ==
    LET i == serving[h] IN
    /\ daemon[h] = "up" /\ i # None
    /\ wire[i] = "command" /\ keyOk[h]
    /\ runs' = [runs EXCEPT ![i] = @ + 1]
    /\ \/ KindOf[i] = "uninstall" /\ DaemonEnds(h, "removed", FALSE)
       \/ KindOf[i] \in ExitKinds /\ DaemonEnds(h, "down", FALSE)
       \/ /\ KindOf[i] \notin ExitKinds
          /\ wire' = [wire EXCEPT ![i] = "ran"]
          /\ UNCHANGED <<daemon, backlog, serving, back>>
    /\ UNCHANGED <<serverVars, keyOk, faults>>

\* conn.Write of the marshalled Result, then the deferred Close.
Answer(h) ==
    LET i == serving[h] IN
    /\ daemon[h] = "up" /\ i # None
    /\ wire[i] = "ran"
    /\ wire' = [wire EXCEPT ![i] = "gone"]
    /\ back' = [back EXCEPT ![i] = IF @ = "none" THEN "answer" ELSE @]
    /\ serving' = [serving EXCEPT ![h] = None]
    /\ UNCHANGED <<serverVars, daemon, keyOk, backlog, runs, faults>>

\* The service manager starts the daemon; WaitThread fetches the key once.
DaemonStart(h) ==
    /\ daemon[h] = "down"
    /\ daemon' = [daemon EXCEPT ![h] = "up"]
    /\ \E ok \in BOOLEAN : keyOk' = [keyOk EXCEPT ![h] = ok]
    /\ UNCHANGED <<serverVars, linkVars, backlog, serving, runs, faults>>

-----------------------------------------------------------------------------
(* Faults *)

Fault == faults < MaxFaults /\ faults' = faults + 1

DaemonCrash(h) ==
    /\ Fault
    /\ daemon[h] = "up"
    /\ \E silent \in {FALSE, SilentLoss} : DaemonEnds(h, "down", silent)
    /\ UNCHANGED <<serverVars, keyOk, runs>>

\* Everything the server process held is lost: the document its TaskThread had
\* popped and those of its goroutines.  A command already written still arrives.
ServerCrash(s) ==
    /\ Fault
    /\ thread[s] # "down"
    /\ thread' = [thread EXCEPT ![s] = "down"]
    /\ pool' = [pool EXCEPT ![s] = 0]
    /\ job' = [i \in Items |->
                 IF owner[i] = s /\ job[i] \in Sending \cup {"popped"} THEN "lost" ELSE job[i]]
    /\ \E silent \in {FALSE, SilentLoss} :
        wire' = [i \in Items |->
                   IF owner[i] = s /\ wire[i] = "open"
                   THEN IF silent THEN "silent" ELSE "closed"
                   ELSE wire[i]]
    /\ UNCHANGED <<owner, taskResult, daemonVars, back>>

ServerStart(s) ==
    /\ thread[s] = "down"
    /\ thread' = [thread EXCEPT ![s] = "poll"]
    /\ UNCHANGED <<job, owner, pool, taskResult, daemonVars, linkVars, faults>>

\* The network resets the server's end while the daemon still holds the command.
LinkBreaks(i) ==
    /\ Fault
    /\ job[i] = "await" /\ back[i] = "none"
    /\ back' = [back EXCEPT ![i] = "eof"]
    /\ UNCHANGED <<serverVars, daemonVars, wire>>

-----------------------------------------------------------------------------
SendTask(i) == Dial(i) \/ DialFails(i) \/ Send(i) \/ EncryptFails(i)
               \/ ReadAnswer(i) \/ Record(i) \/ SaveError(i)
TaskThread(s) == Pop(s) \/ PopNothing(s) \/ Wake(s) \/ Spawn(s)
TcpPipe(h) == Accept(h) \/ Reject(h) \/ Run(h) \/ Answer(h)

Next ==
    \/ \E i \in Items : AddQueue(i) \/ SendTask(i) \/ LinkBreaks(i)
    \/ \E s \in Servers : TaskThread(s) \/ ServerCrash(s) \/ ServerStart(s)
    \/ \E h \in Hosts : TcpPipe(h) \/ DaemonStart(h) \/ DaemonCrash(h)

Spec == Init /\ [][Next]_vars

\* Threads and goroutines that can go on do.  A crashed server is started again
\* (ServerStart); a daemon need not be.  Popping is strongly fair because a
\* query that fails is tried again for ever.
Fairness ==
    /\ \A i \in Items : WF_vars(SendTask(i))
    /\ \A s \in Servers : /\ SF_vars(Pop(s))
                          /\ WF_vars(PopNothing(s) \/ Wake(s) \/ Spawn(s))
                          /\ WF_vars(ServerStart(s))
    /\ \A h \in Hosts : WF_vars(TcpPipe(h))

FairSpec == Spec /\ Fairness

-----------------------------------------------------------------------------
(* Properties *)

TypeOK ==
    /\ job \in [Items -> JobStates]
    /\ owner \in [Items -> Servers \cup {None}]
    /\ thread \in [Servers -> {"poll", "sleep", "acquire", "down"}]
    /\ pool \in [Servers -> 0..PoolSize]
    /\ wire \in [Items -> WireStates]
    /\ back \in [Items -> BackStates]
    /\ daemon \in [Hosts -> {"up", "down", "removed"}]
    /\ keyOk \in [Hosts -> BOOLEAN]
    /\ backlog \in [Hosts -> Seq(Items)]
    /\ serving \in [Hosts -> Items \cup {None}]
    /\ taskResult \subseteq Docs
    /\ runs \in [Items -> Nat]
    /\ faults \in 0..MaxFaults

\* Several servers pop one collection and links break at any point, yet no host
\* executes a queue document twice (TaskThread, sendTask, tcpPipe).
AtMostOnce == \A i \in Items : runs[i] <= 1

\* What the console shows as a host's answer is backed by an execution there: a
\* reply is stored only for a document that ran, and never for quit and
\* uninstall, which end the daemon before it can answer (tcpPipe, Task.Run).
ReplyIsEvidence ==
    \A i \in Items : ReplyDoc(i) \in taskResult =>
        /\ runs[i] = 1
        /\ HostOf[i] # None /\ KindOf[i] \notin ExitKinds

\* The semaphore neither leaks a slot nor loses one: its tokens are the live
\* goroutines, on every path out of sendTask (TaskThread, the deferred receive).
PoolAccounted == \A s \in Servers : pool[s] = Cardinality(Goroutines(s))

\* A host starts no command while another one's answer is outstanding, so quit
\* and uninstall, which end the daemon, never cut off a command half way, however
\* many servers push to it (taskServer.run handles a connection to its end).
OneCommandAtATime ==
    [][\A i, j \in Items :
          wire[i] = "ran" /\ HostOf[i] = HostOf[j] => runs'[j] = runs[j]]_vars

\* As long as MongoDB answers, sendTask files a document on every path, and a
\* queue document without an outcome had no host or went down with its server.
Accounted ==
    \A i \in Items :
        /\ job[i] = "done" => \E d \in taskResult : d.item = i
        /\ job[i] = "lost" => HostOf[i] = None \/ faults > 0

\* Every popped document comes to its end although sendTask reads with no
\* deadline: a daemon that quits, is busy or refuses never leaves it waiting.
Answered == \A i \in Items : job[i] = "queued" ~> job[i] \in {"done", "lost"}

\* The daemon's one accept loop is not held for ever by a connection whose
\* server failed or crashed between the dial and the write (tcpPipe, sendTask).
DaemonFreed ==
    \A h \in Hosts : serving[h] # None ~> serving[h] = None

-----------------------------------------------------------------------------
(* The promise this implements *)

Phase(i) == CASE job[i] \in {"absent", "queued"} -> job[i]
              [] job[i] = "lost" /\ owner[i] = None -> "refused"
              [] job[i] \in {"done", "lost"} /\ owner[i] # None -> "closed"
              [] OTHER -> "claimed"

Promise == INSTANCE TaskService
             WITH phase <- [i \in Items |-> Phase(i)],
                  replied <- {i \in Items : ReplyDoc(i) \in taskResult}

\* The servers, links and daemons together keep the promise of TaskService.
KeepsPromise == Promise!Spec
=============================================================================
