---------------------------- MODULE NoticeBoard ----------------------------
(***************************************************************************)
(* The collection "notice" between those who write it: the scan workers of *)
(* the servers, which raise alarms (server/safecheck/check.go), and the    *)
(* console, where an operator handles and ignores them and ends the watch  *)
(* ("learn") mode (web/models/notice.go, web/controllers/notice.go).       *)
(*                                                                         *)
(* An alarm is what the collection's unique index and the search for       *)
(* ignored notices see of a warning: the host, and its type and text,      *)
(* which are one value of Info here.  Source and level are not in either.  *)
(***************************************************************************)
EXTENDS Integers, FiniteSets

CONSTANTS
    Server,     \* Server processes
    Worker,     \* goroutines of ScanMonitorThread
    WorkerOf,   \* the server a worker runs in
    Ip,         \* hosts
    Info,       \* type and text of a warning
    Handler,    \* requests the console can serve at the same time
    MaxOps,     \* bound: operations of the console
    MaxFaults   \* bound: failed queries, crashes

ASSUME NoticeAssumption ==
    /\ IsFiniteSet(Worker)
    /\ WorkerOf \in [Worker -> Server]
    /\ MaxOps \in Nat /\ MaxFaults \in Nat

VARIABLES
    notice,     \* the documents of the collection
    made,       \* how many were ever made: the next ObjectId
    now,        \* the last value time.Now() gave to a field "uptime"
    learn,      \* "learn" of the configuration the console edits
    copy,       \* Config.Learn of each server
    worker,     \* where each worker is
    request,    \* what each request of the console is doing
    alerts,     \* history: calls of sendNotice per alarm
    closed,     \* history: how often an open notice of the alarm was closed
    due,        \* history: openings of the ignored alarm still to be expected
    ops, faults \* the two bounds' counters

board   == <<notice, made>>
config  == <<learn, copy>>
history == <<alerts, closed, due>>
vars == <<board, now, config, worker, request, history, ops, faults>>

Open    == 0    \* status: not handled yet
Handled == 1
Ignored == 2
Learnt  == 4    \* what an upsert of status 3 with $inc leaves
Never   == 0    \* a document without the field "uptime"

Alarm == [ip: Ip, info: Info]
Notice == [id: Nat, alarm: Alarm, status: {Open, Handled, Ignored, Learnt}, uptime: Nat]

Idle == [at |-> "idle"]
Raised(at, a) == [at |-> at, alarm |-> a]
WorkerState == {Idle} \cup [at: {"insert", "alert"}, alarm: Alarm]
RequestState ==
    {Idle} \cup [at: {"update"}, todo: SUBSET Nat, from: {Open, Learnt}, to: {Open, Handled, Ignored}]
           \cup [at: {"ignore"}, id: Nat]
           \cup [at: {"list"}]
           \cup [at: {"purge"}, left: Nat]

Of(a, status) == {n \in notice : n.alarm = a /\ n.status = status}
Watched(n) == n.status > 2

\* Mutant of Taken: initDB without its index.
NeverTaken(a, status, uptime) == FALSE

\* The unique index (ip, info, type, status, uptime) refuses such a document.
Taken(a, status, uptime) ==
    \E n \in notice : n.alarm = a /\ n.status = status /\ n.uptime = uptime

Insert(a, status) ==
    /\ notice' = notice \cup
         {[id |-> made + 1, alarm |-> a, status |-> status, uptime |-> Never]}
    /\ made' = made + 1

\* The workers that found the alarm not ignored and have not inserted it.
Counted(a) == {w \in Worker : worker[w] = Raised("insert", a)}

\* The ignored alarm has k openings more before it: a notice of it was opened,
\* or will be that could not when it was ignored.
Owe(a, k) == IF Of(a, Ignored) = {} THEN due ELSE [due EXCEPT ![a] = @ + k]

\* An update of one document; "uptime" is its new value.
Change(n, status, uptime) ==
    /\ notice' = (notice \ {n}) \cup {[n EXCEPT !.status = status, !.uptime = uptime]}
    /\ closed' = IF n.status = Open /\ status # Open
                 THEN [closed EXCEPT ![n.alarm] = @ + 1] ELSE closed
    /\ due' = IF status = Ignored /\ Of(n.alarm, Ignored) = {}
              THEN [due EXCEPT ![n.alarm] = Cardinality(Counted(n.alarm)) +
                                            Cardinality(Of(n.alarm, Learnt) \ {n})]
              ELSE IF status = Open THEN Owe(n.alarm, -1) ELSE due
    /\ UNCHANGED made

Init ==
    /\ notice = {} /\ made = 0 /\ now = Never
    /\ learn = TRUE /\ copy = [s \in Server |-> TRUE]
    /\ worker = [w \in Worker |-> Idle]
    /\ request = [h \in Handler |-> Idle]
    /\ alerts = [a \in Alarm |-> 0] /\ closed = [a \in Alarm |-> 0]
    /\ due = [a \in Alarm |-> 0]
    /\ ops = 0 /\ faults = 0

Fault == faults < MaxFaults /\ faults' = faults + 1
Operation == ops < MaxOps /\ ops' = ops + 1

----------------------------------------------------------------------------
(* Workers *)

\* Mutant of Record: a selector without the status counts up what is there.
RecordCountsUp(w, a) ==
    /\ worker[w] = Idle
    /\ copy[WorkerOf[w]]
    /\ \/ \E n \in notice : n.alarm = a /\ Change(n, n.status + 1, n.uptime)
       \/ /\ Of(a, Learnt) = {} /\ Insert(a, Learnt)
          /\ due' = Owe(a, 1) /\ UNCHANGED closed
    /\ UNCHANGED <<now, config, worker, request, alerts, ops, faults>>

\* warning() in watch mode: the selector asks for status 3, which no document
\* has, so that each alarm is inserted once and then refused by the index.
Record(w, a) ==
    /\ worker[w] = Idle
    /\ copy[WorkerOf[w]]
    /\ ~ Taken(a, Learnt, Never)
    /\ Insert(a, Learnt)
    /\ due' = Owe(a, 1)
    /\ UNCHANGED <<now, config, worker, request, alerts, closed, ops, faults>>

\* Mutant of Count: the status of handled notices is searched for.
CountHandled(w, a) ==
    /\ worker[w] = Idle
    /\ ~ copy[WorkerOf[w]]
    /\ Of(a, Handled) = {}
    /\ worker' = [worker EXCEPT ![w] = Raised("insert", a)]
    /\ UNCHANGED <<board, now, config, request, history, ops, faults>>

\* warning() otherwise: count what was ignored, and return if there is any.
Count(w, a) ==
    /\ worker[w] = Idle
    /\ ~ copy[WorkerOf[w]]
    /\ Of(a, Ignored) = {}
    /\ worker' = [worker EXCEPT ![w] = Raised("insert", a)]
    /\ UNCHANGED <<board, now, config, request, history, ops, faults>>

\* The error of Count is dropped, and its n is 0.
CountFails(w, a) ==
    /\ worker[w] = Idle
    /\ ~ copy[WorkerOf[w]]
    /\ Fault
    /\ worker' = [worker EXCEPT ![w] = Raised("insert", a)]
    /\ due' = Owe(a, 1)
    /\ UNCHANGED <<board, now, config, request, alerts, closed, ops>>

\* Mutant of InsertOpen: the error of Insert does not keep it from sendNotice.
InsertTells(w) ==
    /\ worker[w].at = "insert"
    /\ LET a == worker[w].alarm
       IN  /\ \/ ~ Taken(a, Open, Never) /\ Insert(a, Open)
              \/ Taken(a, Open, Never) /\ UNCHANGED board
           /\ worker' = [worker EXCEPT ![w] = Raised("alert", a)]
    /\ UNCHANGED <<now, config, request, history, ops, faults>>

InsertOpen(w) ==
    /\ worker[w].at = "insert"
    /\ LET a == worker[w].alarm
       IN  \/ /\ ~ Taken(a, Open, Never)
              /\ Insert(a, Open)
              /\ worker' = [worker EXCEPT ![w] = Raised("alert", a)]
              /\ due' = Owe(a, -1)
           \/ /\ Taken(a, Open, Never)
              /\ worker' = [worker EXCEPT ![w] = Idle]
              /\ UNCHANGED <<board, due>>
    /\ UNCHANGED <<now, config, request, alerts, closed, ops, faults>>

InsertFails(w) ==
    /\ worker[w].at = "insert"
    /\ Fault
    /\ worker' = [worker EXCEPT ![w] = Idle]
    /\ UNCHANGED <<board, now, config, request, history, ops>>

\* sendNotice
Alert(w) ==
    /\ worker[w].at = "alert"
    /\ alerts' = [alerts EXCEPT ![worker[w].alarm] = @ + 1]
    /\ worker' = [worker EXCEPT ![w] = Idle]
    /\ UNCHANGED <<board, now, config, request, closed, due, ops, faults>>

----------------------------------------------------------------------------
(* Servers: the heartbeat copies the configuration every 30 seconds. *)

Refresh(s) ==
    /\ copy' = [copy EXCEPT ![s] = learn]
    /\ UNCHANGED <<board, now, learn, worker, request, history, ops, faults>>

\* The errors of the queries are dropped, and what was not read is FALSE.
RefreshFails(s) ==
    /\ Fault
    /\ copy' = [copy EXCEPT ![s] = FALSE]
    /\ UNCHANGED <<board, now, learn, worker, request, history, ops>>

ServerRestarts(s) ==
    /\ Fault
    /\ worker' = [w \in Worker |-> IF WorkerOf[w] = s THEN Idle ELSE worker[w]]
    /\ copy' = [copy EXCEPT ![s] = learn]
    /\ UNCHANGED <<board, now, learn, request, history, ops>>

----------------------------------------------------------------------------
(* Console *)

SetLearn(on) ==
    /\ Operation
    /\ learn # on
    /\ learn' = on
    /\ UNCHANGED <<board, now, copy, worker, request, history, faults>>

\* The buttons of the notice list: handled, ignored.
ChangeStatusbyId(n, to) ==
    /\ Operation
    /\ ~ Watched(n)
    /\ now' = now + 1
    /\ Change(n, to, now + 1)
    /\ UNCHANGED <<config, worker, request, alerts, faults>>

\* UpdateAll finds the documents and changes them one after the other.
UpdateAll(h, from, to) ==
    /\ Operation
    /\ request[h] = Idle
    /\ request' = [request EXCEPT ![h] =
         [at |-> "update", from |-> from, to |-> to,
          todo |-> {n.id : n \in {m \in notice : m.status = from}}]]
    /\ UNCHANGED <<board, now, config, worker, history, faults>>

ChangeAll(h, to) == UpdateAll(h, Open, to)    \* "all" of the notice list
LearnEnding(h) == UpdateAll(h, Learnt, Open)  \* "all_learn", status 0

\* Mutant of UpdateNext: what was found is changed, whatever became of it.
UpdateFound(h) ==
    /\ request[h].at = "update"
    /\ LET r == request[h]
       IN \E i \in r.todo :
            /\ request' = [request EXCEPT ![h].todo = @ \ {i}]
            /\ \/ \E n \in notice :
                    /\ n.id = i /\ ~ Taken(n.alarm, r.to, n.uptime)
                    /\ Change(n, r.to, n.uptime)
               \/ /\ \A n \in notice : n.id # i
                  /\ UNCHANGED <<board, closed, due>>
    /\ UNCHANGED <<now, config, worker, alerts, ops, faults>>

\* One document: skipped when it does not match any more.
UpdateNext(h) ==
    /\ request[h].at = "update"
    /\ LET r == request[h]
       IN \E i \in r.todo :
            /\ request' = [request EXCEPT ![h].todo = @ \ {i}]
            /\ \/ \E n \in notice :
                    /\ n.id = i /\ n.status = r.from
                    /\ ~ Taken(n.alarm, r.to, n.uptime)
                    /\ Change(n, r.to, n.uptime)
               \/ /\ ~ \E n \in notice : n.id = i /\ n.status = r.from
                  /\ UNCHANGED <<board, closed, due>>
    /\ UNCHANGED <<now, config, worker, alerts, ops, faults>>

\* The index refuses a document: UpdateAll stops there with an error.
\* LearnEnding answers true all the same and starts doneDuplicateErr.
UpdateRefused(h) ==
    /\ request[h].at = "update"
    /\ LET r == request[h]
       IN /\ \E n \in notice : /\ n.id \in r.todo /\ n.status = r.from
                               /\ Taken(n.alarm, r.to, n.uptime)
          /\ request' = [request EXCEPT ![h] =
                           IF r.from = Learnt THEN [at |-> "list"] ELSE Idle]
    /\ UNCHANGED <<board, now, config, worker, history, ops, faults>>

UpdateEnds(h) ==
    /\ request[h].at = "update"
    /\ request[h].todo = {}
    /\ request' = [request EXCEPT ![h] = Idle]
    /\ UNCHANGED <<board, now, config, worker, history, ops, faults>>

\* doneDuplicateErr: FindAll
ListDuplicates(h) ==
    /\ request[h].at = "list"
    /\ request' = [request EXCEPT ![h] =
                     [at |-> "purge", left |-> Cardinality({n \in notice : Watched(n)})]]
    /\ UNCHANGED <<board, now, config, worker, history, ops, faults>>

\* For each of them: UpdateByID wraps the "$set" into another one, which
\* MongoDB refuses, and Remove takes away all that match the selector.
Purge(h) ==
    /\ request[h].at = "purge"
    /\ \/ /\ request[h].left > 0
          /\ notice' = {n \in notice : ~ Watched(n)}
          /\ request' = [request EXCEPT ![h].left = @ - 1]
       \/ /\ request[h].left = 0
          /\ request' = [request EXCEPT ![h] = Idle]
          /\ UNCHANGED notice
    /\ UNCHANGED <<made, now, config, worker, history, ops, faults>>

\* "learn": one notice of this text is ignored, the one changed last if several.
\* The page offers it for texts that one watched notice has.
FindLearnt(h, info) ==
    /\ Operation
    /\ request[h] = Idle
    /\ LET found == {n \in notice : n.alarm.info = info}
       IN /\ Cardinality({n \in found : Watched(n)}) = 1
          /\ \E n \in found :
               /\ \A m \in found : m.uptime <= n.uptime
               /\ request' = [request EXCEPT ![h] = [at |-> "ignore", id |-> n.id]]
    /\ UNCHANGED <<board, now, config, worker, history, faults>>

IgnoreLearnt(h) ==
    /\ request[h].at = "ignore"
    /\ \/ \E n \in notice :
            /\ n.id = request[h].id
            /\ now' = now + 1
            /\ Change(n, Ignored, now + 1)
       \/ /\ \A n \in notice : n.id # request[h].id
          /\ UNCHANGED <<board, now, closed, due>>
    /\ request' = [request EXCEPT ![h] = Idle]
    /\ UNCHANGED <<config, worker, alerts, ops, faults>>

\* DELETE, sent after a text of the watch mode went to the white list.
Delete(info) ==
    /\ Operation
    /\ \E n \in notice : n.alarm.info = info /\ Watched(n)
    /\ notice' = {n \in notice : ~ (n.alarm.info = info /\ Watched(n))}
    /\ UNCHANGED <<made, now, config, worker, request, history, faults>>

\* The console or its connection to the database ends.
RequestDies(h) ==
    /\ Fault
    /\ request[h] # Idle
    /\ request' = [request EXCEPT ![h] = Idle]
    /\ UNCHANGED <<board, now, config, worker, history, ops>>

----------------------------------------------------------------------------
WorkerNext(w) ==
    \/ \E a \in Alarm : Record(w, a) \/ Count(w, a) \/ CountFails(w, a)
    \/ InsertOpen(w) \/ InsertFails(w) \/ Alert(w)

ServerNext(s) == Refresh(s) \/ RefreshFails(s) \/ ServerRestarts(s)

ConsoleNext(h) ==
    \/ \E to \in {Handled, Ignored} : ChangeAll(h, to)
    \/ LearnEnding(h)
    \/ UpdateNext(h) \/ UpdateRefused(h) \/ UpdateEnds(h)
    \/ ListDuplicates(h) \/ Purge(h)
    \/ \E info \in Info : FindLearnt(h, info)
    \/ IgnoreLearnt(h) \/ RequestDies(h)

Next ==
    \/ \E w \in Worker : WorkerNext(w)
    \/ \E s \in Server : ServerNext(s)
    \/ \E h \in Handler : ConsoleNext(h)
    \/ \E on \in BOOLEAN : SetLearn(on)
    \/ \E n \in notice, to \in {Handled, Ignored} : ChangeStatusbyId(n, to)
    \/ \E info \in Info : Delete(info)

Spec == Init /\ [][Next]_vars

----------------------------------------------------------------------------
(* Properties *)

\* Types.  An open notice, unlike one handled by its id, has no "uptime".
TypeOK ==
    /\ notice \in SUBSET Notice /\ IsFiniteSet(notice)
    /\ made \in Nat /\ now \in Nat
    /\ learn \in BOOLEAN /\ copy \in [Server -> BOOLEAN]
    /\ worker \in [Worker -> WorkerState]
    /\ request \in [Handler -> RequestState]
    /\ alerts \in [Alarm -> Nat] /\ closed \in [Alarm -> Nat] /\ due \in [Alarm -> Int]
    /\ ops \in 0 .. MaxOps /\ faults \in 0 .. MaxFaults

\* The list of open notices shows an alarm once, however many workers raise it
\* and however often it was handled, ignored or learnt before: two of the
\* index's null values meet for every open notice (warning, LearnEnding).
OneOpen == \A a \in Alarm : Cardinality(Of(a, Open)) <= 1

\* The operator is told of an alarm again only after the notice of it that was
\* open had been closed (the unique index guards sendNotice in warning).
AlertedOncePerNotice == \A a \in Alarm : alerts[a] <= closed[a] + 1

\* What the operator has handled or ignored neither comes back nor disappears,
\* whatever UpdateAll, doneDuplicateErr and Delete do beside it.
SettledStays ==
    [][\A n \in notice : n.status \in {Handled, Ignored} =>
         \E m \in notice' : m.id = n.id /\ m.status \in {Handled, Ignored}]_vars

\* Once an alarm is ignored, a notice of it is opened only by workers that had
\* counted before or whose count failed (warning's two queries), and by the end
\* of the watch mode from a document learnt (LearnEnding), each at most once.
IgnoreSettles == \A a \in Alarm : due[a] >= 0

\* config.tpl:93, "move the remaining alarms to the unhandled ones": false, if
\* one is refused by the index all of them are removed.
LearntIsKept ==
    [][\A n \in notice :
         (~ \E m \in notice' : m.id = n.id) => \E info \in Info : Delete(info)]_vars
=============================================================================
