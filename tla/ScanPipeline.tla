--------------------------- MODULE ScanPipeline ----------------------------
(***************************************************************************)
(* What a server does with a report: the RPC handler PutInfo saves it      *)
(* (action/save.go), counts its items (action/statistics.go) and queues it *)
(* on ScanChan; the goroutines of ScanMonitorThread check it item by item  *)
(* (safecheck/check.go) with a configuration and rules the heartbeat       *)
(* replaces at any moment (models/common.go).                              *)
(*                                                                         *)
(* rpcx runs every call in a goroutine of its own, so a handler is named   *)
(* by its report.  An alarm is a call of Check.warning; what becomes of it *)
(* is the subject of NoticeBoard.                                          *)
(***************************************************************************)
EXTENDS Integers, Sequences, FiniteSets

CONSTANTS
    Message,    \* reports of the agents
    Worker,     \* goroutines of ScanMonitorThread
    Item,       \* values of the fields rules and statistics look at
    Host,       \* the host a report is of
    Type,       \* its type
    Data,       \* its items
    Rule,       \* the rules of the collection "rules"
    CountRule,  \* those with the condition "count": "1"
    Dangerous,  \* addresses and hashes the intelligence API reports
    Pattern,    \* the types and items the other conditions of a rule accept
    ScanCap,    \* capacity of ScanChan
    EsCap,      \* capacity of esChan
    Stored,     \* what the collection "config" may hold when the server starts
    MaxSent,    \* bound: reports sent, of those in Message
    MaxEvents   \* bound: failed queries, crashes and changes an operator makes

\* ResultSave: these go to Elasticsearch, the others to the collection "info".
EsTypes == {"loginlog", "connection", "process", "file"}
\* ResultStat, mainMapping: the types that are counted.
MainMapping == {"process", "userlist", "listening", "connection", "loginlog",
                "startup", "crontab", "service"}
Types == EsTypes \cup MainMapping \cup {"processlist"}

KeyOf(m, i) == <<Type[m], Data[m][i]>>      \* a document of "statistics"
Items(m)    == 1..Len(Data[m])
Key         == UNION {{KeyOf(m, i) : i \in Items(m)} : m \in Message}
InfoKey(m)  == <<Host[m], Type[m]>>         \* a document of "info"

\* An agent sends no empty list (agent/client/agent.go:288, 265).
ASSUME ScanAssumption ==
    /\ Type \in [Message -> Types]
    /\ Data \in [Message -> Seq(Item) \ {<<>>}]
    /\ CountRule \subseteq Rule /\ Dangerous \subseteq Item
    /\ "blacklist" \notin Rule /\ "intelligence" \notin Rule
    /\ Pattern \in [Rule -> SUBSET (Types \X Item)]
    /\ Stored \subseteq [learn: BOOLEAN, black: SUBSET Item, white: SUBSET Item]
    /\ ScanCap \in Nat \ {0} /\ EsCap \in Nat \ {0}
    /\ MaxSent \in Nat /\ MaxEvents \in Nat

VARIABLES
    put,        \* where the handler of each report is
    at,         \* the item it is at
    found,      \* the Count() it is to act on was positive
    info,       \* "info": per host and type, whose data the documents hold
    statistics, \* "statistics": the field count of the documents of a key
    esMade,     \* esChan was made
    esChan,     \* how many entries it holds
    ScanChan,
    worker,     \* where each worker is
    db,         \* the collection "config", as far as it is looked at here
    enabled,    \* the rules enabled in the database
    Config,     \* the server's copy
    RuleDB,
    heartbeat,  \* the step of Heartbeat's turn
    res,        \* local variables of setConfig
    loading,    \* what setRules decodes into RuleDB
    alarms,     \* history: calls of warning
    checked,    \* history: reports a worker has finished
    gone,       \* history: reports lost with the server's process
    failed,     \* history: queries that failed, with report and item
    before,     \* history: reports answered when a report was sent
    events      \* the bound's counter

store  == <<info, statistics>>
source == <<db, enabled>>
copies == <<Config, RuleDB, heartbeat, res, loading>>
rpc    == <<put, at, found, before>>
es     == <<esMade, esChan>>
scan   == <<worker, alarms, checked>>
vars   == <<rpc, store, es, ScanChan, scan, source, copies, gone, failed, events>>

Fields == <<"learn", "black", "white">>     \* server, blacklist, whitelist
Settings == [learn: BOOLEAN, black: SUBSET Item, white: SUBSET Item]
Zero == [learn |-> FALSE, black |-> {}, white |-> {}]

Idle == [pc |-> "idle"]
Source == {"blacklist", "intelligence"} \cup Rule
\* A worker at an item of a report; "past": the rules it has looked at.
Checking == [pc: {"black", "white", "rules", "intel", "ask"},
             m: Message, i: Nat \ {0}, past: SUBSET Rule]
\* One that has found something; "watched": Config.Learn when it did.
Warning == [pc: {"warn"}, m: Message, i: Nat \ {0}, past: SUBSET Rule,
            source: Source, watched: BOOLEAN]
\* "shown": warning did not find the watch mode on.
Alarm == [m: Message, i: Nat \ {0}, source: Source, watched: BOOLEAN, shown: BOOLEAN]

TypeOK ==
    /\ put \in [Message -> {"unsent", "save", "keep", "stat", "write", "push", "done"}]
    /\ at \in [Message -> Nat] /\ \A m \in Message : at[m] \in Items(m)
    /\ found \in [Message -> BOOLEAN]
    /\ DOMAIN info = {InfoKey(m) : m \in Message}
    /\ \A k \in DOMAIN info : info[k] \in Seq(Message)
    /\ statistics \in [Key -> Seq(Nat \ {0})]
    /\ esMade \in BOOLEAN /\ esChan \in 0..EsCap
    /\ ScanChan \in Seq(Message) /\ Len(ScanChan) <= ScanCap
    /\ worker \in [Worker -> {Idle} \cup Checking \cup Warning]
    /\ \A w \in Worker : worker[w] # Idle => worker[w].i \in Items(worker[w].m)
    /\ db \in Settings /\ Config \in Settings /\ res \in Settings
    /\ enabled \subseteq Rule /\ RuleDB \subseteq Rule /\ loading \subseteq Rule
    /\ heartbeat \in 1..6
    /\ alarms \subseteq Alarm
    /\ checked \subseteq Message /\ gone \subseteq Message
    /\ failed \subseteq Message \X Nat \X {"count", "write"}
    /\ before \in [Message -> SUBSET Message]
    /\ events \in 0..MaxEvents

Init ==
    /\ put = [m \in Message |-> "unsent"]
    /\ at = [m \in Message |-> 1]
    /\ found = [m \in Message |-> FALSE]
    /\ info = [k \in {InfoKey(m) : m \in Message} |-> <<>>]
    /\ statistics = [k \in Key |-> <<>>]
    /\ esMade \in BOOLEAN           \* es.go: init returns early when IndexNames fails
    /\ esChan = 0
    /\ ScanChan = <<>>
    /\ worker = [w \in Worker |-> Idle]
    /\ db \in Stored /\ Config = db
    /\ enabled = Rule /\ RuleDB = Rule
    /\ heartbeat = 1
    /\ res = Zero
    /\ loading = {}
    /\ alarms = {} /\ checked = {} /\ gone = {} /\ failed = {}
    /\ before = [m \in Message |-> {}]
    /\ events = 0

Event == events < MaxEvents /\ events' = events + 1
Fails(m, i, query) == Event /\ failed' = failed \cup {<<m, i, query>>}
Works == UNCHANGED <<failed, events>>

---------------------------------------------------------------------------
(* PutInfo, the handler of report m.  A server that died takes it along.   *)

At(m, pc) == put[m] = pc /\ m \notin gone
Goto(m, pc) == put' = [put EXCEPT ![m] = pc]

Answered == {m \in Message : put[m] = "done"}

\* The agent calls PutInfo and does not wait for the answer of earlier calls.
Send(m) ==
    /\ At(m, "unsent") /\ Cardinality({n \in Message : put[n] # "unsent"}) < MaxSent
    /\ Goto(m, "save")
    /\ before' = [before EXCEPT ![m] = Answered]
    /\ UNCHANGED <<at, found, store, es, ScanChan, scan, source, copies, gone, failed, events>>

\* Mutant of AfterSave: the report is queued before its items are counted.
AfterSaveQueues(m) == "push"

\* ResultStat returns at once for types it does not count.
AfterSave(m) == IF Type[m] \in MainMapping THEN "stat" ELSE "push"

\* InsertEs: a logon report gives one entry per item, the others one; the
\* send waits for room, and forever when esChan was never made.
SaveEs(m) ==
    /\ At(m, "save") /\ Type[m] \in EsTypes
    /\ esMade /\ esChan < EsCap
    /\ esChan' = esChan + 1
    /\ IF Type[m] = "loginlog" /\ at[m] < Len(Data[m])
         THEN at' = [at EXCEPT ![m] = @ + 1] /\ UNCHANGED put
         ELSE at' = [at EXCEPT ![m] = 1] /\ Goto(m, AfterSave(m))
    /\ UNCHANGED <<found, before, store, esMade, ScanChan, scan, source, copies, gone, failed, events>>

\* InsertThread hands an entry to the bulk processor.
InsertThread ==
    /\ esChan > 0
    /\ esChan' = esChan - 1
    /\ UNCHANGED <<rpc, store, esMade, ScanChan, scan, source, copies, gone, failed, events>>

\* Mutant of Found: an off-by-one in the comparison.
FoundMany(m, count) == found' = [found EXCEPT ![m] = count > 1]

\* A count that fails is taken for 0.
Found(m, count) == found' = [found EXCEPT ![m] = count >= 1]

SaveCount(m) ==
    /\ At(m, "save") /\ Type[m] \notin EsTypes
    /\ Goto(m, "keep")
    /\ \/ Found(m, Len(info[InfoKey(m)])) /\ Works
       \/ Found(m, 0) /\ Fails(m, 0, "count")
    /\ UNCHANGED <<at, before, store, es, ScanChan, scan, source, copies, gone>>

\* An update changes the first document that fits.
SaveWrite(m) ==
    /\ At(m, "keep")
    /\ Goto(m, AfterSave(m))
    /\ \/ info' = [info EXCEPT ![InfoKey(m)] =
                     IF found[m] THEN [@ EXCEPT ![1] = m] ELSE Append(@, m)] /\ Works
       \/ Fails(m, 0, "write") /\ UNCHANGED info
    /\ found' = [found EXCEPT ![m] = FALSE]
    /\ UNCHANGED <<at, before, statistics, es, ScanChan, scan, source, copies, gone>>

StatCount(m) ==
    /\ At(m, "stat")
    /\ Goto(m, "write")
    /\ \/ Found(m, Len(statistics[KeyOf(m, at[m])])) /\ Works
       \/ Found(m, 0) /\ Fails(m, at[m], "count")
    /\ UNCHANGED <<at, before, store, es, ScanChan, scan, source, copies, gone>>

\* Mutant of Counted: an upsert that sets the count to 1 instead of the insert.
CountedUpserts(counts, known) ==
    IF counts = <<>> THEN <<1>> ELSE [counts EXCEPT ![1] = IF known THEN @ + 1 ELSE 1]

\* $inc on the first document, or an insert with the count 1.
Counted(counts, known) ==
    IF known THEN [counts EXCEPT ![1] = @ + 1] ELSE Append(counts, 1)

StatWrite(m) ==
    /\ At(m, "write")
    /\ \/ statistics' = [statistics EXCEPT ![KeyOf(m, at[m])] = Counted(@, found[m])] /\ Works
       \/ Fails(m, at[m], "write") /\ UNCHANGED statistics
    /\ IF at[m] < Len(Data[m])
         THEN at' = [at EXCEPT ![m] = @ + 1] /\ Goto(m, "stat")
         ELSE Goto(m, "push") /\ UNCHANGED at
    /\ found' = [found EXCEPT ![m] = FALSE]
    /\ UNCHANGED <<before, info, es, ScanChan, scan, source, copies, gone>>

Push(m) ==
    /\ At(m, "push")
    /\ Len(ScanChan) < ScanCap
    /\ ScanChan' = Append(ScanChan, m)
    /\ Goto(m, "done")
    /\ UNCHANGED <<at, found, before, store, es, scan, source, copies, gone, failed, events>>

---------------------------------------------------------------------------
(* ScanMonitorThread: worker w runs the checks on the items of a report.   *)

Work(w, pc) == worker[w].pc = pc
ItemOf(w) == Data[worker[w].m][worker[w].i]

CheckAt(w, pc, i, past) ==
    worker' = [worker EXCEPT ![w] = [pc |-> pc, m |-> @.m, i |-> i, past |-> past]]
Move(w, pc) == CheckAt(w, pc, worker[w].i, {})

\* The call of warning.
Warn(w, by, past) ==
    worker' = [worker EXCEPT ![w] = [pc |-> "warn", m |-> @.m, i |-> @.i, past |-> past,
                                     source |-> by, watched |-> Config.learn]]

\* Mutant of NextItem: the loop runs one item too far.
NextItemBeyond(w) ==
    IF worker[w].i <= Len(Data[worker[w].m])
      THEN CheckAt(w, "black", worker[w].i + 1, {}) /\ UNCHANGED checked
      ELSE worker' = [worker EXCEPT ![w] = Idle] /\ checked' = checked \cup {worker[w].m}

\* The loop of Check.Run goes on with the next item, or ends.
NextItem(w) ==
    IF worker[w].i < Len(Data[worker[w].m])
      THEN CheckAt(w, "black", worker[w].i + 1, {}) /\ UNCHANGED checked
      ELSE /\ worker' = [worker EXCEPT ![w] = Idle]
           /\ checked' = checked \cup {worker[w].m}

Receive(w) ==
    /\ worker[w] = Idle /\ ScanChan # <<>>
    /\ worker' = [worker EXCEPT ![w] = [pc |-> "black", m |-> Head(ScanChan), i |-> 1, past |-> {}]]
    /\ ScanChan' = Tail(ScanChan)
    /\ UNCHANGED <<rpc, store, es, alarms, checked, source, copies, gone, failed, events>>

BlackFilter(w) ==
    /\ Work(w, "black")
    /\ IF ItemOf(w) \in Config.black THEN Warn(w, "blacklist", {}) ELSE Move(w, "white")
    /\ UNCHANGED <<rpc, store, es, ScanChan, alarms, checked, source, copies, gone, failed, events>>

\* Mutant of WhiteFilter: "return" for "continue", so that the items after it are not checked.
WhiteFilterReturns(w) ==
    /\ Work(w, "white")
    /\ worker' = [worker EXCEPT ![w] = IF ItemOf(w) \in Config.white THEN Idle ELSE [@ EXCEPT !.pc = "rules"]]
    /\ UNCHANGED <<rpc, store, es, ScanChan, alarms, checked, source, copies, gone, failed, events>>

WhiteFilter(w) ==
    /\ Work(w, "white")
    /\ IF ItemOf(w) \in Config.white THEN NextItem(w) ELSE Move(w, "rules") /\ UNCHANGED checked
    /\ UNCHANGED <<rpc, store, es, ScanChan, alarms, source, copies, gone, failed, events>>

\* The rules a worker's loop may find.  setRules decodes into the array the loop
\* reads, after zeroing each entry: those that were and those that become enabled.
Readable == IF heartbeat = 6 THEN RuleDB \cup loading ELSE RuleDB

\* Mutant of FirstSeen: the comparison is not with the rule's count only.
FirstSeenAtLeast(counts) == counts # <<>> /\ counts[1] >= 1

\* The condition "count", whose number is 1 in every rule of rules.json: the
\* first document's count is the one of the rule.
FirstSeen(counts) == counts # <<>> /\ counts[1] = 1

\* Rules with this condition are conjunctions ("and").
Fires(r, k, counts) ==
    k \in Pattern[r] /\ (r \in CountRule => Config.learn \/ FirstSeen(counts))

\* What rule r makes of the item, with what the query found of its count.  Its
\* reading of Config.Learn and the query are one step: if the mode changes between
\* them, what the query finds decides, which this misses only where nothing fires.
Judge(w, r, counts) ==
    LET past == worker[w].past \cup {r}
    IN  IF Fires(r, KeyOf(worker[w].m, worker[w].i), counts)
          THEN Warn(w, r, past) ELSE CheckAt(w, "rules", worker[w].i, past)

\* One turn of the loop, or its end.  While setRules decodes, the entry of a rule
\* may be overwritten before the loop is there.
Rules(w) ==
    /\ Work(w, "rules")
    /\ \/ \E r \in Readable \ worker[w].past :
            \/ Judge(w, r, statistics[KeyOf(worker[w].m, worker[w].i)]) /\ Works
            \/ /\ r \in CountRule /\ ~Config.learn
               /\ Judge(w, r, <<>>) /\ Fails(worker[w].m, worker[w].i, "count")
            \/ /\ heartbeat = 6
               /\ CheckAt(w, "rules", worker[w].i, worker[w].past \cup {r}) /\ Works
       \/ RuleDB \subseteq worker[w].past /\ Move(w, "intel") /\ Works
    /\ UNCHANGED <<rpc, store, es, ScanChan, alarms, checked, source, copies, gone>>

\* warning reads Config.Learn again, after the check did: it records what was
\* found, or shows it (NoticeBoard).  Then the check goes on behind its call.
warning(w) ==
    /\ Work(w, "warn")
    /\ alarms' = alarms \cup {[m |-> worker[w].m, i |-> worker[w].i, source |-> worker[w].source,
                               watched |-> worker[w].watched, shown |-> ~Config.learn]}
    /\ \/ /\ worker[w].source = "blacklist"
          /\ Move(w, "white") /\ UNCHANGED checked
       \/ /\ worker[w].source \in Rule
          /\ CheckAt(w, "rules", worker[w].i, worker[w].past) /\ UNCHANGED checked
       \/ worker[w].source = "intelligence" /\ NextItem(w)
    /\ UNCHANGED <<rpc, store, es, ScanChan, source, copies, gone, failed, events>>

\* Intelligence: addresses of connections and logons and hashes of files are
\* asked about, unless it is switched off, the address is a local one or it is
\* in "cache", the keys of the last minute.  Of these reasons only the outcome
\* is kept; nothing guards "cache", whose appends may be lost.
Intelligence(w) ==
    /\ Work(w, "intel")
    /\ \/ NextItem(w)
       \/ /\ Type[worker[w].m] \in {"connection", "loginlog", "file"}
          /\ Move(w, "ask") /\ UNCHANGED checked
    /\ UNCHANGED <<rpc, store, es, ScanChan, alarms, source, copies, gone, failed, events>>

\* The answer of the API, or none.
Ask(w) ==
    /\ Work(w, "ask")
    /\ \/ /\ ItemOf(w) \in Dangerous
          /\ Warn(w, "intelligence", {}) /\ UNCHANGED <<checked, events>>
       \/ ItemOf(w) \notin Dangerous /\ NextItem(w) /\ UNCHANGED events
       \/ NextItem(w) /\ Event
    /\ UNCHANGED <<rpc, store, es, ScanChan, alarms, source, copies, gone, failed>>

---------------------------------------------------------------------------
(* Heartbeat: setConfig queries a document for each field, then assigns;   *)
(* the first assignment replaces the whole of Config, the lists included.  *)
(* The queries are one step: what they find of a field is its value at some*)
(* moment, and no property compares two fields.                            *)

\* Mutant of Assigned: the last list is not assigned.
AssignedButOne(step) ==
    IF step = 2 THEN [Zero EXCEPT !.learn = res.learn]
    ELSE IF step = 3 THEN [Config EXCEPT !.black = res.black] ELSE Config

Assigned(step) ==
    IF step = 2 THEN [Zero EXCEPT !.learn = res.learn]
                ELSE [Config EXCEPT ![Fields[step - 1]] = res[Fields[step - 1]]]

\* What the queries leave when one fails: nothing of its document.
Partial == {[db EXCEPT ![Fields[i]] = Zero[Fields[i]]] : i \in 1..3}

QueryConfig ==
    /\ heartbeat = 1
    /\ heartbeat' = 2
    /\ \/ res' = db /\ UNCHANGED events
       \/ res' \in Partial /\ Event
    /\ UNCHANGED <<rpc, store, es, ScanChan, scan, source, Config, RuleDB, loading, gone, failed>>

AssignConfig ==
    /\ heartbeat \in 2..4
    /\ heartbeat' = heartbeat + 1
    /\ Config' = Assigned(heartbeat)
    /\ res' = IF heartbeat = 4 THEN Zero ELSE res
    /\ UNCHANGED <<rpc, store, es, ScanChan, scan, source, RuleDB, loading, gone, failed, events>>

QueryRules ==
    /\ heartbeat = 5
    /\ heartbeat' = 6
    /\ \/ loading' = enabled /\ UNCHANGED events
       \/ loading' \in SUBSET enabled /\ Event
    /\ UNCHANGED <<rpc, store, es, ScanChan, scan, source, Config, RuleDB, res, gone, failed>>

InstallRules ==
    /\ heartbeat = 6
    /\ heartbeat' = 1
    /\ RuleDB' = loading
    /\ loading' = {}
    /\ UNCHANGED <<rpc, store, es, ScanChan, scan, source, Config, res, gone, failed, events>>

---------------------------------------------------------------------------
(* The console, and the end of the server.                                 *)

AddOne(list, x) ==
    /\ Event /\ x \notin db[list]
    /\ db' = [db EXCEPT ![list] = @ \cup {x}]
    /\ UNCHANGED <<rpc, store, es, ScanChan, scan, enabled, copies, gone, failed>>

DelOne(list, x) ==
    /\ Event /\ x \in db[list]
    /\ db' = [db EXCEPT ![list] = @ \ {x}]
    /\ UNCHANGED <<rpc, store, es, ScanChan, scan, enabled, copies, gone, failed>>

EditByID ==
    /\ Event
    /\ db' = [db EXCEPT !.learn = ~@]
    /\ UNCHANGED <<rpc, store, es, ScanChan, scan, enabled, copies, gone, failed>>

EnableRule(r) ==
    /\ Event
    /\ enabled' = IF r \in enabled THEN enabled \ {r} ELSE enabled \cup {r}
    /\ UNCHANGED <<rpc, store, es, ScanChan, scan, db, copies, gone, failed>>

\* A panic of a worker or a crash ends the process; its supervisor starts it
\* again, and init queries the configuration and the rules.  Agents do not
\* repeat what was in it.
ServerRestarts ==
    /\ Event
    /\ gone' = gone \cup {m \in Message : put[m] # "unsent" /\ m \notin checked}
    /\ esMade' \in BOOLEAN /\ esChan' = 0
    /\ ScanChan' = <<>>
    /\ worker' = [w \in Worker |-> Idle]
    /\ Config' \in {db} \cup Partial
    /\ RuleDB' \in SUBSET enabled
    /\ heartbeat' = 1 /\ res' = Zero /\ loading' = {}
    /\ UNCHANGED <<rpc, store, alarms, checked, source, failed>>

Handle(m) ==
    \/ SaveEs(m) \/ SaveCount(m) \/ SaveWrite(m)
    \/ StatCount(m) \/ StatWrite(m) \/ Push(m)

PutInfo(m) == Send(m) \/ Handle(m)

Scan(w) ==
    \/ Receive(w) \/ BlackFilter(w) \/ WhiteFilter(w) \/ Rules(w)
    \/ warning(w) \/ Intelligence(w) \/ Ask(w)

Heartbeat == QueryConfig \/ AssignConfig \/ QueryRules \/ InstallRules

Console ==
    \/ \E list \in {"black", "white"}, x \in Item : AddOne(list, x) \/ DelOne(list, x)
    \/ EditByID
    \/ \E r \in Rule : EnableRule(r)

Next ==
    \/ \E m \in Message : PutInfo(m)
    \/ \E w \in Worker : Scan(w)
    \/ InsertThread \/ Heartbeat \/ Console \/ ServerRestarts

Spec == Init /\ [][Next]_vars

\* Handlers and workers are goroutines of one process, the heartbeat and
\* InsertThread endless loops; every query ends, and so does every call of the
\* intelligence API (check.go:204, 226) and of the notice API (sendNotice, from
\* warning: lib.go:60, 67), though http.Get has no deadline.
\* Weak fairness is enough where handlers wait for room in a channel: there
\* are finitely many reports, so that in the end nobody else takes it.
Fairness ==
    /\ \A m \in Message : WF_vars(Handle(m))
    /\ \A w \in Worker : WF_vars(Scan(w))
    /\ WF_vars(InsertThread) /\ WF_vars(Heartbeat)

FairSpec == Spec /\ Fairness

\* The handlers and workers alone: nothing fails, nobody edits and the
\* heartbeat sleeps.
QuietSpec == Init /\ [][(\E m \in Message : PutInfo(m)) \/ (\E w \in Worker : Scan(w)) \/ InsertThread]_vars

---------------------------------------------------------------------------
(* What it is for.                                                         *)

Lost(m, i) == <<m, i, "write">> \in failed
Failed(m, i) == \E query \in {"count", "write"} : <<m, i, query>> \in failed

\* An item of the same key was counted for a report answered before m was sent.
Known(m, i) ==
    \E n \in before[m] : \E j \in Items(n) : KeyOf(n, j) = KeyOf(m, i) /\ ~Lost(n, j)

\* The write of item i of report m in ResultStat is over.
Past(m, i) ==
    /\ Type[m] \in MainMapping
    /\ \/ put[m] \in {"push", "done"}
       \/ put[m] \in {"stat", "write"} /\ i < at[m]

Written(k) ==
    UNION {{<<m, i>> : i \in {j \in Items(m) : KeyOf(m, j) = k /\ Past(m, j) /\ ~Lost(m, j)}} :
              m \in Message}

\* One point for each increment that the documents of a key, with these counts,
\* stand for: there are as many as the sum of the counts.
Increments(counts) == UNION {{n} \X (1..counts[n]) : n \in DOMAIN counts}

\* However the count-then-write pairs of handlers interleave, and though they
\* may leave several documents of one key, the counts of a key add up to the
\* items that were written: no increment overwrites another (statistics.go:39).
CountsAddUp == \A k \in Key : Cardinality(Increments(statistics[k])) = Cardinality(Written(k))

\* PutInfo queues a report only when its items were counted, so a worker that
\* looks for the count of an item finds one, unless its write failed
\* (server.go:64-72, check.go:153).
CountedBeforeChecked ==
    \A w \in Worker :
        Work(w, "rules") /\ Type[worker[w].m] \in MainMapping /\ ~Lost(worker[w].m, worker[w].i)
            => statistics[KeyOf(worker[w].m, worker[w].i)] # <<>>

\* A count rule has a reason to tell of this item: it is new, the rule looked at
\* it in the watch mode, or a query about it failed.
Founded(a) == a.source \in CountRule /\ Known(a.m, a.i) => a.watched \/ Failed(a.m, a.i)

\* An item that was counted for a report answered before this one was sent is
\* not new: no count rule shows a warning of it (check.go:163;
\* docs/install.md:213), unless a query about it failed, or the rule looked at it
\* in the watch mode and the mode ended before warning looked (check.go:141, 245).
SilentWhenKnown == \A a \in alarms : a.shown => Founded(a)

\* No two reports of this host and type were on their way at the same time, and no
\* query about their documents failed.
Alone(k) ==
    LET sent == {m \in Message : InfoKey(m) = k /\ put[m] # "unsent"}
    IN  \A m \in sent : ~Failed(m, 0) /\ \A n \in sent \ {m} : m \in before[n] \/ n \in before[m]

\* The console shows all documents of a host (web/models/info.go:48-60).  The
\* first, which updates change, never goes back to a report that was answered
\* before a saved one was sent, and it is the only one, unless two reports of the
\* host and type were saved at the same time or a query failed: then another one
\* stays beside it and grows old (save.go:60-68).
InfoNotOutdated ==
    \A m \in Message :
        put[m] \in {"stat", "write", "push", "done"} /\ Type[m] \notin EsTypes /\ ~Failed(m, 0)
            => /\ info[InfoKey(m)][1] \notin before[m]
               /\ Alone(InfoKey(m)) => Len(info[InfoKey(m)]) = 1

\* Every report that reached the server is checked, whatever the operator
\* edits and whichever query fails, unless the process ended or it is one for
\* Elasticsearch and esChan was never made (server.go:72, check.go:291-295).
EveryReportChecked ==
    []<>(\A m \in Message : \/ put[m] = "unsent"
                           \/ m \in checked \cup gone
                           \/ (Type[m] \in EsTypes /\ ~esMade))

\* Each change an operator makes reaches the server, again and again, though
\* the lists are emptied and queries may fail in between (common.go:149-170).
ConfigCatchesUp == []<>(Config = db)

\* VIOLATED.  README.md:30 promises a notion of the first appearance on all
\* servers that finds unknown threats, and rules.json:29 a warning of processes
\* that never appeared on any server: when every report of an item was checked,
\* one of them was warned of.  The rule asks whether the count is 1, when
\* a second report may already have been counted (check.go:163).
FirstSeenWarned ==
    \A k \in Key, r \in CountRule :
        LET reports == {m \in Message : \E i \in Items(m) : KeyOf(m, i) = k}
        IN  k \in Pattern[r] /\ k[1] \in MainMapping /\ k[2] \notin Config.white /\ reports \subseteq checked
              => \E a \in alarms : a.source = r /\ KeyOf(a.m, a.i) = k
=============================================================================
