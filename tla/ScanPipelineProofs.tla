------------------------- MODULE ScanPipelineProofs -------------------------
(***************************************************************************)
(* Reports are counted before they are checked, and what is known is not   *)
(* told again, for any number of reports, workers, items and faults.       *)
(***************************************************************************)
EXTENDS ScanPipeline, FiniteSetTheorems, TLAPS

\* What the handlers have: a report's place, item and count.
Shape ==
    /\ put \in [Message -> {"unsent", "save", "keep", "stat", "write", "push", "done"}]
    /\ at \in [Message -> Nat] /\ \A m \in Message : at[m] \in Items(m)
    /\ found \in [Message -> BOOLEAN]
    /\ statistics \in [Key -> Seq(Nat \ {0})]
    /\ \A m \in Message : put[m] \in {"stat", "write"} => Type[m] \in MainMapping
    /\ \A m \in Message :
          put[m] \in {"unsent", "keep"} \/ (put[m] = "save" /\ Type[m] \notin EsTypes) => at[m] = 1

\* Only answered reports are queued, checked, alarmed of or known from before.
Queued  == ScanChan \in Seq(Message) /\ \A i \in 1..Len(ScanChan) : put[ScanChan[i]] = "done"
Busy(w) == /\ worker[w] \in Checking \cup Warning
           /\ worker[w].i \in Items(worker[w].m)
           /\ put[worker[w].m] = "done"
Workers == /\ worker \in [Worker -> {Idle} \cup Checking \cup Warning]
           /\ \A w \in Worker : worker[w] = Idle \/ Busy(w)
Earlier == /\ \A m \in Message : before[m] \subseteq Answered
           /\ before \in [Message -> SUBSET Message]
Alarmed == \A a \in alarms : a.m \in Answered /\ a.i \in Items(a.m)

\* What a counted item leaves in "statistics", and what the next one finds.
Counts ==
    /\ \A k \in Key : statistics[k] # <<>> => k[1] \in MainMapping
    /\ \A m \in Message : \A i \in Items(m) :
          Past(m, i) /\ ~Lost(m, i) => statistics[KeyOf(m, i)] # <<>>
    /\ \A m \in Message : put[m] = "write" /\ found[m] => statistics[KeyOf(m, at[m])] # <<>>
    /\ \A m \in Message : put[m] = "write" /\ Known(m, at[m]) /\ ~Failed(m, at[m]) => found[m]
    /\ \A m \in Message : \A i \in Items(m) :
          Past(m, i) /\ Known(m, i) /\ ~Failed(m, i) => statistics[KeyOf(m, i)][1] >= 2

\* A count rule had a reason for the warnings that were made and are being made.
Silent ==
    /\ \A a \in alarms : Founded(a)
    /\ \A w \in Worker : Work(w, "warn") => Founded(worker[w])

IInv == Shape /\ Queued /\ Workers /\ Earlier /\ Alarmed /\ Counts /\ Silent

\* The configuration and the rules, in the database, on the server and on the way.
Settled ==
    /\ db \in Settings /\ Config \in Settings /\ res \in Settings
    /\ enabled \subseteq Rule /\ RuleDB \subseteq Rule /\ loading \subseteq Rule
    /\ heartbeat \in 1..6

---------------------------------------------------------------------------
(* Lemmas *)

\* The key of an item of a report is one of the keys.
LEMMA KeyInKey == \A m \in Message : \A i \in Items(m) : KeyOf(m, i) \in Key
  BY DEF Key

\* Reports have an item, and their lengths are numbers.
LEMMA DataLength == \A m \in Message : Len(Data[m]) \in Nat /\ Len(Data[m]) >= 1
  <1> SUFFICES ASSUME NEW m \in Message PROVE Len(Data[m]) \in Nat /\ Len(Data[m]) >= 1
    OBVIOUS
  <1>1. Data[m] \in Seq(Item) /\ Data[m] # <<>>
    BY ScanAssumption
  <1> QED BY <1>1

\* Failed queries are only added, and what depends on them only relaxes.
LEMMA StillCounts ==
  ASSUME Counts, UNCHANGED <<rpc, statistics>>, failed \subseteq failed'
  PROVE  Counts'
  <1>1. \A m, i : Lost(m, i) => Lost(m, i)'
    BY DEF Lost
  <1>2. \A m, i : Failed(m, i) => Failed(m, i)'
    BY DEF Failed
  <1>3. \A m, i : Known(m, i)' => Known(m, i)
    BY <1>1 DEF Known, rpc
  <1>4. \A m, i : Past(m, i)' <=> Past(m, i)
    BY DEF Past, rpc
  <1> HIDE DEF Lost, Failed, Known, Past
  <1> QED BY <1>1, <1>2, <1>3, <1>4 DEF Counts, rpc

\* A step that adds neither warnings nor what is known keeps the silence.
LEMMA StillSilent ==
  ASSUME Silent, UNCHANGED <<alarms, worker>>, failed \subseteq failed',
         \A a \in alarms : before'[a.m] = before[a.m],
         \A w \in Worker : Work(w, "warn") => before'[worker[w].m] = before[worker[w].m]
  PROVE  Silent'
  <1>1. \A a : before'[a.m] = before[a.m] /\ Founded(a) => Founded(a)'
    <2>1. \A m, i : Failed(m, i) => Failed(m, i)'
      BY DEF Failed
    <2>2. \A m, i : before'[m] = before[m] /\ Known(m, i)' => Known(m, i)
      BY DEF Known, Lost
    <2> HIDE DEF Known, Failed
    <2> QED BY <2>1, <2>2 DEF Founded
  <1>2. \A w : Work(w, "warn")' <=> Work(w, "warn")
    BY DEF Work
  <1>4. \A a \in alarms : Founded(a)'
    BY <1>1 DEF Silent
  <1>5. ASSUME NEW w \in Worker, Work(w, "warn") PROVE Founded(worker[w])'
    <2>1. PICK a : a = worker[w]
      OBVIOUS
    <2>2. Founded(a)'
      BY <1>1, <1>5, <2>1 DEF Silent
    <2> QED BY <2>1, <2>2 DEF Founded, Known, Failed, Lost
  <1> QED BY <1>2, <1>4, <1>5 DEF Silent

\* The handler of a report that is not answered moves: the others do not mind.
LEMMA HandlerMoves ==
  ASSUME IInv, NEW m \in Message, put[m] # "done",
         NEW pc, put' = [put EXCEPT ![m] = pc] \/ put' = put,
         UNCHANGED <<ScanChan, worker, alarms, before>>, failed \subseteq failed'
  PROVE  Queued' /\ Workers' /\ Earlier' /\ Alarmed' /\ Silent'
  <1>1. \A n \in Message : put[n] = "done" => put'[n] = "done"
    BY DEF IInv, Shape
  <1>2. Queued'
    <2>1. \A i \in 1..Len(ScanChan) : ScanChan[i] \in Message
      BY DEF IInv, Queued
    <2> QED BY <1>1, <2>1 DEF IInv, Queued
  <1>3. Workers'
    <2> SUFFICES ASSUME NEW w \in Worker PROVE (worker[w] = Idle \/ Busy(w))'
      BY DEF IInv, Workers
    <2>1. CASE worker[w] = Idle
      BY <2>1
    <2>2. CASE Busy(w)
      <3>1. worker[w].m \in Message
        BY <2>2 DEF Busy, Checking, Warning
      <3> QED BY <1>1, <2>2, <3>1 DEF Busy
    <2> QED BY <2>1, <2>2 DEF IInv, Workers
  <1>4. Answered \subseteq Answered'
    BY <1>1 DEF Answered
  <1>5. Earlier' /\ Alarmed'
    BY <1>4 DEF IInv, Earlier, Alarmed
  <1>6. Silent'
    BY StillSilent DEF IInv
  <1> QED BY <1>2, <1>3, <1>5, <1>6

\* What the count of a key becomes.
LEMMA CountedGrows ==
  ASSUME NEW counts \in Seq(Nat \ {0}), NEW known \in BOOLEAN, known => counts # <<>>
  PROVE  /\ Counted(counts, known) \in Seq(Nat \ {0})
         /\ Counted(counts, known) # <<>>
         /\ counts # <<>> => Counted(counts, known)[1] >= counts[1]
         /\ known => Counted(counts, known)[1] >= 2
  <1>1. CASE known
    <2>1. counts[1] \in Nat \ {0} /\ 1 \in 1..Len(counts)
      BY <1>1
    <2>2. Counted(counts, known) = [counts EXCEPT ![1] = counts[1] + 1]
      BY <1>1 DEF Counted
    <2>3. [counts EXCEPT ![1] = counts[1] + 1] \in Seq(Nat \ {0})
      BY <2>1
    <2>4. [counts EXCEPT ![1] = counts[1] + 1][1] = counts[1] + 1
      BY <2>1
    <2>5. Len([counts EXCEPT ![1] = counts[1] + 1]) = Len(counts)
      BY <2>1
    <2> QED BY <2>1, <2>2, <2>3, <2>4, <2>5, <1>1
  <1>2. CASE ~known
    <2>1. Counted(counts, known) = Append(counts, 1)
      BY <1>2 DEF Counted
    <2>2. counts # <<>> => Append(counts, 1)[1] = counts[1] /\ counts[1] \in Nat
      OBVIOUS
    <2> QED BY <2>1, <2>2, <1>2
  <1> QED BY <1>1, <1>2

---------------------------------------------------------------------------
(* The configuration *)

\* A field of the configuration may be replaced by one of another.
LEMMA FieldReplaced ==
  ASSUME NEW c \in Settings, NEW d \in Settings, NEW f \in {"learn", "black", "white"}
  PROVE  [c EXCEPT ![f] = d[f]] \in Settings
  <1>1. CASE f = "learn"
    BY <1>1 DEF Settings
  <1>2. CASE f = "black"
    BY <1>2 DEF Settings
  <1>3. CASE f = "white"
    BY <1>3 DEF Settings
  <1> QED BY <1>1, <1>2, <1>3

\* The server starts with nothing configured, and so does a failed query.
LEMMA ZeroSettings == Zero \in Settings
  BY DEF Zero, Settings

\* What the queries leave when one fails is a configuration.
LEMMA PartialSettings == ASSUME Settled PROVE Partial \subseteq Settings
  <1> SUFFICES ASSUME NEW i \in 1..3 PROVE [db EXCEPT ![Fields[i]] = Zero[Fields[i]]] \in Settings
    BY DEF Partial
  <1>1. Fields[i] \in {"learn", "black", "white"}
    BY DEF Fields
  <1> QED BY <1>1, FieldReplaced, ZeroSettings DEF Settled

\* The copies are taken from the database or from nothing.
LEMMA SettledStep == ASSUME Settled, [Next]_vars PROVE Settled'
  <1>1. ASSUME UNCHANGED <<source, copies>> PROVE Settled'
    BY <1>1 DEF Settled, source, copies
  <1>2. ASSUME NEW m \in Message, PutInfo(m) PROVE Settled'
    BY <1>1, <1>2 DEF PutInfo, Handle, Send, SaveEs, SaveCount, SaveWrite, StatCount, StatWrite, Push
  <1>3. ASSUME NEW w \in Worker, Scan(w) PROVE Settled'
    BY <1>1, <1>3 DEF Scan, Receive, BlackFilter, WhiteFilter, Rules, warning, Intelligence, Ask
  <1>4. CASE InsertThread
    BY <1>1, <1>4 DEF InsertThread
  <1>5. CASE QueryConfig
    BY <1>5, PartialSettings DEF QueryConfig, Settled, source
  <1>6. CASE AssignConfig
    <2>1. heartbeat \in 2..4 /\ heartbeat' = heartbeat + 1 /\ UNCHANGED <<source, RuleDB, loading>>
          /\ res' \in {Zero, res} /\ Config' = Assigned(heartbeat)
      BY <1>6 DEF AssignConfig
    <2>2. CASE heartbeat = 2
      <3>1. Config' = [Zero EXCEPT !.learn = res.learn]
        BY <2>1, <2>2 DEF Assigned
      <3>2. Config' \in Settings
        BY <3>1, ZeroSettings DEF Settled, Settings
      <3> QED BY <2>1, <3>2, ZeroSettings DEF Settled, source
    <2>3. CASE heartbeat # 2
      <3> DEFINE f == Fields[heartbeat - 1]
      <3>1. f \in {"learn", "black", "white"}
        <4>1. heartbeat - 1 \in 1..3
          BY <2>1
        <4> QED BY <4>1 DEF Fields
      <3>2. Config' = [Config EXCEPT ![f] = res[f]]
        BY <2>1, <2>3 DEF Assigned
      <3> HIDE DEF f
      <3>3. Config' \in Settings
        BY <3>1, <3>2, FieldReplaced DEF Settled
      <3> QED BY <2>1, <3>3, ZeroSettings DEF Settled, source
    <2> QED BY <2>2, <2>3
  <1>7. CASE QueryRules
    BY <1>7 DEF QueryRules, Settled, source
  <1>8. CASE InstallRules
    BY <1>8 DEF InstallRules, Settled, source
  <1>9. CASE Console
    <2>1. UNCHANGED <<copies>> /\ enabled' \subseteq Rule
      BY <1>9 DEF Console, AddOne, DelOne, EditByID, EnableRule, Settled
    <2>2. db' \in Settings
      <3>1. CASE db' = db
        BY <3>1 DEF Settled
      <3>2. ASSUME NEW x \in Item, NEW S \in {db.black \cup {x}, db.black \ {x}},
                   db' = [db EXCEPT !.black = S]
            PROVE  db' \in Settings
        BY <3>2 DEF Settled, Settings
      <3>3. ASSUME NEW x \in Item, NEW S \in {db.white \cup {x}, db.white \ {x}},
                   db' = [db EXCEPT !.white = S]
            PROVE  db' \in Settings
        BY <3>3 DEF Settled, Settings
      <3>4. CASE EditByID
        BY <3>4 DEF EditByID, Settled, Settings
      <3>5. ASSUME NEW list \in {"black", "white"}, NEW x \in Item, AddOne(list, x) \/ DelOne(list, x)
            PROVE  db' \in Settings
        BY <3>2, <3>3, <3>5 DEF AddOne, DelOne
      <3> QED BY <1>9, <3>1, <3>4, <3>5 DEF Console, EnableRule
    <2> QED BY <2>1, <2>2 DEF Settled, copies
  <1>10. CASE ServerRestarts
    BY <1>10, PartialSettings, ZeroSettings DEF ServerRestarts, Settled, source
  <1>11. CASE UNCHANGED vars
    BY <1>1, <1>11 DEF vars
  <1> QED BY <1>2, <1>3, <1>4, <1>5, <1>6, <1>7, <1>8, <1>9, <1>10, <1>11 DEF Next, Heartbeat

\* The configuration and the rules are always ones there may be.
LEMMA SettledAlways == Spec => []Settled
  <1>1. Init => Settled
    BY ScanAssumption, ZeroSettings DEF Init, Settled, Settings
  <1> QED BY <1>1, SettledStep, PTL DEF Spec

---------------------------------------------------------------------------
(* The steps of a handler *)

LEMMA SendKeeps == ASSUME IInv, NEW m \in Message, Send(m) PROVE IInv'
  <1>1. put[m] = "unsent" /\ put' = [put EXCEPT ![m] = "save"]
    BY DEF Send, At, Goto
  <1>2. before' = [before EXCEPT ![m] = Answered]
    BY DEF Send
  <1>3. UNCHANGED <<at, found, statistics, ScanChan, worker, alarms, failed>>
    BY DEF Send, store, scan
  <1>4. Shape'
    BY <1>1, <1>3 DEF IInv, Shape
  <1>5. \A n \in Message : put[n] = "done" => put'[n] = "done"
    BY <1>1 DEF IInv, Shape
  <1>6. Answered \subseteq Answered' /\ Answered \subseteq Message
    BY <1>5 DEF Answered
  <1>7. Queued'
    BY <1>3, <1>5 DEF IInv, Queued
  <1>8. Workers'
    BY <1>3, <1>5 DEF IInv, Workers, Busy, Checking, Warning
  <1>9. Earlier'
    BY <1>2, <1>6 DEF IInv, Earlier
  <1>10. Alarmed'
    BY <1>3, <1>6 DEF IInv, Alarmed
  <1>11. \A n \in Message : n # m => before'[n] = before[n]
    BY <1>2 DEF IInv, Earlier
  <1>12. Silent'
    <2>1. \A a \in alarms : a.m \in Message /\ a.m # m
      BY <1>1 DEF IInv, Alarmed, Answered
    <2>2. ASSUME NEW w \in Worker, Work(w, "warn") PROVE worker[w].m \in Message /\ worker[w].m # m
      <3>1. worker[w] # Idle
        BY <2>2 DEF Work, Idle
      <3> QED BY <1>1, <3>1 DEF IInv, Workers, Busy, Checking, Warning
    <2> QED BY <2>1, <2>2, <1>3, <1>11, StillSilent DEF IInv
  <1>13. Counts'
    <2>1. \A n \in Message : put'[n] \in {"stat", "write", "push", "done"} => n # m /\ put'[n] = put[n]
      BY <1>1 DEF IInv, Shape
    <2>2. \A n \in Message, i \in Nat : Past(n, i)' => Past(n, i) /\ n # m
      BY <2>1, <1>1, <1>3 DEF Past, IInv, Shape
    <2>3. \A n \in Message : \A i : n # m => (Known(n, i)' <=> Known(n, i))
      BY <1>3, <1>11 DEF Known, Lost
    <2>4. \A n, i : Lost(n, i)' = Lost(n, i) /\ Failed(n, i)' = Failed(n, i)
      BY <1>3 DEF Lost, Failed
    <2>5. \A n \in Message : Items(n) \subseteq Nat
      BY DEF Items
    <2> HIDE DEF Past, Known, Lost, Failed
    <2> QED BY <1>3, <2>1, <2>2, <2>3, <2>4, <2>5 DEF IInv, Counts
  <1> QED BY <1>4, <1>7, <1>8, <1>9, <1>10, <1>12, <1>13 DEF IInv

\* Before its items are counted a report moves without touching the counts.
LEMMA SavingKeeps ==
  ASSUME IInv, NEW m \in Message,
         put[m] \in {"save", "keep"},
         NEW pc \in {"save", "keep", AfterSave(m)},
         put' = [put EXCEPT ![m] = pc] \/ (put' = put /\ put[m] = "save" /\ pc = "save"),
         NEW i \in Items(m), at' = [at EXCEPT ![m] = i] \/ (at' = at /\ at[m] = i),
         i = 1 \/ (pc = "save" /\ Type[m] \in EsTypes),
         found' \in [Message -> BOOLEAN],
         \A n \in Message : n # m => found'[n] = found[n],
         failed \subseteq failed',
         UNCHANGED <<statistics, ScanChan, worker, alarms, before>>
  PROVE  IInv'
  <1>1. AfterSave(m) \in {"stat", "push"} /\ (AfterSave(m) = "stat" <=> Type[m] \in MainMapping)
    BY DEF AfterSave
  <1>2. put'[m] = pc /\ at'[m] = i /\ \A n \in Message : n # m => put'[n] = put[n] /\ at'[n] = at[n]
    BY DEF IInv, Shape
  <1>3. put' \in [Message -> {"unsent", "save", "keep", "stat", "write", "push", "done"}]
    BY <1>1 DEF IInv, Shape
  <1>4. at' \in [Message -> Nat]
    BY DEF IInv, Shape, Items
  <1>5. Shape'
    BY <1>1, <1>2, <1>3, <1>4 DEF IInv, Shape
  <1>6. Queued' /\ Workers' /\ Earlier' /\ Alarmed' /\ Silent'
    BY HandlerMoves
  <1>7. Counts'
    <2>1. \A n \in Message, j \in Nat \ {0} : Past(n, j)' => Past(n, j) /\ n # m
      BY <1>1, <1>2 DEF Past, IInv, Shape
    <2>2. \A n, j : (Lost(n, j) => Lost(n, j)') /\ (Failed(n, j) => Failed(n, j)')
      BY DEF Lost, Failed
    <2>3. \A n, j : Known(n, j)' => Known(n, j)
      BY <2>2 DEF Known
    <2>4. \A n \in Message : Items(n) \subseteq Nat \ {0}
      BY DEF Items
    <2>5. \A n \in Message : put'[n] = "write" => n # m
      BY <1>1, <1>2
    <2> HIDE DEF Past, Known, Lost, Failed
    <2> QED BY <1>2, <2>1, <2>2, <2>3, <2>4, <2>5 DEF IInv, Counts
  <1> QED BY <1>5, <1>6, <1>7 DEF IInv

LEMMA SaveKeeps ==
  ASSUME IInv, NEW m \in Message, SaveEs(m) \/ SaveCount(m) \/ SaveWrite(m)
  PROVE  IInv'
  <1>1. 1 \in Items(m) /\ at[m] \in Items(m) /\ at[m] \in Nat
    BY DataLength DEF Items, IInv, Shape
  <1>2. CASE SaveEs(m)
    <2>1. CASE Type[m] = "loginlog" /\ at[m] < Len(Data[m])
      <3>1. at[m] + 1 \in Items(m)
        BY <1>1, <2>1, DataLength DEF Items
      <3> QED BY <1>2, <2>1, <3>1, SavingKeeps DEF SaveEs, At, store, scan, IInv, Shape
    <2>2. CASE ~(Type[m] = "loginlog" /\ at[m] < Len(Data[m]))
      BY <1>1, <1>2, <2>2, SavingKeeps DEF SaveEs, At, Goto, store, scan, IInv, Shape
    <2> QED BY <2>1, <2>2
  <1>3. CASE SaveCount(m)
    <2>1. at[m] = 1
      BY <1>3 DEF SaveCount, At, IInv, Shape
    <2>2. \A count : Found(m, count) => /\ found' \in [Message -> BOOLEAN]
                                        /\ \A n \in Message : n # m => found'[n] = found[n]
      BY DEF Found, IInv, Shape
    <2>3. failed \subseteq failed'
      BY <1>3 DEF SaveCount, Works, Fails
    <2> HIDE DEF Found
    <2> QED BY <1>1, <1>3, <2>1, <2>2, <2>3, SavingKeeps DEF SaveCount, At, Goto, store, scan
  <1>4. CASE SaveWrite(m)
    <2>1. at[m] = 1
      BY <1>4 DEF SaveWrite, At, IInv, Shape
    <2>2. found' \in [Message -> BOOLEAN] /\ \A n \in Message : n # m => found'[n] = found[n]
      BY <1>4 DEF SaveWrite, IInv, Shape
    <2>3. failed \subseteq failed'
      BY <1>4 DEF SaveWrite, Works, Fails
    <2> QED BY <1>1, <1>4, <2>1, <2>2, <2>3, SavingKeeps DEF SaveWrite, At, Goto, scan
  <1> QED BY <1>2, <1>3, <1>4

\* What was counted before has a document.
LEMMA KnownCounted ==
  ASSUME IInv, NEW m \in Message, NEW i \in Items(m), Type[m] \in MainMapping, Known(m, i)
  PROVE  statistics[KeyOf(m, i)] # <<>>
  <1>1. PICK n \in before[m] : \E j \in Items(n) : KeyOf(n, j) = KeyOf(m, i) /\ ~Lost(n, j)
    BY DEF Known
  <1> PICK j \in Items(n) : KeyOf(n, j) = KeyOf(m, i) /\ ~Lost(n, j)
    BY <1>1
  <1>2. n \in Message /\ put[n] = "done"
    BY DEF IInv, Earlier, Answered
  <1>3. Type[n] = Type[m]
    BY DEF KeyOf
  <1>4. Past(n, j)
    BY <1>2, <1>3 DEF Past
  <1> HIDE DEF Past, Lost, KeyOf
  <1> QED BY <1>2, <1>4 DEF IInv, Counts

LEMMA StatCountKeeps == ASSUME IInv, NEW m \in Message, StatCount(m) PROVE IInv'
  <1> DEFINE k == KeyOf(m, at[m])
  <1>1. put[m] = "stat" /\ put' = [put EXCEPT ![m] = "write"]
    BY DEF StatCount, At, Goto
  <1>2. UNCHANGED <<at, before, statistics, ScanChan, worker, alarms>>
    BY DEF StatCount, store, scan
  <1>3. failed \subseteq failed'
    BY DEF StatCount, Works, Fails
  <1>4. at[m] \in Items(m) /\ k \in Key /\ Type[m] \in MainMapping
    BY <1>1, KeyInKey DEF IInv, Shape
  <1>5. statistics[k] \in Seq(Nat \ {0})
    BY <1>4 DEF IInv, Shape
  <1>6. found' \in [Message -> BOOLEAN] /\ \A n \in Message : n # m => found'[n] = found[n]
    <2>1. PICK count \in {Len(statistics[k]), 0} : found' = [found EXCEPT ![m] = count >= 1]
      BY DEF StatCount, Found
    <2> QED BY <2>1 DEF IInv, Shape
  <1>7. Shape'
    BY <1>1, <1>2, <1>4, <1>6 DEF IInv, Shape
  <1>8. Queued' /\ Workers' /\ Earlier' /\ Alarmed' /\ Silent'
    BY <1>1, <1>2, <1>3, HandlerMoves
  <1>9. found'[m] => statistics[k] # <<>>
    <2>1. PICK count \in {Len(statistics[k]), 0} : found' = [found EXCEPT ![m] = count >= 1]
      BY DEF StatCount, Found
    <2> SUFFICES ASSUME statistics[k] = <<>> PROVE ~found'[m]
      OBVIOUS
    <2>2. Len(statistics[k]) = 0
      OBVIOUS
    <2>3. count = 0
      BY <2>1, <2>2
    <2>4. (count >= 1) = FALSE
      BY <2>3
    <2>5. found' = [found EXCEPT ![m] = FALSE]
      BY <2>1, <2>4
    <2> QED BY <2>5 DEF IInv, Shape
  <1>10. Known(m, at[m]) /\ ~Failed(m, at[m])' => found'[m]
    <2>1. CASE Found(m, Len(statistics[k]))
      <3>1. Known(m, at[m]) => statistics[k] # <<>>
        BY <1>4, KnownCounted
      <3>2. statistics[k] # <<>> => Len(statistics[k]) >= 1
        BY <1>5
      <3>3. found'[m] = (Len(statistics[k]) >= 1)
        BY <2>1 DEF Found, IInv, Shape
      <3> QED BY <3>1, <3>2, <3>3
    <2>2. CASE Fails(m, at[m], "count")
      BY <1>2, <2>2 DEF Fails, Failed
    <2> QED BY <2>1, <2>2 DEF StatCount
  <1>11. Counts'
    <2>1. \A n \in Message : \A j : Past(n, j)' <=> Past(n, j)
      BY <1>1, <1>2 DEF Past, IInv, Shape
    <2>2. \A n, j : (Lost(n, j) => Lost(n, j)') /\ (Failed(n, j) => Failed(n, j)')
      BY <1>3 DEF Lost, Failed
    <2>3. \A n, j : Known(n, j)' => Known(n, j)
      BY <1>2, <2>2 DEF Known
    <2>4. \A n \in Message : n # m => (put'[n] = put[n])
      BY <1>1 DEF IInv, Shape
    <2>5. \A n \in Message : n # m /\ put'[n] = "write" /\ found'[n] => statistics[KeyOf(n, at[n])] # <<>>
      BY <1>6, <2>4 DEF IInv, Counts
    <2>6. \A n \in Message : n # m /\ put'[n] = "write" /\ Known(n, at[n])' /\ ~Failed(n, at[n])' => found'[n]
      <3> HIDE DEF Known, Failed
      <3> QED BY <1>2, <1>6, <2>2, <2>3, <2>4 DEF IInv, Counts
    <2>7. \A n \in Message : put'[n] = "write" /\ found'[n] => statistics[KeyOf(n, at[n])] # <<>>
      BY <1>9, <2>5
    <2>8. \A n \in Message : put'[n] = "write" /\ Known(n, at[n])' /\ ~Failed(n, at[n])' => found'[n]
      <3> HIDE DEF Known, Failed
      <3> QED BY <1>2, <1>10, <2>3, <2>6
    <2>9. \A n \in Message : \A i \in Items(n) :
             Past(n, i)' /\ ~Lost(n, i)' => statistics[KeyOf(n, i)] # <<>>
      <3> HIDE DEF Past, Lost
      <3> QED BY <2>1, <2>2 DEF IInv, Counts
    <2>10. \A n \in Message : \A i \in Items(n) :
             Past(n, i)' /\ Known(n, i)' /\ ~Failed(n, i)' => statistics[KeyOf(n, i)][1] >= 2
      <3> HIDE DEF Past, Known, Failed
      <3> QED BY <2>1, <2>2, <2>3 DEF IInv, Counts
    <2> HIDE DEF Past, Known, Lost, Failed
    <2> QED BY <1>2, <2>7, <2>8, <2>9, <2>10 DEF IInv, Counts
  <1> QED BY <1>7, <1>8, <1>11 DEF IInv

LEMMA PushKeeps == ASSUME IInv, NEW m \in Message, Push(m) PROVE IInv'
  <1>1. put[m] = "push" /\ put' = [put EXCEPT ![m] = "done"]
    BY DEF Push, At, Goto
  <1>2. UNCHANGED <<at, found, before, statistics, worker, alarms, failed>>
    BY DEF Push, store, scan
  <1>3. ScanChan' = Append(ScanChan, m)
    BY DEF Push
  <1>4. Shape'
    BY <1>1, <1>2 DEF IInv, Shape
  <1>5. \A n \in Message : put[n] = "done" => put'[n] = "done"
    BY <1>1 DEF IInv, Shape
  <1>6. put'[m] = "done"
    BY <1>1 DEF IInv, Shape
  <1>7. Queued'
    <2>1. ScanChan' \in Seq(Message) /\ Len(ScanChan') = Len(ScanChan) + 1
      BY <1>3 DEF IInv, Queued
    <2>2. \A i \in 1..Len(ScanChan') : put'[ScanChan'[i]] = "done"
      <3> SUFFICES ASSUME NEW i \in 1..Len(ScanChan') PROVE put'[ScanChan'[i]] = "done"
        OBVIOUS
      <3>1. CASE i = Len(ScanChan) + 1
        BY <1>3, <1>6, <3>1 DEF IInv, Queued
      <3>2. CASE i \in 1..Len(ScanChan)
        BY <1>3, <1>5, <3>2 DEF IInv, Queued
      <3> QED BY <2>1, <3>1, <3>2 DEF IInv, Queued
    <2> QED BY <2>1, <2>2 DEF Queued
  <1>8. Workers'
    BY <1>2, <1>5 DEF IInv, Workers, Busy, Checking, Warning
  <1>9. Answered \subseteq Answered'
    BY <1>5 DEF Answered
  <1>10. Earlier' /\ Alarmed'
    BY <1>2, <1>9 DEF IInv, Earlier, Alarmed
  <1>11. Silent'
    BY <1>2, StillSilent DEF IInv
  <1>12. Counts'
    <2>1. \A n \in Message : \A j : Past(n, j)' <=> Past(n, j)
      BY <1>1, <1>2 DEF Past, IInv, Shape
    <2>2. \A n, j : Lost(n, j)' = Lost(n, j) /\ Failed(n, j)' = Failed(n, j) /\ Known(n, j)' = Known(n, j)
      BY <1>2 DEF Lost, Failed, Known
    <2>3. \A n \in Message : put'[n] = "write" => put[n] = "write"
      BY <1>1 DEF IInv, Shape
    <2> HIDE DEF Past, Known, Lost, Failed
    <2> QED BY <1>2, <2>1, <2>2, <2>3 DEF IInv, Counts
  <1> QED BY <1>4, <1>7, <1>8, <1>10, <1>11, <1>12 DEF IInv

LEMMA StatWriteKeeps == ASSUME IInv, NEW m \in Message, StatWrite(m) PROVE IInv'
  <1> PICK i \in Items(m) : i = at[m]
    BY DEF IInv, Shape
  <1> DEFINE k == KeyOf(m, i)
  <1>1. put[m] = "write" /\ Type[m] \in MainMapping /\ i = at[m] /\ i \in Nat
    BY DEF StatWrite, At, IInv, Shape
  <1>2. k \in Key /\ statistics[k] \in Seq(Nat \ {0}) /\ found[m] \in BOOLEAN
    BY KeyInKey DEF IInv, Shape
  <1>3. UNCHANGED <<before, ScanChan, worker, alarms>> /\ found' = [found EXCEPT ![m] = FALSE]
    BY DEF StatWrite, scan
  <1>4. failed \subseteq failed'
    BY DEF StatWrite, Works, Fails
  <1>5. \/ i < Len(Data[m]) /\ at' = [at EXCEPT ![m] = i + 1] /\ put' = [put EXCEPT ![m] = "stat"]
        \/ ~(i < Len(Data[m])) /\ at' = at /\ put' = [put EXCEPT ![m] = "push"]
    BY <1>1 DEF StatWrite, Goto
  <1>6. \/ statistics' = [statistics EXCEPT ![k] = Counted(@, found[m])]
        \/ statistics' = statistics /\ <<m, i, "write">> \in failed'
    BY <1>1 DEF StatWrite, Works, Fails
  <1>7. /\ Counted(statistics[k], found[m]) \in Seq(Nat \ {0})
        /\ Counted(statistics[k], found[m]) # <<>>
        /\ statistics[k] # <<>> => Counted(statistics[k], found[m])[1] >= statistics[k][1]
        /\ found[m] => Counted(statistics[k], found[m])[1] >= 2
    <2>1. found[m] => statistics[k] # <<>>
      BY <1>1 DEF IInv, Counts
    <2> QED BY <1>2, <2>1, CountedGrows
  <1> HIDE DEF k
  <1>8. /\ statistics' \in [Key -> Seq(Nat \ {0})]
        /\ \A q \in Key : q # k => statistics'[q] = statistics[q]
        /\ \A q \in Key : statistics[q] # <<>> => /\ statistics'[q] # <<>>
                                                 /\ statistics'[q][1] >= statistics[q][1]
    <2>1. \A q \in Key : statistics[q] # <<>> => statistics[q][1] \in Nat
      BY DEF IInv, Shape
    <2>2. statistics \in [Key -> Seq(Nat \ {0})]
      BY DEF IInv, Shape
    <2>3. CASE statistics' = statistics
      BY <2>1, <2>2, <2>3
    <2>4. CASE statistics' = [statistics EXCEPT ![k] = Counted(@, found[m])]
      <3> DEFINE c == Counted(statistics[k], found[m])
      <3>1. statistics' = [statistics EXCEPT ![k] = c]
        BY <2>4
      <3> HIDE DEF c
      <3>2. c \in Seq(Nat \ {0}) /\ c # <<>> /\ (statistics[k] # <<>> => c[1] >= statistics[k][1])
        BY <1>7 DEF c
      <3>3. statistics'[k] = c /\ \A q \in Key : q # k => statistics'[q] = statistics[q]
        BY <1>2, <2>2, <3>1
      <3>4. statistics' \in [Key -> Seq(Nat \ {0})]
        BY <2>2, <3>1, <3>2
      <3> QED BY <2>1, <3>2, <3>3, <3>4
    <2> QED BY <1>6, <2>3, <2>4
  <1>9. /\ \A n \in Message : n # m => put'[n] = put[n] /\ at'[n] = at[n] /\ found'[n] = found[n]
        /\ put'[m] \in {"stat", "push"}
    BY <1>3, <1>5 DEF IInv, Shape
  <1>10. Shape'
    <2>1. i < Len(Data[m]) => i + 1 \in Items(m)
      BY <1>1, DataLength DEF Items
    <2>2. at' \in [Message -> Nat] /\ at'[m] \in Items(m)
      BY <1>1, <1>5, <2>1 DEF IInv, Shape
    <2>3. put' \in [Message -> {"unsent", "save", "keep", "stat", "write", "push", "done"}]
      BY <1>5 DEF IInv, Shape
    <2>4. found' \in [Message -> BOOLEAN]
      BY <1>3 DEF IInv, Shape
    <2> QED BY <1>1, <1>8, <1>9, <2>2, <2>3, <2>4 DEF IInv, Shape
  <1>11. Queued' /\ Workers' /\ Earlier' /\ Alarmed' /\ Silent'
    BY <1>1, <1>3, <1>4, <1>5, HandlerMoves
  <1>12. \A n, j : (Lost(n, j) => Lost(n, j)') /\ (Failed(n, j) => Failed(n, j)')
    BY <1>4 DEF Lost, Failed
  <1>13. \A n, j : Known(n, j)' => Known(n, j)
    BY <1>3, <1>12 DEF Known
  <1>14. \A n \in Message : \A j \in Items(n) : Past(n, j)' => Past(n, j) \/ (n = m /\ j = i)
    <2> SUFFICES ASSUME NEW n \in Message, NEW j \in Items(n), Past(n, j)'
                 PROVE  Past(n, j) \/ (n = m /\ j = i)
      OBVIOUS
    <2>1. CASE n # m
      BY <1>9, <2>1 DEF Past
    <2>2. CASE n = m
      <3>1. j \in Nat /\ j <= Len(Data[m]) /\ Len(Data[m]) \in Nat
        BY <2>2, DataLength DEF Items
      <3>2. j <= i
        BY <1>1, <1>5, <2>2, <3>1 DEF Past, IInv, Shape
      <3> QED BY <1>1, <2>2, <3>1, <3>2 DEF Past
    <2> QED BY <2>1, <2>2
  <1>15. Lost(m, i)' \/ statistics' = [statistics EXCEPT ![k] = Counted(@, found[m])]
    BY <1>6 DEF Lost
  <1>16. Failed(m, i)' \/ statistics' = [statistics EXCEPT ![k] = Counted(@, found[m])]
    BY <1>6 DEF Failed
  <1>17. Known(m, i) /\ ~Failed(m, i)' => found[m]
    BY <1>1, <1>12 DEF IInv, Counts
  <1>18. Counts'
    <2>1. \A q \in Key : statistics'[q] # <<>> => q[1] \in MainMapping
      <3>1. k[1] = Type[m]
        BY DEF k, KeyOf
      <3> QED BY <1>1, <1>8, <3>1 DEF IInv, Counts
    <2>2. \A n \in Message : \A j \in Items(n) :
             Past(n, j)' /\ ~Lost(n, j)' => statistics'[KeyOf(n, j)] # <<>>
      <3> SUFFICES ASSUME NEW n \in Message, NEW j \in Items(n), Past(n, j)', ~Lost(n, j)'
                   PROVE  statistics'[KeyOf(n, j)] # <<>>
        OBVIOUS
      <3>1. KeyOf(n, j) \in Key
        BY KeyInKey
      <3>2. CASE Past(n, j)
        <4>1. ~Lost(n, j)
          BY <1>12
        <4> QED BY <1>8, <3>1, <3>2, <4>1 DEF IInv, Counts
      <3>3. CASE n = m /\ j = i
        BY <1>2, <1>7, <1>15, <3>3 DEF k, IInv, Shape
      <3> QED BY <1>14, <3>2, <3>3
    <2>3. \A n \in Message : put'[n] = "write" /\ found'[n] => statistics'[KeyOf(n, at'[n])] # <<>>
      <3> SUFFICES ASSUME NEW n \in Message, put'[n] = "write", found'[n]
                   PROVE  statistics'[KeyOf(n, at'[n])] # <<>>
        OBVIOUS
      <3>1. n # m /\ put[n] = "write" /\ found[n] /\ at'[n] = at[n]
        BY <1>9
      <3>2. KeyOf(n, at[n]) \in Key
        BY KeyInKey DEF IInv, Shape
      <3> QED BY <1>8, <3>1, <3>2 DEF IInv, Counts
    <2>4. \A n \in Message : put'[n] = "write" /\ Known(n, at[n])' /\ ~Failed(n, at[n])' => found'[n]
      <3> SUFFICES ASSUME NEW n \in Message, put'[n] = "write", Known(n, at[n])', ~Failed(n, at[n])'
                   PROVE  found'[n]
        OBVIOUS
      <3>1. n # m /\ put[n] = "write" /\ found'[n] = found[n] /\ at'[n] = at[n]
        BY <1>9
      <3>2. Known(n, at[n]) /\ ~Failed(n, at[n])
        BY <1>12, <1>13, <3>1
      <3> HIDE DEF Known, Failed
      <3> QED BY <3>1, <3>2 DEF IInv, Counts
    <2>5. \A n \in Message : \A j \in Items(n) :
             Past(n, j)' /\ Known(n, j)' /\ ~Failed(n, j)' => statistics'[KeyOf(n, j)][1] >= 2
      <3> SUFFICES ASSUME NEW n \in Message, NEW j \in Items(n),
                          Past(n, j)', Known(n, j)', ~Failed(n, j)'
                   PROVE  statistics'[KeyOf(n, j)][1] >= 2
        OBVIOUS
      <3>1. Known(n, j) /\ ~Failed(n, j) /\ KeyOf(n, j) \in Key
        BY <1>12, <1>13, KeyInKey
      <3>2. CASE Past(n, j)
        <4>1. statistics[KeyOf(n, j)][1] >= 2
          BY <3>1, <3>2 DEF IInv, Counts
        <4>2. statistics[KeyOf(n, j)] # <<>>
          BY <3>1, <3>2, KnownCounted DEF Past
        <4>3. statistics[KeyOf(n, j)][1] \in Nat /\ statistics'[KeyOf(n, j)][1] \in Nat
          BY <1>8, <3>1, <4>2 DEF IInv, Shape
        <4> QED BY <1>8, <3>1, <4>1, <4>2, <4>3
      <3>3. CASE n = m /\ j = i
        <4>1. found[m]
          BY <1>17, <3>1, <3>3
        <4> QED BY <1>2, <1>7, <1>16, <3>3, <4>1 DEF k, IInv, Shape
      <3> QED BY <1>14, <3>2, <3>3
    <2> HIDE DEF Past, Known, Lost, Failed
    <2> QED BY <2>1, <2>2, <2>3, <2>4, <2>5 DEF Counts
  <1> QED BY <1>10, <1>11, <1>18 DEF IInv

---------------------------------------------------------------------------
(* The steps of a worker *)

\* What a step of a worker, or one beside reports and workers, has to show.
LEMMA ScanMoves ==
  ASSUME IInv, UNCHANGED <<rpc, statistics>>, failed \subseteq failed',
         Workers', Queued',
         \A a \in alarms' : a \notin alarms => a.m \in Answered /\ a.i \in Items(a.m) /\ Founded(a),
         \A v \in Worker : Work(v, "warn")' => worker'[v] = worker[v] \/ Founded(worker[v])'
  PROVE  IInv'
  <1>1. Shape' /\ Earlier'
    BY DEF IInv, Shape, Earlier, rpc, Answered
  <1>2. Counts'
    BY StillCounts DEF IInv
  <1>3. Alarmed'
    BY DEF IInv, Alarmed, Answered, rpc
  <1>4. Silent'
    <2>1. \A m, i : Failed(m, i) => Failed(m, i)'
      BY DEF Failed
    <2>2. \A m, i : Known(m, i)' => Known(m, i)
      BY DEF Known, Lost, rpc
    <2>3. \A a : Founded(a) => Founded(a)'
      <3> HIDE DEF Known, Failed
      <3> QED BY <2>1, <2>2 DEF Founded
    <2>4. \A a \in alarms' : Founded(a)'
      BY <2>3 DEF IInv, Silent
    <2>5. ASSUME NEW v \in Worker, Work(v, "warn")', worker'[v] = worker[v] PROVE Founded(worker[v])'
      <3>1. Work(v, "warn")
        BY <2>5 DEF Work
      <3>2. PICK a : a = worker[v]
        OBVIOUS
      <3>3. Founded(a)'
        BY <2>3, <3>1, <3>2 DEF IInv, Silent
      <3> QED BY <2>5, <3>2, <3>3 DEF Founded, Known, Failed, Lost
    <2> QED BY <2>4, <2>5 DEF Silent
  <1> QED BY <1>1, <1>2, <1>3, <1>4 DEF IInv

\* A worker that is put at an item of an answered report.
LEMMA Placed ==
  ASSUME IInv, put' = put, NEW w \in Worker, NEW c \in {Idle} \cup Checking \cup Warning,
         worker' = [worker EXCEPT ![w] = c],
         c = Idle \/ (c.i \in Items(c.m) /\ put[c.m] = "done")
  PROVE  /\ Workers' /\ worker'[w] = c
         /\ \A v \in Worker \ {w} : worker'[v] = worker[v]
  <1>1. worker'[w] = c /\ \A v \in Worker \ {w} : worker'[v] = worker[v]
    BY DEF IInv, Workers
  <1>2. worker' \in [Worker -> {Idle} \cup Checking \cup Warning]
    BY DEF IInv, Workers
  <1>3. \A v \in Worker : worker'[v] = Idle \/ Busy(v)'
    <2> SUFFICES ASSUME NEW v \in Worker PROVE worker'[v] = Idle \/ Busy(v)'
      OBVIOUS
    <2>1. CASE v = w /\ c # Idle
      <3>1. c \in Checking \cup Warning
        BY <2>1
      <3> QED BY <1>1, <2>1, <3>1 DEF Busy
    <2>2. CASE v # w
      BY <1>1, <2>2 DEF Busy, IInv, Workers
    <2> QED BY <1>1, <2>1, <2>2
  <1> QED BY <1>1, <1>2, <1>3 DEF Workers

\* A worker that is at an item is at one of an answered report.
LEMMA WorksAt ==
  ASSUME IInv, NEW w \in Worker, NEW pc, Work(w, pc), pc # "idle"
  PROVE  /\ worker[w] # Idle /\ worker[w].m \in Answered /\ worker[w].i \in Items(worker[w].m)
         /\ worker[w].m \in Message /\ worker[w].i \in Nat \ {0} /\ worker[w].past \in SUBSET Rule
         /\ put[worker[w].m] = "done"
  <1>1. worker[w] # Idle
    BY DEF Work, Idle
  <1> QED BY <1>1 DEF IInv, Workers, Busy, Checking, Warning, Answered

\* A worker that checks goes on in bounds and is not warning.
LEMMA CheckAtKeeps ==
  ASSUME IInv, put' = put, NEW w \in Worker, worker[w].m \in Answered,
         NEW pc \in {"black", "white", "rules", "intel", "ask"},
         NEW i \in Items(worker[w].m), NEW past \in SUBSET Rule, CheckAt(w, pc, i, past)
  PROVE  Workers' /\ \A v \in Worker : Work(v, "warn")' => worker'[v] = worker[v]
  <1> DEFINE c == [pc |-> pc, m |-> worker[w].m, i |-> i, past |-> past]
  <1>1. worker' = [worker EXCEPT ![w] = c]
    BY DEF CheckAt
  <1>2. worker[w].m \in Message /\ put[worker[w].m] = "done" /\ i \in Nat \ {0}
    BY DEF Answered, Items
  <1>3. c \in Checking /\ c.m = worker[w].m /\ c.i = i /\ c.pc = pc
    BY <1>2 DEF Checking
  <1> HIDE DEF c
  <1>4. /\ Workers' /\ worker'[w] = c
        /\ \A v \in Worker \ {w} : worker'[v] = worker[v]
    BY <1>1, <1>2, <1>3, Placed
  <1> QED BY <1>3, <1>4 DEF Work

\* So it is when it goes on with the next item.
LEMMA NextItemKeeps ==
  ASSUME IInv, put' = put, NEW w \in Worker, worker[w].m \in Answered,
         worker[w].i \in Items(worker[w].m), NextItem(w)
  PROVE  Workers' /\ \A v \in Worker : Work(v, "warn")' => worker'[v] = worker[v]
  <1>1. CASE worker[w].i < Len(Data[worker[w].m])
    <2>1. worker[w].i + 1 \in Items(worker[w].m)
      BY <1>1, DataLength DEF Items, Answered
    <2> QED BY <1>1, <2>1, CheckAtKeeps DEF NextItem
  <1>2. CASE ~(worker[w].i < Len(Data[worker[w].m]))
    <2>1. worker' = [worker EXCEPT ![w] = Idle]
      BY <1>2 DEF NextItem
    <2>2. Workers' /\ worker'[w] = Idle /\ \A v \in Worker \ {w} : worker'[v] = worker[v]
      BY <2>1, Placed
    <2> QED BY <2>2 DEF Work, Idle
  <1> QED BY <1>1, <1>2

\* A worker that has found something warns of its item.
LEMMA WarnKeeps ==
  ASSUME IInv, Settled, put' = put, NEW w \in Worker, worker[w].m \in Answered,
         worker[w].i \in Items(worker[w].m),
         NEW by \in Source, NEW past \in SUBSET Rule, Warn(w, by, past)
  PROVE  /\ Workers'
         /\ \A v \in Worker \ {w} : worker'[v] = worker[v]
         /\ worker'[w].m = worker[w].m /\ worker'[w].i = worker[w].i
         /\ worker'[w].source = by /\ worker'[w].watched = Config.learn
  <1> DEFINE c == [pc |-> "warn", m |-> worker[w].m, i |-> worker[w].i, past |-> past,
                   source |-> by, watched |-> Config.learn]
  <1>1. worker' = [worker EXCEPT ![w] = c]
    BY DEF Warn
  <1>2. worker[w].m \in Message /\ put[worker[w].m] = "done" /\ worker[w].i \in Nat \ {0}
    BY DEF Answered, Items
  <1>3. Config.learn \in BOOLEAN
    BY DEF Settled, Settings
  <1>4. c \in Warning
    BY <1>2, <1>3 DEF Warning
  <1>5. c.m = worker[w].m /\ c.i = worker[w].i /\ c.source = by /\ c.watched = Config.learn
    OBVIOUS
  <1> HIDE DEF c
  <1>6. /\ Workers' /\ worker'[w] = c
        /\ \A v \in Worker \ {w} : worker'[v] = worker[v]
    BY <1>1, <1>2, <1>4, <1>5, Placed
  <1> QED BY <1>5, <1>6

LEMMA ReceiveKeeps == ASSUME IInv, NEW w \in Worker, Receive(w) PROVE IInv'
  <1> DEFINE m == Head(ScanChan)
             c == [pc |-> "black", m |-> m, i |-> 1, past |-> {}]
  <1>1. UNCHANGED <<rpc, statistics, put, alarms, failed>>
    BY DEF Receive, store, rpc
  <1>2. ScanChan \in Seq(Message) /\ ScanChan # <<>> /\ ScanChan' = Tail(ScanChan)
    BY DEF Receive, IInv, Queued
  <1>3. m \in Message /\ put[m] = "done"
    BY <1>2 DEF IInv, Queued
  <1>4. 1 \in Items(m)
    BY <1>3, DataLength DEF Items
  <1>5. worker' = [worker EXCEPT ![w] = c]
    BY DEF Receive
  <1> HIDE DEF m
  <1>6. c \in Checking /\ c.m = m /\ c.i = 1 /\ c.pc = "black"
    BY <1>3 DEF Checking
  <1> HIDE DEF c
  <1>7. Workers' /\ worker'[w] = c /\ \A v \in Worker \ {w} : worker'[v] = worker[v]
    BY <1>1, <1>3, <1>4, <1>5, <1>6, Placed
  <1>8. Queued'
    BY <1>1, <1>2 DEF IInv, Queued
  <1>9. \A v \in Worker : Work(v, "warn")' => worker'[v] = worker[v]
    BY <1>6, <1>7 DEF Work
  <1> QED BY <1>1, <1>7, <1>8, <1>9, ScanMoves

LEMMA FiltersKeep ==
  ASSUME IInv, Settled, NEW w \in Worker, BlackFilter(w) \/ WhiteFilter(w) PROVE IInv'
  <1>1. /\ worker[w].m \in Answered /\ worker[w].i \in Items(worker[w].m)
    BY WorksAt DEF BlackFilter, WhiteFilter
  <1>2. UNCHANGED <<rpc, statistics, put, failed, ScanChan, alarms>>
    BY DEF BlackFilter, WhiteFilter, store, rpc
  <1>3. Queued'
    BY <1>2 DEF IInv, Queued
  <1>4. ASSUME Warn(w, "blacklist", {}) PROVE IInv'
    <2>1. "blacklist" \in Source
      BY DEF Source
    <2>2. /\ Workers'
          /\ \A v \in Worker \ {w} : worker'[v] = worker[v]
          /\ worker'[w].source = "blacklist"
      BY <1>1, <1>2, <1>4, <2>1, WarnKeeps
    <2>3. \A v \in Worker : Work(v, "warn")' => worker'[v] = worker[v] \/ Founded(worker[v])'
      BY <2>2, ScanAssumption DEF Founded
    <2> QED BY <1>2, <1>3, <2>2, <2>3, ScanMoves
  <1>5. ASSUME \E pc \in {"white", "rules"} : Move(w, pc) PROVE IInv'
    BY <1>1, <1>2, <1>3, <1>5, CheckAtKeeps, ScanMoves DEF Move
  <1>6. ASSUME NextItem(w) PROVE IInv'
    BY <1>1, <1>2, <1>3, <1>6, NextItemKeeps, ScanMoves
  <1> QED BY <1>4, <1>5, <1>6 DEF BlackFilter, WhiteFilter

\* A count rule finds an item outside the watch mode only when it is counted
\* once, and then it was not known.
LEMMA RulesKeep == ASSUME IInv, Settled, NEW w \in Worker, Rules(w) PROVE IInv'
  <1>0. /\ worker[w].m \in Answered /\ worker[w].i \in Items(worker[w].m)
        /\ worker[w].past \in SUBSET Rule
    BY WorksAt DEF Rules
  <1> PICK m \in Message : m = worker[w].m
    BY <1>0 DEF Answered
  <1> PICK i \in Items(m) : i = worker[w].i
    BY <1>0
  <1> DEFINE k == KeyOf(m, i)
  <1>1. UNCHANGED <<rpc, statistics, put, ScanChan, alarms>> /\ failed \subseteq failed'
    BY DEF Rules, store, rpc, Works, Fails
  <1>2. Queued'
    BY <1>1 DEF IInv, Queued
  <1>3. ASSUME NEW pc \in {"rules", "intel"}, NEW past \in SUBSET Rule, CheckAt(w, pc, i, past)
        PROVE  IInv'
    BY <1>0, <1>1, <1>2, <1>3, CheckAtKeeps, ScanMoves
  <1>4. FirstSeen(statistics[k]) /\ Known(m, i) => Failed(m, i)
    <2> SUFFICES ASSUME FirstSeen(statistics[k]), Known(m, i), ~Failed(m, i) PROVE FALSE
      OBVIOUS
    <2>1. statistics[k] # <<>> /\ statistics[k][1] = 1
      BY DEF FirstSeen
    <2>2. k \in Key /\ k[1] = Type[m]
      BY KeyInKey DEF KeyOf
    <2>3. Type[m] \in MainMapping
      BY <2>1, <2>2 DEF IInv, Counts
    <2>4. Past(m, i)
      BY <1>0, <2>3 DEF Past, Answered
    <2>5. statistics[k][1] >= 2
      <3> HIDE DEF Past, Known, Failed
      <3> QED BY <2>4 DEF IInv, Counts
    <2> QED BY <2>1, <2>5
  <1>5. Failed(m, i) => Failed(m, i)'
    BY <1>1 DEF Failed
  <1>6. Known(m, i)' => Known(m, i)
    BY <1>1 DEF Known, Lost, rpc
  <1>7. ASSUME NEW r \in Rule, NEW past \in SUBSET Rule, Warn(w, r, past),
               r \in CountRule => Config.learn \/ FirstSeen(statistics[k])
        PROVE  IInv'
    <2>1. r \in Source
      BY DEF Source
    <2>2. /\ Workers'
          /\ \A v \in Worker \ {w} : worker'[v] = worker[v]
          /\ worker'[w].m = m /\ worker'[w].i = i
          /\ worker'[w].source = r /\ worker'[w].watched = Config.learn
      BY <1>0, <1>1, <1>7, <2>1, WarnKeeps
    <2>3. Founded(worker[w])'
      <3>1. Known(worker[w].m, worker[w].i)' => Known(m, i)
        BY <1>1, <2>2 DEF Known, Lost, rpc
      <3>2. Failed(m, i) => Failed(worker[w].m, worker[w].i)'
        BY <1>1, <2>2 DEF Failed
      <3>3. r \in CountRule /\ Known(m, i) /\ ~Failed(m, i) => Config.learn
        <4> HIDE DEF Known, Failed
        <4> QED BY <1>4, <1>7
      <3>4. (r \in CountRule /\ Known(worker[w].m, worker[w].i)'
                => Config.learn \/ Failed(worker[w].m, worker[w].i)')
        <4> HIDE DEF Known, Failed
        <4> QED BY <3>1, <3>2, <3>3
      <3> HIDE DEF Known, Failed
      <3> QED BY <2>2, <3>4 DEF Founded
    <2>4. \A v \in Worker : Work(v, "warn")' => worker'[v] = worker[v] \/ Founded(worker[v])'
      BY <2>2, <2>3
    <2> QED BY <1>1, <1>2, <2>2, <2>4, ScanMoves
  <1>8. Readable \subseteq Rule
    BY DEF Readable, Settled
  <1>9. ASSUME NEW r \in Readable, NEW counts, Judge(w, r, counts),
               counts = statistics[k] \/ (counts = <<>> /\ ~Config.learn)
        PROVE  IInv'
    <2>1. r \in Rule /\ worker[w].past \cup {r} \in SUBSET Rule
      BY <1>0, <1>8
    <2>2. CASE Fires(r, k, counts)
      <3>1. r \in CountRule => Config.learn \/ FirstSeen(statistics[k])
        BY <1>9, <2>2 DEF Fires, FirstSeen
      <3>2. Warn(w, r, worker[w].past \cup {r})
        BY <1>9, <2>2 DEF Judge
      <3> QED BY <1>7, <2>1, <3>1, <3>2
    <2>3. CASE ~Fires(r, k, counts)
      <3>1. CheckAt(w, "rules", i, worker[w].past \cup {r})
        BY <1>9, <2>3 DEF Judge
      <3> QED BY <1>3, <2>1, <3>1
    <2> QED BY <2>2, <2>3
  <1>10. CASE Move(w, "intel")
    BY <1>3, <1>10 DEF Move
  <1>11. ASSUME NEW r \in Readable, CheckAt(w, "rules", worker[w].i, worker[w].past \cup {r})
         PROVE  IInv'
    BY <1>0, <1>3, <1>8, <1>11
  <1> QED BY <1>9, <1>10, <1>11 DEF Rules

\* A warning has the reason the worker had.
LEMMA WarningKeeps == ASSUME IInv, Settled, NEW w \in Worker, warning(w) PROVE IInv'
  <1>1. /\ worker[w].m \in Answered /\ worker[w].i \in Items(worker[w].m)
        /\ worker[w].past \in SUBSET Rule
    BY WorksAt DEF warning
  <1>2. UNCHANGED <<rpc, statistics, put, failed, ScanChan>>
    BY DEF warning, store, rpc
  <1>3. Queued'
    BY <1>2 DEF IInv, Queued
  <1>4. ASSUME NEW a \in alarms', a \notin alarms
        PROVE  a.m \in Answered /\ a.i \in Items(a.m) /\ Founded(a)
    <2>1. a = [m |-> worker[w].m, i |-> worker[w].i, source |-> worker[w].source,
               watched |-> worker[w].watched, shown |-> ~Config.learn]
      BY <1>4 DEF warning
    <2>2. /\ a.m = worker[w].m /\ a.i = worker[w].i
          /\ a.source = worker[w].source /\ a.watched = worker[w].watched
      BY <2>1
    <2>3. Founded(worker[w])
      BY DEF warning, IInv, Silent
    <2> HIDE DEF Known, Failed
    <2> QED BY <1>1, <2>2, <2>3 DEF Founded
  <1>5. ASSUME \/ Move(w, "white") \/ CheckAt(w, "rules", worker[w].i, worker[w].past) \/ NextItem(w)
        PROVE  Workers' /\ \A v \in Worker : Work(v, "warn")' => worker'[v] = worker[v]
    BY <1>1, <1>2, <1>5, CheckAtKeeps, NextItemKeeps DEF Move
  <1>6. Workers' /\ \A v \in Worker : Work(v, "warn")' => worker'[v] = worker[v]
    BY <1>5 DEF warning
  <1> QED BY <1>2, <1>3, <1>4, <1>6, ScanMoves

LEMMA IntelligenceKeeps ==
  ASSUME IInv, Settled, NEW w \in Worker, Intelligence(w) \/ Ask(w) PROVE IInv'
  <1>1. worker[w].m \in Answered /\ worker[w].i \in Items(worker[w].m)
    BY WorksAt DEF Intelligence, Ask
  <1>2. UNCHANGED <<rpc, statistics, put, failed, ScanChan, alarms>>
    BY DEF Intelligence, Ask, store, rpc
  <1>3. Queued'
    BY <1>2 DEF IInv, Queued
  <1>4. ASSUME Warn(w, "intelligence", {}) PROVE IInv'
    <2>1. "intelligence" \in Source
      BY DEF Source
    <2>2. /\ Workers'
          /\ \A v \in Worker \ {w} : worker'[v] = worker[v]
          /\ worker'[w].source = "intelligence"
      BY <1>1, <1>2, <1>4, <2>1, WarnKeeps
    <2>3. \A v \in Worker : Work(v, "warn")' => worker'[v] = worker[v] \/ Founded(worker[v])'
      BY <2>2, ScanAssumption DEF Founded
    <2> QED BY <1>2, <1>3, <2>2, <2>3, ScanMoves
  <1>5. ASSUME Move(w, "ask") PROVE IInv'
    BY <1>1, <1>2, <1>3, <1>5, CheckAtKeeps, ScanMoves DEF Move
  <1>6. ASSUME NextItem(w) PROVE IInv'
    BY <1>1, <1>2, <1>3, <1>6, NextItemKeeps, ScanMoves
  <1> QED BY <1>4, <1>5, <1>6 DEF Intelligence, Ask

---------------------------------------------------------------------------
(* The server beside reports and workers *)

\* The configuration, the rules and Elasticsearch touch neither reports nor counts.
LEMMA OthersKeep ==
  ASSUME IInv, UNCHANGED <<rpc, statistics, worker, alarms, failed, ScanChan>>
  PROVE  IInv'
  <1>1. put' = put
    BY DEF rpc
  <1>2. Queued' /\ Workers'
    BY <1>1 DEF IInv, Queued, Workers, Busy
  <1> QED BY <1>2, ScanMoves

LEMMA ServerRestartsKeeps == ASSUME IInv, ServerRestarts PROVE IInv'
  <1>1. UNCHANGED <<rpc, statistics, alarms, failed>>
    BY DEF ServerRestarts, store
  <1>2. Queued'
    BY DEF ServerRestarts, Queued
  <1>3. Workers'
    BY DEF ServerRestarts, Workers
  <1>4. \A v \in Worker : ~Work(v, "warn")'
    BY DEF ServerRestarts, Work, Idle
  <1> QED BY <1>1, <1>2, <1>3, <1>4, ScanMoves

---------------------------------------------------------------------------
(* The invariant *)

LEMMA InitHolds == Init => IInv
  <1> SUFFICES ASSUME Init PROVE IInv
    OBVIOUS
  <1>1. Shape
    BY DataLength DEF Init, Shape, Items
  <1>2. Queued /\ Workers /\ Earlier /\ Alarmed
    BY DEF Init, Queued, Workers, Earlier, Alarmed
  <1>3. \A m \in Message, i \in Nat : ~Past(m, i)
    BY DEF Init, Past
  <1>4. \A m \in Message : Items(m) \subseteq Nat
    BY DEF Items
  <1>6. Silent
    BY DEF Init, Silent, Work, Idle
  <1>5. Counts
    <2> HIDE DEF Past, Known, Lost, Failed
    <2>1. \A k \in Key : statistics[k] = <<>>
      BY DEF Init
    <2>2. \A m \in Message : put[m] = "unsent"
      BY DEF Init
    <2> QED BY <1>3, <1>4, <2>1, <2>2 DEF Counts
  <1> QED BY <1>1, <1>2, <1>5, <1>6 DEF IInv

LEMMA NextKeeps == ASSUME IInv, Settled, [Next]_vars PROVE IInv'
  <1>1. CASE \E m \in Message : PutInfo(m)
    BY <1>1, SendKeeps, SaveKeeps, StatCountKeeps, StatWriteKeeps, PushKeeps DEF PutInfo, Handle
  <1>2. CASE \E w \in Worker : Scan(w)
    BY <1>2, ReceiveKeeps, FiltersKeep, RulesKeep, WarningKeeps, IntelligenceKeeps DEF Scan
  <1>3. CASE InsertThread
    BY <1>3, OthersKeep DEF InsertThread, store, scan
  <1>4. CASE Heartbeat
    BY <1>4, OthersKeep DEF Heartbeat, QueryConfig, AssignConfig, QueryRules, InstallRules,
                            store, scan
  <1>5. CASE Console
    BY <1>5, OthersKeep DEF Console, AddOne, DelOne, EditByID, EnableRule, store, scan
  <1>6. CASE ServerRestarts
    BY <1>6, ServerRestartsKeeps
  <1>7. CASE UNCHANGED vars
    BY <1>7, OthersKeep DEF vars, store, scan
  <1> QED BY <1>1, <1>2, <1>3, <1>4, <1>5, <1>6, <1>7 DEF Next

\* The counts of what was counted, and what follows for workers and alarms, hold
\* in every state of the pipeline, whichever queries fail and however often the
\* server is started again.
THEOREM PipelineInvariant == Spec => []IInv
  BY InitHolds, NextKeeps, SettledAlways, PTL DEF Spec

\* A worker that looks for the count of an item finds one, unless its write
\* failed: PutInfo counts before it queues (server.go:64-72).
THEOREM ReportsCountedFirst == Spec => []CountedBeforeChecked
  <1>1. IInv => CountedBeforeChecked
    <2> SUFFICES ASSUME IInv, NEW w \in Worker, Work(w, "rules"),
                        Type[worker[w].m] \in MainMapping, ~Lost(worker[w].m, worker[w].i)
                 PROVE  statistics[KeyOf(worker[w].m, worker[w].i)] # <<>>
      BY DEF CountedBeforeChecked
    <2>1. worker[w].m \in Message /\ worker[w].m \in Answered /\ worker[w].i \in Items(worker[w].m)
      BY WorksAt
    <2>2. Past(worker[w].m, worker[w].i)
      BY <2>1 DEF Past, Answered
    <2> HIDE DEF Past, Lost
    <2> QED BY <2>1, <2>2 DEF IInv, Counts
  <1> QED BY <1>1, PipelineInvariant, PTL

\* No count rule shows a warning of an item that was counted for a report answered
\* before this one was sent, unless a query about it failed or the rule looked at
\* it in the watch mode, whatever the heartbeat replaces between the rule's reading
\* of Config.Learn and that of warning (check.go:163, 245).
THEOREM KnownStaysSilent == Spec => []SilentWhenKnown
  <1>1. IInv => SilentWhenKnown
    BY DEF IInv, Silent, SilentWhenKnown
  <1> QED BY <1>1, PipelineInvariant, PTL

---------------------------------------------------------------------------
(* The collected data *)

InfoKeys == {InfoKey(m) : m \in Message}
First(m) == info[InfoKey(m)][1]
Saved(m) == put[m] \in {"stat", "write", "push", "done"} /\ Type[m] \notin EsTypes /\ ~Failed(m, 0)

\* What a handler found or wrote is still there, and the first document is of a
\* report that was not answered when this one was sent.
Collected ==
    /\ info \in [InfoKeys -> Seq(Message)]
    /\ \A m \in Message : put[m] = "keep" /\ found[m] => info[InfoKey(m)] # <<>>
    /\ \A m \in Message :
          put[m] = "keep" /\ ~found[m] /\ ~Failed(m, 0) /\ info[InfoKey(m)] # <<>>
              => First(m) \notin before[m]
    /\ \A m \in Message : Saved(m) => info[InfoKey(m)] # <<>> /\ First(m) \notin before[m]

\* Steps that leave the documents alone and move no handler to or past its write.
LEMMA CollectedStays ==
  ASSUME Collected, UNCHANGED <<info, before>>, failed \subseteq failed',
         \A m \in Message :
            \/ put'[m] = put[m] /\ found'[m] = found[m]
            \/ /\ put[m] \in {"stat", "write", "push"} \/ Type[m] \in EsTypes
               /\ put'[m] # "keep" /\ put[m] # "keep"
            \/ put'[m] = "save"
  PROVE  Collected'
  <1>1. \A m : Failed(m, 0) => Failed(m, 0)'
    BY DEF Failed
  <1> HIDE DEF Failed
  <1>2. SUFFICES ASSUME NEW m \in Message
                 PROVE  /\ (put[m] = "keep" /\ found[m] => info[InfoKey(m)] # <<>>)'
                        /\ (put[m] = "keep" /\ ~found[m] /\ ~Failed(m, 0) /\ info[InfoKey(m)] # <<>>
                              => First(m) \notin before[m])'
                        /\ (Saved(m) => info[InfoKey(m)] # <<>> /\ First(m) \notin before[m])'
    BY DEF Collected
  <1>3. CASE put'[m] = put[m] /\ found'[m] = found[m]
    BY <1>1, <1>3 DEF Collected, Saved, First
  <1>4. CASE /\ put[m] \in {"stat", "write", "push"} \/ Type[m] \in EsTypes
             /\ put'[m] # "keep" /\ put[m] # "keep"
    BY <1>1, <1>4 DEF Collected, Saved, First
  <1>5. CASE put'[m] = "save"
    BY <1>5 DEF Saved
  <1> QED BY <1>2, <1>3, <1>4, <1>5

\* The handler counts the documents of its host and type.
LEMMA SaveCountCollects ==
  ASSUME IInv, Collected, NEW m \in Message, SaveCount(m)
  PROVE  Collected'
  <1>1. /\ UNCHANGED <<info, before>> /\ failed \subseteq failed'
        /\ put' = [put EXCEPT ![m] = "keep"] /\ Type[m] \notin EsTypes
        /\ \/ Found(m, Len(info[InfoKey(m)]))
           \/ Found(m, 0) /\ <<m, 0, "count">> \in failed'
    BY DEF SaveCount, Goto, Works, Fails, Event, store
  <1>2. \A n : Failed(n, 0) => Failed(n, 0)'
    BY <1>1 DEF Failed
  <1>f. <<m, 0, "count">> \in failed' => Failed(m, 0)'
    BY DEF Failed
  <1> HIDE DEF Failed
  <1>3. info[InfoKey(m)] \in Seq(Message)
    BY DEF Collected, InfoKeys
  <1>4. put'[m] = "keep" /\ (found'[m] => info[InfoKey(m)] # <<>>)
        /\ (~found'[m] => info[InfoKey(m)] = <<>> \/ Failed(m, 0)')
    <2>1. put'[m] = "keep"
      BY <1>1 DEF IInv, Shape
    <2>2. CASE Found(m, Len(info[InfoKey(m)]))
      <3>1. found'[m] <=> Len(info[InfoKey(m)]) >= 1
        BY <2>2 DEF Found, IInv, Shape
      <3>2. Len(info[InfoKey(m)]) >= 1 <=> info[InfoKey(m)] # <<>>
        BY <1>3
      <3> QED BY <2>1, <3>1, <3>2
    <2>3. CASE Found(m, 0) /\ <<m, 0, "count">> \in failed'
      <3>1. found'[m] <=> 0 >= 1
        BY <2>3 DEF Found, IInv, Shape
      <3> QED BY <1>f, <2>1, <2>3, <3>1
    <2> QED BY <1>1, <2>2, <2>3
  <1>5. \A n \in Message \ {m} : put'[n] = put[n] /\ found'[n] = found[n]
    BY <1>1 DEF Found, IInv, Shape
  <1>6. ASSUME NEW n \in Message
        PROVE  /\ (put[n] = "keep" /\ found[n] => info[InfoKey(n)] # <<>>)'
               /\ (put[n] = "keep" /\ ~found[n] /\ ~Failed(n, 0) /\ info[InfoKey(n)] # <<>>
                     => First(n) \notin before[n])'
               /\ (Saved(n) => info[InfoKey(n)] # <<>> /\ First(n) \notin before[n])'
    <2>1. CASE n = m
      BY <1>1, <1>4, <2>1 DEF Saved
    <2>2. CASE n # m
      BY <1>1, <1>2, <1>5, <2>2 DEF Collected, Saved, First
    <2> QED BY <2>1, <2>2
  <1> QED BY <1>1, <1>6 DEF Collected

\* The handler writes: the first document becomes its own, stays, or is new.
LEMMA SaveWriteCollects ==
  ASSUME IInv, Collected, NEW m \in Message, SaveWrite(m)
  PROVE  Collected'
  <1> DEFINE k == InfoKey(m)
  <1>1. /\ before' = before /\ failed \subseteq failed' /\ put[m] = "keep"
        /\ put' = [put EXCEPT ![m] = AfterSave(m)]
        /\ found' = [found EXCEPT ![m] = FALSE]
        /\ \/ info' = [info EXCEPT ![k] = IF found[m] THEN [@ EXCEPT ![1] = m] ELSE Append(@, m)]
           \/ info' = info /\ Failed(m, 0)'
    BY DEF SaveWrite, At, Goto, Works, Fails, Event, Failed
  <1>2. \A n : Failed(n, 0) => Failed(n, 0)'
    BY <1>1 DEF Failed
  <1>3. /\ put'[m] \in {"stat", "push"}
        /\ \A n \in Message \ {m} : put'[n] = put[n] /\ found'[n] = found[n]
    BY <1>1 DEF IInv, Shape, AfterSave
  <1>4. \A n \in Message : m \notin before[n]
    BY <1>1 DEF IInv, Earlier, Answered
  <1>5. k \in InfoKeys /\ info[k] \in Seq(Message) /\ DOMAIN info = InfoKeys
    BY DEF Collected, InfoKeys
  <1>6. found[m] => info[k] # <<>>
    BY <1>1 DEF Collected
  <1> HIDE DEF Failed
  <1>7. CASE info' = info /\ Failed(m, 0)'
    <2> SUFFICES ASSUME NEW n \in Message
        PROVE  /\ (put[n] = "keep" /\ found[n] => info[InfoKey(n)] # <<>>)'
               /\ (put[n] = "keep" /\ ~found[n] /\ ~Failed(n, 0) /\ info[InfoKey(n)] # <<>>
                     => First(n) \notin before[n])'
               /\ (Saved(n) => info[InfoKey(n)] # <<>> /\ First(n) \notin before[n])'
      BY <1>7 DEF Collected
    <2>1. CASE n = m
      BY <1>3, <1>7, <2>1 DEF Saved
    <2>2. CASE n # m
      BY <1>1, <1>2, <1>3, <1>7, <2>2 DEF Collected, Saved, First
    <2> QED BY <2>1, <2>2
  <1>8. CASE info' = [info EXCEPT ![k] = IF found[m] THEN [@ EXCEPT ![1] = m] ELSE Append(@, m)]
    <2> DEFINE new == IF found[m] THEN [info[k] EXCEPT ![1] = m] ELSE Append(info[k], m)
    <2>1. /\ new \in Seq(Message) /\ new # <<>>
          /\ new[1] = m \/ (info[k] # <<>> /\ new[1] = info[k][1] /\ ~found[m])
      <3>1. CASE found[m]
        <4>1. new = [info[k] EXCEPT ![1] = m] /\ info[k] # <<>>
          BY <1>6, <3>1
        <4>2. 1 \in 1..Len(info[k])
          BY <1>5, <4>1
        <4> QED BY <1>5, <4>1, <4>2
      <3>2. CASE ~found[m]
        <4>1. new = Append(info[k], m)
          BY <3>2
        <4> DEFINE s == info[k]
        <4>2. s \in Seq(Message)
          BY <1>5
        <4> HIDE DEF s, new, k
        <4>3. /\ Append(s, m) \in Seq(Message) /\ Append(s, m) # <<>>
              /\ s # <<>> => Append(s, m)[1] = s[1]
              /\ s = <<>> => Append(s, m)[1] = m
          BY <4>2
        <4>4. new = Append(s, m) /\ s = info[k]
          BY <4>1 DEF s
        <4> QED BY <3>2, <4>3, <4>4
      <3> QED BY <3>1, <3>2
    <2>2. info' = [info EXCEPT ![k] = new]
      BY <1>8
    <2> HIDE DEF new
    <2>3. info' \in [InfoKeys -> Seq(Message)] /\ info'[k] = new
          /\ \A j \in InfoKeys \ {k} : info'[j] = info[j]
      BY <1>5, <2>1, <2>2 DEF Collected
    <2> HIDE DEF k
    <2>4. ASSUME NEW n \in Message
        PROVE  /\ (put[n] = "keep" /\ found[n] => info[InfoKey(n)] # <<>>)'
               /\ (put[n] = "keep" /\ ~found[n] /\ ~Failed(n, 0) /\ info[InfoKey(n)] # <<>>
                     => First(n) \notin before[n])'
               /\ (Saved(n) => info[InfoKey(n)] # <<>> /\ First(n) \notin before[n])'
      <3>1. CASE n = m
        <4>1. ~Failed(m, 0)' => new[1] \notin before[m]
          BY <1>1, <1>2, <1>4, <2>1 DEF Collected, First, k
        <4>2. info'[InfoKey(m)] = new
          BY <2>3 DEF k
        <4> QED BY <1>1, <1>3, <2>1, <3>1, <4>1, <4>2 DEF Saved, First
      <3>2. CASE n # m /\ InfoKey(n) = k
        <4>1. info'[InfoKey(n)] = new /\ info[InfoKey(n)] = info[k]
          BY <2>3, <3>2
        <4>2. put'[n] = put[n] /\ found'[n] = found[n] /\ before'[n] = before[n]
          BY <1>1, <1>3, <3>2
        <4>3. m \notin before[n] /\ new # <<>>
          BY <1>4, <2>1
        <4>4. (put[n] = "keep" /\ ~found[n] /\ ~Failed(n, 0)) \/ Saved(n) => new[1] \notin before[n]
          BY <2>1, <4>1, <4>3 DEF Collected, First
        <4> QED BY <1>2, <4>1, <4>2, <4>3, <4>4 DEF Saved, First
      <3>3. CASE n # m /\ InfoKey(n) # k
        <4>1. info'[InfoKey(n)] = info[InfoKey(n)]
          BY <2>3, <3>3 DEF InfoKeys
        <4>2. put'[n] = put[n] /\ found'[n] = found[n] /\ before'[n] = before[n]
          BY <1>1, <1>3, <3>3
        <4> QED BY <1>2, <4>1, <4>2 DEF Collected, Saved, First
      <3> QED BY <3>1, <3>2, <3>3
    <2> QED BY <2>3, <2>4 DEF Collected
  <1> QED BY <1>1, <1>7, <1>8

\* A report that is sent has saved nothing yet.
LEMMA SendCollects ==
  ASSUME IInv, Collected, NEW m \in Message, Send(m)
  PROVE  Collected'
  <1>1. /\ UNCHANGED <<info, found, failed>>
        /\ put' = [put EXCEPT ![m] = "save"] /\ before' = [before EXCEPT ![m] = Answered]
    BY DEF Send, Goto, store
  <1>2. put'[m] = "save" /\ \A n \in Message \ {m} : put'[n] = put[n] /\ before'[n] = before[n]
    BY <1>1 DEF IInv, Shape, Earlier
  <1>3. \A n : Failed(n, 0)' <=> Failed(n, 0)
    BY <1>1 DEF Failed
  <1> HIDE DEF Failed
  <1>4. ASSUME NEW n \in Message
        PROVE  /\ (put[n] = "keep" /\ found[n] => info[InfoKey(n)] # <<>>)'
               /\ (put[n] = "keep" /\ ~found[n] /\ ~Failed(n, 0) /\ info[InfoKey(n)] # <<>>
                     => First(n) \notin before[n])'
               /\ (Saved(n) => info[InfoKey(n)] # <<>> /\ First(n) \notin before[n])'
    <2>1. CASE n = m
      BY <1>2, <2>1 DEF Saved
    <2>2. CASE n # m
      BY <1>1, <1>2, <1>3, <2>2 DEF Collected, Saved, First
    <2> QED BY <2>1, <2>2
  <1> QED BY <1>1, <1>4 DEF Collected

\* What the handlers found and wrote is there in every state.
LEMMA CollectedAlways == Spec => []Collected
  <1>1. Init => Collected
    BY DEF Init, Collected, Saved, InfoKeys
  <1>2. IInv /\ Collected /\ [Next]_vars => Collected'
    <2> SUFFICES ASSUME IInv, Collected, [Next]_vars PROVE Collected'
      OBVIOUS
    <2>1. ASSUME NEW m \in Message, PutInfo(m) PROVE Collected'
      <3>1. CASE SaveEs(m)
        <4>1. UNCHANGED <<info, before, failed, found>> /\ Type[m] \in EsTypes /\ put[m] = "save"
          BY <3>1 DEF SaveEs, At, store
        <4>2. \E pc \in {"stat", "push"} : put' = [put EXCEPT ![m] = pc] \/ put' = put
          BY <3>1 DEF SaveEs, Goto, AfterSave
        <4>3. \A n \in Message \ {m} : put'[n] = put[n]
          BY <4>2 DEF IInv, Shape
        <4>4. put'[m] # "keep"
          BY <4>1, <4>2 DEF IInv, Shape
        <4> QED BY <4>1, <4>3, <4>4, CollectedStays
      <3>2. CASE StatCount(m) \/ StatWrite(m) \/ Push(m)
        <4>1. /\ UNCHANGED <<info, before>> /\ failed \subseteq failed'
              /\ put[m] \in {"stat", "write", "push"}
          BY <3>2 DEF StatCount, StatWrite, Push, At, Works, Fails, Event, store
        <4>2. \E pc \in {"stat", "write", "push", "done"} : put' = [put EXCEPT ![m] = pc]
          BY <3>2 DEF StatCount, StatWrite, Push, Goto
        <4>3. \A n \in Message \ {m} : put'[n] = put[n] /\ found'[n] = found[n]
          BY <3>2, <4>2 DEF IInv, Shape, StatCount, StatWrite, Push, Found
        <4>4. put'[m] # "keep"
          BY <4>2 DEF IInv, Shape
        <4> QED BY <4>1, <4>3, <4>4, CollectedStays
      <3> QED BY <2>1, <3>1, <3>2, SendCollects, SaveCountCollects, SaveWriteCollects
              DEF PutInfo, Handle
    <2>2. CASE UNCHANGED <<rpc, info>> /\ failed \subseteq failed'
      BY <2>2, CollectedStays DEF rpc
    <2>3. CASE \E w \in Worker : Scan(w)
      BY <2>2, <2>3 DEF Scan, Receive, BlackFilter, WhiteFilter, Rules, warning, Intelligence, Ask,
                        Works, Fails, Event, store
    <2>4. CASE InsertThread \/ Heartbeat \/ Console \/ ServerRestarts
      BY <2>2, <2>4 DEF InsertThread, Heartbeat, QueryConfig, AssignConfig, QueryRules, InstallRules,
                        Console, AddOne, DelOne, EditByID, EnableRule, ServerRestarts, store
    <2>5. CASE UNCHANGED vars
      BY <2>2, <2>5 DEF vars, store
    <2> QED BY <2>1, <2>3, <2>4, <2>5 DEF Next
  <1> QED BY <1>1, <1>2, PipelineInvariant, PTL DEF Spec

\* The reports whose data the documents of a host and type hold.
Docs(k) == {info[k][j] : j \in DOMAIN info[k]}

\* A handler adds a document only when it found none, or its query failed, and then
\* none of a report answered before its own was sent.
Unshared ==
    /\ \A k \in InfoKeys : \A d \in Docs(k) :
          d \in Message /\ InfoKey(d) = k /\ put[d] \in {"stat", "write", "push", "done"}
    /\ \A m \in Message : put[m] = "keep" /\ ~found[m] /\ ~Failed(m, 0) =>
          \A d \in Docs(InfoKey(m)) : d \notin before[m]
    /\ \A k \in InfoKeys : Alone(k) => Len(info[k]) <= 1

\* A report that is sent stays sent; with more reports fewer are alone.
LEMMA AloneBefore ==
  ASSUME failed \subseteq failed',
         \A m \in Message : put[m] # "unsent" => put'[m] # "unsent" /\ before'[m] = before[m]
  PROVE  \A k : Alone(k)' => Alone(k)
  <1>1. \A m : Failed(m, 0) => Failed(m, 0)'
    BY DEF Failed
  <1> HIDE DEF Failed
  <1> QED BY <1>1 DEF Alone

\* Steps that leave the documents alone and count them only where there are none.
LEMMA UnsharedStays ==
  ASSUME Unshared, info' = info, failed \subseteq failed',
         \A m \in Message : put[m] # "unsent" => put'[m] # "unsent" /\ before'[m] = before[m],
         \A m \in Message : put[m] \in {"stat", "write", "push", "done"}
                               => put'[m] \in {"stat", "write", "push", "done"},
         \A m \in Message : put'[m] = "keep" /\ ~found'[m] /\ ~Failed(m, 0)'
                               => (put[m] = "keep" /\ ~found[m]) \/ info[InfoKey(m)] = <<>>
  PROVE  Unshared'
  <1>1. \A m : Failed(m, 0) => Failed(m, 0)'
    BY DEF Failed
  <1>2. \A k : Alone(k)' => Alone(k)
    BY AloneBefore
  <1>3. \A k : Docs(k)' = Docs(k) /\ (info[k] = <<>> => Docs(k) = {})
    BY DEF Docs
  <1> HIDE DEF Failed, Alone, Docs, InfoKey, InfoKeys
  <1>4. \A m \in Message : (put[m] = "keep" /\ ~found[m] /\ ~Failed(m, 0))' =>
           \A d \in Docs(InfoKey(m)) : d \notin before'[m]
    BY <1>1, <1>3 DEF Unshared
  <1>5. InfoKeys' = InfoKeys /\ \A m : InfoKey(m)' = InfoKey(m)
    BY DEF InfoKeys, InfoKey
  <1> QED BY <1>2, <1>3, <1>4, <1>5 DEF Unshared

\* The write of a handler that had found no document adds the second one only
\* beside a report that was saved at the same time.
LEMMA SaveWriteUnshared ==
  ASSUME IInv, Collected, Unshared, NEW m \in Message, SaveWrite(m)
  PROVE  Unshared'
  <1> DEFINE W == {"stat", "write", "push", "done"}
  <1>1. /\ before' = before /\ failed \subseteq failed' /\ put[m] = "keep"
        /\ put' = [put EXCEPT ![m] = AfterSave(m)]
        /\ found' = [found EXCEPT ![m] = FALSE]
        /\ \/ info' = [info EXCEPT ![InfoKey(m)] = IF found[m] THEN [@ EXCEPT ![1] = m] ELSE Append(@, m)]
           \/ info' = info
    BY DEF SaveWrite, At, Goto, Works, Fails, Event
  <1>2. /\ put'[m] \in {"stat", "push"}
        /\ \A n \in Message \ {m} : put'[n] = put[n] /\ found'[n] = found[n]
    BY <1>1 DEF IInv, Shape, AfterSave
  <1>3. /\ \A n \in Message : put[n] # "unsent" => put'[n] # "unsent" /\ before'[n] = before[n]
        /\ \A n \in Message : put[n] \in W => put'[n] \in W
        /\ \A n \in Message : put'[n] = "keep" => n # m
    BY <1>1, <1>2
  <1>4. CASE info' = info
    BY <1>1, <1>2, <1>3, <1>4, UnsharedStays
  <1>5. CASE info' = [info EXCEPT ![InfoKey(m)] = IF found[m] THEN [@ EXCEPT ![1] = m] ELSE Append(@, m)]
    <2> DEFINE k == InfoKey(m)
               old == info[k]
               new == IF found[m] THEN [old EXCEPT ![1] = m] ELSE Append(old, m)
    <2>1. k \in InfoKeys /\ old \in Seq(Message) /\ info \in [InfoKeys -> Seq(Message)]
          /\ (found[m] => old # <<>>)
      BY <1>1 DEF Collected, InfoKeys
    <2>2. info' = [info EXCEPT ![k] = new]
      BY <1>5
    <2>3. /\ \A j \in DOMAIN new : new[j] = m \/ (j \in DOMAIN old /\ new[j] = old[j])
          /\ found[m] => Len(new) = Len(old)
          /\ ~found[m] => Len(new) = Len(old) + 1
      <3> HIDE DEF k, old
      <3>1. CASE found[m]
        BY <2>1, <3>1
      <3>2. CASE ~found[m]
        BY <2>1, <3>2
      <3> QED BY <3>1, <3>2
    <2>4. \A n \in Message : m \notin before[n]
      BY <1>1 DEF IInv, Earlier, Answered
    <2> HIDE DEF new, old
    <2>5. info'[k] = new /\ \A q \in InfoKeys \ {k} : info'[q] = info[q]
      BY <2>1, <2>2
    <2>6. /\ \A d \in Docs(k)' : d = m \/ d \in Docs(k)
          /\ \A q \in InfoKeys \ {k} : Docs(q)' = Docs(q)
      <3>1. Docs(k)' = {new[j] : j \in DOMAIN new} /\ Docs(k) = {old[j] : j \in DOMAIN old}
        BY <2>5 DEF Docs, old, k, InfoKey
      <3>2. \A q \in InfoKeys \ {k} : Docs(q)' = Docs(q)
        BY <2>5 DEF Docs
      <3> QED BY <2>3, <3>1, <3>2
    <2>7. \A q \in InfoKeys : \A d \in Docs(q)' : d \in Message /\ InfoKey(d) = q /\ put'[d] \in W
      <3>1. \A q \in InfoKeys : \A d \in Docs(q) : d \in Message /\ InfoKey(d) = q /\ put[d] \in W
        BY DEF Unshared
      <3> HIDE DEF Docs, W
      <3>2. \A q \in InfoKeys : \A d \in Docs(q)' : d \in Docs(q) \/ (q = k /\ d = m)
        BY <2>6
      <3>3. put'[m] \in W
        BY <1>2 DEF W
      <3> QED BY <1>3, <3>1, <3>2, <3>3
    <2>8. ASSUME NEW n \in Message, (put[n] = "keep" /\ ~found[n] /\ ~Failed(n, 0))', NEW d \in Docs(InfoKey(n))'
          PROVE  d \notin before'[n]
      <3>1. n # m /\ put[n] = "keep" /\ ~found[n] /\ ~Failed(n, 0)
        BY <1>1, <1>2, <1>3, <2>8 DEF Failed
      <3>2. \A e \in Docs(InfoKey(n)) : e \notin before[n]
        BY <3>1 DEF Unshared
      <3>3. InfoKey(n) \in InfoKeys /\ InfoKey(n)' = InfoKey(n)
        BY DEF InfoKeys, InfoKey
      <3>4. d = m \/ d \in Docs(InfoKey(n))
        <4> HIDE DEF Docs, InfoKey
        <4> QED BY <2>6, <2>8, <3>3
      <3> HIDE DEF Docs, InfoKey
      <3> QED BY <1>1, <2>4, <3>2, <3>4
    <2>9. \A q : Alone(q)' => Alone(q)
      BY <1>1, <1>3, AloneBefore
    <2>10. ASSUME Alone(k)' PROVE Len(info'[k]) <= 1
      <3>1. CASE found[m]
        <4>1. Len(old) <= 1
          BY <2>1, <2>9, <2>10 DEF Unshared, old
        <4> QED BY <2>3, <2>5, <3>1, <4>1
      <3>2. CASE ~found[m] /\ old # <<>>
        <4>1. PICK d \in Docs(k) : TRUE
          <5>1. 1 \in DOMAIN old
            BY <2>1, <3>2
          <5> QED BY <5>1 DEF Docs, old
        <4>2. d \in Message /\ InfoKey(d) = k /\ put[d] \in W
          BY <2>1, <4>1 DEF Unshared
        <4>3. d # m /\ put'[d] # "unsent" /\ put'[m] # "unsent"
          BY <1>1, <1>2, <1>3, <4>2
        <4>4. ~Failed(m, 0)' /\ (d \in before'[m] \/ m \in before'[d])
          BY <2>10, <4>2, <4>3 DEF Alone, InfoKey
        <4>5. ~Failed(m, 0)
          BY <1>1, <4>4 DEF Failed
        <4>6. d \notin before[m]
          BY <1>1, <3>2, <4>1, <4>5 DEF Unshared
        <4> QED BY <1>1, <2>4, <4>2, <4>4, <4>6
      <3>3. CASE ~found[m] /\ old = <<>>
        <4>1. Len(old) = 0
          BY <3>3
        <4> QED BY <2>3, <2>5, <3>3, <4>1
      <3> QED BY <3>1, <3>2, <3>3
    <2>11. \A q \in InfoKeys : Alone(q)' => Len(info'[q]) <= 1
      <3> HIDE DEF Alone
      <3>1. ASSUME NEW q \in InfoKeys \ {k}, Alone(q)' PROVE Len(info'[q]) <= 1
        BY <2>5, <2>9, <3>1 DEF Unshared
      <3> QED BY <2>10, <3>1 DEF k, InfoKey
    <2>12. InfoKeys' = InfoKeys /\ \A n : InfoKey(n)' = InfoKey(n)
      BY DEF InfoKeys, InfoKey
    <2> HIDE DEF Docs, Alone, Failed, InfoKey, InfoKeys, k
    <2> QED BY <2>7, <2>8, <2>11, <2>12 DEF Unshared
  <1> QED BY <1>1, <1>4, <1>5

\* The documents of a host and type are unshared in every state.
LEMMA UnsharedAlways == Spec => []Unshared
  <1>1. Init => Unshared
    <2> SUFFICES ASSUME Init PROVE Unshared
      OBVIOUS
    <2>1. \A k \in InfoKeys : info[k] = <<>> /\ Docs(k) = {} /\ Len(info[k]) = 0
      BY DEF Init, InfoKeys, Docs
    <2>2. \A m \in Message : put[m] = "unsent"
      BY DEF Init
    <2> HIDE DEF Docs, Alone
    <2> QED BY <2>1, <2>2 DEF Unshared
  <1>2. IInv /\ Collected /\ Unshared /\ [Next]_vars => Unshared'
    <2> SUFFICES ASSUME IInv, Collected, Unshared, [Next]_vars PROVE Unshared'
      OBVIOUS
    <2>1. ASSUME NEW m \in Message, PutInfo(m) PROVE Unshared'
      <3>1. CASE Send(m)
        <4>1. /\ UNCHANGED <<info, found, failed>> /\ put[m] = "unsent"
              /\ put' = [put EXCEPT ![m] = "save"] /\ before' = [before EXCEPT ![m] = Answered]
          BY <3>1 DEF Send, At, Goto, store
        <4>2. put'[m] = "save" /\ \A n \in Message \ {m} : put'[n] = put[n] /\ before'[n] = before[n]
          BY <4>1 DEF IInv, Shape, Earlier
        <4> QED BY <4>1, <4>2, UnsharedStays
      <3>2. CASE SaveEs(m)
        <4>1. UNCHANGED <<info, before, failed, found>> /\ put[m] = "save"
          BY <3>2 DEF SaveEs, At, store
        <4>2. \E pc \in {"stat", "push"} : put' = [put EXCEPT ![m] = pc] \/ put' = put
          BY <3>2 DEF SaveEs, Goto, AfterSave
        <4>3. put'[m] \in {"save", "stat", "push"} /\ \A n \in Message \ {m} : put'[n] = put[n]
          BY <4>1, <4>2 DEF IInv, Shape
        <4> QED BY <4>1, <4>3, UnsharedStays
      <3>3. CASE SaveCount(m)
        <4>1. /\ UNCHANGED <<info, before>> /\ failed \subseteq failed'
              /\ put' = [put EXCEPT ![m] = "keep"] /\ put[m] = "save"
              /\ \/ Found(m, Len(info[InfoKey(m)]))
                 \/ <<m, 0, "count">> \in failed'
          BY <3>3 DEF SaveCount, At, Goto, Works, Fails, Event, store
        <4>2. put'[m] = "keep" /\ \A n \in Message \ {m} : put'[n] = put[n]
          BY <4>1 DEF IInv, Shape
        <4>3. \A n \in Message \ {m} : found'[n] = found[n]
          BY <3>3 DEF SaveCount, Found, IInv, Shape
        <4>4. ~found'[m] /\ ~Failed(m, 0)' => info[InfoKey(m)] = <<>>
          <5>1. CASE Found(m, Len(info[InfoKey(m)]))
            <6>1. info[InfoKey(m)] \in Seq(Message)
              BY DEF Collected, InfoKeys
            <6>2. found'[m] <=> Len(info[InfoKey(m)]) >= 1
              BY <5>1 DEF Found, IInv, Shape
            <6>3. Len(info[InfoKey(m)]) >= 1 \/ info[InfoKey(m)] = <<>>
              BY <6>1
            <6> QED BY <6>2, <6>3
          <5>2. CASE <<m, 0, "count">> \in failed'
            BY <5>2 DEF Failed
          <5> QED BY <4>1, <5>1, <5>2
        <4> HIDE DEF Failed
        <4> QED BY <4>1, <4>2, <4>3, <4>4, UnsharedStays
      <3>4. CASE StatCount(m) \/ StatWrite(m) \/ Push(m)
        <4>1. /\ UNCHANGED <<info, before>> /\ failed \subseteq failed'
              /\ put[m] \in {"stat", "write", "push"}
          BY <3>4 DEF StatCount, StatWrite, Push, At, Works, Fails, Event, store
        <4>2. \E pc \in {"stat", "write", "push", "done"} : put' = [put EXCEPT ![m] = pc]
          BY <3>4 DEF StatCount, StatWrite, Push, Goto
        <4>3. \A n \in Message \ {m} : put'[n] = put[n] /\ found'[n] = found[n]
          BY <3>4, <4>2 DEF IInv, Shape, StatCount, StatWrite, Push, Found
        <4>4. put'[m] \in {"stat", "write", "push", "done"}
          BY <4>2 DEF IInv, Shape
        <4> HIDE DEF Failed
        <4> QED BY <4>1, <4>3, <4>4, UnsharedStays
      <3> QED BY <2>1, <3>1, <3>2, <3>3, <3>4, SaveWriteUnshared DEF PutInfo, Handle
    <2>2. CASE UNCHANGED <<rpc, info>> /\ failed \subseteq failed'
      <3>1. \A m \in Message : put'[m] = put[m] /\ found'[m] = found[m] /\ before'[m] = before[m]
        BY <2>2 DEF rpc
      <3> HIDE DEF Failed
      <3> QED BY <2>2, <3>1, UnsharedStays
    <2>3. CASE \E w \in Worker : Scan(w)
      BY <2>2, <2>3 DEF Scan, Receive, BlackFilter, WhiteFilter, Rules, warning, Intelligence, Ask,
                        Works, Fails, Event, store
    <2>4. CASE InsertThread \/ Heartbeat \/ Console \/ ServerRestarts
      BY <2>2, <2>4 DEF InsertThread, Heartbeat, QueryConfig, AssignConfig, QueryRules, InstallRules,
                        Console, AddOne, DelOne, EditByID, EnableRule, ServerRestarts, store
    <2>5. CASE UNCHANGED vars
      BY <2>2, <2>5 DEF vars, store
    <2> QED BY <2>1, <2>3, <2>4, <2>5 DEF Next
  <1> QED BY <1>1, <1>2, PipelineInvariant, CollectedAlways, PTL DEF Spec

\* The first document of a host's collected data never goes back behind a saved
\* report, however many handlers race each other between their count and their
\* write, and a second one beside it, which the console shows too, comes only from
\* reports saved at the same time or a failed query (save.go:60-68).
THEOREM CollectedNotOutdated == Spec => []InfoNotOutdated
  <1>1. Collected /\ Unshared => InfoNotOutdated
    <2> SUFFICES ASSUME Collected, Unshared, NEW m \in Message,
                        put[m] \in {"stat", "write", "push", "done"}, Type[m] \notin EsTypes, ~Failed(m, 0)
                 PROVE  /\ info[InfoKey(m)][1] \notin before[m]
                        /\ Alone(InfoKey(m)) => Len(info[InfoKey(m)]) = 1
      BY DEF InfoNotOutdated
    <2>1. info[InfoKey(m)] # <<>> /\ info[InfoKey(m)][1] \notin before[m]
      BY DEF Collected, Saved, First
    <2>2. InfoKey(m) \in InfoKeys /\ info[InfoKey(m)] \in Seq(Message)
      BY DEF Collected, InfoKeys
    <2>3. Alone(InfoKey(m)) => Len(info[InfoKey(m)]) <= 1
      <3> HIDE DEF Alone, InfoKey
      <3> QED BY <2>2 DEF Unshared
    <2>4. Len(info[InfoKey(m)]) <= 1 => Len(info[InfoKey(m)]) = 1
      <3>1. PICK docs \in Seq(Message) : docs = info[InfoKey(m)]
        BY <2>2
      <3>2. docs # <<>>
        BY <2>1, <3>1
      <3>3. \A s \in Seq(Message) : s # <<>> => Len(s) >= 1 /\ Len(s) \in Nat
        OBVIOUS
      <3>4. Len(docs) >= 1 /\ Len(docs) \in Nat
        BY <3>2, <3>3
      <3>5. PICK l \in Nat : l = Len(docs)
        BY <3>4
      <3>6. l <= 1 => l = 1
        BY <3>4, <3>5
      <3> QED BY <3>1, <3>5, <3>6
    <2> HIDE DEF Alone, InfoKey
    <2> QED BY <2>1, <2>3, <2>4
  <1> QED BY <1>1, CollectedAlways, UnsharedAlways, PTL

---------------------------------------------------------------------------
(* The counts add up *)

\* Item i of report m is in the counts.
Wrote(m, i) == Past(m, i) /\ ~Lost(m, i)

\* The points of a key's counts are as many as its items in the counts, and a
\* write cannot be lost before it is made.
Sums ==
    /\ \A k \in Key :
          /\ IsFiniteSet(Increments(statistics[k])) /\ IsFiniteSet(Written(k))
          /\ Cardinality(Increments(statistics[k])) = Cardinality(Written(k))
    /\ \A m \in Message : \A i \in Items(m) : Lost(m, i) => Past(m, i)

\* Two sets of the same size have the same size with one more element each.
LEMMA OneMoreEach ==
  ASSUME NEW S, NEW T, NEW s, NEW t, s \notin S, t \notin T,
         IsFiniteSet(S), IsFiniteSet(T), Cardinality(S) = Cardinality(T)
  PROVE  /\ IsFiniteSet(S \cup {s}) /\ IsFiniteSet(T \cup {t})
         /\ Cardinality(S \cup {s}) = Cardinality(T \cup {t})
  <1>1. IsFiniteSet(S \cup {s}) /\ Cardinality(S \cup {s}) = Cardinality(S) + 1
    BY FS_AddElement
  <1>2. IsFiniteSet(T \cup {t}) /\ Cardinality(T \cup {t}) = Cardinality(T) + 1
    BY FS_AddElement
  <1> QED BY <1>1, <1>2

\* Counting an item adds one point, whether it finds a document or adds one.
LEMMA CountedAddsPoint ==
  ASSUME NEW counts \in Seq(Nat \ {0}), NEW known \in BOOLEAN, known => counts # <<>>
  PROVE  \E p : /\ p \notin Increments(counts)
                /\ Increments(Counted(counts, known)) = Increments(counts) \cup {p}
  <1>1. CASE known
    <2> PICK c \in Nat \ {0} : c = counts[1] /\ 1 \in 1..Len(counts)
      BY <1>1
    <2> DEFINE new == [counts EXCEPT ![1] = c + 1]
               p == <<1, c + 1>>
    <2>1. Counted(counts, known) = new
      BY <1>1 DEF Counted
    <2>2. DOMAIN new = DOMAIN counts /\ new[1] = c + 1 /\ 1 \in DOMAIN counts
          /\ \A n \in DOMAIN counts \ {1} : new[n] = counts[n]
      OBVIOUS
    <2> HIDE DEF new
    <2>3. 1..(c + 1) = (1..c) \cup {c + 1} /\ c + 1 \notin 1..c
      OBVIOUS
    <2>4. p \notin Increments(counts)
      BY <2>3 DEF Increments
    <2>5. Increments(new) = Increments(counts) \cup {p}
      <3>1. ASSUME NEW q \in Increments(new) PROVE q \in Increments(counts) \cup {p}
        <4>1. PICK n \in DOMAIN counts : q \in {n} \X (1..new[n])
          BY <2>2 DEF Increments
        <4>2. CASE n = 1
          BY <2>2, <2>3, <4>1, <4>2 DEF Increments
        <4>3. CASE n # 1
          BY <2>2, <4>1, <4>3 DEF Increments
        <4> QED BY <4>2, <4>3
      <3>2. ASSUME NEW q \in Increments(counts) PROVE q \in Increments(new)
        <4>1. PICK n \in DOMAIN counts : q \in {n} \X (1..counts[n])
          BY DEF Increments
        <4>2. CASE n = 1
          BY <2>2, <2>3, <4>1, <4>2 DEF Increments
        <4>3. CASE n # 1
          BY <2>2, <4>1, <4>3 DEF Increments
        <4> QED BY <4>2, <4>3
      <3>3. p \in Increments(new)
        <4>1. p \in {1} \X (1..new[1])
          BY <2>2, <2>3
        <4> QED BY <2>2, <4>1 DEF Increments
      <3> QED BY <3>1, <3>2, <3>3
    <2> QED BY <2>1, <2>4, <2>5
  <1>2. CASE ~known
    <2> DEFINE new == Append(counts, 1)
               l == Len(counts) + 1
    <2>1. Counted(counts, known) = new
      BY <1>2 DEF Counted
    <2>2. /\ DOMAIN new = DOMAIN counts \cup {l} /\ l \notin DOMAIN counts
          /\ new[l] = 1 /\ \A n \in DOMAIN counts : new[n] = counts[n]
      OBVIOUS
    <2> HIDE DEF new, l
    <2>3. 1..1 = {1}
      OBVIOUS
    <2>4. <<l, 1>> \notin Increments(counts)
      BY <2>2 DEF Increments
    <2>5. Increments(new) = Increments(counts) \cup ({l} \X (1..new[l]))
      BY <2>2 DEF Increments
    <2>6. {l} \X (1..new[l]) = {<<l, 1>>}
      BY <2>2, <2>3
    <2> QED BY <2>1, <2>4, <2>5, <2>6
  <1> QED BY <1>1, <1>2

\* What neither counts nor moves past a write leaves the sums alone.
LEMMA SumsStay ==
  ASSUME Sums, statistics' = statistics,
         \A m \in Message : \A i \in Items(m) :
            (Past(m, i)' <=> Past(m, i)) /\ (Lost(m, i)' <=> Lost(m, i))
  PROVE  Sums'
  <1>1. \A k \in Key : Written(k)' = Written(k)
    <2> SUFFICES ASSUME NEW k \in Key PROVE Written(k)' = Written(k)
      OBVIOUS
    <2> HIDE DEF Past, Lost, Items, KeyOf
    <2> QED BY DEF Written
  <1>2. \A k \in Key : Increments(statistics[k])' = Increments(statistics[k])
    BY DEF Increments
  <1> HIDE DEF Past, Lost, Written, Increments
  <1> QED BY <1>1, <1>2 DEF Sums
\* The write of an item adds a point and the item, or neither.
LEMMA StatWriteSums ==
  ASSUME IInv, Sums, NEW m \in Message, StatWrite(m)
  PROVE  Sums'
  <1> PICK i \in Items(m) : i = at[m]
    BY DEF IInv, Shape
  <1> DEFINE k == KeyOf(m, i)
  <1>1. put[m] = "write" /\ Type[m] \in MainMapping /\ i = at[m] /\ i \in Nat
    BY DEF StatWrite, At, IInv, Shape
  <1>2. k \in Key /\ statistics[k] \in Seq(Nat \ {0}) /\ found[m] \in BOOLEAN
    BY KeyInKey DEF IInv, Shape
  <1>3. \/ i < Len(Data[m]) /\ at' = [at EXCEPT ![m] = i + 1] /\ put' = [put EXCEPT ![m] = "stat"]
        \/ ~(i < Len(Data[m])) /\ at' = at /\ put' = [put EXCEPT ![m] = "push"]
    BY <1>1 DEF StatWrite, Goto
  <1>4. \A n \in Message : \A j \in Items(n) : Past(n, j)' <=> Past(n, j) \/ (n = m /\ j = i)
    <2> SUFFICES ASSUME NEW n \in Message, NEW j \in Items(n)
                 PROVE  Past(n, j)' <=> Past(n, j) \/ (n = m /\ j = i)
      OBVIOUS
    <2>1. CASE n # m
      BY <1>3, <2>1 DEF Past, IInv, Shape
    <2>2. CASE n = m
      <3>1. j \in Nat /\ j <= Len(Data[m]) /\ Len(Data[m]) \in Nat
        BY <2>2, DataLength DEF Items
      <3>2. Past(m, j) <=> j < i
        BY <1>1 DEF Past
      <3>3. Past(m, j)' <=> j <= i
        <4>1. CASE i < Len(Data[m])
          <5>1. put'[m] = "stat" /\ at'[m] = i + 1
            BY <1>3, <4>1 DEF IInv, Shape
          <5>2. Past(m, j)' <=> j < i + 1
            BY <1>1, <5>1 DEF Past
          <5> QED BY <1>1, <3>1, <5>2
        <4>2. CASE ~(i < Len(Data[m]))
          <5>1. put'[m] = "push"
            BY <1>3, <4>2 DEF IInv, Shape
          <5>2. Past(m, j)'
            BY <1>1, <5>1 DEF Past
          <5> QED BY <1>1, <3>1, <4>2, <5>2
        <4> QED BY <4>1, <4>2
      <3> QED BY <1>1, <2>2, <3>1, <3>2, <3>3
    <2> QED BY <2>1, <2>2
  <1>5. ~Past(m, i)
    BY <1>1 DEF Past
  <1>6. ~Lost(m, i)
    BY <1>5 DEF Sums
  <1>7. CASE statistics' = statistics /\ failed' = failed \cup {<<m, i, "write">>}
    <2>1. \A n, j : Lost(n, j)' <=> Lost(n, j) \/ (n = m /\ j = i)
      BY <1>7 DEF Lost
    <2>2. \A n \in Message : \A j \in Items(n) : (Past(n, j) /\ ~Lost(n, j))' <=> Past(n, j) /\ ~Lost(n, j)
      BY <1>4, <1>5, <2>1
    <2>3. \A q \in Key : Written(q)' = Written(q)
      <3> SUFFICES ASSUME NEW q \in Key PROVE Written(q)' = Written(q)
        OBVIOUS
      <3> HIDE DEF Past, Lost, Items, KeyOf
      <3> QED BY <2>2 DEF Written
    <2>4. \A q \in Key : Increments(statistics[q])' = Increments(statistics[q])
      BY <1>7 DEF Increments
    <2>5. \A n \in Message : \A j \in Items(n) : Lost(n, j)' => Past(n, j)'
      BY <1>4, <2>1 DEF Sums
    <2> HIDE DEF Past, Lost, Written, Increments
    <2> QED BY <2>3, <2>4, <2>5 DEF Sums
  <1>8. CASE statistics' = [statistics EXCEPT ![k] = Counted(@, found[m])] /\ failed' = failed
    <2> DEFINE c == Counted(statistics[k], found[m])
    <2>1. found[m] => statistics[k] # <<>>
      BY <1>1 DEF IInv, Counts
    <2>2. PICK p : p \notin Increments(statistics[k]) /\ Increments(c) = Increments(statistics[k]) \cup {p}
      BY <1>2, <2>1, CountedAddsPoint
    <2>3. statistics' = [statistics EXCEPT ![k] = c]
      BY <1>8
    <2> HIDE DEF c, k
    <2>4. statistics'[k] = c /\ \A q \in Key \ {k} : statistics'[q] = statistics[q]
      BY <1>2, <2>3 DEF IInv, Shape
    <2>5. \A n, j : Lost(n, j)' <=> Lost(n, j)
      BY <1>8 DEF Lost
    <2>6. \A n \in Message : \A j \in Items(n) : Wrote(n, j)' <=> Wrote(n, j) \/ (n = m /\ j = i)
      BY <1>4, <1>5, <1>6, <2>5 DEF Wrote
    <2>7. ~Wrote(m, i)
      BY <1>5 DEF Wrote
    <2>8. ASSUME NEW q
          PROVE  Written(q)' = IF q = k THEN Written(q) \cup {<<m, i>>} ELSE Written(q)
      <3> DEFINE W(n) == {<<n, j>> : j \in {j \in Items(n) : KeyOf(n, j) = q /\ Past(n, j) /\ ~Lost(n, j)}}
      <3>1. \A n \in Message : W(n)' = IF n = m /\ q = k THEN W(n) \cup {<<m, i>>} ELSE W(n)
        <4> HIDE DEF Past, Lost, Items, KeyOf
        <4> QED BY <2>6 DEF Wrote, k
      <3>2. Written(q) = UNION {W(n) : n \in Message} /\ Written(q)' = UNION {W(n)' : n \in Message}
        BY DEF Written
      <3> HIDE DEF W
      <3> QED BY <3>1, <3>2
    <2>9. <<m, i>> \notin Written(k)
      <3> HIDE DEF Past, Lost, Items, KeyOf
      <3> QED BY <2>7 DEF Written, Wrote
    <2>10. ASSUME NEW q \in Key
           PROVE  /\ IsFiniteSet(Increments(statistics'[q])) /\ IsFiniteSet(Written(q)')
                  /\ Cardinality(Increments(statistics'[q])) = Cardinality(Written(q)')
      <3> HIDE DEF Written, Increments
      <3>1. /\ IsFiniteSet(Increments(statistics[q])) /\ IsFiniteSet(Written(q))
            /\ Cardinality(Increments(statistics[q])) = Cardinality(Written(q))
        BY DEF Sums
      <3>2. CASE q = k
        <4>1. Increments(statistics'[q]) = Increments(statistics[q]) \cup {p} /\ Written(q)' = Written(q) \cup {<<m, i>>}
          BY <2>2, <2>4, <2>8, <3>2
        <4>2. p \notin Increments(statistics[q]) /\ <<m, i>> \notin Written(q)
          BY <2>2, <2>9, <3>2
        <4> DEFINE S == Increments(statistics[q])
                   T == Written(q)
        <4>3. /\ p \notin S /\ <<m, i>> \notin T /\ IsFiniteSet(S) /\ IsFiniteSet(T)
              /\ Cardinality(S) = Cardinality(T)
              /\ Increments(statistics'[q]) = S \cup {p} /\ Written(q)' = T \cup {<<m, i>>}
          BY <3>1, <4>1, <4>2
        <4> HIDE DEF S, T
        <4>4. \A t : t \notin T => /\ IsFiniteSet(S \cup {p}) /\ IsFiniteSet(T \cup {t})
                                   /\ Cardinality(S \cup {p}) = Cardinality(T \cup {t})
          BY <4>3, OneMoreEach
        <4> QED BY <4>3, <4>4
      <3>3. CASE q # k
        BY <2>4, <2>8, <3>1, <3>3
      <3> QED BY <3>2, <3>3
    <2>11. \A n \in Message : \A j \in Items(n) : Lost(n, j)' => Past(n, j)'
      BY <1>4, <2>5 DEF Sums
    <2>12. \A q : Increments(statistics[q])' = Increments(statistics'[q])
      BY DEF Increments
    <2> HIDE DEF Past, Lost, Written, Increments
    <2> QED BY <2>10, <2>11, <2>12 DEF Sums
  <1> QED BY <1>1, <1>7, <1>8 DEF StatWrite, Works, Fails
\* Only StatWrite changes what the counts and the items written are.
LEMMA SumsStep == ASSUME IInv, Sums, [Next]_vars PROVE Sums'
  <1>1. ASSUME UNCHANGED <<put, at, statistics, failed>> PROVE Sums'
    BY <1>1, SumsStay DEF Past, Lost
  <1>2. ASSUME NEW m \in Message, statistics' = statistics,
               put[m] # "done",
               \A n \in Message \ {m} : put'[n] = put[n] /\ at'[n] = at[n],
               \/ put[m] = put'[m] /\ at[m] = at'[m]
               \/ put[m] = "stat" /\ put'[m] = "write" /\ at[m] = at'[m]
               \/ put[m] = "push" /\ put'[m] = "done"
               \/ put[m] \in {"unsent", "save", "keep"} /\ put'[m] \in {"save", "keep"}
               \/ put[m] \in {"save", "keep"} /\ put'[m] = AfterSave(m) /\ at'[m] = 1,
               \A n \in Message : \A j \in Items(n) : Lost(n, j)' <=> Lost(n, j)
        PROVE  Sums'
    <2>1. \A n \in Message : \A j \in Items(n) : Past(n, j)' <=> Past(n, j)
      <3> SUFFICES ASSUME NEW n \in Message, NEW j \in Items(n) PROVE Past(n, j)' <=> Past(n, j)
        OBVIOUS
      <3>1. CASE n # m
        BY <1>2, <3>1 DEF Past
      <3>2. CASE n = m
        <4>1. ~(j < 1)
          BY DEF Items
        <4> QED BY <1>2, <3>2, <4>1 DEF Past, AfterSave
      <3> QED BY <3>1, <3>2
    <2> QED BY <1>2, <2>1, SumsStay
  <1>3. ASSUME \E m \in Message, i \in Nat, query \in {"count", "write"} :
                  /\ failed' = failed \cup {<<m, i, query>>} \/ failed' = failed
                  /\ query = "write" => i = 0
        PROVE  \A n \in Message : \A j \in Items(n) : Lost(n, j)' <=> Lost(n, j)
    <2>1. \A n \in Message : 0 \notin Items(n)
      BY DEF Items
    <2> QED BY <1>3, <2>1 DEF Lost
  <1>4. ASSUME NEW m \in Message, Send(m) PROVE Sums'
    BY <1>2, <1>4 DEF Send, At, Goto, store, IInv, Shape, Lost
  <1>5. ASSUME NEW m \in Message, SaveEs(m) PROVE Sums'
    <2>1. \A n \in Message : \A j \in Items(n) : Lost(n, j)' <=> Lost(n, j)
      BY <1>5 DEF SaveEs, Lost
    <2> QED BY <1>2, <1>5, <2>1 DEF SaveEs, At, Goto, store, IInv, Shape
  <1>6. ASSUME NEW m \in Message, SaveCount(m) PROVE Sums'
    <2>1. \A n \in Message : \A j \in Items(n) : Lost(n, j)' <=> Lost(n, j)
      BY <1>3, <1>6 DEF SaveCount, Works, Fails
    <2> QED BY <1>2, <1>6, <2>1 DEF SaveCount, At, Goto, store, IInv, Shape
  <1>7. ASSUME NEW m \in Message, SaveWrite(m) PROVE Sums'
    <2>1. \A n \in Message : \A j \in Items(n) : Lost(n, j)' <=> Lost(n, j)
      BY <1>3, <1>7 DEF SaveWrite, Works, Fails
    <2>2. put[m] = "keep" /\ put' = [put EXCEPT ![m] = AfterSave(m)] /\ UNCHANGED <<at, statistics>>
      BY <1>7 DEF SaveWrite, At, Goto
    <2> QED BY <1>2, <2>1, <2>2 DEF IInv, Shape, AfterSave
  <1>8. ASSUME NEW m \in Message, StatCount(m) PROVE Sums'
    <2>1. \A n \in Message : \A j \in Items(n) : Lost(n, j)' <=> Lost(n, j)
      BY <1>3, <1>8 DEF StatCount, Works, Fails, IInv, Shape
    <2> QED BY <1>2, <1>8, <2>1 DEF StatCount, At, Goto, store, IInv, Shape
  <1>9. ASSUME NEW m \in Message, Push(m) PROVE Sums'
    <2>1. \A n \in Message : \A j \in Items(n) : Lost(n, j)' <=> Lost(n, j)
      BY <1>9 DEF Push, Lost
    <2> QED BY <1>2, <1>9, <2>1 DEF Push, At, Goto, store, IInv, Shape
  <1>10. ASSUME NEW w \in Worker, Scan(w) PROVE Sums'
    <2>1. CASE Rules(w)
      <3>1. worker[w].m \in Message /\ worker[w].i \in Nat
        BY <2>1, WorksAt DEF Rules, Items
      <3>2. \A n \in Message : \A j \in Items(n) : Lost(n, j)' <=> Lost(n, j)
        BY <1>3, <2>1, <3>1 DEF Rules, Works, Fails
      <3>3. UNCHANGED <<put, at, statistics>>
        BY <2>1 DEF Rules, rpc, store
      <3> QED BY <3>2, <3>3, SumsStay DEF Past
    <2> QED BY <1>1, <1>10, <2>1 DEF Scan, Receive, BlackFilter, WhiteFilter, warning, Intelligence, Ask, rpc, store
  <1>11. CASE InsertThread \/ Heartbeat \/ Console \/ ServerRestarts
    BY <1>1, <1>11 DEF InsertThread, Heartbeat, QueryConfig, AssignConfig, QueryRules, InstallRules,
                       Console, AddOne, DelOne, EditByID, EnableRule, ServerRestarts, rpc, store
  <1>12. CASE UNCHANGED vars
    BY <1>1, <1>12 DEF vars, rpc, store
  <1> QED BY <1>4, <1>5, <1>6, <1>7, <1>8, <1>9, <1>10, <1>11, <1>12, StatWriteSums
          DEF Next, PutInfo, Handle

\* However the count-then-write pairs of handlers interleave and whichever fail,
\* the counts of a key stand for exactly the items that were written.
THEOREM NoIncrementLost == Spec => []CountsAddUp
  <1>1. Init => Sums
    <2> SUFFICES ASSUME Init PROVE Sums
      OBVIOUS
    <2>1. \A k \in Key : Increments(statistics[k]) = {}
      BY DEF Init, Increments
    <2>2. \A m \in Message, i \in Nat : ~Past(m, i)
      BY DEF Init, Past
    <2>3. \A k : Written(k) = {}
      BY <2>2 DEF Written, Items
    <2>4. \A m, i : ~Lost(m, i)
      BY DEF Init, Lost
    <2> HIDE DEF Past, Lost, Written, Increments
    <2> QED BY <2>1, <2>3, <2>4, FS_EmptySet DEF Sums
  <1>2. Sums => CountsAddUp
    BY DEF Sums, CountsAddUp
  <1> QED BY <1>1, <1>2, SumsStep, PipelineInvariant, PTL DEF Spec

---------------------------------------------------------------------------
(* Types *)

\* The channels.
Channels == esMade \in BOOLEAN /\ esChan \in 0..EsCap /\ Len(ScanChan) <= ScanCap
\* The histories.
Histories ==
    /\ alarms \subseteq Alarm
    /\ checked \subseteq Message /\ gone \subseteq Message
    /\ failed \subseteq Message \X Nat \X {"count", "write"}
    /\ events \in 0..MaxEvents

\* Sends wait for room.
LEMMA ChannelsStep == ASSUME IInv, Channels, [Next]_vars PROVE Channels'
  <1> USE ScanAssumption
  <1>0. ScanChan \in Seq(Message)
    BY DEF IInv, Queued
  <1>1. ASSUME UNCHANGED <<esMade, esChan, ScanChan>> PROVE Channels'
    BY <1>1 DEF Channels
  <1>2. ASSUME NEW m \in Message, PutInfo(m) PROVE Channels'
    <2>1. CASE SaveEs(m)
      BY <2>1 DEF SaveEs, Channels
    <2>2. CASE Push(m)
      BY <1>0, <2>2 DEF Push, Channels, es
    <2> QED BY <1>1, <1>2, <2>1, <2>2
            DEF PutInfo, Handle, Send, SaveCount, SaveWrite, StatCount, StatWrite, es
  <1>3. ASSUME NEW w \in Worker, Scan(w) PROVE Channels'
    <2>1. CASE Receive(w)
      <3>1. ScanChan # <<>> /\ ScanChan' = Tail(ScanChan) /\ UNCHANGED es
        BY <2>1 DEF Receive
      <3>2. Len(Tail(ScanChan)) = Len(ScanChan) - 1
        BY <1>0, <3>1
      <3> QED BY <1>0, <3>1, <3>2 DEF Channels, es
    <2> QED BY <1>1, <1>3, <2>1 DEF Scan, BlackFilter, WhiteFilter, Rules, warning, Intelligence, Ask, es
  <1>4. CASE InsertThread
    BY <1>4 DEF InsertThread, Channels
  <1>5. CASE Heartbeat \/ Console
    BY <1>1, <1>5 DEF Heartbeat, QueryConfig, AssignConfig, QueryRules, InstallRules,
                      Console, AddOne, DelOne, EditByID, EnableRule, es
  <1>6. CASE ServerRestarts
    BY <1>6 DEF ServerRestarts, Channels
  <1>7. CASE UNCHANGED vars
    BY <1>1, <1>7 DEF vars, es
  <1> QED BY <1>2, <1>3, <1>4, <1>5, <1>6, <1>7 DEF Next

\* Alarms are of items and rules there are, failures of reports.
LEMMA HistoriesStep == ASSUME IInv, Settled, Histories, [Next]_vars PROVE Histories'
  <1> USE ScanAssumption
  <1>1. ASSUME UNCHANGED <<alarms, checked, gone>>, Works \/ (Event /\ failed' = failed) PROVE Histories'
    BY <1>1 DEF Histories, Works, Event
  <1>2. ASSUME NEW m \in Message, NEW i \in Nat, NEW query \in {"count", "write"}, Fails(m, i, query)
        PROVE  failed' \subseteq Message \X Nat \X {"count", "write"} /\ events' \in 0..MaxEvents
    BY <1>2 DEF Histories, Fails, Event
  <1>3. ASSUME Works
        PROVE  failed' \subseteq Message \X Nat \X {"count", "write"} /\ events' \in 0..MaxEvents
    BY <1>3 DEF Histories, Works
  <1>4. ASSUME NEW m \in Message, PutInfo(m) PROVE Histories'
    <2>1. UNCHANGED <<alarms, checked, gone>>
      BY <1>4 DEF PutInfo, Handle, Send, SaveEs, SaveCount, SaveWrite, StatCount, StatWrite, Push, scan
    <2>2. at[m] \in Nat
      BY DEF IInv, Shape
    <2>3. failed' \subseteq Message \X Nat \X {"count", "write"} /\ events' \in 0..MaxEvents
      <3> HIDE DEF Fails, Works
      <3>1. CASE Send(m) \/ SaveEs(m) \/ Push(m)
        BY <1>3, <3>1 DEF Send, SaveEs, Push, Works
      <3>2. CASE SaveCount(m) \/ SaveWrite(m)
        BY <1>2, <1>3, <3>2 DEF SaveCount, SaveWrite
      <3>3. CASE StatCount(m) \/ StatWrite(m)
        BY <1>2, <1>3, <2>2, <3>3 DEF StatCount, StatWrite
      <3> QED BY <1>4, <3>1, <3>2, <3>3 DEF PutInfo, Handle
    <2> QED BY <2>1, <2>3 DEF Histories
  <1>5. ASSUME NEW w \in Worker, Scan(w) PROVE Histories'
    <2>1. worker[w] # Idle => worker[w].m \in Message /\ worker[w].i \in Nat \ {0}
      BY DEF IInv, Workers, Busy, Checking, Warning
    <2>2. \A pc : Work(w, pc) /\ pc # "idle" => worker[w] # Idle
      BY DEF Work, Idle
    <2>4. ASSUME NextItem(w), worker[w] # Idle PROVE checked' \subseteq Message
      BY <2>1, <2>4 DEF NextItem, Histories
    <2>5. CASE Receive(w)
      BY <1>1, <2>5 DEF Receive, Works
    <2>6. CASE BlackFilter(w)
      BY <1>1, <2>6 DEF BlackFilter, Works
    <2>7. CASE WhiteFilter(w)
      <3>1. worker[w] # Idle /\ UNCHANGED <<alarms, gone, failed, events>>
        BY <2>2, <2>7 DEF WhiteFilter
      <3>2. checked' \subseteq Message
        BY <2>4, <2>7, <3>1 DEF WhiteFilter, Histories
      <3> QED BY <3>1, <3>2 DEF Histories
    <2>8. CASE Rules(w)
      <3>1. worker[w] # Idle /\ UNCHANGED <<alarms, checked, gone>>
        BY <2>2, <2>8 DEF Rules
      <3>2. Works \/ Fails(worker[w].m, worker[w].i, "count")
        BY <2>8 DEF Rules
      <3>3. failed' \subseteq Message \X Nat \X {"count", "write"} /\ events' \in 0..MaxEvents
        BY <1>2, <1>3, <2>1, <3>1, <3>2
      <3> QED BY <3>1, <3>3 DEF Histories
    <2>3. CASE warning(w)
      <3>1. worker[w] # Idle /\ UNCHANGED <<gone, failed, events>>
        BY <2>2, <2>3 DEF warning
      <3>2. checked' \subseteq Message
        BY <2>4, <2>3, <3>1 DEF warning, Histories
      <3>3. worker[w] \in Warning
        BY <2>3, <3>1 DEF warning, Work, IInv, Workers, Busy, Checking
      <3>4. Config.learn \in BOOLEAN
        BY DEF Settled, Settings
      <3>5. [m |-> worker[w].m, i |-> worker[w].i, source |-> worker[w].source,
             watched |-> worker[w].watched, shown |-> ~Config.learn] \in Alarm
        BY <3>3, <3>4 DEF Warning, Alarm
      <3>6. alarms' \subseteq Alarm
        BY <2>3, <3>5 DEF warning, Histories
      <3> QED BY <3>1, <3>2, <3>6 DEF Histories
    <2>9. CASE Intelligence(w)
      <3>1. worker[w] # Idle /\ UNCHANGED <<alarms, gone, failed, events>>
        BY <2>2, <2>9 DEF Intelligence
      <3>2. checked' \subseteq Message
        BY <2>4, <2>9, <3>1 DEF Intelligence, Histories
      <3> QED BY <3>1, <3>2 DEF Histories
    <2>10. CASE Ask(w)
      <3>1. worker[w] # Idle /\ UNCHANGED <<alarms, gone, failed>>
        BY <2>2, <2>10 DEF Ask
      <3>2. checked' \subseteq Message
        BY <2>4, <2>10, <3>1 DEF Ask, Histories
      <3>4. events' \in 0..MaxEvents
        BY <2>10 DEF Ask, Event, Histories
      <3> QED BY <3>1, <3>2, <3>4 DEF Histories
    <2> QED BY <1>5, <2>3, <2>5, <2>6, <2>7, <2>8, <2>9, <2>10 DEF Scan
  <1>6. CASE InsertThread
    BY <1>1, <1>6 DEF InsertThread, scan, Works
  <1>7. CASE Heartbeat \/ Console
    BY <1>1, <1>7 DEF Heartbeat, QueryConfig, AssignConfig, QueryRules, InstallRules,
                      Console, AddOne, DelOne, EditByID, EnableRule, scan, Works
  <1>8. CASE ServerRestarts
    BY <1>8 DEF ServerRestarts, Event, Histories
  <1>9. CASE UNCHANGED vars
    BY <1>1, <1>9 DEF vars, scan, Works
  <1> QED BY <1>4, <1>5, <1>6, <1>7, <1>8, <1>9 DEF Next

\* Types of the handlers, workers, documents and channels, of the configuration on
\* its way to the workers, and of the histories: a worker's item exists, the
\* channels keep their capacity, and an alarm names a rule there is.
THEOREM PipelineTypes == Spec => []TypeOK
  <1>1. Init => Channels /\ Histories
    BY ScanAssumption DEF Init, Channels, Histories
  <1>2. IInv /\ Settled /\ Channels /\ Histories /\ [Next]_vars => Channels' /\ Histories'
    BY ChannelsStep, HistoriesStep
  <1>3. IInv /\ Settled /\ Channels /\ Histories /\ Collected => TypeOK
    <2> SUFFICES ASSUME IInv, Settled, Channels, Histories, Collected PROVE TypeOK
      OBVIOUS
    <2>1. \A w \in Worker : worker[w] # Idle => worker[w].i \in Items(worker[w].m)
      BY DEF IInv, Workers, Busy
    <2>2. DOMAIN info = {InfoKey(m) : m \in Message} /\ \A k \in DOMAIN info : info[k] \in Seq(Message)
      BY DEF Collected, InfoKeys
    <2> QED BY <2>1, <2>2 DEF TypeOK, IInv, Shape, Queued, Workers, Earlier, Settled, Channels, Histories
  <1> QED BY <1>1, <1>2, <1>3, PipelineInvariant, SettledAlways, CollectedAlways, PTL DEF Spec
=============================================================================
