------------------------- MODULE NoticeBoardProofs -------------------------
(***************************************************************************)
(* For any servers, workers, hosts, texts, requests, operations and faults *)
(* the list of open notices shows an alarm at most once, and what was      *)
(* handled or ignored stays so.  The inductive invariant is what the       *)
(* unique index gives together with the rule that only notices settled by  *)
(* their id carry "uptime": an open or learnt notice meets all others of   *)
(* its alarm at the same index value.                                      *)
(***************************************************************************)
EXTENDS NoticeBoard, FiniteSetTheorems, TLAPS

Settled(n) == n.status \in {Handled, Ignored}

Indexed == \A n, m \in notice :
    n.alarm = m.alarm /\ n.status = m.status /\ n.uptime = m.uptime => n = m
Untouched == \A n \in notice : n.status \in {Open, Learnt} => n.uptime = Never
Named == \A n \in notice :
    n.id <= made /\ n.uptime <= now /\ \A m \in notice : n.id = m.id => n = m
Directed == \A h \in Handler : request[h].at = "update" =>
    \/ request[h].from = Learnt /\ request[h].to = Open
    \/ request[h].from = Open /\ request[h].to \in {Handled, Ignored}

Board == Indexed /\ Untouched /\ Named
IInv == TypeOK /\ Board /\ Directed

\* The workers at their insert are finitely many.
LEMMA CountedFinite ==
    ASSUME NEW a
    PROVE  IsFiniteSet(Counted(a)) /\ Cardinality(Counted(a)) \in Nat
  <1>1. IsFiniteSet(Counted(a))
    BY NoticeAssumption, FS_Subset DEF Counted
  <1> QED BY <1>1, FS_CardinalityType

\* So are the documents learnt of an alarm.
LEMMA LearntFinite ==
    ASSUME TypeOK, NEW a
    PROVE  IsFiniteSet(Of(a, Learnt)) /\ Cardinality(Of(a, Learnt)) \in Nat
  <1>1. IsFiniteSet(Of(a, Learnt))
    BY FS_Subset DEF TypeOK, Of
  <1> QED BY <1>1, FS_CardinalityType

\* What is owed stays a number for every alarm.
LEMMA OweType ==
    ASSUME TypeOK, NEW a \in Alarm, NEW k \in Int
    PROVE  Owe(a, k) \in [Alarm -> Int]
  BY DEF TypeOK, Owe

\* What an update makes of a document.
LEMMA Changed ==
    ASSUME NEW n \in Notice, NEW st \in {Open, Handled, Ignored, Learnt}, NEW u \in Nat
    PROVE  LET c == [n EXCEPT !.status = st, !.uptime = u]
           IN  c \in Notice /\ c.id = n.id /\ c.alarm = n.alarm /\ c.status = st /\ c.uptime = u
  BY DEF Notice

\* An insert that the index allows keeps the collection in order.
LEMMA InsertKeeps ==
    ASSUME IInv, NEW a \in Alarm, NEW st \in {Open, Learnt},
           ~ Taken(a, st, Never), Insert(a, st), now' = now
    PROVE  Board' /\ notice' \in SUBSET Notice /\ IsFiniteSet(notice') /\ made' \in Nat
  <1> DEFINE c == [id |-> made + 1, alarm |-> a, status |-> st, uptime |-> Never]
  <1>1. /\ c \in Notice /\ c.id = made + 1 /\ c.alarm = a /\ c.status = st /\ c.uptime = Never
        /\ notice' = notice \cup {c} /\ made' = made + 1
    BY DEF IInv, TypeOK, Insert, Notice, Open, Learnt, Never
  <1> HIDE DEF c
  <1>2. IsFiniteSet(notice') /\ notice' \in SUBSET Notice /\ made' \in Nat
    BY <1>1, FS_AddElement DEF IInv, TypeOK
  <1>3. \A n \in notice : n \in Notice /\ n.id \in Nat /\ n.uptime \in Nat
    BY DEF IInv, TypeOK, Notice
  <1>4. Indexed'
    BY <1>1, <1>3 DEF IInv, Board, Indexed, Taken
  <1>5. Untouched'
    BY <1>1 DEF IInv, Board, Untouched
  <1>6. Named'
    BY <1>1, <1>3 DEF IInv, TypeOK, Board, Named, Never
  <1> QED BY <1>2, <1>4, <1>5, <1>6 DEF Board

\* So does an update of one document that the index allows.
LEMMA ChangeKeeps ==
    ASSUME IInv, NEW n \in notice, NEW st \in {Open, Handled, Ignored}, NEW u \in Nat,
           ~ Taken(n.alarm, st, u), Change(n, st, u), now' \in Nat, now <= now', u <= now',
           st = Open => u = Never
    PROVE  /\ Board' /\ notice' \in SUBSET Notice /\ IsFiniteSet(notice')
           /\ made' = made
           /\ closed' \in [Alarm -> Nat] /\ due' \in [Alarm -> Int]
  <1> DEFINE c == [n EXCEPT !.status = st, !.uptime = u]
  <1>1. /\ c \in Notice /\ c.id = n.id /\ c.alarm = n.alarm /\ c.status = st /\ c.uptime = u
        /\ notice' = (notice \ {n}) \cup {c} /\ made' = made
    <2>1. n \in Notice /\ st \in {Open, Handled, Ignored, Learnt}
      BY DEF IInv, TypeOK
    <2>2. c \in Notice /\ c.id = n.id /\ c.alarm = n.alarm /\ c.status = st /\ c.uptime = u
      BY <2>1, Changed
    <2>3. notice' = (notice \ {n}) \cup {c} /\ made' = made
      BY DEF Change
    <2> QED BY <2>2, <2>3
  <1> HIDE DEF c
  <1>2. IsFiniteSet(notice') /\ notice' \in SUBSET Notice
    BY <1>1, FS_RemoveElement, FS_AddElement DEF IInv, TypeOK
  <1>3. /\ \A m \in notice : m \in Notice /\ m.id \in Nat /\ m.uptime \in Nat
        /\ n.alarm \in Alarm
    BY DEF IInv, TypeOK, Notice
  <1>h. closed' \in [Alarm -> Nat] /\ due' \in [Alarm -> Int]
    <2>1. Cardinality(Counted(n.alarm)) + Cardinality(Of(n.alarm, Learnt) \ {n}) \in Int
      <3>1. IsFiniteSet(Of(n.alarm, Learnt) \ {n})
        BY LearntFinite, FS_Subset DEF IInv
      <3> QED BY <3>1, CountedFinite, FS_CardinalityType
    <2>2. Owe(n.alarm, -1) \in [Alarm -> Int]
      BY <1>3, OweType DEF IInv
    <2> QED BY <1>3, <2>1, <2>2 DEF IInv, TypeOK, Change
  <1>4. Indexed'
    BY <1>1, <1>3 DEF IInv, Board, Indexed, Taken
  <1>5. Untouched'
    BY <1>1 DEF IInv, Board, Untouched, Open, Handled, Ignored, Learnt
  <1>6. Named'
    BY <1>1, <1>3 DEF IInv, TypeOK, Board, Named
  <1> QED BY <1>1, <1>2, <1>4, <1>5, <1>6, <1>h DEF Board

\* So does a removal.
LEMMA RemoveKeeps ==
    ASSUME IInv, notice' \in SUBSET notice, made' = made, now' = now
    PROVE  Board' /\ notice' \in SUBSET Notice /\ IsFiniteSet(notice')
  <1>1. IsFiniteSet(notice') /\ notice' \in SUBSET Notice
    BY FS_Subset DEF IInv, TypeOK
  <1> QED BY <1>1 DEF IInv, Board, Indexed, Untouched, Named

\* An update stamped with a new time is never refused.
LEMMA NewTime ==
    ASSUME IInv, NEW a, NEW st
    PROVE  ~ Taken(a, st, now + 1)
  <1>1. \A n \in notice : n.uptime \in Nat /\ n.uptime <= now /\ now \in Nat
    BY DEF IInv, TypeOK, Board, Named, Notice
  <1> QED BY <1>1 DEF Taken

\* The request of an update keeps its direction while its list shrinks.
LEMMA Shrinks ==
    ASSUME TypeOK, Directed, NEW h \in Handler, request[h].at = "update", NEW i,
           request' = [request EXCEPT ![h].todo = @ \ {i}]
    PROVE  request' \in [Handler -> RequestState] /\ Directed'
  <1> DEFINE r == request[h]
             q == [r EXCEPT !.todo = @ \ {i}]
  <1>1. r \in [at: {"update"}, todo: SUBSET Nat, from: {Open, Learnt}, to: {Open, Handled, Ignored}]
    BY DEF TypeOK, RequestState, Idle
  <1>2. /\ q \in [at: {"update"}, todo: SUBSET Nat, from: {Open, Learnt}, to: {Open, Handled, Ignored}]
        /\ q.from = r.from /\ q.to = r.to
    BY <1>1
  <1>3. request' = [request EXCEPT ![h] = q]
    BY DEF TypeOK
  <1>4. request' \in [Handler -> RequestState]
    <2>1. q \in RequestState
      BY <1>2 DEF RequestState
    <2> QED BY <1>3, <2>1 DEF TypeOK
  <1> HIDE DEF q
  <1>5. Directed'
    BY <1>2, <1>3 DEF Directed, TypeOK
  <1> QED BY <1>4, <1>5

\* Types, and the order the index keeps in the collection.
THEOREM BoardTypes == Spec => [](TypeOK /\ Board /\ Directed)
  <1>1. Init => IInv
    <2> SUFFICES ASSUME Init PROVE IInv
      OBVIOUS
    <2>1. IsFiniteSet(notice)
      BY FS_EmptySet DEF Init
    <2>a. notice \in SUBSET Notice /\ made \in Nat /\ now \in Nat /\ ops \in 0 .. MaxOps /\ faults \in 0 .. MaxFaults
      BY NoticeAssumption DEF Init, Never
    <2>b. Idle \in WorkerState /\ Idle \in RequestState
      BY DEF WorkerState, RequestState
    <2>c. worker \in [Worker -> WorkerState] /\ request \in [Handler -> RequestState]
      BY <2>b DEF Init
    <2>d. /\ alerts \in [Alarm -> Nat] /\ closed \in [Alarm -> Nat] /\ due \in [Alarm -> Int]
          /\ copy \in [Server -> BOOLEAN]
      BY DEF Init
    <2>2. TypeOK
      BY <2>1, <2>a, <2>c, <2>d DEF Init, TypeOK
    <2>3. Board /\ Directed
      BY DEF Init, Board, Indexed, Untouched, Named, Directed, Idle
    <2> QED BY <2>2, <2>3 DEF IInv
  <1>2. IInv /\ [Next]_vars => IInv'
    <2> SUFFICES ASSUME IInv, [Next]_vars PROVE IInv'
      OBVIOUS
    <2> USE DEF IInv
    <2>t. TypeOK /\ Board /\ Directed
      OBVIOUS
    <2>1. ASSUME NEW w \in Worker, NEW a \in Alarm, Record(w, a) PROVE IInv'
      <3>1. Board' /\ notice' \in SUBSET Notice /\ IsFiniteSet(notice') /\ made' \in Nat
        BY <2>1, InsertKeeps DEF Record
      <3>2. due' \in [Alarm -> Int]
        BY <2>1, OweType DEF Record
      <3> QED BY <2>1, <3>1, <3>2 DEF Record, TypeOK, Directed, config
    <2>2. ASSUME NEW w \in Worker, NEW a \in Alarm, Count(w, a) \/ CountFails(w, a) PROVE IInv'
      <3>1. Raised("insert", a) \in WorkerState
        BY DEF Raised, WorkerState
      <3>2. worker' \in [Worker -> WorkerState] /\ faults' \in 0 .. MaxFaults
        BY <2>2, <3>1, NoticeAssumption DEF Count, CountFails, TypeOK, Fault
      <3>3. due' \in [Alarm -> Int]
        BY <2>2, OweType DEF Count, CountFails, TypeOK, history
      <3> QED BY <2>2, <3>2, <3>3 DEF Count, CountFails, TypeOK, Board, Indexed, Untouched, Named, Directed,
                board, config, history
    <2>3. ASSUME NEW w \in Worker, InsertOpen(w) PROVE IInv'
      <3> DEFINE a == worker[w].alarm
      <3>1. a \in Alarm
        BY <2>3 DEF InsertOpen, TypeOK, WorkerState, Idle
      <3>2. Raised("alert", a) \in WorkerState /\ Idle \in WorkerState
        BY <3>1 DEF Raised, WorkerState
      <3>3. /\ worker' \in [Worker -> WorkerState] /\ due' \in [Alarm -> Int]
        <4>1. Owe(a, -1) \in [Alarm -> Int]
          BY <3>1, OweType
        <4> QED BY <2>3, <3>1, <3>2, <4>1 DEF InsertOpen, TypeOK
      <3>4. CASE Insert(a, Open) /\ ~ Taken(a, Open, Never)
        <4>1. Board' /\ notice' \in SUBSET Notice /\ IsFiniteSet(notice') /\ made' \in Nat
          BY <2>3, <3>1, <3>4, InsertKeeps DEF InsertOpen
        <4> QED BY <2>3, <3>3, <4>1 DEF InsertOpen, TypeOK, Directed, config
      <3>5. CASE UNCHANGED board
        BY <2>3, <3>3, <3>5 DEF InsertOpen, TypeOK, Board, Indexed, Untouched, Named, Directed, board, config
      <3> QED BY <2>3, <3>4, <3>5 DEF InsertOpen
    <2>4. ASSUME NEW w \in Worker, InsertFails(w) \/ Alert(w) PROVE IInv'
      <3>1. worker' \in [Worker -> WorkerState] /\ faults' \in 0 .. MaxFaults
        BY <2>4, NoticeAssumption DEF InsertFails, Alert, TypeOK, Fault, WorkerState
      <3>2. alerts' \in [Alarm -> Nat]
        <4>1. Alert(w) => worker[w].alarm \in Alarm
          BY DEF Alert, TypeOK, WorkerState, Idle
        <4> QED BY <2>4, <4>1 DEF InsertFails, Alert, TypeOK, history
      <3> QED BY <2>4, <3>1, <3>2 DEF InsertFails, Alert, TypeOK, Board, Indexed, Untouched, Named,
                Directed, board, config, history
    <2>5. ASSUME NEW s \in Server, ServerNext(s) PROVE IInv'
      <3>1. worker' \in [Worker -> WorkerState] /\ faults' \in 0 .. MaxFaults
        <4>1. Idle \in WorkerState
          BY DEF WorkerState
        <4> QED BY <2>5, <4>1, NoticeAssumption DEF ServerNext, Refresh, RefreshFails, ServerRestarts, TypeOK, Fault
      <3>2. copy' \in [Server -> BOOLEAN]
        <4>1. \E b \in BOOLEAN : copy' = [copy EXCEPT ![s] = b]
          BY <2>5, Zenon DEF ServerNext, Refresh, RefreshFails, ServerRestarts, TypeOK
        <4> QED BY <4>1 DEF TypeOK
      <3> QED BY <2>5, <3>1, <3>2 DEF ServerNext, Refresh, RefreshFails, ServerRestarts, TypeOK, Board, Indexed,
                Untouched, Named, Directed, board, history
    <2>6. ASSUME NEW on \in BOOLEAN, SetLearn(on) PROVE IInv'
      BY <2>6, NoticeAssumption DEF SetLearn, Operation, TypeOK, Board, Indexed, Untouched, Named, Directed, board, history
    <2>7. ASSUME NEW n \in notice, NEW to \in {Handled, Ignored}, ChangeStatusbyId(n, to) PROVE IInv'
      <3>1. ~ Taken(n.alarm, to, now + 1)
        BY NewTime
      <3>2. now \in Nat /\ now' = now + 1 /\ to # Open
        BY <2>7 DEF TypeOK, ChangeStatusbyId, Open, Handled, Ignored
      <3>3. /\ Board' /\ notice' \in SUBSET Notice /\ IsFiniteSet(notice') /\ made' = made
            /\ closed' \in [Alarm -> Nat] /\ due' \in [Alarm -> Int]
        BY <2>7, <3>1, <3>2, ChangeKeeps DEF ChangeStatusbyId
      <3> QED BY <2>7, <3>2, <3>3, NoticeAssumption DEF ChangeStatusbyId, Operation, TypeOK, Directed, config
    <2>8. ASSUME NEW h \in Handler, ConsoleNext(h) PROVE IInv'
      <3>1. ASSUME NEW from \in {Open, Learnt}, NEW to \in {Open, Handled, Ignored},
                   to = Open <=> from = Learnt,
                   UpdateAll(h, from, to)
            PROVE  IInv'
        <4> DEFINE r == [at |-> "update", from |-> from, to |-> to,
                         todo |-> {n.id : n \in {m \in notice : m.status = from}}]
        <4>1. r \in RequestState
          <5>1. r.todo \in SUBSET Nat
            BY DEF TypeOK, Notice
          <5> QED BY <5>1 DEF RequestState
        <4>2. request' = [request EXCEPT ![h] = r]
          BY <3>1 DEF UpdateAll
        <4>3. request' \in [Handler -> RequestState]
          BY <4>1, <4>2 DEF TypeOK
        <4>4. r.at = "update" /\ r.from = from /\ r.to = to
          OBVIOUS
        <4> HIDE DEF r
        <4>5. Directed'
          BY <3>1, <4>2, <4>4 DEF Directed, TypeOK
        <4> QED BY <3>1, <4>3, <4>5, NoticeAssumption DEF UpdateAll, Operation, TypeOK, Board, Indexed,
                  Untouched, Named, board, config, history
      <3>2. CASE UpdateNext(h)
        <4> DEFINE r == request[h]
        <4>1. PICK i \in r.todo :
                /\ request' = [request EXCEPT ![h].todo = @ \ {i}]
                /\ \/ \E n \in notice : /\ n.status = r.from /\ ~ Taken(n.alarm, r.to, n.uptime)
                                         /\ Change(n, r.to, n.uptime)
                   \/ UNCHANGED <<board, closed, due>>
          BY <3>2 DEF UpdateNext
        <4>2. request' \in [Handler -> RequestState] /\ Directed'
          BY <3>2, <4>1, Shrinks DEF UpdateNext
        <4>3. CASE UNCHANGED <<board, closed, due>>
          BY <3>2, <4>2, <4>3 DEF UpdateNext, TypeOK, Board, Indexed, Untouched, Named, board, config
        <4>4. ASSUME NEW n \in notice, n.status = r.from, ~ Taken(n.alarm, r.to, n.uptime),
                     Change(n, r.to, n.uptime)
              PROVE  IInv'
          <5>1. /\ r.to \in {Open, Handled, Ignored}
                /\ r.to = Open => n.status = Learnt
            BY <3>2, <4>4 DEF UpdateNext, Directed, Open, Handled, Ignored
          <5>2. n.uptime \in Nat /\ now \in Nat /\ now' = now /\ n.uptime <= now
                /\ (r.to = Open => n.uptime = Never)
            BY <3>2, <5>1 DEF UpdateNext, TypeOK, Notice, Board, Named, Untouched
          <5>3. /\ Board' /\ notice' \in SUBSET Notice /\ IsFiniteSet(notice') /\ made' = made
                /\ closed' \in [Alarm -> Nat] /\ due' \in [Alarm -> Int]
            BY <4>4, <5>1, <5>2, ChangeKeeps
          <5> QED BY <3>2, <4>2, <5>3 DEF UpdateNext, TypeOK, config
        <4> QED BY <4>1, <4>3, <4>4
      <3>3. CASE UpdateRefused(h) \/ UpdateEnds(h) \/ ListDuplicates(h) \/ RequestDies(h)
        <4>1. \E r \in RequestState : r.at # "update" /\ request' = [request EXCEPT ![h] = r]
          <5>1. Idle \in RequestState /\ Idle.at # "update"
            BY DEF Idle, RequestState
          <5>2. [at |-> "list"] \in RequestState
            BY DEF RequestState
          <5>3. [at |-> "purge", left |-> Cardinality({n \in notice : Watched(n)})] \in RequestState
            <6>1. Cardinality({n \in notice : Watched(n)}) \in Nat
              BY FS_Subset, FS_CardinalityType DEF TypeOK
            <6> QED BY <6>1 DEF RequestState
          <5> QED BY <3>3, <5>1, <5>2, <5>3 DEF UpdateRefused, UpdateEnds, ListDuplicates, RequestDies
        <4>2. request' \in [Handler -> RequestState] /\ Directed'
          BY <4>1 DEF TypeOK, Directed
        <4>3. faults' \in 0 .. MaxFaults
          BY <3>3, NoticeAssumption DEF UpdateRefused, UpdateEnds, ListDuplicates, RequestDies, Fault, TypeOK
        <4> QED BY <3>3, <4>2, <4>3 DEF UpdateRefused, UpdateEnds, ListDuplicates, RequestDies, TypeOK,
                  Board, Indexed, Untouched, Named, board, config, history
      <3>4. CASE Purge(h)
        <4>1. \E r \in RequestState : r.at # "update" /\ request' = [request EXCEPT ![h] = r]
          <5>1. CASE request' = [request EXCEPT ![h] = Idle]
            <6>1. Idle \in RequestState /\ Idle.at # "update"
              BY DEF Idle, RequestState
            <6> QED BY <5>1, <6>1
          <5>2. CASE request[h].left > 0 /\ request' = [request EXCEPT ![h].left = @ - 1]
            <6> DEFINE q == [request[h] EXCEPT !.left = @ - 1]
            <6>1. request[h] \in [at: {"purge"}, left: Nat]
              BY <3>4 DEF Purge, TypeOK, RequestState, Idle
            <6>2. q \in [at: {"purge"}, left: Nat]
              BY <5>2, <6>1
            <6>3. request' = [request EXCEPT ![h] = q]
              BY <3>4, <5>2 DEF Purge, TypeOK
            <6> QED BY <6>2, <6>3 DEF RequestState
          <5> QED BY <3>4, <5>1, <5>2 DEF Purge
        <4>2. request' \in [Handler -> RequestState] /\ Directed'
          BY <4>1 DEF TypeOK, Directed
        <4>3. Board' /\ notice' \in SUBSET Notice /\ IsFiniteSet(notice')
          BY <3>4, RemoveKeeps DEF Purge
        <4> QED BY <3>4, <4>2, <4>3 DEF Purge, TypeOK, config, history
      <3>5. ASSUME NEW info \in Info, FindLearnt(h, info) PROVE IInv'
        <4>1. \E r \in RequestState : r.at # "update" /\ request' = [request EXCEPT ![h] = r]
          <5>1. \A n \in notice : [at |-> "ignore", id |-> n.id] \in RequestState
            BY DEF TypeOK, Notice, RequestState
          <5> QED BY <3>5, <5>1 DEF FindLearnt
        <4>2. request' \in [Handler -> RequestState] /\ Directed'
          BY <4>1 DEF TypeOK, Directed
        <4> QED BY <3>5, <4>2, NoticeAssumption DEF FindLearnt, Operation, TypeOK, Board, Indexed, Untouched,
                  Named, board, config, history
      <3>6. CASE IgnoreLearnt(h)
        <4>1. request' \in [Handler -> RequestState] /\ Directed'
          BY <3>6 DEF IgnoreLearnt, TypeOK, Directed, RequestState, Idle
        <4>2. CASE UNCHANGED <<board, now, closed, due>>
          BY <3>6, <4>1, <4>2 DEF IgnoreLearnt, TypeOK, Board, Indexed, Untouched, Named, board, config
        <4>3. ASSUME NEW n \in notice, now' = now + 1, Change(n, Ignored, now + 1) PROVE IInv'
          <5>1. ~ Taken(n.alarm, Ignored, now + 1)
            BY NewTime
          <5>2. now \in Nat /\ Ignored # Open
            BY DEF TypeOK, Open, Ignored
          <5>3. /\ Board' /\ notice' \in SUBSET Notice /\ IsFiniteSet(notice') /\ made' = made
                /\ closed' \in [Alarm -> Nat] /\ due' \in [Alarm -> Int]
            BY <4>3, <5>1, <5>2, ChangeKeeps
          <5>4. now' \in Nat /\ UNCHANGED <<config, worker, alerts, ops, faults>>
            BY <3>6, <4>3, <5>2 DEF IgnoreLearnt
          <5>5. TypeOK'
            BY <4>1, <5>3, <5>4 DEF TypeOK, config
          <5> QED BY <4>1, <5>3, <5>5
        <4> QED BY <3>6, <4>2, <4>3 DEF IgnoreLearnt
      <3> HIDE DEF IInv
      <3>7. ASSUME NEW to \in {Handled, Ignored}, ChangeAll(h, to) PROVE IInv'
        <4>1. Open \in {Open, Learnt} /\ to \in {Open, Handled, Ignored}
          OBVIOUS
        <4>2. UpdateAll(h, Open, to)
          BY <3>7 DEF ChangeAll
        <4>3. to = Open <=> Open = Learnt
          BY DEF Open, Learnt, Handled, Ignored
        <4> QED BY <3>1, <4>1, <4>2, <4>3
      <3>8. CASE LearnEnding(h)
        <4>1. Learnt \in {Open, Learnt} /\ Open \in {Open, Handled, Ignored}
          OBVIOUS
        <4>2. UpdateAll(h, Learnt, Open)
          BY <3>8 DEF LearnEnding
        <4>3. Open = Open <=> Learnt = Learnt
          OBVIOUS
        <4> QED BY <3>1, <4>1, <4>2, <4>3
      <3> QED BY <2>8, <3>2, <3>3, <3>4, <3>5, <3>6, <3>7, <3>8 DEF ConsoleNext
    <2>9. ASSUME NEW info \in Info, Delete(info) PROVE IInv'
      <3>1. Board' /\ notice' \in SUBSET Notice /\ IsFiniteSet(notice')
        BY <2>9, RemoveKeeps DEF Delete
      <3> QED BY <2>9, <3>1, NoticeAssumption DEF Delete, Operation, TypeOK, Directed, config, history
    <2>10. CASE UNCHANGED vars
      BY <2>10 DEF vars, board, config, history, TypeOK, Board, Indexed, Untouched, Named, Directed
    <2> HIDE DEF IInv
    <2> QED BY <2>1, <2>2, <2>3, <2>4, <2>5, <2>6, <2>7, <2>8, <2>9, <2>10 DEF Next, WorkerNext
  <1> QED BY <1>1, <1>2, PTL DEF Spec, IInv

\* Every alarm has at most one open notice.
THEOREM OneOpenNotice == Spec => []OneOpen
  <1>1. TypeOK /\ Board /\ Directed => OneOpen
    <2> SUFFICES ASSUME TypeOK, Board, NEW a \in Alarm PROVE Cardinality(Of(a, Open)) <= 1
      BY DEF OneOpen
    <2>1. \A n, m \in Of(a, Open) : n = m
      BY DEF Of, Board, Indexed, Untouched
    <2>2. CASE Of(a, Open) = {}
      BY <2>2, FS_EmptySet
    <2>3. CASE \E n : Of(a, Open) = {n}
      <3>1. PICK n : Of(a, Open) = {n}
        BY <2>3
      <3>2. Cardinality({n}) = 1
        BY FS_Singleton
      <3>3. Cardinality(Of(a, Open)) = 1
        BY <3>1, <3>2
      <3> QED BY <3>3
    <2> QED BY <2>1, <2>2, <2>3
  <1> QED BY <1>1, BoardTypes, PTL

\* What was handled or ignored is never opened again nor removed: updates and
\* removals look at the status a document has then.
THEOREM SettledNoticesStay == Spec => SettledStays
  <1> DEFINE Kept == \A n \in notice : n.status \in {Handled, Ignored} =>
                       \E m \in notice' : m.id = n.id /\ m.status \in {Handled, Ignored}
  <1>1. IInv /\ [Next]_vars => [Kept]_vars
    <2> SUFFICES ASSUME IInv, Next, NEW n \in notice, n.status \in {Handled, Ignored}
                 PROVE  \E m \in notice' : m.id = n.id /\ m.status \in {Handled, Ignored}
      OBVIOUS
    <2>1. CASE n \in notice'
      BY <2>1
    <2>2. CASE \E k \in notice, st \in {Handled, Ignored}, u \in Nat : Change(k, st, u)
      <3> PICK k \in notice, st \in {Handled, Ignored}, u \in Nat : Change(k, st, u)
        BY <2>2
      <3> DEFINE c == [k EXCEPT !.status = st, !.uptime = u]
      <3>1. k \in Notice
        BY DEF IInv, TypeOK
      <3>2. c.id = k.id /\ c.status = st /\ notice' = (notice \ {k}) \cup {c}
        <4>1. c.id = k.id /\ c.status = st
          BY <3>1 DEF Notice
        <4> QED BY <4>1 DEF Change
      <3> HIDE DEF c
      <3> QED BY <3>2
    <2>3. ASSUME NEW k \in notice, k.status \in {Open, Learnt}, NEW st, NEW u, Change(k, st, u)
          PROVE  n \in notice'
      BY <2>3 DEF Change, Open, Handled, Ignored, Learnt
    <2>4. ASSUME NEW w \in Worker, WorkerNext(w) PROVE n \in notice'
      BY <2>4 DEF WorkerNext, Record, Count, CountFails, InsertOpen, InsertFails, Alert, Insert, board
    <2>5. ASSUME NEW s \in Server, ServerNext(s) PROVE n \in notice'
      BY <2>5 DEF ServerNext, Refresh, RefreshFails, ServerRestarts, board
    <2>6. ASSUME NEW h \in Handler, ConsoleNext(h), n \notin notice'
          PROVE  \E k \in notice, st \in {Handled, Ignored}, u \in Nat : Change(k, st, u)
      <3>1. CASE UpdateNext(h)
        <4>1. request[h].from \in {Open, Learnt}
          BY <2>6, <3>1 DEF UpdateNext, IInv, Directed
        <4>2. \E k \in notice : k.status = request[h].from /\ Change(k, request[h].to, k.uptime)
          BY <2>6, <3>1 DEF UpdateNext, board
        <4> QED BY <2>3, <2>6, <4>1, <4>2
      <3>2. CASE IgnoreLearnt(h)
        <4>1. now + 1 \in Nat
          BY DEF IInv, TypeOK
        <4> QED BY <2>6, <3>2, <4>1 DEF IgnoreLearnt, board
      <3>3. CASE Purge(h)
        BY <2>6, <3>3 DEF Purge, Watched, Handled, Ignored
      <3> QED BY <2>6, <3>1, <3>2, <3>3 DEF ConsoleNext, ChangeAll, LearnEnding, UpdateAll, UpdateRefused,
                UpdateEnds, ListDuplicates, FindLearnt, RequestDies, board
    <2>7. ASSUME NEW info \in Info, Delete(info) PROVE n \in notice'
      BY <2>7 DEF Delete, Watched, Handled, Ignored
    <2>8. ASSUME NEW k \in notice, NEW to \in {Handled, Ignored}, ChangeStatusbyId(k, to)
          PROVE  \E st \in {Handled, Ignored}, u \in Nat : Change(k, st, u)
      <3>1. now + 1 \in Nat
        BY DEF IInv, TypeOK
      <3> QED BY <2>8, <3>1 DEF ChangeStatusbyId
    <2>9. ASSUME NEW on \in BOOLEAN, SetLearn(on) PROVE n \in notice'
      BY <2>9 DEF SetLearn, board
    <2> QED BY <2>1, <2>2, <2>4, <2>5, <2>6, <2>7, <2>8, <2>9 DEF Next
  <1> QED BY <1>1, BoardTypes, PTL DEF Spec, SettledStays, IInv

\* While an alarm is ignored, each opening to come is paid for: by a worker at its
\* insert, or of a document learnt.
Coming(a) == Cardinality(Counted(a)) + Cardinality(Of(a, Learnt))
Paid == \A a \in Alarm : due[a] >= 0 /\ (Of(a, Ignored) # {} => due[a] >= Coming(a))

\* An ignored alarm is opened only by workers that had counted before, and by the
\* end of the watch mode from documents learnt.
THEOREM IgnoredAlarmsSettle == Spec => []IgnoreSettles
  <1>1. Init => Paid
    BY DEF Init, Paid, Of
  <1>2. IInv /\ Paid /\ [Next]_vars => Paid'
    <2> SUFFICES ASSUME IInv, Paid, [Next]_vars, NEW a \in Alarm
                 PROVE  due'[a] >= 0 /\ (Of(a, Ignored)' # {} => due'[a] >= Coming(a)')
      BY DEF Paid
    <2> DEFINE Goal == due'[a] >= 0 /\ (Of(a, Ignored)' # {} => due'[a] >= Coming(a)')
    <2>p. /\ due \in [Alarm -> Int] /\ due[a] \in Int /\ due[a] >= 0
          /\ Of(a, Ignored) # {} => due[a] >= Coming(a)
          /\ IsFiniteSet(Counted(a)) /\ Cardinality(Counted(a)) \in Nat
          /\ IsFiniteSet(Of(a, Learnt)) /\ Cardinality(Of(a, Learnt)) \in Nat
          /\ worker \in [Worker -> WorkerState]
      BY CountedFinite, LearntFinite DEF IInv, TypeOK, Paid
    <2>f. ASSUME Counted(a)' \in SUBSET Counted(a)
          PROVE  Cardinality(Counted(a)') \in Nat /\ Cardinality(Counted(a)') <= Cardinality(Counted(a))
      BY <2>f, <2>p, FS_Subset, FS_CardinalityType
    <2>g. ASSUME Of(a, Learnt)' \in SUBSET Of(a, Learnt)
          PROVE  Cardinality(Of(a, Learnt)') \in Nat /\ Cardinality(Of(a, Learnt)') <= Cardinality(Of(a, Learnt))
      BY <2>g, <2>p, FS_Subset, FS_CardinalityType
    <2>1. ASSUME due'[a] = due[a], Of(a, Ignored)' # {} => Of(a, Ignored) # {},
                 Of(a, Learnt)' \in SUBSET Of(a, Learnt), Counted(a)' \in SUBSET Counted(a)
          PROVE  Goal
      <3>1. Cardinality(Counted(a)') \in Nat /\ Cardinality(Counted(a)') <= Cardinality(Counted(a))
        BY <2>1, <2>f
      <3>2. Cardinality(Of(a, Learnt)') \in Nat /\ Cardinality(Of(a, Learnt)') <= Cardinality(Of(a, Learnt))
        BY <2>1, <2>g
      <3> QED BY <2>1, <2>p, <3>1, <3>2 DEF Coming
    <2>s. ASSUME Of(a, Ignored)' = Of(a, Ignored), Of(a, Learnt)' = Of(a, Learnt),
                 Counted(a)' \in SUBSET Counted(a), UNCHANGED due
          PROVE  Goal
      BY <2>1, <2>s
    <2>2. ASSUME NEW n \in notice, NEW st \in {Open, Handled, Ignored}, NEW u \in Nat, Change(n, st, u),
                 UNCHANGED worker, st = Open => n.status = Learnt
          PROVE  Goal
      <3> DEFINE c == [n EXCEPT !.status = st, !.uptime = u]
      <3>1. Counted(a)' = Counted(a)
        BY <2>2 DEF Counted
      <3>2. c.alarm = n.alarm /\ c.status = st /\ notice' = (notice \ {n}) \cup {c} /\ n.alarm \in Alarm
        BY <2>2, Changed DEF IInv, TypeOK, Notice, Change
      <3> HIDE DEF c
      <3>3. Of(a, Learnt)' = Of(a, Learnt) \ {n}
        BY <3>2 DEF Of, Open, Handled, Ignored, Learnt
      <3>4. st # Ignored \/ n.alarm # a => Of(a, Ignored)' \in SUBSET Of(a, Ignored)
        BY <3>2 DEF Of
      <3>5. CASE st = Ignored /\ n.alarm = a /\ Of(a, Ignored) = {}
        <4>1. due'[a] = Cardinality(Counted(a)) + Cardinality(Of(a, Learnt) \ {n})
          BY <2>2, <2>p, <3>5 DEF Change
        <4>2. Cardinality(Of(a, Learnt) \ {n}) \in Nat /\ Coming(a)' = due'[a]
          <5>1. IsFiniteSet(Of(a, Learnt) \ {n})
            BY <2>p, FS_Subset
          <5> QED BY <3>1, <3>3, <4>1, <5>1, FS_CardinalityType DEF Coming
        <4> QED BY <2>p, <4>1, <4>2
      <3>6. CASE st = Open /\ n.alarm = a /\ Of(a, Ignored) # {}
        <4>1. due'[a] = due[a] - 1
          BY <2>2, <2>p, <3>6 DEF Change, Owe, Open, Ignored
        <4>2. n \in Of(a, Learnt)
          BY <2>2, <3>6 DEF Of
        <4>3. Cardinality(Of(a, Learnt)') = Cardinality(Of(a, Learnt)) - 1
              /\ Cardinality(Of(a, Learnt)') \in Nat
          <5>1. /\ IsFiniteSet(Of(a, Learnt) \ {n})
                /\ Cardinality(Of(a, Learnt) \ {n}) = Cardinality(Of(a, Learnt)) - 1
            BY <2>p, <4>2, FS_RemoveElement
          <5> QED BY <3>3, <5>1, FS_CardinalityType
        <4> QED BY <2>p, <3>1, <3>6, <4>1, <4>3 DEF Coming
      <3>7. CASE ~ (st = Ignored /\ n.alarm = a /\ Of(a, Ignored) = {})
                 /\ ~ (st = Open /\ n.alarm = a /\ Of(a, Ignored) # {})
        <4>1. due'[a] = due[a]
          BY <2>2, <2>p, <3>2, <3>7 DEF Change, Owe
        <4>2. Of(a, Ignored)' # {} => Of(a, Ignored) # {}
          BY <3>4, <3>7
        <4> QED BY <2>1, <3>1, <3>3, <4>1, <4>2
      <3> QED BY <3>5, <3>6, <3>7
    <2>3. ASSUME NEW w \in Worker, NEW b \in Alarm, Record(w, b) PROVE Goal
      <3> DEFINE c == [id |-> made + 1, alarm |-> b, status |-> Learnt, uptime |-> Never]
      <3>1. notice' = notice \cup {c} /\ c.alarm = b /\ c.status = Learnt
        BY <2>3 DEF Record, Insert
      <3> HIDE DEF c
      <3>2. Of(a, Ignored)' = Of(a, Ignored) /\ Counted(a)' = Counted(a)
        BY <2>3, <3>1 DEF Of, Learnt, Ignored, Record, Counted
      <3>3. CASE a # b
        <4>1. Of(a, Learnt)' = Of(a, Learnt)
          BY <3>1, <3>3 DEF Of
        <4>2. due'[a] = due[a]
          BY <2>3, <2>p, <3>3 DEF Record, Owe
        <4> QED BY <2>1, <3>2, <4>1, <4>2
      <3>4. CASE a = b
        <4>1. due'[a] = IF Of(a, Ignored) = {} THEN due[a] ELSE due[a] + 1
          BY <2>3, <2>p, <3>4 DEF Record, Owe
        <4>2. Of(a, Learnt)' = Of(a, Learnt) \cup {c}
          BY <3>1, <3>4 DEF Of
        <4>3. Cardinality(Of(a, Learnt)') \in Nat
              /\ Cardinality(Of(a, Learnt)') <= Cardinality(Of(a, Learnt)) + 1
          <5>1. CASE c \in Of(a, Learnt)
            <6>1. Of(a, Learnt)' = Of(a, Learnt)
              BY <4>2, <5>1
            <6> QED BY <2>p, <6>1
          <5>2. CASE c \notin Of(a, Learnt)
            <6>1. Cardinality(Of(a, Learnt) \cup {c}) = Cardinality(Of(a, Learnt)) + 1
              BY <2>p, <5>2, FS_AddElement
            <6> QED BY <2>p, <4>2, <6>1
          <5> QED BY <5>1, <5>2
        <4> QED BY <2>p, <3>2, <4>1, <4>3 DEF Coming
      <3> QED BY <3>3, <3>4
    <2>4. ASSUME NEW w \in Worker, NEW b \in Alarm, Count(w, b) PROVE Goal
      <3>1. Of(a, Ignored)' = Of(a, Ignored) /\ Of(a, Learnt)' = Of(a, Learnt) /\ UNCHANGED due
        BY <2>4 DEF Count, Of, board, history
      <3>2. CASE a = b
        BY <2>4, <2>p, <3>1, <3>2 DEF Count
      <3>3. CASE a # b
        <4>1. Counted(a)' \in SUBSET Counted(a)
          BY <2>4, <2>p, <3>3 DEF Count, Counted, Raised
        <4> QED BY <2>s, <3>1, <4>1
      <3> QED BY <3>2, <3>3
    <2>5. ASSUME NEW w \in Worker, NEW b \in Alarm, CountFails(w, b) PROVE Goal
      <3>1. Of(a, Ignored)' = Of(a, Ignored) /\ Of(a, Learnt)' = Of(a, Learnt)
        BY <2>5 DEF CountFails, Of, board
      <3>2. CASE a = b
        <4>1. due'[a] = IF Of(a, Ignored) = {} THEN due[a] ELSE due[a] + 1
          BY <2>5, <2>p, <3>2 DEF CountFails, Owe
        <4>2. Counted(a)' \in SUBSET (Counted(a) \cup {w})
          BY <2>5, <2>p DEF CountFails, Counted
        <4>3. Cardinality(Counted(a) \cup {w}) <= Cardinality(Counted(a)) + 1
              /\ IsFiniteSet(Counted(a) \cup {w}) /\ Cardinality(Counted(a) \cup {w}) \in Nat
          <5>1. CASE w \in Counted(a)
            <6>1. Counted(a) \cup {w} = Counted(a)
              BY <5>1
            <6> QED BY <2>p, <6>1
          <5>2. CASE w \notin Counted(a)
            <6>1. /\ Cardinality(Counted(a) \cup {w}) = Cardinality(Counted(a)) + 1
                  /\ IsFiniteSet(Counted(a) \cup {w})
              BY <2>p, <5>2, FS_AddElement
            <6> QED BY <2>p, <6>1
          <5> QED BY <5>1, <5>2
        <4>4. Cardinality(Counted(a)') <= Cardinality(Counted(a)) + 1 /\ Cardinality(Counted(a)') \in Nat
          <5>1. Cardinality(Counted(a)') <= Cardinality(Counted(a) \cup {w}) /\ IsFiniteSet(Counted(a)')
            BY <4>2, <4>3, FS_Subset
          <5>2. Cardinality(Counted(a)') \in Nat
            BY <5>1, FS_CardinalityType
          <5> QED BY <2>p, <4>3, <5>1, <5>2
        <4> QED BY <2>p, <3>1, <4>1, <4>4 DEF Coming
      <3>3. CASE a # b
        <4>1. Counted(a)' \in SUBSET Counted(a)
          BY <2>5, <2>p, <3>3 DEF CountFails, Counted, Raised
        <4>2. due'[a] = due[a]
          BY <2>5, <2>p, <3>3 DEF CountFails, Owe
        <4> QED BY <2>1, <3>1, <4>1, <4>2
      <3> QED BY <3>2, <3>3
    <2>6. ASSUME NEW w \in Worker, InsertOpen(w) PROVE Goal
      <3>1. Of(a, Ignored)' = Of(a, Ignored) /\ Of(a, Learnt)' = Of(a, Learnt)
        BY <2>6 DEF InsertOpen, Insert, Of, Open, Ignored, Learnt, board
      <3>2. Counted(a)' \in SUBSET Counted(a)
        BY <2>6, <2>p DEF InsertOpen, Counted, Raised, Idle
      <3>3. CASE due'[a] = due[a]
        BY <2>1, <3>1, <3>2, <3>3
      <3>4. CASE due'[a] # due[a]
        <4>1. worker[w].alarm = a /\ Of(a, Ignored) # {} /\ due'[a] = due[a] - 1
              /\ worker' = [worker EXCEPT ![w] = Raised("alert", a)]
          BY <2>6, <2>p, <3>4 DEF InsertOpen, Owe
        <4>2. worker[w] = Raised("insert", a)
          BY <2>6, <2>p, <4>1 DEF InsertOpen, WorkerState, Idle, Raised
        <4>3. w \in Counted(a) /\ Counted(a)' = Counted(a) \ {w}
          BY <4>1, <4>2, <2>p DEF Counted, Raised
        <4>4. Cardinality(Counted(a)') = Cardinality(Counted(a)) - 1
          BY <2>p, <4>3, FS_RemoveElement
        <4>5. Cardinality(Counted(a)') \in Nat
          BY <2>p, <4>3, FS_RemoveElement, FS_CardinalityType
        <4> QED BY <2>p, <3>1, <4>1, <4>4, <4>5 DEF Coming
      <3> QED BY <3>3, <3>4
    <2>7. ASSUME NEW w \in Worker, InsertFails(w) \/ Alert(w) PROVE Goal
      BY <2>s, <2>7 DEF InsertFails, Alert, Counted, Raised, Idle, Of, board, history, IInv, TypeOK
    <2>8. ASSUME NEW s \in Server, ServerNext(s) PROVE Goal
      BY <2>s, <2>8 DEF ServerNext, Refresh, RefreshFails, ServerRestarts, Counted, Raised, Idle, Of, board, history
    <2>9. ASSUME NEW h \in Handler, ConsoleNext(h) PROVE Goal
      <3>1. CASE UpdateNext(h)
        <4>1. UNCHANGED worker
          BY <3>1 DEF UpdateNext
        <4>2. /\ request[h].to \in {Open, Handled, Ignored}
              /\ request[h].to = Open => request[h].from = Learnt
          BY <3>1 DEF UpdateNext, IInv, Directed, Open, Handled, Ignored
        <4>3. \A n \in notice : n.uptime \in Nat
          BY DEF IInv, TypeOK, Notice
        <4>4. \/ UNCHANGED <<board, due>>
              \/ \E n \in notice : n.status = request[h].from /\ Change(n, request[h].to, n.uptime)
          BY <3>1 DEF UpdateNext
        <4>5. CASE UNCHANGED <<board, due>>
          BY <2>s, <4>1, <4>5 DEF Counted, Of, board
        <4> QED BY <2>2, <4>1, <4>2, <4>3, <4>4, <4>5
      <3>2. CASE IgnoreLearnt(h)
        <4>1. now + 1 \in Nat /\ UNCHANGED worker
          BY <3>2 DEF IgnoreLearnt, IInv, TypeOK
        <4>2. \/ UNCHANGED <<board, due>>
              \/ \E n \in notice : Change(n, Ignored, now + 1)
          BY <3>2 DEF IgnoreLearnt
        <4>3. CASE UNCHANGED <<board, due>>
          BY <2>s, <4>1, <4>3 DEF Counted, Of, board
        <4>4. Ignored # Open
          BY DEF Ignored, Open
        <4> QED BY <2>2, <4>1, <4>2, <4>3, <4>4
      <3>3. CASE Purge(h)
        <4>1. Of(a, Ignored)' = Of(a, Ignored) /\ Of(a, Learnt)' \in SUBSET Of(a, Learnt)
          BY <3>3 DEF Purge, Of, Watched, Ignored
        <4> QED BY <2>1, <3>3, <4>1 DEF Purge, Counted, history
      <3>4. CASE UNCHANGED <<board, worker, history>>
        BY <2>s, <3>4 DEF Counted, Of, board, history
      <3> QED BY <2>9, <3>1, <3>2, <3>3, <3>4 DEF ConsoleNext, ChangeAll, LearnEnding, UpdateAll, UpdateRefused,
                UpdateEnds, ListDuplicates, FindLearnt, RequestDies
    <2>10. ASSUME NEW on \in BOOLEAN, SetLearn(on) PROVE Goal
      BY <2>s, <2>10 DEF SetLearn, Counted, Of, board, history
    <2>11. ASSUME NEW n \in notice, NEW to \in {Handled, Ignored}, ChangeStatusbyId(n, to) PROVE Goal
      <3>1. now + 1 \in Nat
        BY DEF IInv, TypeOK
      <3>2. to # Open
        BY DEF Open, Handled, Ignored
      <3> QED BY <2>2, <2>11, <3>1, <3>2 DEF ChangeStatusbyId
    <2>12. ASSUME NEW info \in Info, Delete(info) PROVE Goal
      <3>1. Of(a, Ignored)' = Of(a, Ignored) /\ Of(a, Learnt)' \in SUBSET Of(a, Learnt)
        BY <2>12 DEF Delete, Of, Watched, Ignored
      <3> QED BY <2>1, <2>12, <3>1 DEF Delete, Counted, history
    <2>13. ASSUME UNCHANGED <<board, worker, history>> PROVE Goal
      BY <2>s, <2>13 DEF Counted, Of, board, history
    <2> HIDE DEF Goal
    <2>w. ASSUME NEW w \in Worker, WorkerNext(w) PROVE Goal
      BY <2>w, <2>3, <2>4, <2>5, <2>6, <2>7 DEF WorkerNext
    <2>14. Goal
      <3>1. CASE \E n \in notice, to \in {Handled, Ignored} : ChangeStatusbyId(n, to)
        BY <2>11, <3>1
      <3>2. CASE \E on \in BOOLEAN : SetLearn(on)
        BY <2>10, <3>2
      <3>3. CASE \E h \in Handler : ConsoleNext(h)
        BY <2>9, <3>3
      <3>4. CASE \E s \in Server : ServerNext(s)
        BY <2>8, <3>4
      <3>5. CASE \E w \in Worker : WorkerNext(w)
        BY <2>w, <3>5
      <3>6. CASE \E info \in Info : Delete(info)
        BY <2>12, <3>6
      <3>7. CASE Next
        BY <3>1, <3>2, <3>3, <3>4, <3>5, <3>6, <3>7 DEF Next
      <3>8. CASE UNCHANGED vars
        BY <2>13, <3>8 DEF vars
      <3> QED BY <3>7, <3>8
    <2> QED BY <2>14 DEF Goal
  <1>3. Paid => IgnoreSettles
    BY DEF Paid, IgnoreSettles
  <1> QED BY <1>1, <1>2, <1>3, BoardTypes, PTL DEF Spec, IInv

----------------------------------------------------------------------------
\* The workers whose insert won and who have not called sendNotice yet.
Alerting(a) == {w \in Worker : worker[w] = Raised("alert", a)}
Shown(a) == IF Of(a, Open) = {} THEN 0 ELSE 1

\* Each call of sendNotice, made or due, is paid by a notice of the alarm that is
\* open or was closed.
Told == \A a \in Alarm : alerts[a] + Cardinality(Alerting(a)) <= closed[a] + Shown(a)

\* The workers at sendNotice are finitely many.
LEMMA AlertingFinite ==
    ASSUME NEW a
    PROVE  IsFiniteSet(Alerting(a)) /\ Cardinality(Alerting(a)) \in Nat
  <1>1. IsFiniteSet(Alerting(a))
    BY NoticeAssumption, FS_Subset DEF Alerting
  <1> QED BY <1>1, FS_CardinalityType

\* The operator is told of an alarm again only after its notice was closed.
THEOREM ToldOncePerNotice == Spec => []AlertedOncePerNotice
  <1>1. Init => Told
    <2> SUFFICES ASSUME Init, NEW a \in Alarm
                 PROVE  alerts[a] + Cardinality(Alerting(a)) <= closed[a] + Shown(a)
      BY DEF Told
    <2>1. Alerting(a) = {}
      BY DEF Init, Alerting, Idle, Raised
    <2> QED BY <2>1, FS_EmptySet DEF Init, Shown
  <1>2. IInv /\ Told /\ [Next]_vars => Told'
    <2> SUFFICES ASSUME IInv, Told, [Next]_vars, NEW a \in Alarm
                 PROVE  alerts'[a] + Cardinality(Alerting(a)') <= closed'[a] + Shown(a)'
      BY DEF Told
    <2> DEFINE Goal == alerts'[a] + Cardinality(Alerting(a)') <= closed'[a] + Shown(a)'
    <2>p. /\ alerts \in [Alarm -> Nat] /\ closed \in [Alarm -> Nat] /\ worker \in [Worker -> WorkerState]
          /\ alerts[a] \in Nat /\ closed[a] \in Nat
          /\ IsFiniteSet(Alerting(a)) /\ Cardinality(Alerting(a)) \in Nat
          /\ Shown(a) \in {0, 1} /\ Shown(a)' \in {0, 1}
          /\ alerts[a] + Cardinality(Alerting(a)) <= closed[a] + Shown(a)
      BY AlertingFinite DEF IInv, TypeOK, Told, Shown
    <2>1. ASSUME alerts'[a] = alerts[a], Alerting(a)' \in SUBSET Alerting(a),
                 closed'[a] \in Nat, closed'[a] + Shown(a)' >= closed[a] + Shown(a)
          PROVE  Goal
      <3>1. Cardinality(Alerting(a)') \in Nat /\ Cardinality(Alerting(a)') <= Cardinality(Alerting(a))
        BY <2>1, <2>p, FS_Subset, FS_CardinalityType
      <3> QED BY <2>1, <2>p, <3>1
    <2>2. ASSUME Of(a, Open)' = Of(a, Open), alerts'[a] = alerts[a], closed'[a] = closed[a],
                 Alerting(a)' \in SUBSET Alerting(a)
          PROVE  Goal
      <3>1. Shown(a)' = Shown(a)
        BY <2>2 DEF Shown
      <3> QED BY <2>1, <2>2, <2>p, <3>1
    <2>3. ASSUME NEW n \in notice, NEW st \in {Open, Handled, Ignored}, NEW u \in Nat, Change(n, st, u),
                 UNCHANGED <<worker, alerts>>
          PROVE  Goal
      <3> DEFINE c == [n EXCEPT !.status = st, !.uptime = u]
      <3>1. /\ c.alarm = n.alarm /\ c.status = st /\ n.alarm \in Alarm
            /\ notice' = (notice \ {n}) \cup {c}
        BY <2>3, Changed DEF IInv, TypeOK, Notice, Change
      <3>2. Alerting(a)' \in SUBSET Alerting(a)
        BY <2>3 DEF Alerting
      <3>3. CASE n.status = Open /\ st # Open
        <4>1. closed' = [closed EXCEPT ![n.alarm] = @ + 1]
          BY <2>3, <3>3 DEF Change
        <4> HIDE DEF c
        <4>2. CASE n.alarm = a
          <5>1. closed'[a] = closed[a] + 1
            BY <2>p, <4>1, <4>2
          <5> QED BY <2>1, <2>3, <2>p, <3>2, <5>1
        <4>3. CASE n.alarm # a
          <5>1. closed'[a] = closed[a]
            BY <2>p, <4>1, <4>3
          <5>2. Of(a, Open)' = Of(a, Open)
            BY <3>1, <3>3, <4>3 DEF Of
          <5> QED BY <2>2, <2>3, <3>2, <5>1, <5>2
        <4> QED BY <4>2, <4>3
      <3>4. CASE ~ (n.status = Open /\ st # Open)
        <4>1. closed'[a] = closed[a]
          BY <2>3, <3>4 DEF Change
        <4> HIDE DEF c
        <4>2. Of(a, Open) # {} => Of(a, Open)' # {}
          <5>1. ASSUME NEW m \in Of(a, Open) PROVE m \in Of(a, Open)' \/ c \in Of(a, Open)'
            BY <3>1, <3>4, <5>1 DEF Of
          <5> QED BY <5>1
        <4>3. Shown(a)' >= Shown(a)
          BY <4>2 DEF Shown
        <4> QED BY <2>1, <2>3, <2>p, <3>2, <4>1, <4>3
      <3> QED BY <3>3, <3>4
    <2>4. ASSUME NEW w \in Worker, NEW b \in Alarm, Record(w, b) PROVE Goal
      <3>1. Of(a, Open)' = Of(a, Open)
        BY <2>4 DEF Record, Insert, Of, Learnt, Open
      <3> QED BY <2>2, <2>4, <3>1 DEF Record, Alerting
    <2>5. ASSUME NEW w \in Worker, NEW b \in Alarm, Count(w, b) \/ CountFails(w, b) PROVE Goal
      <3>1. Of(a, Open)' = Of(a, Open) /\ UNCHANGED <<alerts, closed>>
        BY <2>5 DEF Count, CountFails, Of, board, history
      <3>2. Alerting(a)' \in SUBSET Alerting(a)
        BY <2>5, <2>p DEF Count, CountFails, Alerting, Raised
      <3> QED BY <2>2, <3>1, <3>2
    <2>6. ASSUME NEW w \in Worker, InsertOpen(w) PROVE Goal
      <3>1. UNCHANGED <<alerts, closed>>
        BY <2>6 DEF InsertOpen
      <3>2. CASE Taken(worker[w].alarm, Open, Never)
        <4>1. Of(a, Open)' = Of(a, Open)
          BY <2>6, <3>2 DEF InsertOpen, Of, board
        <4>2. Alerting(a)' \in SUBSET Alerting(a)
          BY <2>6, <3>2, <2>p DEF InsertOpen, Alerting, Raised, Idle
        <4> QED BY <2>2, <3>1, <4>1, <4>2
      <3>3. CASE ~ Taken(worker[w].alarm, Open, Never)
        <4> DEFINE b == worker[w].alarm
        <4>1. Insert(b, Open) /\ worker' = [worker EXCEPT ![w] = Raised("alert", b)]
          BY <2>6, <3>3 DEF InsertOpen
        <4>2. CASE a = b
          <5>1. Of(a, Open) = {}
            BY <3>3, <4>2 DEF Of, Taken, IInv, Board, Untouched
          <5> DEFINE fresh == [id |-> made + 1, alarm |-> a, status |-> Open, uptime |-> Never]
          <5>2. Of(a, Open)' # {}
            <6>1. fresh \in notice'
              BY <4>1, <4>2 DEF Insert
            <6>2. fresh.alarm = a /\ fresh.status = Open
              OBVIOUS
            <6> HIDE DEF fresh
            <6>3. fresh \in {n \in notice' : n.alarm = a /\ n.status = Open}
              BY <6>1, <6>2
            <6> QED BY <6>3 DEF Of
          <5>3. Shown(a) = 0 /\ Shown(a)' = 1
            BY <5>1, <5>2 DEF Shown
          <5>4. Alerting(a)' \in SUBSET (Alerting(a) \cup {w})
            BY <4>1, <2>p DEF Alerting
          <5>5. w \notin Alerting(a)
            BY <2>6 DEF InsertOpen, Alerting, Raised
          <5>6. /\ IsFiniteSet(Alerting(a) \cup {w})
                /\ Cardinality(Alerting(a) \cup {w}) = Cardinality(Alerting(a)) + 1
            BY <5>5, <2>p, FS_AddElement
          <5>7. Cardinality(Alerting(a)') \in Nat /\ Cardinality(Alerting(a)') <= Cardinality(Alerting(a)) + 1
            BY <5>4, <5>6, FS_Subset, FS_CardinalityType
          <5> QED BY <2>p, <3>1, <5>3, <5>7
        <4>3. CASE a # b
          <5>1. Of(a, Open)' = Of(a, Open)
            BY <4>1, <4>3 DEF Insert, Of
          <5>2. Alerting(a)' \in SUBSET Alerting(a)
            BY <4>1, <4>3, <2>p DEF Alerting, Raised
          <5> QED BY <2>2, <3>1, <5>1, <5>2
        <4> QED BY <4>2, <4>3
      <3> QED BY <3>2, <3>3
    <2>7. ASSUME NEW w \in Worker, Alert(w) PROVE Goal
      <3> DEFINE b == worker[w].alarm
      <3>1. /\ Of(a, Open)' = Of(a, Open) /\ closed' = closed
            /\ worker' = [worker EXCEPT ![w] = Idle]
            /\ alerts' = [alerts EXCEPT ![b] = @ + 1]
        BY <2>7 DEF Alert, Of, board
      <3>2. Shown(a)' = Shown(a)
        BY <3>1 DEF Shown
      <3>3. CASE a = b
        <4>1. worker[w] = Raised("alert", a)
          BY <2>7, <2>p, <3>3 DEF Alert, WorkerState, Idle, Raised
        <4>2. w \in Alerting(a) /\ Alerting(a)' \in SUBSET (Alerting(a) \ {w})
          BY <3>1, <4>1, <2>p DEF Alerting, Raised, Idle
        <4>3. /\ IsFiniteSet(Alerting(a) \ {w})
              /\ Cardinality(Alerting(a) \ {w}) = Cardinality(Alerting(a)) - 1
          BY <4>2, <2>p, FS_RemoveElement
        <4>4. Cardinality(Alerting(a)') \in Nat /\ Cardinality(Alerting(a)') <= Cardinality(Alerting(a)) - 1
          BY <4>2, <4>3, FS_Subset, FS_CardinalityType
        <4>5. alerts'[a] = alerts[a] + 1
          BY <2>p, <3>1, <3>3
        <4> QED BY <2>p, <3>1, <3>2, <4>4, <4>5
      <3>4. CASE a # b
        <4>1. Alerting(a)' \in SUBSET Alerting(a)
          BY <3>1, <2>p DEF Alerting, Raised, Idle
        <4>2. alerts'[a] = alerts[a]
          BY <2>p, <3>1, <3>4
        <4> QED BY <2>2, <3>1, <4>1, <4>2
      <3> QED BY <3>3, <3>4
    <2>8. ASSUME UNCHANGED <<board, alerts, closed>>, Alerting(a)' \in SUBSET Alerting(a) PROVE Goal
      <3>1. Of(a, Open)' = Of(a, Open)
        BY <2>8 DEF Of, board
      <3> QED BY <2>2, <2>8, <3>1
    <2>9. ASSUME NEW w \in Worker, InsertFails(w) PROVE Goal
      <3>1. Alerting(a)' \in SUBSET Alerting(a)
        BY <2>9, <2>p DEF InsertFails, Alerting, Raised, Idle
      <3> QED BY <2>8, <2>9, <3>1 DEF InsertFails, history
    <2>10. ASSUME NEW s \in Server, ServerNext(s) PROVE Goal
      <3>1. Alerting(a)' \in SUBSET Alerting(a)
        BY <2>10 DEF ServerNext, Refresh, RefreshFails, ServerRestarts, Alerting, Raised, Idle
      <3> QED BY <2>8, <2>10, <3>1 DEF ServerNext, Refresh, RefreshFails, ServerRestarts, history
    <2>11. ASSUME UNCHANGED <<worker, alerts, closed>>, notice' \in SUBSET notice,
                  \A n \in notice : n \notin notice' => Watched(n)
           PROVE  Goal
      <3>1. Of(a, Open)' = Of(a, Open)
        BY <2>11 DEF Of, Watched, Open
      <3>2. Alerting(a)' \in SUBSET Alerting(a)
        BY <2>11 DEF Alerting
      <3> QED BY <2>2, <2>11, <3>1, <3>2
    <2>12. ASSUME NEW h \in Handler, ConsoleNext(h) PROVE Goal
      <3>1. CASE UpdateNext(h)
        <4>1. request[h].to \in {Open, Handled, Ignored}
          BY <3>1 DEF UpdateNext, IInv, Directed
        <4>2. \A n \in notice : n.uptime \in Nat
          BY DEF IInv, TypeOK, Notice
        <4>3. /\ UNCHANGED <<worker, alerts>>
              /\ \/ UNCHANGED <<board, closed>>
                 \/ \E n \in notice : Change(n, request[h].to, n.uptime)
          BY <3>1 DEF UpdateNext
        <4>4. CASE UNCHANGED <<board, closed>>
          BY <2>11, <4>3, <4>4 DEF board
        <4> QED BY <2>3, <4>1, <4>2, <4>3, <4>4
      <3>2. CASE IgnoreLearnt(h)
        <4>1. now + 1 \in Nat /\ UNCHANGED <<worker, alerts>>
          BY <3>2 DEF IgnoreLearnt, IInv, TypeOK
        <4>2. \/ UNCHANGED <<board, closed>>
              \/ \E n \in notice : Change(n, Ignored, now + 1)
          BY <3>2 DEF IgnoreLearnt
        <4>3. CASE UNCHANGED <<board, closed>>
          BY <2>11, <4>1, <4>3 DEF board
        <4> QED BY <2>3, <4>1, <4>2, <4>3
      <3>3. CASE Purge(h)
        BY <2>11, <3>3 DEF Purge, history
      <3>4. CASE UNCHANGED <<board, worker, history>>
        BY <2>11, <3>4 DEF board, history
      <3> QED BY <2>12, <3>1, <3>2, <3>3, <3>4 DEF ConsoleNext, ChangeAll, LearnEnding, UpdateAll, UpdateRefused,
                UpdateEnds, ListDuplicates, FindLearnt, RequestDies
    <2>13. ASSUME NEW on \in BOOLEAN, SetLearn(on) PROVE Goal
      BY <2>11, <2>13 DEF SetLearn, board, history
    <2>14. ASSUME NEW n \in notice, NEW to \in {Handled, Ignored}, ChangeStatusbyId(n, to) PROVE Goal
      <3>1. now + 1 \in Nat
        BY DEF IInv, TypeOK
      <3> QED BY <2>3, <2>14, <3>1 DEF ChangeStatusbyId
    <2>15. ASSUME NEW info \in Info, Delete(info) PROVE Goal
      BY <2>11, <2>15 DEF Delete, history
    <2>16. ASSUME UNCHANGED vars PROVE Goal
      BY <2>11, <2>16 DEF vars, board, history
    <2> HIDE DEF Goal
    <2>17. ASSUME NEW w \in Worker, WorkerNext(w) PROVE Goal
      BY <2>17, <2>4, <2>5, <2>6, <2>7, <2>9 DEF WorkerNext
    <2>18. Goal
      BY <2>10, <2>12, <2>13, <2>14, <2>15, <2>16, <2>17 DEF Next
    <2> QED BY <2>18 DEF Goal
  <1>3. IInv /\ Told => AlertedOncePerNotice
    <2> SUFFICES ASSUME IInv, Told, NEW a \in Alarm PROVE alerts[a] <= closed[a] + 1
      BY DEF AlertedOncePerNotice
    <2>1. Shown(a) \in {0, 1} /\ Cardinality(Alerting(a)) \in Nat /\ alerts[a] \in Nat /\ closed[a] \in Nat
      BY AlertingFinite DEF Shown, IInv, TypeOK
    <2> QED BY <2>1 DEF Told
  <1> QED BY <1>1, <1>2, <1>3, BoardTypes, PTL DEF Spec, IInv

=============================================================================
