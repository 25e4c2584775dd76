-------------------------- MODULE TaskDispatchProofs --------------------------
(***************************************************************************)
(* Proofs about TaskDispatch for every set of documents, servers and hosts *)
(* and every capacity of the pool.                                         *)
(***************************************************************************)
EXTENDS TaskDispatch, FiniteSetTheorems, TLAPS

\* A document some server works on has that server as owner, and a host.
Owned ==
    \A i \in Items : job[i] \in Sending \cup {"popped"} =>
        owner[i] \in Servers /\ HostOf[i] \in Hosts

\* Freeing a slot keeps the counter a natural number only because the counter
\* is the number of goroutines, so the three are inductive together.
PoolInv == TypeOK /\ Owned /\ PoolAccounted

\* A server's goroutines can be counted.
LEMMA GoroutinesFinite ==
    ASSUME NEW s PROVE IsFiniteSet(Goroutines(s))
<1>1. Goroutines(s) \in SUBSET Items BY DEF Goroutines
<1>2. QED BY <1>1, FS_Subset, TaskDispatchAssumption

\* The slot of a live goroutine is counted.
LEMMA SlotCounted ==
    ASSUME TypeOK, Owned, PoolAccounted, NEW i \in Items, job[i] \in Sending
    PROVE  owner[i] \in Servers /\ pool[owner[i]] \in 1..PoolSize
<1>1. owner[i] \in Servers BY DEF Owned
<1>2. i \in Goroutines(owner[i]) BY DEF Goroutines
<1>3. Cardinality(Goroutines(owner[i])) # 0
  BY <1>2, GoroutinesFinite, FS_EmptySet
<1>4. QED
  BY <1>1, <1>3, TaskDispatchAssumption DEF TypeOK, PoolAccounted

\* No server has a goroutine, and no slot is taken, before the first step.
LEMMA InitPool == Init => PoolInv
<1> SUFFICES ASSUME Init PROVE PoolInv OBVIOUS
<1> USE TaskDispatchAssumption
<1>1. TypeOK
  BY DEF Init, TypeOK, JobStates, WireStates, BackStates, Docs
<1>2. Owned BY DEF Init, Owned, Sending
<1>3. PoolAccounted
  <2>1. \A s \in Servers : Goroutines(s) = {} BY DEF Init, Goroutines, Sending
  <2>2. QED BY <2>1, FS_EmptySet DEF Init, PoolAccounted
<1>4. QED BY <1>1, <1>2, <1>3 DEF PoolInv

\* Every step keeps the types, and a document that left the queue has an owner.
LEMMA StepTypes == PoolInv /\ [Next]_vars => TypeOK' /\ Owned'
<1> SUFFICES ASSUME PoolInv, [Next]_vars PROVE TypeOK' /\ Owned' OBVIOUS
<1> USE TaskDispatchAssumption
    DEF PoolInv, TypeOK, Owned, JobStates, Sending, WireStates, BackStates,
        serverVars, daemonVars, linkVars
<1>1. ASSUME NEW i \in Items, AddQueue(i) PROVE TypeOK' /\ Owned'
  <2>1. CASE job' = [job EXCEPT ![i] = "queued"] BY <1>1, <2>1 DEF AddQueue
  <2>2. CASE job' = [job EXCEPT ![i] = "lost"] BY <1>1, <2>2 DEF AddQueue
  <2>3. QED BY <1>1, <2>1, <2>2 DEF AddQueue
<1>2. ASSUME NEW i \in Items, Dial(i) PROVE TypeOK' /\ Owned'
  BY <1>2 DEF Dial, Goto
<1>3. ASSUME NEW i \in Items, DialFails(i) PROVE TypeOK' /\ Owned'
  BY <1>3 DEF DialFails, Goto
<1>4. ASSUME NEW i \in Items, Send(i) PROVE TypeOK' /\ Owned'
  BY <1>4 DEF Send, Goto
<1>5. ASSUME NEW i \in Items, EncryptFails(i) PROVE TypeOK' /\ Owned'
  BY <1>5 DEF EncryptFails, Goto
<1>6. ASSUME NEW i \in Items, ReadAnswer(i) PROVE TypeOK' /\ Owned'
  BY <1>6 DEF ReadAnswer, Goto
<1>7. ASSUME NEW i \in Items, Record(i) PROVE TypeOK' /\ Owned'
  <2>1. owner[i] \in Servers /\ pool[owner[i]] \in 1..PoolSize
    BY <1>7, SlotCounted DEF Record
  <2>2. ReplyDoc(i) \in Docs BY DEF ReplyDoc, Docs
  <2>3. pool[owner[i]] - 1 \in 0..PoolSize BY <2>1
  <2>4. taskResult' \subseteq Docs BY <1>7, <2>2 DEF Record
  <2>5. CASE Return(i) BY <1>7, <2>1, <2>3, <2>4, <2>5 DEF Record, Return, Goto
  <2>6. CASE Goto(i, "saveError") /\ UNCHANGED <<pool, wire>>
    BY <1>7, <2>4, <2>6 DEF Record, Goto
  <2>7. QED BY <1>7, <2>5, <2>6 DEF Record
<1>8. ASSUME NEW i \in Items, SaveError(i) PROVE TypeOK' /\ Owned'
  <2>1. owner[i] \in Servers /\ pool[owner[i]] \in 1..PoolSize
    BY <1>8, SlotCounted DEF SaveError
  <2>2. ErrorDoc(i) \in Docs BY DEF ErrorDoc, Docs
  <2>3. pool[owner[i]] - 1 \in 0..PoolSize BY <2>1
  <2>4. taskResult' \subseteq Docs BY <1>8, <2>2 DEF SaveError
  <2>5. QED BY <1>8, <2>1, <2>3, <2>4 DEF SaveError, Return, Goto
<1>9. ASSUME NEW i \in Items, LinkBreaks(i) PROVE TypeOK' /\ Owned'
  BY <1>9 DEF LinkBreaks, Fault
<1>10. ASSUME NEW s \in Servers, Pop(s) PROVE TypeOK' /\ Owned'
  <2>1. PICK i \in Items, blank \in BOOLEAN :
          /\ blank \in {HostOf[i] = None, HostOf[i] = None \/ DbFaults}
          /\ owner' = [owner EXCEPT ![i] = s]
          /\ job' = [job EXCEPT ![i] = IF blank THEN "lost" ELSE "popped"]
          /\ thread' = [thread EXCEPT ![s] = IF blank THEN "sleep" ELSE "acquire"]
    BY <1>10 DEF Pop
  <2>2. ~blank => HostOf[i] \in Hosts BY <2>1
  <2>3. UNCHANGED <<pool, taskResult, daemonVars, linkVars, faults>> BY <1>10 DEF Pop
  <2>4. job' \in [Items -> JobStates] /\ thread' \in [Servers -> {"poll", "sleep", "acquire", "down"}]
    BY <2>1
  <2>5. owner' \in [Items -> Servers \cup {None}] BY <2>1
  <2>6. TypeOK' BY <2>3, <2>4, <2>5
  <2>7. Owned' BY <2>1, <2>2
  <2>8. QED BY <2>6, <2>7
<1>11. ASSUME NEW s \in Servers, PopNothing(s) \/ Wake(s) \/ ServerStart(s)
       PROVE TypeOK' /\ Owned'
  BY <1>11 DEF PopNothing, Wake, ServerStart
<1>12. ASSUME NEW s \in Servers, Spawn(s) PROVE TypeOK' /\ Owned'
  BY <1>12 DEF Spawn
<1>13. ASSUME NEW s \in Servers, ServerCrash(s) PROVE TypeOK' /\ Owned'
  BY <1>13 DEF ServerCrash, Fault
<1>14. ASSUME NEW h \in Hosts, Accept(h) PROVE TypeOK' /\ Owned'
  <2>1. backlog[h] \in Seq(Items) /\ backlog[h] # <<>> BY <1>14 DEF Accept
  <2>2. Head(backlog[h]) \in Items /\ Tail(backlog[h]) \in Seq(Items) BY <2>1
  <2>3. backlog' \in [Hosts -> Seq(Items)] BY <1>14, <2>2 DEF Accept
  <2>4. serving' \in [Hosts -> Items \cup {None}] BY <1>14, <2>2 DEF Accept
  <2>5. wire' \in [Items -> WireStates] /\ back' \in [Items -> BackStates]
    <3>1. ASSUME NEW i \in Items, CloseLink(i)
          PROVE  wire' \in [Items -> WireStates] /\ back' \in [Items -> BackStates]
      BY <3>1 DEF CloseLink
    <3>2. UNCHANGED linkVars \/ CloseLink(Head(backlog[h])) BY <1>14 DEF Accept
    <3>3. QED BY <2>2, <3>1, <3>2
  <2>6. QED BY <1>14, <2>3, <2>4, <2>5 DEF Accept
<1>15. ASSUME NEW h \in Hosts, Reject(h) PROVE TypeOK' /\ Owned'
  BY <1>15 DEF Reject, CloseLink
<1>16. ASSUME NEW h \in Hosts, Run(h) PROVE TypeOK' /\ Owned'
  <2>1. serving[h] \in Items BY <1>16 DEF Run
  <2>2. runs' \in [Items -> Nat] BY <1>16, <2>1 DEF Run
  <2>3. CASE KindOf[serving[h]] \in ExitKinds
    <3>1. PICK after \in {"down", "removed"} : DaemonEnds(h, after, FALSE)
      BY <1>16, <2>3 DEF Run, ExitKinds
    <3>2. /\ daemon' \in [Hosts -> {"up", "down", "removed"}]
          /\ wire' \in [Items -> WireStates]
          /\ back' \in [Items -> BackStates]
          /\ backlog' \in [Hosts -> Seq(Items)]
          /\ serving' \in [Hosts -> Items \cup {None}]
      BY <3>1 DEF DaemonEnds
    <3>3. UNCHANGED <<serverVars, keyOk, faults>> BY <1>16 DEF Run
    <3>4. QED BY <2>2, <3>2, <3>3
  <2>4. CASE KindOf[serving[h]] \notin ExitKinds
    BY <1>16, <2>1, <2>2, <2>4 DEF Run, ExitKinds
  <2>5. QED BY <2>3, <2>4
<1>17. ASSUME NEW h \in Hosts, Answer(h) PROVE TypeOK' /\ Owned'
  BY <1>17 DEF Answer
<1>18. ASSUME NEW h \in Hosts, DaemonStart(h) PROVE TypeOK' /\ Owned'
  BY <1>18 DEF DaemonStart
<1>19. ASSUME NEW h \in Hosts, DaemonCrash(h) PROVE TypeOK' /\ Owned'
  BY <1>19 DEF DaemonCrash, DaemonEnds, Fault
<1>20. CASE UNCHANGED vars BY <1>20 DEF vars
<1>21. QED
  BY <1>1, <1>2, <1>3, <1>4, <1>5, <1>6, <1>7, <1>8, <1>9, <1>10, <1>11, <1>12,
     <1>13, <1>14, <1>15, <1>16, <1>17, <1>18, <1>19, <1>20
     DEF Next, SendTask, TaskThread, TcpPipe

\* Every step changes a server's tokens as it changes its goroutines.
LEMMA PoolStep == PoolInv /\ TypeOK' /\ [Next]_vars => PoolAccounted'
<1> SUFFICES ASSUME PoolInv, TypeOK', [Next]_vars PROVE PoolAccounted' OBVIOUS
<1> USE DEF PoolInv, serverVars
<1>1. ASSUME \A s \in Servers : pool'[s] = pool[s] /\ Goroutines(s)' = Goroutines(s)
      PROVE  PoolAccounted'
  BY <1>1 DEF PoolAccounted
\* A goroutine starts.
<1>2. ASSUME NEW s \in Servers, Spawn(s) PROVE PoolAccounted'
  <2>1. PICK i \in Items : job[i] = "popped" /\ owner[i] = s /\ job' = [job EXCEPT ![i] = "dial"]
    BY <1>2 DEF Spawn
  <2>2. /\ owner' = owner
        /\ pool' = [pool EXCEPT ![s] = @ + 1]
    BY <1>2 DEF Spawn
  <2>3. Goroutines(s)' = Goroutines(s) \cup {i}
    BY <2>1, <2>2 DEF Goroutines, TypeOK, Sending
  <2>4. i \notin Goroutines(s) BY <2>1 DEF Goroutines, Sending
  <2>5. Cardinality(Goroutines(s)') = Cardinality(Goroutines(s)) + 1
    BY <2>3, <2>4, GoroutinesFinite, FS_AddElement
  <2>6. \A r \in Servers : r # s => Goroutines(r)' = Goroutines(r)
    BY <2>1, <2>2 DEF Goroutines, TypeOK
  <2>7. \A r \in Servers : pool'[r] = IF r = s THEN pool[s] + 1 ELSE pool[r]
    BY <2>2 DEF TypeOK
  <2>8. QED BY <2>5, <2>6, <2>7 DEF PoolAccounted
\* A goroutine returns.
<1>3. ASSUME NEW i \in Items, job[i] \in Sending, Return(i), owner' = owner
      PROVE  PoolAccounted'
  <2>1. owner[i] \in Servers BY <1>3 DEF Owned
  <2>2. i \in Goroutines(owner[i]) BY <1>3 DEF Goroutines
  <2>3. Goroutines(owner[i])' = Goroutines(owner[i]) \ {i}
    BY <1>3 DEF Return, Goto, Goroutines, TypeOK, Sending
  <2>4. Cardinality(Goroutines(owner[i])') = Cardinality(Goroutines(owner[i])) - 1
    BY <2>2, <2>3, GoroutinesFinite, FS_RemoveElement
  <2>5. \A r \in Servers : r # owner[i] => Goroutines(r)' = Goroutines(r)
    BY <1>3 DEF Return, Goto, Goroutines, TypeOK
  <2>6. \A r \in Servers : pool'[r] = IF r = owner[i] THEN pool[r] - 1 ELSE pool[r]
    BY <1>3, <2>1 DEF Return, TypeOK
  <2>7. QED BY <2>1, <2>4, <2>5, <2>6, <1>3 DEF PoolAccounted
\* A server crashes with all its goroutines.
<1>4. ASSUME NEW s \in Servers, ServerCrash(s) PROVE PoolAccounted'
  <2>1. Goroutines(s)' = {} BY <1>4 DEF ServerCrash, Goroutines, Sending
  <2>2. \A r \in Servers : r # s => Goroutines(r)' = Goroutines(r)
    BY <1>4 DEF ServerCrash, Goroutines
  <2>3. \A r \in Servers : pool'[r] = IF r = s THEN 0 ELSE pool[r]
    BY <1>4 DEF ServerCrash, TypeOK
  <2>4. QED BY <2>1, <2>2, <2>3, FS_EmptySet DEF PoolAccounted
\* The other steps move a document between two states of the same side.
<1>5. ASSUME NEW i \in Items, AddQueue(i) PROVE PoolAccounted'
  <2>1. \A s \in Servers : Goroutines(s)' = Goroutines(s)
    BY <1>5 DEF AddQueue, Goroutines, TypeOK, Sending
  <2>2. QED BY <1>1, <1>5, <2>1 DEF AddQueue
<1>6. ASSUME NEW s \in Servers, Pop(s) PROVE PoolAccounted'
  <2>1. \A r \in Servers : Goroutines(r)' = Goroutines(r)
    BY <1>6 DEF Pop, Goroutines, TypeOK, Sending
  <2>2. QED BY <1>1, <1>6, <2>1 DEF Pop
<1>7. ASSUME NEW i \in Items, NEW state \in Sending, job[i] \in Sending, Goto(i, state),
             UNCHANGED <<owner, pool>>
      PROVE  PoolAccounted'
  <2>1. \A s \in Servers : Goroutines(s)' = Goroutines(s)
    BY <1>7 DEF Goto, Goroutines, TypeOK
  <2>2. QED BY <1>1, <1>7, <2>1
<1>8. ASSUME UNCHANGED <<job, owner, pool>> PROVE PoolAccounted'
  <2>1. \A s \in Servers : Goroutines(s)' = Goroutines(s) BY <1>8 DEF Goroutines
  <2>2. QED BY <1>1, <1>8, <2>1
<1>9. ASSUME NEW i \in Items, SendTask(i) PROVE PoolAccounted'
  <2>1. CASE Dial(i) BY <1>7, <2>1 DEF Dial, Sending
  <2>2. CASE DialFails(i) BY <1>7, <2>2 DEF DialFails, Sending
  <2>3. CASE Send(i) BY <1>7, <2>3 DEF Send, Sending
  <2>4. CASE EncryptFails(i) BY <1>7, <2>4 DEF EncryptFails, Sending
  <2>5. CASE ReadAnswer(i) BY <1>7, <2>5 DEF ReadAnswer, Sending
  <2>6. CASE Record(i)
    <3>1. CASE Return(i) BY <1>3, <2>6, <3>1 DEF Record, Sending
    <3>2. CASE Goto(i, "saveError") /\ UNCHANGED pool
      BY <1>7, <2>6, <3>2 DEF Record, Sending
    <3>3. QED BY <2>6, <3>1, <3>2 DEF Record
  <2>7. CASE SaveError(i) BY <1>3, <2>7 DEF SaveError, Sending
  <2>8. QED BY <1>9, <2>1, <2>2, <2>3, <2>4, <2>5, <2>6, <2>7 DEF SendTask
<1>10. ASSUME NEW i \in Items, LinkBreaks(i) PROVE PoolAccounted'
  BY <1>8, <1>10 DEF LinkBreaks
<1>11. ASSUME NEW s \in Servers, PopNothing(s) \/ Wake(s) \/ ServerStart(s)
       PROVE PoolAccounted'
  BY <1>8, <1>11 DEF PopNothing, Wake, ServerStart
<1>12. ASSUME NEW h \in Hosts, TcpPipe(h) \/ DaemonStart(h) \/ DaemonCrash(h)
       PROVE PoolAccounted'
  BY <1>8, <1>12 DEF TcpPipe, Accept, Reject, Run, Answer, DaemonStart, DaemonCrash
<1>13. CASE UNCHANGED vars BY <1>8, <1>13 DEF vars
<1>14. QED
  BY <1>2, <1>4, <1>5, <1>6, <1>9, <1>10, <1>11, <1>12, <1>13 DEF Next, TaskThread

\* The type invariant, and with it that no server ever has more than PoolSize
\* goroutines, for every number of documents, servers, hosts and slots.
THEOREM PoolSafe == Spec => [](TypeOK /\ PoolAccounted)
<1>1. PoolInv /\ [Next]_vars => PoolInv'
  BY StepTypes, PoolStep DEF PoolInv
<1>2. PoolInv => TypeOK /\ PoolAccounted BY DEF PoolInv
<1>3. QED BY InitPool, <1>1, <1>2, PTL DEF Spec

\* The types of every variable, for any number of servers, hosts and documents.
THEOREM DispatchTypes == Spec => []TypeOK
<1>1. TypeOK /\ PoolAccounted => TypeOK OBVIOUS
<1>2. QED BY <1>1, PoolSafe, PTL

-----------------------------------------------------------------------------
(* At most one execution, and replies only for executions *)

Evidence(i) == runs[i] = 1 /\ HostOf[i] # None /\ KindOf[i] \notin ExitKinds

\* Why a command runs at most once: it is dialled once, from a state with no
\* connection, and executing it is what takes "command" off its connection.
Undialled == \A i \in Items :
    job[i] \in {"absent", "queued", "popped", "dial"} => wire[i] = "none"
Dialled == \A i \in Items :
    wire[i] # "none" => HostOf[i] \in Hosts /\ owner[i] \in Servers
NotYetRun == \A i \in Items :
    wire[i] \in {"none", "open", "command", "closed", "silent"} => runs[i] = 0
\* Why a reply is evidence: the daemon writes one after an execution it comes
\* back from, and what was written is what sendTask reads and records.
AnswerChain == \A i \in Items :
    \/ wire[i] = "ran" \/ back[i] = "answer" \/ job[i] = "record"
    \/ ReplyDoc(i) \in taskResult
    => Evidence(i)

\* What waits for a daemon's Accept was dialled to its host, and so was what it serves.
Backlogged == \A h \in Hosts :
    /\ \A n \in 1..Len(backlog[h]) : wire[backlog[h][n]] # "none" /\ HostOf[backlog[h][n]] = h
    /\ serving[h] # None => HostOf[serving[h]] = h

LinkInv == Undialled /\ Dialled /\ NotYetRun
RunInv  == PoolInv /\ LinkInv /\ AtMostOnce /\ AnswerChain /\ Backlogged

\* Before the first step nothing is dialled, executed or recorded.
LEMMA InitRun == Init => RunInv
<1> SUFFICES ASSUME Init PROVE RunInv OBVIOUS
<1>1. PoolInv BY InitPool
<1>2. LinkInv /\ AtMostOnce BY DEF Init, LinkInv, Undialled, Dialled, NotYetRun, AtMostOnce
<1>3. AnswerChain BY DEF Init, AnswerChain
<1>4. Backlogged BY DEF Init, Backlogged
<1>5. QED BY <1>1, <1>2, <1>3, <1>4 DEF RunInv

\* Outside Record and SaveError the collection of results does not change, and
\* those two add the documents of the one item they handle.
LEMMA DocsApart ==
    ASSUME NEW i \in Items, NEW j \in Items
    PROVE  /\ ReplyDoc(i) = ReplyDoc(j) => i = j
           /\ ErrorDoc(i) # ReplyDoc(j)
BY DEF ReplyDoc, ErrorDoc

\* Steps of the servers: connections move on, no command runs.
LEMMA ServerStep ==
    ASSUME RunInv, TypeOK',
           \/ \E i \in Items : AddQueue(i) \/ SendTask(i) \/ LinkBreaks(i)
           \/ \E s \in Servers : TaskThread(s) \/ ServerCrash(s) \/ ServerStart(s)
    PROVE  LinkInv' /\ AtMostOnce' /\ AnswerChain' /\ UNCHANGED runs
<1> USE DEF RunInv, PoolInv, LinkInv, Undialled, Dialled, NotYetRun, AnswerChain, Evidence,
            serverVars, daemonVars, linkVars, TypeOK, AtMostOnce
<1>1. ASSUME NEW i \in Items, AddQueue(i)
      PROVE  LinkInv' /\ AtMostOnce' /\ AnswerChain' /\ UNCHANGED runs
  BY <1>1 DEF AddQueue, ReplyDoc
<1>2. ASSUME NEW i \in Items, Dial(i)
      PROVE  LinkInv' /\ AtMostOnce' /\ AnswerChain' /\ UNCHANGED runs
  BY <1>2 DEF Dial, Goto, ReplyDoc, Owned, Sending
<1>3. ASSUME NEW i \in Items, DialFails(i) \/ EncryptFails(i)
      PROVE  LinkInv' /\ AtMostOnce' /\ AnswerChain' /\ UNCHANGED runs
  BY <1>3 DEF DialFails, EncryptFails, Goto, ReplyDoc
<1>4. ASSUME NEW i \in Items, Send(i)
      PROVE  LinkInv' /\ AtMostOnce' /\ AnswerChain' /\ UNCHANGED runs
  BY <1>4 DEF Send, Goto, ReplyDoc
<1>5. ASSUME NEW i \in Items, ReadAnswer(i)
      PROVE  LinkInv' /\ AtMostOnce' /\ AnswerChain' /\ UNCHANGED runs
  BY <1>5 DEF ReadAnswer, Goto, ReplyDoc
<1>6. ASSUME NEW i \in Items, Record(i)
      PROVE  LinkInv' /\ AtMostOnce' /\ AnswerChain' /\ UNCHANGED runs
  <2>1. Evidence(i) /\ UNCHANGED <<runs, owner, back>> BY <1>6 DEF Record
  <2>2. taskResult' \subseteq taskResult \cup {ReplyDoc(i)} BY <1>6 DEF Record
  <2>3. \A j \in Items : ReplyDoc(j) \in taskResult' => Evidence(j)
    BY <2>1, <2>2, DocsApart
  <2>4. job' \in {[job EXCEPT ![i] = "done"], [job EXCEPT ![i] = "saveError"]}
    BY <1>6 DEF Record, Return, Goto
  <2>5. wire' = wire \/ wire' = [wire EXCEPT ![i] = IF @ = "open" THEN "closed" ELSE @]
    BY <1>6 DEF Record, Return
  <2>6. LinkInv' /\ AtMostOnce' BY <2>1, <2>4, <2>5
  <2>7. AnswerChain' BY <2>1, <2>3, <2>4, <2>5 DEF ReplyDoc
  <2>8. QED BY <2>1, <2>6, <2>7
<1>7. ASSUME NEW i \in Items, SaveError(i)
      PROVE  LinkInv' /\ AtMostOnce' /\ AnswerChain' /\ UNCHANGED runs
  <2>1. UNCHANGED <<runs, owner, back>> BY <1>7 DEF SaveError
  <2>2. taskResult' \subseteq taskResult \cup {ErrorDoc(i)} BY <1>7 DEF SaveError
  <2>3. \A j \in Items : ReplyDoc(j) \in taskResult' => Evidence(j)
    BY <2>2, DocsApart
  <2>4. job' = [job EXCEPT ![i] = "done"] BY <1>7 DEF SaveError, Return, Goto
  <2>5. wire' = [wire EXCEPT ![i] = IF @ = "open" THEN "closed" ELSE @]
    BY <1>7 DEF SaveError, Return
  <2>6. LinkInv' /\ AtMostOnce' BY <2>1, <2>4, <2>5
  <2>7. AnswerChain' BY <2>1, <2>3, <2>4, <2>5 DEF ReplyDoc
  <2>8. QED BY <2>1, <2>6, <2>7
<1>8. ASSUME NEW i \in Items, LinkBreaks(i)
      PROVE  LinkInv' /\ AtMostOnce' /\ AnswerChain' /\ UNCHANGED runs
  BY <1>8 DEF LinkBreaks, ReplyDoc
<1>9. ASSUME NEW s \in Servers, Pop(s)
      PROVE  LinkInv' /\ AtMostOnce' /\ AnswerChain' /\ UNCHANGED runs
  BY <1>9 DEF Pop, ReplyDoc
<1>10. ASSUME NEW s \in Servers, PopNothing(s) \/ Wake(s) \/ ServerStart(s)
       PROVE  LinkInv' /\ AtMostOnce' /\ AnswerChain' /\ UNCHANGED runs
  BY <1>10 DEF PopNothing, Wake, ServerStart, ReplyDoc
<1>11. ASSUME NEW s \in Servers, Spawn(s)
       PROVE  LinkInv' /\ AtMostOnce' /\ AnswerChain' /\ UNCHANGED runs
  BY <1>11 DEF Spawn, ReplyDoc
<1>12. ASSUME NEW s \in Servers, ServerCrash(s)
       PROVE  LinkInv' /\ AtMostOnce' /\ AnswerChain' /\ UNCHANGED runs
  BY <1>12 DEF ServerCrash, ReplyDoc, Sending
<1>13. QED
  BY <1>1, <1>2, <1>3, <1>4, <1>5, <1>6, <1>7, <1>8, <1>9, <1>10, <1>11, <1>12
     DEF SendTask, TaskThread

\* A crash of the daemon is an end of it, announced to its peers or not.
LEMMA CrashEndsDaemon ==
    ASSUME NEW h \in Hosts, DaemonCrash(h)
    PROVE  \E silent \in BOOLEAN : DaemonEnds(h, "down", silent)
<1>1. {FALSE, SilentLoss} \subseteq BOOLEAN BY TaskDispatchAssumption
<1>2. QED BY <1>1 DEF DaemonCrash

\* Steps of the daemons: the one that executes a command finds it not yet run.
LEMMA DaemonStep ==
    ASSUME RunInv, TypeOK',
           \E h \in Hosts : TcpPipe(h) \/ DaemonStart(h) \/ DaemonCrash(h)
    PROVE  LinkInv' /\ AtMostOnce' /\ AnswerChain'
<1> USE DEF RunInv, PoolInv, LinkInv, Undialled, Dialled, NotYetRun, AnswerChain, Evidence,
            serverVars, daemonVars, linkVars, TypeOK, AtMostOnce
\* Ends of connections are harmless: "gone" claims nothing, and neither does "eof".
<1>1. ASSUME UNCHANGED <<serverVars, runs>>,
             \A i \in Items : wire'[i] = wire[i] \/ (wire'[i] = "gone" /\ wire[i] # "none"),
             \A i \in Items : back'[i] = "answer" => Evidence(i)
      PROVE  LinkInv' /\ AtMostOnce' /\ AnswerChain'
  BY <1>1 DEF ReplyDoc
<1>2. ASSUME NEW h \in Hosts, NEW after, NEW silent \in BOOLEAN, DaemonEnds(h, after, silent)
      PROVE  /\ \A i \in Items : wire'[i] = wire[i] \/ (wire'[i] = "gone" /\ wire[i] # "none")
             /\ \A i \in Items : back'[i] = "answer" => Evidence(i)
  BY <1>2 DEF DaemonEnds, Linked
<1>3. ASSUME NEW h \in Hosts, Answer(h) PROVE LinkInv' /\ AtMostOnce' /\ AnswerChain'
  BY <1>1, <1>3 DEF Answer
<1>4. ASSUME NEW h \in Hosts, DaemonStart(h) PROVE LinkInv' /\ AtMostOnce' /\ AnswerChain'
  BY <1>1, <1>4 DEF DaemonStart
<1>5. ASSUME NEW h \in Hosts, DaemonCrash(h) PROVE LinkInv' /\ AtMostOnce' /\ AnswerChain'
  <2>1. PICK silent \in BOOLEAN : DaemonEnds(h, "down", silent) BY <1>5, CrashEndsDaemon
  <2>2. UNCHANGED <<serverVars, runs>> BY <1>5 DEF DaemonCrash
  <2>3. /\ \A i \in Items : wire'[i] = wire[i] \/ (wire'[i] = "gone" /\ wire[i] # "none")
        /\ \A i \in Items : back'[i] = "answer" => Evidence(i)
    BY <1>2, <2>1
  <2>4. QED BY <1>1, <2>2, <2>3
<1>6. ASSUME NEW h \in Hosts, Accept(h) PROVE LinkInv' /\ AtMostOnce' /\ AnswerChain'
  <2>1. UNCHANGED <<serverVars, runs>> BY <1>6 DEF Accept
  <2>2. CASE UNCHANGED linkVars BY <1>1, <2>1, <2>2
  <2>3. CASE CloseLink(Head(backlog[h]))
    <3>1. Head(backlog[h]) = backlog[h][1] /\ 1 \in 1..Len(backlog[h])
      BY <1>6 DEF Accept
    <3>2. Head(backlog[h]) \in Items /\ wire[Head(backlog[h])] # "none"
      BY <3>1 DEF Backlogged
    <3>3. QED BY <1>1, <2>1, <2>3, <3>2 DEF CloseLink
  <2>4. QED BY <1>6, <2>2, <2>3 DEF Accept
<1>7. ASSUME NEW h \in Hosts, Reject(h) PROVE LinkInv' /\ AtMostOnce' /\ AnswerChain'
  <2>1. UNCHANGED <<serverVars, runs>> BY <1>7 DEF Reject
  <2>2. serving[h] \in Items /\ wire[serving[h]] # "none" BY <1>7 DEF Reject
  <2>3. CloseLink(serving[h]) BY <1>7 DEF Reject
  <2>4. QED BY <1>1, <2>1, <2>2, <2>3 DEF CloseLink
<1>8. ASSUME NEW h \in Hosts, Run(h) PROVE LinkInv' /\ AtMostOnce' /\ AnswerChain'
  <2>0. PICK i \in Items : i = serving[h] BY <1>8 DEF Run
  <2>1. wire[i] = "command" BY <1>8, <2>0 DEF Run
  <2>2. runs[i] = 0 /\ HostOf[i] \in Hosts BY <2>1
  <2>3. runs' = [runs EXCEPT ![i] = 1] BY <1>8, <2>0, <2>2 DEF Run
  <2>4. UNCHANGED serverVars BY <1>8 DEF Run
  \* Nothing on i claims an execution yet, and the claims on the others stand.
  <2>5. \A j \in Items : Evidence(j) => j # i /\ Evidence(j)' BY <2>2, <2>3
  <2>6. AtMostOnce' BY <2>3
  <2>7. CASE KindOf[i] \in ExitKinds
    <3>1. PICK after \in {"down", "removed"} : DaemonEnds(h, after, FALSE)
      BY <1>8, <2>0, <2>7 DEF Run, ExitKinds
    <3>2. /\ \A j \in Items : wire'[j] = wire[j] \/ (wire'[j] = "gone" /\ wire[j] # "none")
          /\ \A j \in Items : back'[j] = "answer" => Evidence(j)
      BY <1>2, <3>1
    <3>3. wire'[i] = "gone"
      <4>1. HostOf[i] = h BY <1>8, <2>0 DEF Run, Backlogged
      <4>2. QED BY <2>1, <3>1, <4>1 DEF DaemonEnds, Linked
    <3>4. LinkInv' BY <2>1, <2>3, <2>4, <3>2, <3>3
    <3>5. AnswerChain' BY <2>4, <2>5, <3>2 DEF ReplyDoc
    <3>6. QED BY <2>6, <3>4, <3>5
  <2>8. CASE KindOf[i] \notin ExitKinds
    <3>1. wire' = [wire EXCEPT ![i] = "ran"] /\ back' = back BY <1>8, <2>0, <2>8 DEF Run, ExitKinds
    <3>2. LinkInv' BY <2>1, <2>3, <2>4, <3>1
    <3>3. Evidence(i)' BY <2>1, <2>2, <2>3, <2>8, TaskDispatchAssumption
    <3>4. AnswerChain' BY <2>1, <2>4, <2>5, <3>1, <3>3 DEF ReplyDoc
    <3>5. QED BY <2>6, <3>2, <3>4
  <2>9. QED BY <2>7, <2>8
<1>9. QED BY <1>3, <1>4, <1>5, <1>6, <1>7, <1>8 DEF TcpPipe

\* What remains behind the head of a backlog has moved up by one.
LEMMA TailElement ==
    ASSUME NEW S, NEW q \in Seq(S), q # <<>>, NEW n \in 1..Len(Tail(q))
    PROVE  Tail(q)[n] = q[n + 1] /\ n + 1 \in 1..Len(q)
OBVIOUS

\* Every step keeps the kernel's list, and what Accept took off it, to connections
\* that were dialled to that host.
LEMMA BacklogStep ==
    ASSUME RunInv, TypeOK', [Next]_vars
    PROVE  Backlogged'
<1> USE DEF RunInv, PoolInv, serverVars, daemonVars, linkVars
\* A connection once made is not unmade, so only additions to a list matter.
<1>1. ASSUME \A i \in Items : wire[i] # "none" => wire'[i] # "none",
             UNCHANGED <<backlog, serving>>
      PROVE  Backlogged'
  BY <1>1 DEF Backlogged, TypeOK
<1>2. ASSUME NEW i \in Items, Dial(i) PROVE Backlogged'
  <2>1. HostOf[i] \in Hosts BY <1>2 DEF Dial, Owned, Sending
  <2>2. \A h \in Hosts : backlog'[h] = IF h = HostOf[i] THEN Append(backlog[h], i) ELSE backlog[h]
    BY <1>2, <2>1 DEF Dial, TypeOK
  <2>3. wire'[i] # "none" /\ \A j \in Items : wire[j] # "none" => wire'[j] # "none"
    BY <1>2 DEF Dial, TypeOK
  <2>4. serving' = serving BY <1>2 DEF Dial
  <2>5. ASSUME NEW h \in Hosts, NEW n \in 1..Len(backlog'[h])
        PROVE  wire'[backlog'[h][n]] # "none" /\ HostOf[backlog'[h][n]] = h
    <3>1. CASE h # HostOf[i]
      <4>1. backlog'[h] = backlog[h] BY <2>2, <3>1
      <4>2. backlog[h][n] \in Items BY <2>5, <4>1 DEF TypeOK
      <4>3. QED BY <2>3, <2>5, <4>1, <4>2 DEF Backlogged
    <3>2. CASE h = HostOf[i]
      <4>1. backlog'[h] = Append(backlog[h], i) BY <2>2, <3>2
      <4>2. backlog[h] \in Seq(Items) BY DEF TypeOK
      <4>3. CASE n = Len(backlog[h]) + 1 BY <2>3, <3>2, <4>1, <4>2, <4>3
      <4>4. CASE n # Len(backlog[h]) + 1
        <5>1. n \in 1..Len(backlog[h]) /\ backlog'[h][n] = backlog[h][n]
          BY <2>5, <4>1, <4>2, <4>4
        <5>2. backlog[h][n] \in Items BY <4>2, <5>1
        <5>3. QED BY <2>3, <5>1, <5>2 DEF Backlogged
      <4>5. QED BY <4>3, <4>4
    <3>3. QED BY <3>1, <3>2
  <2>6. QED BY <2>4, <2>5 DEF Backlogged
<1>3. ASSUME NEW h \in Hosts, Accept(h) PROVE Backlogged'
  <2>1. /\ backlog[h] \in Seq(Items) /\ backlog[h] # <<>>
        /\ backlog' = [backlog EXCEPT ![h] = Tail(@)]
    BY <1>3 DEF Accept, TypeOK
  <2>2. \A i \in Items : wire[i] # "none" => wire'[i] # "none"
    BY <1>3 DEF Accept, CloseLink, TypeOK
  <2>3. HostOf[Head(backlog[h])] = h BY <2>1 DEF Backlogged
  <2>4. ASSUME NEW g \in Hosts, NEW n \in 1..Len(backlog'[g])
        PROVE  wire'[backlog'[g][n]] # "none" /\ HostOf[backlog'[g][n]] = g
    <3>1. CASE g # h
      <4>1. backlog'[g] = backlog[g] BY <2>1, <3>1 DEF TypeOK
      <4>2. backlog[g][n] \in Items BY <2>4, <4>1 DEF TypeOK
      <4>3. QED BY <2>2, <2>4, <4>1, <4>2 DEF Backlogged
    <3>2. CASE g = h
      <4>1. backlog'[g] = Tail(backlog[g]) BY <2>1, <3>2 DEF TypeOK
      <4>2. backlog'[g][n] = backlog[g][n + 1] /\ n + 1 \in 1..Len(backlog[g])
        BY <2>1, <2>4, <3>2, <4>1, TailElement
      <4>3. backlog[g][n + 1] \in Items BY <2>1, <3>2, <4>2
      <4>4. QED BY <2>2, <4>2, <4>3 DEF Backlogged
    <3>3. QED BY <3>1, <3>2
  <2>5. \A g \in Hosts : serving'[g] = serving[g] \/ (g = h /\ serving'[g] = Head(backlog[h]))
    BY <1>3 DEF Accept, TypeOK
  <2>6. QED BY <2>3, <2>4, <2>5 DEF Backlogged
\* A daemon that ends forgets both lists; one that closes serves nothing.
<1>4. ASSUME NEW h \in Hosts, NEW after, NEW silent \in BOOLEAN, DaemonEnds(h, after, silent)
      PROVE  Backlogged'
  <2>1. \A i \in Items : wire[i] # "none" => wire'[i] # "none" BY <1>4 DEF DaemonEnds
  <2>2. \A g \in Hosts : /\ backlog'[g] = IF g = h THEN <<>> ELSE backlog[g]
                         /\ serving'[g] = IF g = h THEN None ELSE serving[g]
    BY <1>4 DEF DaemonEnds, TypeOK
  <2>3. \A g \in Hosts : \A n \in 1..Len(backlog[g]) : backlog[g][n] \in Items
    BY DEF TypeOK
  <2>4. \A g \in Hosts : \A n \in 1..Len(backlog'[g]) : g # h /\ backlog'[g] = backlog[g]
    BY <2>2
  <2>5. QED BY <2>1, <2>2, <2>3, <2>4 DEF Backlogged
<1>5. ASSUME NEW h \in Hosts, Reject(h) \/ Answer(h) PROVE Backlogged'
  <2>1. \A i \in Items : wire[i] # "none" => wire'[i] # "none"
    BY <1>5 DEF Reject, Answer, CloseLink, TypeOK
  <2>2. backlog' = backlog /\ serving' = [serving EXCEPT ![h] = None]
    BY <1>5 DEF Reject, Answer
  <2>3. QED BY <2>1, <2>2 DEF Backlogged, TypeOK
<1>6. ASSUME NEW h \in Hosts, Run(h) PROVE Backlogged'
  <2>1. CASE KindOf[serving[h]] \in ExitKinds BY <1>4, <1>6, <2>1 DEF Run, ExitKinds
  <2>2. CASE KindOf[serving[h]] \notin ExitKinds BY <1>1, <1>6, <2>2 DEF Run, ExitKinds, TypeOK
  <2>3. QED BY <2>1, <2>2
<1>7. ASSUME NEW h \in Hosts, DaemonCrash(h) PROVE Backlogged'
  <2>1. PICK silent \in BOOLEAN : DaemonEnds(h, "down", silent) BY <1>7, CrashEndsDaemon
  <2>2. QED BY <1>4, <2>1
<1>8. ASSUME NEW h \in Hosts, DaemonStart(h) PROVE Backlogged'
  BY <1>1, <1>8 DEF DaemonStart
<1>9. ASSUME NEW s \in Servers, TaskThread(s) \/ ServerCrash(s) \/ ServerStart(s)
      PROVE Backlogged'
  <2>1. CASE TaskThread(s)
    BY <1>1, <2>1 DEF TaskThread, Pop, PopNothing, Wake, Spawn
  <2>2. CASE ServerCrash(s) BY <1>1, <2>2 DEF ServerCrash, TypeOK
  <2>3. CASE ServerStart(s) BY <1>1, <2>3 DEF ServerStart
  <2>4. QED BY <1>9, <2>1, <2>2, <2>3
<1>10. ASSUME NEW i \in Items, AddQueue(i) \/ SendTask(i) \/ LinkBreaks(i)
       PROVE Backlogged'
  <2>1. CASE AddQueue(i) BY <1>1, <2>1 DEF AddQueue
  <2>2. CASE DialFails(i) \/ EncryptFails(i) \/ ReadAnswer(i)
    BY <1>1, <2>2 DEF DialFails, EncryptFails, ReadAnswer
  <2>3. CASE Send(i) BY <1>1, <2>3 DEF Send, TypeOK
  <2>4. CASE Record(i) \/ SaveError(i)
    BY <1>1, <2>4 DEF Record, SaveError, Return, TypeOK
  <2>5. CASE LinkBreaks(i) BY <1>1, <2>5 DEF LinkBreaks
  <2>6. QED BY <1>2, <1>10, <2>1, <2>2, <2>3, <2>4, <2>5 DEF SendTask
<1>11. CASE UNCHANGED vars BY <1>1, <1>11 DEF vars
<1>12. QED
  BY <1>3, <1>5, <1>6, <1>7, <1>8, <1>9, <1>10, <1>11 DEF Next, TcpPipe

\* The invariant behind both theorems is inductive.
LEMMA RunStep == RunInv /\ [Next]_vars => RunInv'
<1> SUFFICES ASSUME RunInv, [Next]_vars PROVE RunInv' OBVIOUS
<1>1. PoolInv' BY StepTypes, PoolStep DEF PoolInv, RunInv
<1>2. Backlogged' BY <1>1, BacklogStep DEF PoolInv
<1>3. LinkInv' /\ AtMostOnce' /\ AnswerChain'
  <2>1. CASE UNCHANGED vars
    BY <2>1 DEF vars, serverVars, daemonVars, linkVars, RunInv, LinkInv, Undialled, Dialled,
                NotYetRun, AtMostOnce, AnswerChain, Evidence, ReplyDoc
  <2>2. CASE Next BY <1>1, <2>2, ServerStep, DaemonStep DEF Next, PoolInv
  <2>3. QED BY <2>1, <2>2
<1>4. QED BY <1>1, <1>2, <1>3 DEF RunInv

\* With any number of servers popping one collection, and whatever crashes or
\* breaks, a queue document's command is executed at most once.
THEOREM ExecutedAtMostOnce == Spec => []AtMostOnce
<1>1. RunInv => AtMostOnce BY DEF RunInv
<1>2. QED BY InitRun, RunStep, <1>1, PTL DEF Spec

\* A reply in task_result stands for exactly one execution on the host, and is
\* never stored for quit or uninstall.
THEOREM RepliesAreEvidence == Spec => []ReplyIsEvidence
<1>1. RunInv => ReplyIsEvidence BY DEF RunInv, AnswerChain, Evidence, ReplyIsEvidence
<1>2. QED BY InitRun, RunStep, <1>1, PTL DEF Spec

-----------------------------------------------------------------------------
(* One command at a time on a host *)

\* A command that ran and is not answered belongs to the connection in tcpPipe.
RanIsServed == \A i \in Items :
    wire[i] = "ran" => HostOf[i] \in Hosts /\ serving[HostOf[i]] = i
\* A document is taken once; what a thread took keeps that owner.
TakenOnce == \A i \in Items :
    /\ job[i] \in {"absent", "queued"} => owner[i] = None
    /\ job[i] \notin {"absent", "queued", "lost"} => owner[i] \in Servers

\* What the promise and the order of commands need besides RunInv.
FullInv == RunInv /\ RanIsServed /\ TakenOnce

\* Nothing ran and nothing was taken when the system starts.
LEMMA InitFull == Init => FullInv
<1>1. Init => RanIsServed /\ TakenOnce
  BY DEF Init, RanIsServed, TakenOnce
<1>2. QED BY <1>1, InitRun DEF FullInv

\* Only a daemon's own steps run a command or move its connection on.
LEMMA ServedStep ==
    ASSUME RunInv, RanIsServed, [Next]_vars
    PROVE  RanIsServed'
<1> USE DEF RunInv, PoolInv, serverVars, daemonVars, linkVars
<1>1. ASSUME serving' = serving,
             \A i \in Items : wire'[i] = "ran" => wire[i] = "ran"
      PROVE  RanIsServed'
  BY <1>1 DEF RanIsServed
<1>2. ASSUME NEW h \in Hosts, Accept(h) PROVE RanIsServed'
  <2>1. \A i \in Items : wire'[i] = "ran" => wire[i] = "ran"
    BY <1>2 DEF Accept, CloseLink, TypeOK
  <2>2. serving[h] = None /\ \A g \in Hosts \ {h} : serving'[g] = serving[g]
    BY <1>2 DEF Accept, TypeOK
  <2>3. QED BY <2>1, <2>2, TaskDispatchAssumption DEF RanIsServed
<1>3. ASSUME NEW h \in Hosts, NEW i \in Items, i = serving[h],
             wire'[i] # "ran", serving' = [serving EXCEPT ![h] = None],
             \A j \in Items : wire'[j] = "ran" => wire[j] = "ran"
      PROVE  RanIsServed'
  BY <1>3 DEF RanIsServed, TypeOK
<1>4. ASSUME NEW h \in Hosts, Reject(h) \/ Answer(h) PROVE RanIsServed'
  <2>1. PICK i \in Items : i = serving[h]
    BY <1>4 DEF Reject, Answer, TypeOK
  <2>2. /\ wire' = [wire EXCEPT ![i] = "gone"]
        /\ serving' = [serving EXCEPT ![h] = None]
    BY <1>4, <2>1 DEF Reject, Answer, CloseLink
  <2>3. wire'[i] # "ran" /\ \A j \in Items : wire'[j] = "ran" => wire[j] = "ran"
    BY <2>2 DEF TypeOK
  <2>4. QED BY <1>3, <2>1, <2>2, <2>3
<1>5. ASSUME NEW h \in Hosts, NEW after, NEW silent \in BOOLEAN, DaemonEnds(h, after, silent)
      PROVE  RanIsServed'
  <2>1. \A i \in Items : wire'[i] = "ran" => wire[i] = "ran" /\ HostOf[i] # h
    BY <1>5 DEF DaemonEnds, Linked
  <2>2. \A g \in Hosts \ {h} : serving'[g] = serving[g]
    BY <1>5 DEF DaemonEnds, TypeOK
  <2>3. QED BY <2>1, <2>2 DEF RanIsServed
<1>6. ASSUME NEW h \in Hosts, Run(h) PROVE RanIsServed'
  <2>1. PICK i \in Items : i = serving[h]
    BY <1>6 DEF Run, TypeOK
  <2>2. HostOf[i] = h BY <2>1, <1>6 DEF Run, Backlogged
  <2>3. CASE KindOf[i] \in ExitKinds
    <3>1. \E after : DaemonEnds(h, after, FALSE) BY <1>6, <2>1, <2>3 DEF Run
    <3>2. QED BY <1>5, <3>1
  <2>4. CASE KindOf[i] \notin ExitKinds
    <3>1. wire' = [wire EXCEPT ![i] = "ran"] /\ serving' = serving
      BY <1>6, <2>1, <2>4 DEF Run, ExitKinds
    <3>2. QED BY <2>1, <2>2, <3>1 DEF RanIsServed, TypeOK
  <2>5. QED BY <2>3, <2>4
<1>7. ASSUME NEW h \in Hosts, DaemonCrash(h) PROVE RanIsServed'
  <2>1. PICK silent \in BOOLEAN : DaemonEnds(h, "down", silent) BY <1>7, CrashEndsDaemon
  <2>2. QED BY <1>5, <2>1
<1>8. ASSUME NEW h \in Hosts, DaemonStart(h) PROVE RanIsServed'
  BY <1>1, <1>8 DEF DaemonStart
<1>9. ASSUME NEW s \in Servers, TaskThread(s) \/ ServerCrash(s) \/ ServerStart(s)
      PROVE RanIsServed'
  <2>1. CASE TaskThread(s)
    BY <1>1, <2>1 DEF TaskThread, Pop, PopNothing, Wake, Spawn
  <2>2. CASE ServerCrash(s) BY <1>1, <2>2 DEF ServerCrash
  <2>3. CASE ServerStart(s) BY <1>1, <2>3 DEF ServerStart
  <2>4. QED BY <1>9, <2>1, <2>2, <2>3
<1>10. ASSUME NEW i \in Items, AddQueue(i) \/ SendTask(i) \/ LinkBreaks(i)
       PROVE RanIsServed'
  <2>1. CASE AddQueue(i) BY <1>1, <2>1 DEF AddQueue
  <2>2. CASE DialFails(i) \/ EncryptFails(i) \/ ReadAnswer(i)
    BY <1>1, <2>2 DEF DialFails, EncryptFails, ReadAnswer
  <2>3. CASE Send(i) BY <1>1, <2>3 DEF Send, TypeOK
  <2>4. CASE Record(i) \/ SaveError(i)
    BY <1>1, <2>4 DEF Record, SaveError, Return, TypeOK
  <2>5. CASE LinkBreaks(i) BY <1>1, <2>5 DEF LinkBreaks
  <2>6. CASE Dial(i) BY <1>1, <2>6 DEF Dial, TypeOK
  <2>7. QED BY <1>10, <2>1, <2>2, <2>3, <2>4, <2>5, <2>6 DEF SendTask
<1>11. CASE UNCHANGED vars BY <1>1, <1>11 DEF vars
<1>12. QED
  BY <1>2, <1>4, <1>6, <1>7, <1>8, <1>9, <1>10, <1>11 DEF Next, TcpPipe

\* Only Pop gives a document an owner, and it takes it out of the queue.
LEMMA TakenStep ==
    ASSUME RunInv, TakenOnce, [Next]_vars
    PROVE  TakenOnce'
<1> USE DEF RunInv, PoolInv, serverVars, daemonVars, linkVars
<1>1. ASSUME NEW i \in Items, job[i] \notin {"absent", "queued", "lost"}, owner' = owner,
             NEW state, state \notin {"absent", "queued"}, Goto(i, state)
      PROVE  TakenOnce'
  BY <1>1 DEF TakenOnce, Goto, TypeOK
<1>2. ASSUME UNCHANGED <<job, owner>> PROVE TakenOnce'
  BY <1>2 DEF TakenOnce
<1>3. ASSUME NEW i \in Items, AddQueue(i) PROVE TakenOnce'
  BY <1>3 DEF AddQueue, TakenOnce, TypeOK
<1>4. ASSUME NEW i \in Items, SendTask(i) \/ LinkBreaks(i) PROVE TakenOnce'
  <2>1. CASE Dial(i) BY <1>1, <2>1 DEF Dial
  <2>2. CASE DialFails(i) BY <1>1, <2>2 DEF DialFails
  <2>3. CASE Send(i) BY <1>1, <2>3 DEF Send
  <2>4. CASE EncryptFails(i) BY <1>1, <2>4 DEF EncryptFails
  <2>5. CASE ReadAnswer(i) BY <1>1, <2>5 DEF ReadAnswer
  <2>6. CASE Record(i) BY <1>1, <2>6 DEF Record, Return
  <2>7. CASE SaveError(i) BY <1>1, <2>7 DEF SaveError, Return
  <2>8. CASE LinkBreaks(i) BY <1>2, <2>8 DEF LinkBreaks
  <2>9. QED BY <1>4, <2>1, <2>2, <2>3, <2>4, <2>5, <2>6, <2>7, <2>8 DEF SendTask
<1>5. ASSUME NEW s \in Servers, Pop(s) PROVE TakenOnce'
  BY <1>5 DEF Pop, TakenOnce, TypeOK
<1>6. ASSUME NEW s \in Servers, PopNothing(s) \/ Wake(s) \/ ServerStart(s) PROVE TakenOnce'
  BY <1>2, <1>6 DEF PopNothing, Wake, ServerStart
<1>7. ASSUME NEW s \in Servers, Spawn(s) PROVE TakenOnce'
  BY <1>7 DEF Spawn, TakenOnce, TypeOK
<1>8. ASSUME NEW s \in Servers, ServerCrash(s) PROVE TakenOnce'
  BY <1>8 DEF ServerCrash, TakenOnce, TypeOK, Sending
<1>9. ASSUME NEW h \in Hosts, TcpPipe(h) \/ DaemonStart(h) \/ DaemonCrash(h) PROVE TakenOnce'
  BY <1>2, <1>9 DEF TcpPipe, Accept, Reject, Run, Answer, DaemonStart, DaemonCrash
<1>10. CASE UNCHANGED vars BY <1>2, <1>10 DEF vars
<1>11. QED
  BY <1>3, <1>4, <1>5, <1>6, <1>7, <1>8, <1>9, <1>10 DEF Next, TaskThread

\* The whole invariant is inductive.
LEMMA FullStep == FullInv /\ [Next]_vars => FullInv'
BY RunStep, ServedStep, TakenStep DEF FullInv

\* While the answer to one command of a host is outstanding, the host starts no
\* other: what is served is what ran, and only what is served runs.
THEOREM CommandsAreSerial == Spec => OneCommandAtATime
<1>1. FullInv /\ [Next]_vars =>
        [\A i, j \in Items : wire[i] = "ran" /\ HostOf[i] = HostOf[j] => runs'[j] = runs[j]]_vars
  <2> SUFFICES ASSUME FullInv, Next, NEW i \in Items, NEW j \in Items,
                      wire[i] = "ran", HostOf[i] = HostOf[j]
               PROVE  runs'[j] = runs[j]
    OBVIOUS
  <2>1. CASE runs' = runs BY <2>1
  <2>2. ASSUME NEW h \in Hosts, Run(h) PROVE runs'[j] = runs[j]
    <3>1. serving[h] \in Items /\ HostOf[serving[h]] = h /\ wire[serving[h]] = "command"
      BY <2>2 DEF Run, FullInv, RunInv, PoolInv, TypeOK, Backlogged
    <3>2. serving[HostOf[i]] = i BY DEF FullInv, RanIsServed
    <3>3. j # serving[h] BY <3>1, <3>2
    <3>4. QED BY <2>2, <3>1, <3>3 DEF Run, FullInv, RunInv, PoolInv, TypeOK
  <2>3. ASSUME \A h \in Hosts : ~ Run(h) PROVE runs' = runs
    <3> USE DEF serverVars, daemonVars, linkVars
    <3>1. ASSUME NEW k \in Items, AddQueue(k) \/ SendTask(k) \/ LinkBreaks(k) PROVE runs' = runs
      BY <3>1 DEF AddQueue, SendTask, LinkBreaks, Dial, DialFails, Send, EncryptFails, ReadAnswer,
                  Record, SaveError
    <3>2. ASSUME NEW s \in Servers, TaskThread(s) \/ ServerCrash(s) \/ ServerStart(s)
          PROVE runs' = runs
      BY <3>2 DEF TaskThread, Pop, PopNothing, Wake, Spawn, ServerCrash, ServerStart
    <3>3. ASSUME NEW h \in Hosts, TcpPipe(h) \/ DaemonStart(h) \/ DaemonCrash(h)
          PROVE runs' = runs
      BY <2>3, <3>3 DEF TcpPipe, Accept, Reject, Answer, DaemonStart, DaemonCrash
    <3>4. QED BY <3>1, <3>2, <3>3 DEF Next
  <2>4. QED BY <2>1, <2>2, <2>3
<1>2. QED BY <1>1, InitFull, FullStep, PTL DEF Spec, OneCommandAtATime

-----------------------------------------------------------------------------
(* Every document has an outcome *)

\* Every path out of sendTask files a document, and what is filed stays.
LEMMA AccountedStep ==
    ASSUME DbFaults = FALSE, FullInv, Accounted, [Next]_vars
    PROVE  Accounted'
<1> USE DEF FullInv, RunInv, PoolInv, serverVars, daemonVars, linkVars
<1>0. faults \in Nat BY TaskDispatchAssumption DEF TypeOK
<1>1. ASSUME taskResult \subseteq taskResult', faults' = faults,
             \A i \in Items : job'[i] \in {"done", "lost"} => job'[i] = job[i]
      PROVE  Accounted'
  BY <1>1 DEF Accounted
<1>2. ASSUME NEW i \in Items, NEW state \in JobStates \ {"done", "lost"}, Goto(i, state),
             taskResult \subseteq taskResult', faults' = faults
      PROVE  Accounted'
  <2>1. \A j \in Items : job'[j] \in {"done", "lost"} => job'[j] = job[j]
    BY <1>2 DEF Goto, TypeOK
  <2>2. QED BY <1>1, <1>2, <2>1
<1>3. ASSUME NEW i \in Items, NEW d, d.item = i, taskResult' = taskResult \cup {d},
             Return(i), faults' = faults
      PROVE  Accounted'
  <2>1. job' = [job EXCEPT ![i] = "done"] BY <1>3 DEF Return, Goto
  <2>2. \A j \in Items \ {i} : job'[j] = job[j] BY <2>1 DEF TypeOK
  <2>3. job'[i] = "done" BY <2>1 DEF TypeOK
  <2>4. QED BY <1>3, <2>2, <2>3 DEF Accounted
<1>4. ASSUME NEW i \in Items, AddQueue(i) PROVE Accounted'
  BY <1>2, <1>4 DEF AddQueue, Goto, JobStates
<1>5. ASSUME NEW i \in Items, SendTask(i) PROVE Accounted'
  <2>1. CASE Dial(i) BY <1>2, <2>1 DEF Dial, JobStates
  <2>2. CASE DialFails(i) BY <1>2, <2>2 DEF DialFails, JobStates
  <2>3. CASE Send(i) BY <1>2, <2>3 DEF Send, JobStates
  <2>4. CASE EncryptFails(i) BY <1>2, <2>4 DEF EncryptFails, JobStates
  <2>5. CASE ReadAnswer(i) BY <1>2, <2>5 DEF ReadAnswer, JobStates
  <2>6. CASE Record(i)
    <3>1. taskResult' = taskResult \cup {ReplyDoc(i)} /\ Return(i) /\ faults' = faults
      BY <2>6 DEF Record
    <3>2. ReplyDoc(i).item = i BY DEF ReplyDoc
    <3>3. QED BY <1>3, <3>1, <3>2
  <2>7. CASE SaveError(i)
    <3>1. taskResult' = taskResult \cup {ErrorDoc(i)} /\ Return(i) /\ faults' = faults
      BY <2>7 DEF SaveError
    <3>2. ErrorDoc(i).item = i BY DEF ErrorDoc
    <3>3. QED BY <1>3, <3>1, <3>2
  <2>8. QED BY <1>5, <2>1, <2>2, <2>3, <2>4, <2>5, <2>6, <2>7 DEF SendTask
<1>6. ASSUME NEW s \in Servers, Pop(s) PROVE Accounted'
  <2>0. \A i \in Items : {HostOf[i] = None, HostOf[i] = None \/ DbFaults} = {HostOf[i] = None}
    OBVIOUS
  <2>1. PICK i \in Items, blank \in BOOLEAN :
          /\ blank <=> HostOf[i] = None
          /\ job' = [job EXCEPT ![i] = IF blank THEN "lost" ELSE "popped"]
    <3>1. PICK i \in Items : \E blank \in {HostOf[i] = None} :
            job' = [job EXCEPT ![i] = IF blank THEN "lost" ELSE "popped"]
      BY <1>6, <2>0 DEF Pop
    <3>2. job' = [job EXCEPT ![i] = IF HostOf[i] = None THEN "lost" ELSE "popped"] BY <3>1
    <3>3. QED BY <3>2
  <2>2. taskResult' = taskResult /\ faults' = faults BY <1>6 DEF Pop
  <2>3. \A j \in Items \ {i} : job'[j] = job[j] BY <2>1 DEF TypeOK
  <2>4. job'[i] = IF blank THEN "lost" ELSE "popped" BY <2>1 DEF TypeOK
  <2>5. QED BY <2>1, <2>2, <2>3, <2>4 DEF Accounted
<1>7. ASSUME NEW s \in Servers, PopNothing(s) \/ Wake(s) \/ ServerStart(s) PROVE Accounted'
  BY <1>1, <1>7 DEF PopNothing, Wake, ServerStart
<1>8. ASSUME NEW s \in Servers, Spawn(s) PROVE Accounted'
  BY <1>2, <1>8 DEF Spawn, Goto, JobStates
\* A lost document is excused by a fault, and faults are never forgotten.
<1>9. ASSUME Fault, taskResult' = taskResult,
             \A i \in Items : job'[i] = "done" => job[i] = "done"
      PROVE  Accounted'
  <2>1. faults' > 0 BY <1>0, <1>9 DEF Fault
  <2>2. QED BY <1>9, <2>1 DEF Accounted
<1>10. ASSUME NEW s \in Servers, ServerCrash(s) PROVE Accounted'
  BY <1>9, <1>10 DEF ServerCrash
<1>11. ASSUME NEW i \in Items, LinkBreaks(i) PROVE Accounted'
  BY <1>9, <1>11 DEF LinkBreaks
<1>12. ASSUME NEW h \in Hosts, DaemonCrash(h) PROVE Accounted'
  BY <1>9, <1>12 DEF DaemonCrash
<1>13. ASSUME NEW h \in Hosts, TcpPipe(h) \/ DaemonStart(h) PROVE Accounted'
  BY <1>1, <1>13 DEF TcpPipe, Accept, Reject, Run, Answer, DaemonStart
<1>14. CASE UNCHANGED vars BY <1>1, <1>14 DEF vars
<1>15. QED
  BY <1>4, <1>5, <1>6, <1>7, <1>8, <1>10, <1>11, <1>12, <1>13, <1>14 DEF Next, TaskThread

\* As long as MongoDB answers, every document that a server finished with has a
\* result, and only a missing host or a crash makes one disappear.
THEOREM EveryDocumentAccounted ==
    ASSUME DbFaults = FALSE PROVE Spec => []Accounted
<1>1. Init => Accounted BY DEF Init, Accounted
<1>2. FullInv /\ Accounted /\ [Next]_vars => Accounted' BY AccountedStep
<1>3. QED BY <1>1, <1>2, InitFull, FullStep, PTL DEF Spec

-----------------------------------------------------------------------------
(* The promise of TaskService is kept *)

Phases  == [i \in Items |-> Phase(i)]
Replied == {i \in Items : ReplyDoc(i) \in taskResult}

\* What documents look like from outside depends on their state and owner only.
LEMMA PhaseSame ==
    ASSUME UNCHANGED <<job, owner>> PROVE Phases' = Phases
BY DEF Phases, Phase

\* A goroutine that goes on keeps its document claimed.
LEMMA PhaseMoves ==
    ASSUME TypeOK, owner' = owner, NEW i \in Items,
           NEW state \in {"popped"} \cup Sending, Goto(i, state),
           job[i] \in {"popped"} \cup Sending
    PROVE  Phases' = Phases
<1>1. \A j \in Items : Phase(j)' = Phase(j)
  BY DEF Phase, Goto, Sending, TypeOK
<1>2. QED BY <1>1 DEF Phases

\* A goroutine that returns closes its document, and no other.
LEMMA PhaseEnds ==
    ASSUME TypeOK, TakenOnce, owner' = owner, NEW i \in Items,
           job[i] \in Sending, Goto(i, "done")
    PROVE  Phases[i] = "claimed" /\ Phases' = [Phases EXCEPT ![i] = "closed"]
<1>1. owner[i] # None /\ job'[i] = "done"
  BY TaskDispatchAssumption DEF TakenOnce, Sending, Goto, TypeOK
<1>2. Phase(i) = "claimed" /\ Phase(i)' = "closed"
  BY <1>1 DEF Phase, Sending
<1>3. \A j \in Items \ {i} : Phase(j)' = Phase(j)
  BY DEF Phase, Goto, TypeOK
<1> HIDE DEF Phase
<1>4. QED BY <1>2, <1>3 DEF Phases

\* The abstract step that one document's own step is.
Step == Promise!Next \/ UNCHANGED <<Phases, runs, Replied>>

\* What the operator cannot see is a stutter of the promise.
LEMMA StutterStep ==
    ASSUME Phases' = Phases, Replied' = Replied, runs' = runs
    PROVE  Step
BY DEF Step

\* Closing a set of claimed documents, one or all of a server, is a Close.
LEMMA CloseStep ==
    ASSUME NEW S \in SUBSET Items, \A i \in S : Phases[i] = "claimed",
           Phases' = [i \in Items |-> IF i \in S THEN "closed" ELSE Phases[i]],
           Replied' = Replied, runs' = runs
    PROVE  Step
BY DEF Step, Promise!Next, Promise!Close, Phases, Replied

\* Every step of the system is a step of the promise or a stutter.
LEMMA PromiseStep == ASSUME FullInv, [Next]_vars PROVE Step
<1> USE DEF FullInv, RunInv, PoolInv, serverVars, daemonVars, linkVars
<1>0. ASSUME taskResult' = taskResult PROVE Replied' = Replied
  BY <1>0 DEF Replied, ReplyDoc
<1>1. ASSUME UNCHANGED <<job, owner, taskResult, runs>> PROVE Step
  BY <1>0, <1>1, PhaseSame, StutterStep
<1>2. ASSUME NEW i \in Items, AddQueue(i) PROVE Step
  <2>1. Phases[i] = "absent" BY <1>2 DEF AddQueue, Phases, Phase
  <2>2. owner[i] = None BY <1>2 DEF AddQueue, TakenOnce
  <2>3. PICK state \in {"queued", "lost"} : job' = [job EXCEPT ![i] = state]
    BY <1>2 DEF AddQueue
  <2>4. UNCHANGED <<owner, taskResult, runs>> BY <1>2 DEF AddQueue
  <2>5. Phase(i)' = IF state = "queued" THEN "queued" ELSE "refused"
    BY <2>2, <2>3, <2>4 DEF Phase, TypeOK
  <2>6. \A j \in Items \ {i} : Phase(j)' = Phase(j) BY <2>3, <2>4 DEF Phase, TypeOK
  <2> HIDE DEF Phase
  <2>7. \E p \in {"queued", "refused"} : Phases' = [Phases EXCEPT ![i] = p]
    BY <2>5, <2>6 DEF Phases
  <2>8. Promise!Submit(i)
    BY <1>0, <2>1, <2>4, <2>7 DEF Promise!Submit, Phases, Replied
  <2>9. QED BY <2>8 DEF Step, Promise!Next
<1>3. ASSUME NEW s \in Servers, Pop(s) PROVE Step
  <2>1. PICK i \in Items, blank \in BOOLEAN :
          /\ job[i] = "queued" /\ owner' = [owner EXCEPT ![i] = s]
          /\ job' = [job EXCEPT ![i] = IF blank THEN "lost" ELSE "popped"]
    BY <1>3 DEF Pop
  <2>2. UNCHANGED <<taskResult, runs>> BY <1>3 DEF Pop
  <2>3. Phases[i] = "queued" BY <2>1 DEF Phases, Phase
  <2>4. owner'[i] # None BY <2>1, TaskDispatchAssumption DEF TypeOK
  <2>5. Phase(i)' = IF blank THEN "closed" ELSE "claimed"
    BY <2>1, <2>4 DEF Phase, TypeOK
  <2>6. \A j \in Items \ {i} : Phase(j)' = Phase(j) BY <2>1 DEF Phase, TypeOK
  <2> HIDE DEF Phase
  <2>7. \E p \in {"claimed", "closed"} : Phases' = [Phases EXCEPT ![i] = p]
    BY <2>5, <2>6 DEF Phases
  <2>8. Promise!Claim(i)
    BY <1>0, <2>2, <2>3, <2>7 DEF Promise!Claim, Phases, Replied
  <2>9. QED BY <2>8 DEF Step, Promise!Next
<1>4. ASSUME NEW s \in Servers, Spawn(s) PROVE Step
  <2>1. PICK i \in Items : job[i] = "popped" /\ Goto(i, "dial")
    BY <1>4 DEF Spawn, Goto
  <2>2. UNCHANGED <<owner, taskResult, runs>> BY <1>4 DEF Spawn
  <2>3. Phases' = Phases BY <2>1, <2>2, PhaseMoves DEF Sending
  <2>4. QED BY <1>0, <2>2, <2>3, StutterStep
<1>5. ASSUME NEW i \in Items, NEW state \in Sending, job[i] \in Sending, Goto(i, state),
             UNCHANGED <<owner, taskResult, runs>>
      PROVE  Step
  BY <1>0, <1>5, PhaseMoves, StutterStep
\* An answer is recorded, and the document is closed unless the insert failed.
<1>6. ASSUME NEW i \in Items, Record(i) PROVE Step
  <2>1. UNCHANGED <<owner, runs>> /\ job[i] \in Sending BY <1>6 DEF Record, Sending
  <2>2. Phases[i] = "claimed" /\ \E p \in {"claimed", "closed"} : Phases' = [Phases EXCEPT ![i] = p]
    <3>1. CASE Goto(i, "saveError")
      <4>1. Phases' = Phases BY <2>1, <3>1, PhaseMoves DEF Sending
      <4>2. Phases[i] = "claimed" BY <2>1 DEF Phases, Phase, Sending
      <4>3. [Phases EXCEPT ![i] = "claimed"] = Phases BY <4>2 DEF Phases
      <4>4. QED BY <4>1, <4>2, <4>3
    <3>2. CASE Goto(i, "done") BY <2>1, <3>2, PhaseEnds
    <3>3. QED BY <1>6, <3>1, <3>2 DEF Record, Return
  <2>3. runs[i] = 1 BY <1>6 DEF Record, AnswerChain, Evidence
  <2>4. CASE taskResult' = taskResult \cup {ReplyDoc(i)}
    <3>1. Replied' = Replied \cup {i} BY <2>4, DocsApart DEF Replied, ReplyDoc
    <3>2. Promise!Reply(i)
      BY <2>1, <2>2, <2>3, <3>1 DEF Promise!Reply, Phases, Replied
    <3>3. QED BY <3>2 DEF Step, Promise!Next
  <2>5. CASE taskResult' = taskResult /\ Goto(i, "saveError")
    BY <1>5, <1>6, <2>1, <2>5 DEF Sending
  <2>6. QED BY <1>6, <2>4, <2>5 DEF Record
<1>7. ASSUME NEW i \in Items, SaveError(i) PROVE Step
  <2>1. /\ UNCHANGED <<owner, runs>> /\ job[i] \in Sending /\ Goto(i, "done")
        /\ taskResult' \in {taskResult, taskResult \cup {ErrorDoc(i)}}
    BY <1>7 DEF SaveError, Sending, Return
  <2>2. Phases[i] = "claimed" /\ Phases' = [Phases EXCEPT ![i] = "closed"]
    BY <2>1, PhaseEnds
  <2>3. Replied' = Replied BY <2>1, DocsApart DEF Replied, ReplyDoc
  <2>4. Phases' = [j \in Items |-> IF j \in {i} THEN "closed" ELSE Phases[j]]
    BY <2>2 DEF Phases
  <2>5. QED BY <2>1, <2>2, <2>3, <2>4, CloseStep
<1>8. ASSUME NEW i \in Items, SendTask(i) \/ LinkBreaks(i) PROVE Step
  <2>1. CASE Dial(i) BY <1>5, <2>1 DEF Dial, Sending
  <2>2. CASE DialFails(i) BY <1>5, <2>2 DEF DialFails, Sending
  <2>3. CASE Send(i) BY <1>5, <2>3 DEF Send, Sending
  <2>4. CASE EncryptFails(i) BY <1>5, <2>4 DEF EncryptFails, Sending
  <2>5. CASE ReadAnswer(i) BY <1>5, <2>5 DEF ReadAnswer, Sending
  <2>6. CASE LinkBreaks(i) BY <1>1, <2>6 DEF LinkBreaks
  <2>7. QED BY <1>6, <1>7, <1>8, <2>1, <2>2, <2>3, <2>4, <2>5, <2>6 DEF SendTask
\* A crash closes all documents the server had taken, at once.
<1>9. ASSUME NEW s \in Servers, ServerCrash(s) PROVE Step
  <2> DEFINE S == {i \in Items : owner[i] = s /\ job[i] \in Sending \cup {"popped"}}
  <2>1. UNCHANGED <<owner, taskResult, runs>> BY <1>9 DEF ServerCrash
  <2>2. \A i \in Items : job'[i] = IF i \in S THEN "lost" ELSE job[i]
    BY <1>9 DEF ServerCrash
  <2>3. \A i \in S : Phase(i) = "claimed" /\ Phase(i)' = "closed"
    BY <2>1, <2>2, TaskDispatchAssumption DEF Phase, Sending
  <2>4. \A i \in Items \ S : Phase(i)' = Phase(i) BY <2>1, <2>2 DEF Phase
  <2>5. S \in SUBSET Items OBVIOUS
  <2> HIDE DEF Phase, S
  <2>6. Phases' = [i \in Items |-> IF i \in S THEN "closed" ELSE Phases[i]]
    BY <2>3, <2>4, <2>5 DEF Phases
  <2>7. \A i \in S : Phases[i] = "claimed" BY <2>3, <2>5 DEF Phases
  <2>8. QED BY <1>0, <2>1, <2>5, <2>6, <2>7, CloseStep
<1>10. ASSUME NEW s \in Servers, PopNothing(s) \/ Wake(s) \/ ServerStart(s) PROVE Step
  BY <1>1, <1>10 DEF PopNothing, Wake, ServerStart
\* The one step that executes finds a document some server has taken.
<1>11. ASSUME NEW h \in Hosts, Run(h) PROVE Step
  <2>1. PICK i \in Items : i = serving[h] BY <1>11 DEF Run, TypeOK
  <2>2. wire[i] = "command" /\ runs' = [runs EXCEPT ![i] = @ + 1] BY <1>11, <2>1 DEF Run
  <2>3. UNCHANGED <<job, owner, taskResult>> BY <1>11 DEF Run
  <2>4. runs[i] = 0 /\ owner[i] # None /\ job[i] \notin {"absent", "queued", "popped", "dial"}
    BY <2>2, TaskDispatchAssumption DEF LinkInv, NotYetRun, Dialled, Undialled
  <2>5. Phases[i] \in {"claimed", "closed"}
    BY <2>4 DEF Phases, Phase
  <2>6. runs' = [runs EXCEPT ![i] = 1] BY <2>2, <2>4
  <2>7. Phases' = Phases BY <2>3, PhaseSame
  <2>8. Promise!Execute(i)
    BY <1>0, <2>3, <2>4, <2>5, <2>6, <2>7 DEF Promise!Execute, Phases, Replied
  <2>9. QED BY <2>8 DEF Step, Promise!Next
<1>12. ASSUME NEW h \in Hosts, Accept(h) \/ Reject(h) \/ Answer(h) \/ DaemonStart(h) \/ DaemonCrash(h)
       PROVE  Step
  BY <1>1, <1>12 DEF Accept, Reject, Answer, DaemonStart, DaemonCrash
<1>13. CASE UNCHANGED vars BY <1>1, <1>13 DEF vars
<1>14. QED
  BY <1>2, <1>3, <1>4, <1>8, <1>9, <1>10, <1>11, <1>12, <1>13 DEF Next, TaskThread, TcpPipe

\* Servers, threads, links and daemons together implement what TaskService
\* promises, through every crash, lost answer and failed query.
THEOREM PromiseKept == Spec => KeepsPromise
<1>1. Init => Promise!Init
  BY DEF Init, Promise!Init, Phase
<1>2. FullInv /\ [Next]_vars => [Promise!Next]_(Promise!vars)
  BY PromiseStep DEF Step, Promise!vars, Phases, Replied
<1>3. QED
  BY <1>1, <1>2, InitFull, FullStep, PTL DEF Spec, KeepsPromise, Promise!Spec
=============================================================================
