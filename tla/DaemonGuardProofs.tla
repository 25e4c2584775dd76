-------------------------- MODULE DaemonGuardProofs --------------------------
(***************************************************************************)
(* NoHalfStart, NilSafe and OneAgent hold of DaemonGuard for any number of *)
(* builds, commands and faults.  The type invariant is proved in two       *)
(* halves, the points the threads are at and the data they handle.         *)
(***************************************************************************)
EXTENDS DaemonGuard, TLAPS

Points ==
    /\ guard \in {"off", "lock", "start", "mark", "wait", "clear", "sleep"}
    /\ task \in {"off", "idle", "reload", "update", "quit", "lock"} \cup Replacing
    /\ m \in {None, "guard", "task"}
    /\ status \in BOOLEAN
    /\ proc \in {"none", "running", "exited", "reaped"}

\* Who holds M: run around Start, the accept loop while it replaces the file.
HolderInv ==
    /\ guard = "off" <=> task = "off"
    /\ guard = "off" => m = None
    /\ guard = "start" <=> m = "guard"
    /\ task \in Replacing <=> m = "task"

\* What Cmd holds at each point of run.  AgentStatus is written without M, but
\* only while run is between Start and the next Cmd.
CmdInv ==
    /\ guard = "start" => proc = "none"
    /\ guard = "clear" => proc = "reaped"
    /\ guard \in {"mark", "wait"} => proc \in {"running", "exited"}
    /\ guard \in {"lock", "sleep", "off"} => proc \in {"none", "reaped"}
    /\ status => guard \in {"wait", "clear"}

GuardInv == Points /\ HolderInv /\ CmdInv

\* A download that goes on has an attempt left.
DataInv ==
    /\ agent \in Contents \cup {None}
    /\ file \in Contents \cup {None}
    /\ times \in 0..3
    /\ task = "download" => times # 0
    /\ reply \in Answers \cup {None}
    /\ published \in Contents
    /\ hash \in Versions
    /\ uploading \in Versions \cup {None}
    /\ commands \in 0..MaxCommands /\ faults \in 0..MaxFaults

\* Every step keeps the holder of M and the state of Cmd what they are at its point.
LEMMA GuardStep == GuardInv /\ [Next]_vars => GuardInv'
<1> SUFFICES ASSUME GuardInv, [Next]_vars PROVE GuardInv' OBVIOUS
<1> USE DaemonGuardAssumption
        DEF GuardInv, Points, HolderInv, CmdInv, Replacing, guardVars, taskVars, webVars
\* A daemon that ends drops M, the flag and Cmd.
<1>1. CASE DaemonEnds BY <1>1 DEF DaemonEnds
<1>2. CASE GuardLoop
  <2>1. CASE Lock BY <2>1 DEF Lock
  <2>2. CASE StartAgent BY <2>2 DEF StartAgent
  <2>3. CASE Mark \/ Clear BY <2>3 DEF Mark, Clear
  <2>4. CASE Reap \/ Wake BY <2>4 DEF Reap, Wake
  <2>5. QED BY <1>2, <2>1, <2>2, <2>3, <2>4 DEF GuardLoop
<1>3. CASE Receive BY <1>3 DEF Receive
<1>4. CASE Reload
  <2>1. CASE ~DaemonEnds
    <3>1. task = "reload" /\ task' = "idle" /\ KillAgent /\ UNCHANGED <<guard, status, m>>
      BY <1>4, <2>1 DEF Reload
    <3>2. QED BY <3>1 DEF KillAgent
  <2>2. QED BY <1>1, <2>1
<1>5. CASE Quit BY <1>1, <1>5 DEF Quit
<1>6. CASE UpdateCheck BY <1>6 DEF UpdateCheck
<1>7. CASE UpdateLock BY <1>1, <1>7 DEF UpdateLock, KillAgent
<1>8. CASE Remove BY <1>8 DEF Remove, EndUpdate
<1>9. CASE Download BY <1>9 DEF Download, EndUpdate
<1>10. CASE DownloadCut BY <1>1, <1>10 DEF DownloadCut
<1>11. CASE OperatorUploads BY <1>11 DEF OperatorUploads
<1>12. CASE DaemonStart \/ AgentDies BY <1>12 DEF DaemonStart, AgentDies
<1>13. CASE DaemonDies BY <1>1, <1>13 DEF DaemonDies
<1>14. CASE UNCHANGED vars BY <1>14 DEF vars
<1>15. QED
  BY <1>2, <1>3, <1>4, <1>5, <1>6, <1>7, <1>8, <1>9, <1>10, <1>11, <1>12, <1>13, <1>14
     DEF Next, TaskRun

\* Every step keeps the data well typed.
LEMMA DataStep == DataInv /\ [Next]_vars => DataInv'
<1> SUFFICES ASSUME DataInv, [Next]_vars PROVE DataInv' OBVIOUS
<1> USE DaemonGuardAssumption DEF DataInv, Contents, guardVars, taskVars, webVars
<1>1. CASE DaemonEnds /\ UNCHANGED file /\ faults' \in 0..MaxFaults BY <1>1 DEF DaemonEnds
<1>2. CASE GuardLoop
  <2>1. CASE StartAgent BY <2>1 DEF StartAgent
  <2>2. CASE Lock \/ Mark \/ Clear \/ Reap \/ Wake BY <2>2 DEF Lock, Mark, Clear, Reap, Wake
  <2>3. QED BY <1>2, <2>1, <2>2 DEF GuardLoop
<1>3. CASE Receive BY <1>3 DEF Receive
<1>4. \A kind \in {"reload", "update"} : \A st \in BOOLEAN :
      \A data \in {"", "error", "latest", "updated"} : Answer(kind, st, data) \in Answers
  BY DEF Answer, Answers
<1>5. CASE Reload /\ ~DaemonEnds
  <2>1. (~KillFails) \in BOOLEAN BY DEF KillFails
  <2>2. Answer("reload", ~KillFails, "") \in Answers BY <1>4, <2>1
  <2>3. reply' \in Answers BY <1>5, <2>2 DEF Reload
  <2>4. QED BY <1>5, <2>3 DEF Reload, KillAgent
<1>6. CASE (Reload \/ Quit \/ UpdateLock) /\ DaemonEnds
  BY <1>1, <1>6 DEF Reload, Quit, UpdateLock
<1>7. CASE UpdateLock /\ ~DaemonEnds BY <1>7 DEF UpdateLock, KillAgent
<1>8. CASE UpdateCheck
  <2>1. reply' \in Answers \cup {None} BY <1>4, <1>8 DEF UpdateCheck
  <2>2. QED BY <1>8, <2>1 DEF UpdateCheck
<1>9. CASE Remove
  <2>1. reply' \in Answers \cup {None} BY <1>4, <1>9 DEF Remove, EndUpdate
  <2>2. /\ file' \in {file, None} /\ UNCHANGED <<agent, commands, faults, webVars>>
        /\ times' \in {3, times} /\ (task' = "idle" \/ times' = 3)
    BY <1>9 DEF Remove, EndUpdate
  <2>3. QED BY <2>1, <2>2
<1>10. CASE Download
  <2>1. reply' \in Answers \cup {None} BY <1>4, <1>10 DEF Download, EndUpdate
  <2>2. /\ file' \in {file, published} /\ UNCHANGED <<agent, commands, faults, webVars>>
        /\ task = "download"
        /\ \/ task' = "idle" /\ times' = times
           \/ times # 1 /\ times' = times - 1
    BY <1>10 DEF Download, EndUpdate
  <2>3. times' \in 0..3 /\ (task' = "download" => times' # 0) BY <2>2
  <2>4. QED BY <2>1, <2>2, <2>3
<1>11. CASE DownloadCut BY <1>11 DEF DownloadCut, DaemonEnds
<1>12. CASE OperatorUploads BY <1>12 DEF OperatorUploads, Upload
<1>13. CASE DaemonStart \/ AgentDies BY <1>13 DEF DaemonStart, AgentDies
<1>14. CASE DaemonDies
  <2>1. faults' \in 0..MaxFaults BY <1>14 DEF DaemonDies
  <2>2. QED BY <1>1, <1>14, <2>1 DEF DaemonDies
<1>15. CASE UNCHANGED vars BY <1>15 DEF vars
<1>16. CASE Quit BY <1>6, <1>16 DEF Quit
<1>17. QED
  BY <1>2, <1>3, <1>5, <1>6, <1>7, <1>8, <1>9, <1>10, <1>11, <1>12, <1>13, <1>14, <1>15, <1>16
     DEF Next, TaskRun

\* The types of every variable, for any number of builds, commands and faults.
THEOREM GuardTypes == Spec => []TypeOK
<1>1. Init => GuardInv
  BY DaemonGuardAssumption DEF Init, GuardInv, Points, HolderInv, CmdInv, Replacing
<1>2. Init => DataInv BY DaemonGuardAssumption DEF Init, DataInv, Contents
<1>3. GuardInv /\ DataInv => TypeOK BY DEF GuardInv, Points, DataInv, TypeOK
<1>4. QED BY <1>1, <1>2, <1>3, GuardStep, DataStep, PTL DEF Spec

\* The agent is never started from a file that is being replaced, its flag never
\* stands for a process that does not exist, and there is never a second agent.
THEOREM GuardSafe == Spec => [](NoHalfStart /\ NilSafe /\ OneAgent)
<1>1. Init => GuardInv
  BY DaemonGuardAssumption DEF Init, GuardInv, Points, HolderInv, CmdInv, Replacing
<1>2. GuardInv => NoHalfStart /\ NilSafe /\ OneAgent
  BY DaemonGuardAssumption
     DEF GuardInv, Points, HolderInv, CmdInv, NoHalfStart, NilSafe, OneAgent, Replacing
<1>3. QED BY <1>1, <1>2, GuardStep, PTL DEF Spec

\* However the kill, the removal and the download end, run does not start the
\* agent from the file they are replacing (M, agentUpdate).
THEOREM NoStartFromHalf == Spec => []NoHalfStart
<1>1. NoHalfStart /\ NilSafe /\ OneAgent => NoHalfStart OBVIOUS
<1>2. QED BY <1>1, GuardSafe, PTL

\* run gives up a Cmd only when its agent has ended (program.run).
THEOREM OneAgentOnly == Spec => []OneAgent
<1>1. NoHalfStart /\ NilSafe /\ OneAgent => OneAgent OBVIOUS
<1>2. QED BY <1>1, GuardSafe, PTL
=============================================================================
