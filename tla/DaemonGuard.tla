----------------------------- MODULE DaemonGuard -----------------------------
(***************************************************************************)
(* The Daemon of one host keeps the agent running and replaces it.         *)
(*                                                                         *)
(* Two threads share the agent's process (common.Cmd), the flag            *)
(* common.AgentStatus and the agent's file: program.run starts the agent,  *)
(* waits for its end and starts it again (daemon/daemon.go); the accept    *)
(* loop carries out reload, update and quit (daemon/task/).  The mutex     *)
(* common.M keeps run from starting a file that is being replaced.  The    *)
(* new file comes from the web console, whose operator may be uploading it *)
(* (web/controllers/file.go, download.go).                                 *)
(***************************************************************************)
EXTENDS Naturals

CONSTANTS
    Versions,     \* the agent builds, each with its own MD5
    Installed,    \* the build on the host and on the console at the start
    None,         \* no file, no process, no answer
    Half,         \* the content of a file that is not complete
    MaxCommands,  \* how many commands a behaviour may have
    MaxFaults     \* how often agent or daemon may die by itself, or Start fail

ASSUME DaemonGuardAssumption ==
    /\ Installed \in Versions
    /\ None # Half /\ None \notin Versions \cup {"guard", "task"} /\ Half \notin Versions
    /\ MaxCommands \in Nat /\ MaxFaults \in Nat

VARIABLES
    guard,      \* where run is; "off" while the daemon is not running
    task,       \* where the accept loop is
    m,          \* who holds common.M
    status,     \* common.AgentStatus
    proc,       \* common.Cmd.Process: "none" is the nil pointer
    agent,      \* what the live agent process executes
    file,       \* the agent's file on the host
    times,      \* the attempts DownAgent has left
    reply,      \* the answer to the last command
    published,  \* the agent's file on the console
    hash,       \* its hash in the collection "file"
    uploading,  \* the build the operator is uploading
    commands, faults

guardVars == <<guard, status, proc, agent>>
taskVars  == <<task, times, reply, commands>>
webVars   == <<published, hash, uploading>>
vars == <<guardVars, taskVars, webVars, m, file, faults>>

Contents  == Versions \cup {Half}
Replacing == {"remove", "download"}
Answer(kind, st, data) == [kind |-> kind, status |-> st, data |-> data]
Answers == [kind : {"reload", "update"}, status : BOOLEAN,
            data : {"", "error", "latest", "updated"}]

Init ==
    /\ guard = "lock" /\ task = "idle" /\ m = None
    /\ status = FALSE /\ proc = "none" /\ agent = None
    /\ file = Installed
    /\ times = 0 /\ reply = None
    /\ published = Installed /\ hash = Installed /\ uploading = None
    /\ commands = 0 /\ faults = 0

-----------------------------------------------------------------------------
(* program.run *)

\* M.Lock, and a new Cmd that has no process yet.
Lock ==
    /\ guard = "lock" /\ m = None
    /\ guard' = "start" /\ m' = "guard"
    /\ proc' = "none"
    /\ UNCHANGED <<status, agent, taskVars, webVars, file, faults>>

\* Cmd.Start, which fails without a file, may fail with half of one, and now and
\* then with a whole one (no process to be had); M.Unlock.
StartAgent ==
    /\ guard = "start"
    /\ m' = None
    /\ \/ /\ file # None
          /\ guard' = "mark" /\ proc' = "running" /\ agent' = file
          /\ UNCHANGED faults
       \/ /\ guard' = "sleep" /\ UNCHANGED <<proc, agent>>
          /\ \/ file \notin Versions /\ UNCHANGED faults
             \/ file \in Versions /\ faults < MaxFaults /\ faults' = faults + 1
    /\ UNCHANGED <<status, taskVars, webVars, file>>

\* Mutant: the loop does not wait for the agent it started.
MarkOnly ==
    /\ guard = "mark"
    /\ status' = TRUE /\ guard' = "sleep"
    /\ UNCHANGED <<proc, agent, m, taskVars, webVars, file, faults>>

\* AgentStatus = true, after M was given up.
Mark ==
    /\ guard = "mark"
    /\ status' = TRUE /\ guard' = "wait"
    /\ UNCHANGED <<proc, agent, m, taskVars, webVars, file, faults>>

\* Cmd.Wait returns once the agent has ended.  The agent always ends with an
\* error: it is killed, or it panics; main never returns.
Reap ==
    /\ guard = "wait" /\ proc = "exited"
    /\ proc' = "reaped" /\ guard' = "clear"
    /\ UNCHANGED <<status, agent, m, taskVars, webVars, file, faults>>

\* Mutant: the flag stays when the agent has ended.
ClearForgotten ==
    /\ guard = "clear"
    /\ guard' = "sleep"
    /\ UNCHANGED <<status, proc, agent, m, taskVars, webVars, file, faults>>

Clear ==
    /\ guard = "clear"
    /\ status' = FALSE /\ guard' = "sleep"
    /\ UNCHANGED <<proc, agent, m, taskVars, webVars, file, faults>>

Wake ==
    /\ guard = "sleep"
    /\ guard' = "lock"
    /\ UNCHANGED <<status, proc, agent, m, taskVars, webVars, file, faults>>

-----------------------------------------------------------------------------
(* The accept loop *)

\* The process of the daemon ends.  Its service is a systemd unit, so the agent
\* it started ends with it.
DaemonEnds ==
    /\ guard' = "off" /\ task' = "off" /\ m' = None
    /\ status' = FALSE /\ proc' = "none" /\ agent' = None
    /\ times' = 0 /\ reply' = None
    /\ UNCHANGED <<webVars, commands>>

\* Process.Kill, sent only if AgentStatus says so.
KillAgent ==
    IF status /\ proc = "running"
    THEN proc' = "exited" /\ agent' = None
    ELSE UNCHANGED <<proc, agent>>
\* Killing through a nil pointer panics; killing what Wait has collected fails.
KillPanics == status /\ proc = "none"
KillFails  == status /\ proc = "reaped"

Receive ==
    /\ task = "idle" /\ commands < MaxCommands
    /\ commands' = commands + 1
    /\ task' \in {"reload", "update", "quit"}
    /\ reply' = None
    /\ UNCHANGED <<guardVars, times, webVars, m, file, faults>>

Reload ==
    /\ task = "reload"
    /\ \/ KillPanics /\ DaemonEnds /\ UNCHANGED file
       \/ /\ ~KillPanics /\ KillAgent
          /\ task' = "idle"
          /\ reply' = Answer("reload", ~KillFails, "")
          /\ UNCHANGED <<guard, status, times, commands, webVars, m, file>>
    /\ UNCHANGED faults

\* quit kills the agent and panics.
Quit ==
    /\ task = "quit"
    /\ DaemonEnds
    /\ UNCHANGED <<file, faults>>

\* action=check answers 1 if the hash it is asked about is not the stored one.
Check(h) == IF h = hash THEN 0 ELSE 1

\* agentUpdate up to the lock: no file, no answer, nothing newer, or go on.
UpdateCheck ==
    /\ task = "update"
    /\ \/ /\ file # None /\ Check(file) = 1
          /\ task' = "lock" /\ UNCHANGED reply
       \/ /\ file # None /\ Check(file) = 0
          /\ task' = "idle" /\ reply' = Answer("update", TRUE, "latest")
       \/ /\ task' = "idle" /\ reply' = Answer("update", FALSE, "error")
    /\ UNCHANGED <<guardVars, times, commands, webVars, m, file, faults>>

\* Mutant: update does not take the mutex.
UpdateUnlocked ==
    /\ task = "lock"
    /\ \/ KillPanics /\ DaemonEnds /\ UNCHANGED file
       \/ /\ ~KillPanics /\ KillAgent
          /\ task' = "remove"
          /\ UNCHANGED <<guard, status, times, reply, commands, webVars, m, file>>
    /\ UNCHANGED faults

\* M.Lock and KillAgent.
UpdateLock ==
    /\ task = "lock" /\ m = None
    /\ \/ KillPanics /\ DaemonEnds /\ UNCHANGED file
       \/ /\ ~KillPanics /\ KillAgent
          /\ m' = "task" /\ task' = "remove"
          /\ UNCHANGED <<guard, status, times, reply, commands, webVars, file>>
    /\ UNCHANGED faults

\* Mutant: M is not unlocked at the end.
EndUpdateLocked(st, data) ==
    /\ task' = "idle"
    /\ reply' = Answer("update", st, data)
    /\ UNCHANGED <<m, times>>

\* The end of an update that took M: the answer, and the deferred Unlock.
EndUpdate(st, data) ==
    /\ task' = "idle" /\ m' = None
    /\ reply' = Answer("update", st, data)
    /\ UNCHANGED times

Remove ==
    /\ task = "remove"
    /\ \/ file' = None /\ task' = "download" /\ times' = 3 /\ UNCHANGED <<m, reply>>
       \/ UNCHANGED file /\ EndUpdate(FALSE, "error")
    /\ UNCHANGED <<guardVars, commands, webVars, faults>>

\* CheckAgentHash formats the hash, which is hexadecimal text, in hexadecimal once
\* more, and takes the answer 1 for a match.
Hex(h) == <<"hex", h>>
CheckAgentHash(content) == Check(Hex(content)) = 1

\* An attempt of DownAgent that got the whole file, and the answer to its check.
\* agentUpdate forgets the error of DownAgent: the variable it was assigned to is
\* not the one that is returned.
Download ==
    /\ task = "download"
    /\ \/ /\ file' = published /\ CheckAgentHash(published)
          /\ EndUpdate(TRUE, "updated")
       \/ /\ file' \in {file, published}
          /\ IF times = 1 THEN EndUpdate(TRUE, "latest")
             ELSE times' = times - 1 /\ UNCHANGED <<task, m, reply>>
    /\ UNCHANGED <<guardVars, commands, webVars, faults>>

\* A body shorter than announced: downFile has no error and asks it for its text.
DownloadCut ==
    /\ task = "download"
    /\ file' = Half
    /\ DaemonEnds
    /\ UNCHANGED faults

-----------------------------------------------------------------------------
(* The console, the service manager, and faults *)

\* FileUpload: SaveToFile writes the file, then the hash of it is stored.
Upload ==
    \/ /\ uploading = None
       /\ uploading' \in Versions \ {published}
       /\ published' = Half /\ UNCHANGED hash
    \/ /\ uploading # None /\ published = Half
       /\ published' = uploading /\ UNCHANGED <<uploading, hash>>
    \/ /\ uploading # None /\ published = uploading
       /\ hash' = published /\ uploading' = None /\ UNCHANGED published

OperatorUploads ==
    /\ Upload
    /\ UNCHANGED <<guardVars, taskVars, m, file, faults>>

DaemonStart ==
    /\ guard = "off"
    /\ guard' = "lock" /\ task' = "idle"
    /\ UNCHANGED <<status, proc, agent, times, reply, commands, webVars, m, file, faults>>

AgentDies ==
    /\ faults < MaxFaults /\ faults' = faults + 1
    /\ proc = "running"
    /\ proc' = "exited" /\ agent' = None
    /\ UNCHANGED <<guard, status, taskVars, webVars, m, file>>

DaemonDies ==
    /\ faults < MaxFaults /\ faults' = faults + 1
    /\ guard # "off"
    /\ DaemonEnds
    /\ UNCHANGED file

-----------------------------------------------------------------------------
GuardLoop == Lock \/ StartAgent \/ Mark \/ Reap \/ Clear \/ Wake
TaskRun   == Reload \/ Quit \/ UpdateCheck \/ UpdateLock \/ Remove \/ Download \/ DownloadCut

Next ==
    \/ GuardLoop \/ Receive \/ TaskRun
    \/ OperatorUploads \/ DaemonStart \/ AgentDies \/ DaemonDies

Spec == Init /\ [][Next]_vars

\* Both threads go on when they can: every request they make has a timeout.  run
\* competes for M with a thread that takes it a bounded number of times.  systemd
\* starts the daemon again.
Fairness ==
    /\ WF_vars(GuardLoop) /\ WF_vars(TaskRun) /\ WF_vars(DaemonStart)
FairSpec == Spec /\ Fairness

-----------------------------------------------------------------------------
(* Properties *)

TypeOK ==
    /\ guard \in {"off", "lock", "start", "mark", "wait", "clear", "sleep"}
    /\ task \in {"off", "idle", "reload", "update", "quit", "lock"} \cup Replacing
    /\ m \in {None, "guard", "task"}
    /\ status \in BOOLEAN
    /\ proc \in {"none", "running", "exited", "reaped"}
    /\ agent \in Contents \cup {None}
    /\ file \in Contents \cup {None}
    /\ times \in 0..3
    /\ reply \in Answers \cup {None}
    /\ published \in Contents
    /\ hash \in Versions
    /\ uploading \in Versions \cup {None}
    /\ commands \in 0..MaxCommands /\ faults \in 0..MaxFaults

\* run never starts the agent while update is replacing its file (M is held from
\* the kill to the end of the download, on every path of agentUpdate).  A daemon
\* that ends in a download leaves half a file, which the next one may start.
NoHalfStart == task \in Replacing => guard # "start"

\* KillAgent never dereferences the nil process of a Cmd that was not started:
\* AgentStatus is true only while Cmd has a process, although it is read and
\* written without M (program.run, common.KillAgent).
NilSafe == status => proc # "none"

\* run gives up a Cmd only when its agent has ended: there are never two agents.
OneAgent == guard \in {"lock", "start", "sleep", "clear"} => proc \notin {"running", "exited"}

\* Whatever is reloaded, updated or quits, dies or fails to start, if the file is a
\* whole build in the end an agent runs: M is never left locked and the loop always
\* comes back to Start.  That the file is whole is not promised (DownloadCut).
Guarded == <>[](file \in Versions => proc = "running")
=============================================================================
