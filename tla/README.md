# A formal model of yulong-hids

yulong-hids is a host intrusion detection system.  *Agents* watch hosts and
report what they see to *Server* nodes, which apply lists and rules to it and
raise notices; *Daemons* keep the agents running and carry out commands; a *Web*
console configures the system, shows the notices and lets an operator push
tasks.  MongoDB and Elasticsearch hold everything that outlives a process.

This directory holds TLA+ models of that code, the TLC runs that check them and
the proofs that TLAPS checks.  `PROJECT.json` is the index: which lines each
definition stands for, which run checks which property, and what a bug would
have to look like for each property to fail.

## The system

| Component | State it keeps | Operations | Talks to |
|---|---|---|---|
| Task dispatch: `server/action/task.go`, `daemon/task/` | the collections `queue` and `task_result`; per server a semaphore `threadpool` and the goroutines under it; per host one accept loop | queue, pop, spawn, dial, send, read, record; accept, run, answer | MongoDB, one TCP connection per document |
| Task targets: `web/models/task.go`, `web/utils/net.go` | the posted list, `addedLst` | expand tags, expand ranges, queue | `client`, `queue` |
| Daemon guard: `daemon/daemon.go`, `daemon/common`, `daemon/task/update.go`, `daemon/install/lib.go` | the agent process, `AgentStatus`, `Cmd`, mutex `M`, the agent's file | start, wait, kill, reload, update, download with retries | the accept loop of the daemon, the download API |
| Security check: `server/safecheck/` | `ScanChan`, the collection `notice` | ten workers take data from the channel, apply lists, rules and intelligence, warn | `notice`, `client`, Config |
| Notices: `web/models/notice.go`, `web/controllers/notice.go` | `notice`, its unique index | handle, ignore, handle all, ignore all, end of learning | the workers above, through MongoDB |
| Client health: `server/safecheck/health.go`, `server/action/save.go` | the collection `client`, per server the list of silent hosts and the cache of those told of | report, age out, offline check, firewall check | `client`, `notice`, ping and port 65512 of the hosts |
| Statistics and saving: `server/action/statistics.go`, `save.go` | `statistics`, `info`, `client` | count or insert, replace | the RPC handlers |
| Configuration: `server/models/common.go`, `web/models/config.go` | `config`, `rules`; each server's copy | heartbeat, reload, edit | MongoDB |
| Elasticsearch: `server/models/es.go` | `esChan`, the month's index | insert, create index | Elasticsearch |
| Discovery and uplink: `agent/client`, `web/controllers/utils.go`, `agentapi.go` | `server`, the agent's list and client with its connections, mutex, `historyCache`, its config | register, list, start, refresh, replace the client, send | Server RPC, Web |
| Collectors and monitors: `agent/collect`, `agent/monitor` | what was last seen | collect, compare, report | the uplink, the drivers |
| Drivers: `driver/pro.c`, `syscall_hook/` | shared buffers and events | hook, hand over | the process monitors |
| Installation: `web/controllers/install.go`, `web/static/upload/main.js` | `config`, `rules`, `file`, key files; the step a page shows | load, click, refuse, the writes of each step | the operator's pages |
| Web access: `web/controllers/base.go`, `login.go` | session, second factor | log in, confirm | `config` |
| Browser side: `web/static/js/main.js`, `js.js` | the tab, page and notice shown | load, page, change, confirm | the console's API |

What is hard in it: many servers share collections without transactions, so any
two steps of two servers interleave, and of the same server's goroutines too;
TCP ends at any point; every process may die between two steps; configuration is
copied and therefore stale; nothing retries what a crash lost.

## Modules

### TaskDispatch - pushing a task

`TaskDispatch.tla` is the life of a document of the collection `queue`, from the
console's insert to its end, over the servers' task threads and goroutines and
the hosts' daemons.

| Variable | In the code |
|---|---|
| `job[i]` | the document: in the collection, in the hands of a TaskThread, or the point its `sendTask` has reached |
| `owner[i]` | the server that removed it |
| `thread[s]`, `pool[s]` | where TaskThread is, and the tokens in `threadpool` |
| `wire[i]`, `back[i]` | the connection of `i` as the daemon's end and as the server's end see it |
| `daemon[h]`, `backlog[h]`, `serving[h]` | the daemon's process, the connections its kernel has accepted, the one in `tcpPipe` |
| `keyOk[h]` | whether the key fetched once by `WaitThread` fits the servers' |
| `taskResult` | the collection `task_result` |
| `runs[i]`, `faults` | history: executions, and the faults spent |

One connection serves one document, so a connection is named by its document.
A `Write` whose error is ignored is one step; what it changes depends on whether
the daemon's end still exists.  `Pop` is one step because `findAndModify` with
`Remove` is atomic in MongoDB; the answer to it may still be lost, and the
document with it.  A daemon may hold a connection of a server that is gone
(`closed`), or one that went silent without a word (`silent`).

`TaskService.tla` is what all this promises: claimed at most once, executed at
most once and only after the claim, a reply only for what was executed.
`Promise` maps `TaskDispatch` to it and `KeepsPromise` is checked as a property.

Left out: the texts of commands and results, RSA itself (whether decryption
works is `keyOk`), the waits of 3 and 10 seconds.  The abstraction keeps that an
unused command kind (`exec`) is answered like any other.

### TaskTargets - from the host list to the queue

`TaskTargets.tla` is `Task.Save`: `all`, `windows` and `linux` are replaced by
the addresses of the agents, ranges by what `BetweenIP` counts, and each entry
becomes queue documents until the loop ends or breaks.  Addresses are integers;
text with a hyphen that is not two addresses makes `IP2Int` panic, and the
documents queued before it stay.  A turn of the loop breaks, panics, or puts what its
entry stands for into `subs`, which `addQueue` inserts one document a step: three
exclusive alternatives, tried in the order of the code's `else if`.  A query of a tag
that fails leaves the tag without hosts (`base.go:157-161`, recorded in `unasked`), and
an insert that fails is logged while the loop goes on and `Save` returns true
(`models/task.go:36-38`, recorded in `lost`).  The set of addresses is finite, as the
IPv4 addresses are.

### DaemonGuard - keeping and replacing the agent

`DaemonGuard.tla` has the two threads of a Daemon that share the agent: the loop
of `program.run` and the accept loop that carries out reload, update and quit.

| Variable | In the code |
|---|---|
| `guard` | where `run` is: lock, start, mark, wait, clear, sleep |
| `task` | where the accept loop is within a command |
| `m`, `status`, `proc` | `common.M`, `common.AgentStatus`, `common.Cmd.Process` (none, running, exited, collected by Wait) |
| `agent`, `file`, `times` | what the live agent executes, its file on the host, the attempts `DownAgent` has left |
| `reply` | the answer to the last command |
| `published`, `hash`, `uploading` | the console's file, its hash in the collection `file`, the upload under way |

A `Start` may fail, of a file that is missing or not whole and of a whole one too
(`daemon.go:75-77`); `run` then releases the mutex and tries again.  What a download
leaves when the daemon ends in its middle stays on the host (`DownloadCut`), and the
daemon that is started again starts it.  `KillAgent` reads the flag and kills in one
step: between the two nothing of `run` changes which of its outcomes are possible.  An
agent always ends with an error (it is killed or panics), so the loop never ends.  The
daemon is taken to be the systemd unit it installs: `KillMode` ends the agent with it
and `Restart=always` starts it again.  The Windows service is not modelled.

### NoticeBoard - warnings against the operator

`NoticeBoard.tla` is the collection `notice` between the scan workers, which
count ignored notices and then insert, and the console's requests, which change
documents one by one.

| Variable | In the code |
|---|---|
| `notice`, `made` | the documents, and the ObjectIds given so far |
| `now` | the last time written to `uptime`, a part of the unique index |
| `learn`, `copy[s]` | the watch mode in the database and in each server's `Config` |
| `worker[w]` | a worker between count, insert and `sendNotice` |
| `request[h]` | a request of the console between two of its updates |
| `alerts`, `closed`, `due` | history: what was sent, what was closed, the openings of an ignored alarm still to be expected |

An alarm is what the unique index and the count compare: host, type and text.
`Record` is the upsert of the watch mode: status 3 and `$inc` together leave 4,
which is why the console looks for statuses above 2.  `UpdateAll` is one step per
document because MongoDB's multi-updates are; an update the index refuses stops
it.  `Purge` is `doneDuplicateErr`, whose `$set` within a `$set` is always
refused.  When an alarm is ignored, `due` becomes the number of workers that have
counted it before (`Counted`) and of the documents a request of `LearnEnding` that is
under way may yet open (`Coming`); each opening of an ignored alarm takes one off.

### ScanPipeline - from a report to an alarm

`ScanPipeline.tla` is a server's way with a report: the handler `PutInfo` saves,
counts and queues it, and the ten goroutines of `ScanMonitorThread` check it item
by item, with lists and rules that the heartbeat replaces meanwhile.

| Variable | In the code |
|---|---|
| `put[m]`, `at[m]`, `found[m]` | the handler of report `m`: its place, its item, whether its last `Count()` was positive |
| `info`, `statistics` | the collections, per selector the documents in their order, since an update changes the first |
| `esMade`, `esChan` | whether `init` came to make the channel; its entries |
| `ScanChan`, `worker[w]` | the queue; a worker's report, item and check, the rules it has behind it (`past`), what it read of `Config.Learn` before a rule (`watched`) and when it warned (`shown`) |
| `db`, `enabled` | the collections `config` and `rules` |
| `Config`, `RuleDB`, `heartbeat`, `res`, `loading` | the server's copies, and how far the heartbeat is in replacing them |
| `alarms`, `checked`, `gone`, `failed`, `before` | history: calls of `warning` with both readings of the mode, reports finished, lost with the process, failed queries, what was answered when a report was sent |

Every query is a step of its own and may fail; the count of a failed one is 0, as
the code takes it.  The queries of `setConfig` are one step (each field's value is
the one at some moment, and no property compares two), its assignments are not:
the first of them, of the whole structure, empties the lists.  `setRules` decodes
into the array the workers iterate over, so while it does they may see any part of
the rules, which they take one by one.  `Config.Learn` is read by the rule
(`check.go:141`) and again by `warning` (`check.go:245`), in two steps: the heartbeat
may end the watch mode between them.  Regular expressions and a rule's other conditions are the set of items
it accepts; the cache of the intelligence API is its outcome, asked or not asked.
What becomes of an alarm is the subject of NoticeBoard.

### AgentUplink - from a host to a server

`AgentUplink.tla` has the registry of servers and an agent: `configRefresh` asks a
server for the configuration and the console for the servers, and replaces the
rpcx client under the mutex; `getInfo` and `monitor` send over that client.

| Variable | In the code |
|---|---|
| `alive`, `fresh`, `db` | servers that run, those with an `uptime` within a minute, the agents' configuration |
| `known`, `nodes`, `link[s]` | `a.ServerList`, the servers of the current client, its cached connections |
| `Config`, `refresh`, `target`, `late` | `common.Config` (0 when the first call failed and it is empty), where the refresh is, the server it asks, answers nobody waits for |
| `Mutex`, `pc[p]`, `item[p]`, `holds[p]` | `a.Mutex`, the two senders, what they send, the copy of the client that `put` has (a value receiver) |
| `value`, `historyCache`, `events` | what the host's list holds (0 when it is empty, and then it is not sent), the content taken for sent, the monitors' events |
| `flight`, `received`, `lost` | calls written, received, gone with a connection or a process (history) |

rpcx is modelled from its copy in the agent's vendor directory: `Go` writes before
it returns and does not look at the state of a cached connection that broke but was
not shut down; `Call` with Failtry removes such a client and dials again.

### ClientHealth - what the console shows of a host

`ClientHealth.tla` is the collection `client` between the handler of `GetInfo` and
the three threads of `health.go`, on every server.

| Variable | In the code |
|---|---|
| `power`, `door`, `crowd` | the host: its agent runs, only answers pings, or is gone; port 65512; how many others are silent |
| `health`, `age`, `saving` | its document: the field, the age of `uptime`, a report between its two queries |
| `list`, `many`, `todo`, `cache` | `offlineIPList`, whether it has 20 entries, what the loop has yet to see, `cache` |
| `turn` | where the offline loop is with a host: before its update, ping, insert or call of `sendNotice` |
| `trash`, `dial` | the list of `cleanThread`; the loop of `firewallCheckThread` and its list |
| `told`, `ever`, `lost` | history: hosts of which a notice was made, in this outage, ever, and those of which an insert failed |

Each of the offline thread's writes and calls is a step of its own (`SetOffline`,
`Ping`, `InsertAbnormal`, `SendNotice`).  Only a dial of `firewallCheckThread` and the
update after it (`health.go:114-127`) are one: the outcome of the dial is the state of
the port at some moment before the update, and the thread's list is old anyway.  The
list outlives a turn because it is declared outside the loop, and a failed query leaves
it as it was.

### InstallWizard - installing the console

`InstallWizard.tla` is `install.go` with the page that drives it.  Which step is
next is stored nowhere: `HasInstall` works it out from what is in the database.

| Variable | In the code |
|---|---|
| `config`, `rules`, `files` | the three collections; the first insert may be cut off before the whitelist |
| `priv`, `pub`, `https` | `private.pem` (which may be missing, empty or cut off), `public.pem`, the console's own key file |
| `privatekey`, `publickey` | fields of the document `server` |
| `shown[p]`, `ready` | the step a page shows; pages whose last button is enabled |
| `at[p]` | the handler of a page's request, between two of its writes |
| `again`, `crossed`, `torn`, `blind` | history: the configuration or the rules put in twice in a `Calm` installation (nothing crossed or blind so far), requests that overlapped, a key changed or lost by a failed write, a request let in by a query of `HasInstall` that failed |

A key is a number shared by the halves of a pair, an empty file is 0 and one cut off a
number of its own.  The certificate is left out: it
is a text the operator may paste.

## Runs

| Run | Question | Instance |
|---|---|---|
| `task_dispatch` | at most once, evidence, slots, order, the promise of `TaskService` | 2 servers with one slot, 1 host, 2 documents (kill and quit), 2 faults, the database may fail, peers may vanish silently |
| `task_ends` | is any document forgotten, does everything end, is the daemon freed? | 1 server with two slots, 3 documents, one without a host, one an uninstall, 2 faults, broken links are noticed |
| `task_targets` | no stranger; precise lists are done exactly, but for what failed | 3 addresses, lists up to 3 entries, every population, one failed query or insert |
| `daemon_guard` | no start while an update replaces the file, no nil process, one agent, and it runs in the end | 2 builds, 3 commands, 2 deaths or failed starts, uploads at any time |
| `notice_board` | one open notice per alarm, told once, ignoring settles, what is settled stays | 1 server, 2 workers, 2 hosts, 1 text, 2 requests, 2 operations, 1 fault |
| `notice_kept` | does the end of the watch mode keep what was learnt? (no) | 2 servers with a worker each, 1 request, 3 operations, no fault |
| `scan_pipeline` | counts add up, counted before checked, silent about what is known, saved data do not go back | 2 lists of users of one host with a common item, in the watch mode or not, 1 worker, 1 event |
| `scan_ends` | is every report checked, does the configuration catch up? | 1 list of users and 1 report of logons, an item on the whitelist, channels of one place, 1 event |
| `scan_first` | is one report of a new item warned of? (no) | 2 reports of one item, 2 workers, nothing fails |
| `agent_uplink` | does replacing the client lose data; are servers found, broken connections replaced, configuration and list brought over? | 2 servers, 1 list, 1 event, 1 edit of the configuration, 1 fault |
| `client_health` | does what is shown settle on what is, is a stopped agent told of, is a cached host one that was? | 1 host among others, 1 server, a notice API that may hang, 2 changes, 2 faults |
| `install_wizard` | complete when installed, keys that fit, configuration and rules put in once, nothing begun on an installed console, an end | 2 pages, 2 faults |

The two runs that end in a violation each check what a document or a comment of
the repository says; `PROJECT.json` quotes it under "findings".

Bounds.  *Tasks*: two servers and two documents for one host are what a race for
the queue, for the slot and for the accept loop needs; the second fault is there so
that a crash can hit the recovery from the first.  One host is enough because
hosts share nothing: every property of a document names its own host.
`PoolSize = 1` makes the semaphore block.  Three entries in a list let an entry
be repeated and still be followed by one more.  *Guard*: three commands let an
update follow one that failed and precede a reload; two deaths or failed starts let the second hit
the recovery from the first.  *Notices*: two workers race for one alarm while two
requests work on it; a second host shows that a request on one alarm leaves the
other alone.  *Reports*: `MaxSent` says how many of the reports are sent in a
behaviour: two of the same host and type in the safety run, two that share no document
in `scan_ends`.  Two handlers are what it takes to
double a document, and two items what it takes to be in the middle of a report.
One worker is enough in the safety run, since workers share only the collections'
answers and the history; two are needed in `scan_first`.  `MaxEvents` counts
failed queries, crashes and edits together: one lets each of them hit every state.  *Uplink*: with two servers the list grows,
shrinks and changes without changing its length; one fault of each kind meets every
place of the three goroutines; any number of starts of servers is allowed, since only
ends are counted.  *Health*: hosts meet only in the number of those silent (`crowd`),
and the threads of one server already write over each other and the handler; two
changes, from any state a host may be found in, are a recovery and another outage; two
faults let a failed query meet a failed insert or the end of the server.  *Installation*: two pages
are a stale page and a second operator; two faults let a retry fail too; eight
numbers are more than the keys that two pages and the files can hold.

Fairness.  `FairSpec` of TaskDispatch asks that goroutines, TaskThreads and accept
loops that can go on do, which is what the Go scheduler gives, and that a crashed
server is started again.  Popping is strongly fair because a query that fails is
tried again for ever.  Nothing is assumed of a daemon's restart.  `task_ends`
excludes peers that vanish without their kernel closing the connection
(`SilentLoss`): neither `sendTask` nor `tcpPipe` sets a deadline, so both really
would wait for ever.  `FairSpec` of DaemonGuard is weakly fair to the loop, to a
command under way and to systemd; every HTTP request of an update has a timeout.
`FairSpec` of ScanPipeline is weakly fair to each handler, each worker,
`InsertThread` and the heartbeat, and assumes that queries end and the calls of the
intelligence API and of the notice API (`sendNotice`, `lib.go:60`, `67`) too, although
neither of the two has a deadline in the code.  Weak fairness is
enough for the sends on full channels because a bounded number of reports compete.
`FairSpec` of AgentUplink has the heartbeats, the console's minute, the agent's
goroutines and the calls that reached a server; strong fairness stands for the
random choice of a server (`Tick`) and for the mutex, which its other users hold for
a few steps.  Nothing is assumed of a server's start or of the end of an outage: the
properties ask for what follows *if* a known server stays reachable.  `FairSpec` of
ClientHealth is weakly fair to each thread and to the reports of agents that run,
since every query, ping and dial there has a deadline.  The offline loop also calls
`sendNotice` itself (`health.go:74`, `95`), whose `http.Get` has none: `SendNotice` has
no fairness, and a thread may wait in it for ever.  What depends on that thread
(`StoppedIsTold`, and that a host is shown offline in `DownIsShown`) has as its premise
that one server's thread is again and again out of that call (`GoesOn`); that a host
silent for 72 hours is removed is the work of another thread and needs no such premise.  `FairSpec` of InstallWizard
adds to the handlers an operator who goes on with each page: loads it, clicks what is
enabled, loads a refused page again, and does not ask for keys for ever.  It allows the deadlock check to be
switched off because an installed console has no step left.

## Proofs

TLAPS proves these for every value of the constants, from the one assumption each
module makes on them.  Where the types are proved (`GuardTypes`, `UplinkTypes`,
`HealthTypes`, `WizardTypes`) the runs do not check them once more.

* `TaskDispatchProofs`.  `PoolSafe`: types, and the tokens in the semaphore are
  exactly the live goroutines (`DispatchTypes` is the first half); the inductive invariant adds that a popped document
  has an owner and a host (`Owned`): a slot is given back to the owner's pool.
  `ExecutedAtMostOnce` and `RepliesAreEvidence`: `RunInv` says a document not yet
  dialled has no connection (`Undialled`), a connection on which the command is not
  yet taken has not run (`NotYetRun`), everything that can become a reply has run
  (`AnswerChain`), and what waits for a daemon's Accept was dialled to that host
  (`Backlogged`).  The last is needed because a daemon that ends takes its
  connections with it, the one it serves included.
  `CommandsAreSerial` adds that a command that ran and is not answered belongs to the
  connection `tcpPipe` serves (`RanIsServed`): a second Accept needs the first to end.
  `EveryDocumentAccounted` assumes `DbFaults = FALSE`, that MongoDB answers: otherwise
  `saveError` drops the result too, and the property is not claimed.
  `PromiseKept` is the refinement.  The mapping reads a document's phase off its state
  and its owner (popped with no host is refused, popped by a thread is claimed, done or
  lost after that is closed), and the replies off the results stored; `PromiseStep`
  takes the actions one by one, and `TakenOnce` is what it needs besides the
  invariants above: a document not popped has no owner, and one popped keeps its own.
* `DaemonGuardProofs`.  `GuardTypes`, and `GuardSafe`: no start while an update
  replaces the file, no nil process, one agent; `NoStartFromHalf` and `OneAgentOnly` are
  its parts.  The invariant ties the mutex to the places of its two
  holders, and the flag to the place of `run`.
* `NoticeBoardProofs`.  `BoardTypes`; `OneOpenNotice` from the unique index (`Indexed`) and
  the rule that open and learnt notices never carry `uptime` (`Untouched`), so that
  an open one meets all others of its alarm at the same index value;
  `SettledNoticesStay`, where an update of many documents only moves learnt ones to
  open and open ones to settled (`Directed`); `IgnoredAlarmsSettle` by counting the
  openings to come: while an alarm is ignored, `due` covers the workers that counted it
  before and the documents learnt of it (`Paid`), and each opening removes one of
  either; `ToldOncePerNotice` by counting the workers that
  won the insert and have not called `sendNotice`: the calls made and due are never
  more than the notices closed, plus the open one (`Told`).
* `ScanPipelineProofs`.  `PipelineInvariant`, from which `ReportsCountedFirst` and
  `KnownStaysSilent` follow.  Silence about what is known is not inductive: the
  invariant says that a written item has left a document, that a handler that found
  one will increment it and not insert, and that an item that was known when it was
  counted has a first document with a count of at least 2.  `StatWriteKeeps` is the
  step that needs all of it; counts only grow, and a crash changes none.  The reason a
  rule had to tell of an item (`Founded`) is kept from the rule's step to that of
  `warning` (`Silent`), whatever mode `warning` then finds.
  `CollectedNotOutdated` adds (`Collected`) what a handler between its count and its
  write may rely on: a document it found is still there, and one that appeared
  meanwhile is of a report that was not answered when its own was sent.  That there is
  no second document needs, for reports saved one after the other, that a handler which
  found none and will insert has no earlier report's document before it (`Unshared`).
  `NoIncrementLost`: the counts of an item add up to the items written.  A sum over a
  sequence is a recursion, so the sum is stated as the number of points
  `<<document, 1..count>>`, one for each increment (`Increments`); each write adds one
  point and one written item (`Sums`), and a write that fails adds neither.
  `PipelineTypes` is the rest of the type invariant.
* `AgentUplinkProofs`.  `UplinkTypes`, and `ReplacingLosesNothing`.  The invariant
  (`UplinkInvariant`) says who holds the mutex from where the three goroutines are,
  and that, as long as nothing failed, no connection is broken, the client's servers
  run, and whoever holds the client holds an open one: `ResetLock` is what makes the
  last inductive.
* `ClientHealthProofs`.  `HealthTypes`, and `CachesAreHonest`: a cache grows only
  in the step that sets out to insert a notice, which ends with the host told of or with
  a failed insert.  That the loop is at one host at a time (`OneHost`) is what makes it
  inductive.
* `InstallWizardProofs`.  `WizardTypes`, and `NoHalfInstallation`: what a step left is
  never taken back, and a handler of step 4 is reached only from a state in which
  `HasInstall` found all three collections; the requests of other pages and stale
  answers of `HasInstall` add nothing, because a failed query finds less, never more.
  That there is always a number for a new key is a count of the places that hold one.
  `NothingTwice` and `PairsStayTogether` speak of installations in which no two
  requests overlapped, the first also of none in which a request was let in by a query
  that failed, the second of none in which a key could not be written; the properties
  say so.  Crashes and all other failures are covered.  Both need that then at most one
  handler is at work (`Alone`).  The first needs that it finds the collection it is
  about to fill as empty as `HasInstall` did, and that an installed console serves
  nobody (`Fresh`), the second what the requests
  of the last step leave each other (`Fitting`): a page that may finish finds two
  halves on disk that fit, the console's own key is the other half of the one about to
  be published, and no handler that could change a key is left once it is.
* `TaskTargetsProofs`.  `Strangers`: what is left of the list stands for nothing the
  request does not (`Sound`), through the expansion of the tags and the loop.
  `Precisely`: the entries of a precise list are disjoint; expanding a tag keeps them so
  and keeps what they stand for (`ExpandTagExact`), but for the hosts of a tag whose query
  failed; in the loop the queue, what the turn has left in `subs` and the
  rest of the list share the targets between them, all but those of a failed insert or
  of a tag whose query failed, and nothing of the rest was met before (`OnCourse`), so
  that the loop neither breaks nor panics.  `RemoveFirst` picks the least place of an
  element; that a set of naturals has one (`LeastNatural`) is an
  induction, taken from the well-founded order of finite sets by inclusion, since the
  induction theorems of the library cannot be instantiated.

Every safety property that a run checks, invariant, action property or refinement,
is a theorem.  Only model-checked: the liveness properties (`Answered`, `DaemonFreed`,
`Guarded`, `EveryReportChecked`, `ConfigCatchesUp`, `FindsServers`, `LinksHeal`,
`ListIsSent`, `RunningIsShown`, `DownIsShown`, `StoppedIsTold`, `Finishes`), whose
fairness speaks of ENABLED, which the prover cannot express; the absence of
deadlock, for the same reason; and the two findings, which are counterexamples.

## What the code does that a reader would not expect

Besides the findings, in the task path and the daemon:

* `saveError` files a failed task under the `_id` of the queue document
  (`server/action/task.go:63`), while the console looks results up by `task_id`
  (`web/controllers/task.go:31`): failures are never shown.
* A repeated entry ends the loop of `Task.Save` (`web/models/task.go:91`): every later
  host of the list gets no task, without an error, although `web/views/task.tpl:90`
  only asks for commas.
* When a download fails three times, `agentUpdate` returns the nil of the outer `err`
  (`daemon/task/update.go:56`), and the answer is "already the latest version" with
  status true, after the old agent was removed.  If no attempt left a file, every later
  update returns the error of `os.Open` (`update.go:24`, `56`) and downloads nothing.
* A daemon that ends in the middle of a download leaves a half file, which the daemon
  that is started again starts: only the update under way keeps `run` from it.
* `addedLst` holds the text of a range, not its addresses, so a host named by
  itself and by a range is queued twice (`web/models/task.go:98`).
* An insert of `addQueue` that fails, and a tag's query that fails, are logged and passed
  over, while `Save` returns true: the host gets no task and the operator is not told
  (`web/models/task.go:36-38`, `base.go:157-161`).
* A reload that arrives after `Cmd.Start` and before `AgentStatus = true` answers
  success and restarts nothing.
* `CheckAgentHash` formats text that is hexadecimal already and compares a hash
  nobody stored: the console answers "not the same" and this is taken for success,
  so that no file is ever rejected.
* A download that is cut short has no error value, and the code that reports it
  asks it for its text: the daemon panics instead of trying again.
* An ignored alarm can be opened once more by each worker that had counted before
  (`check.go:250-258`), and once more by the end of the watch mode, which opens learnt
  notices of alarms ignored meanwhile too (`notice.go:125-137`).
* `Config.Learn` is read by the rule and again by `warning` (`check.go:141`, `245`): when
  the watch mode ends in between, a known item is shown as a warning.
* Two lists of one host and type saved at the same time leave two documents of `info`.
  Updates change the first, and the console shows both (`web/models/info.go:48-60`).
* A query of `setConfig` that fails installs an empty configuration, which ends
  the watch mode, until the next heartbeat.
* Handling everything is refused by the index as soon as a handled notice of the
  same alarm and time exists; the notices after it stay open.
* Between two assignments of `setConfig` the lists are empty: a blacklisted item is
  missed and a whitelisted one checked.
* When Elasticsearch does not answer `IndexNames` at the start, `esChan` is nil and
  no report of a process, a connection, a logon or a file is ever checked, although
  rules for them need nothing of Elasticsearch.
* `statistics` may hold several documents of one item; rules read the first.
* The index of `notice` holds neither source nor level: a grave warning is refused,
  and not sent, while a harmless one with the same text is open.
* An invalid regular expression in a rule panics in a worker and ends the server,
  again after each restart.
* `cache` of the intelligence check is appended to by ten workers and reset by the
  ticker without a lock; the cache of `health.go` is reset by a goroutine of its own.
* `docs/rule.md` describes the remote of a connection as address and port, but
  `ResultStat` cuts the port off in the map the rules then see.
* `InsertThread` uses the index of a new month before `esCheckThread` has made it
  with its mapping (`es.go:260-274`).


Between agent, servers and console:

* An agent all of whose known servers are gone never asks for the list again, since
  the list is fetched only after an answer to `GetInfo` (`agent.go:196`): new servers
  are found only by restarting it.  `FindsServers` has this as its premise.
* A broken connection stays in the rpcx client's cache, and every event and list that
  is sent over it is lost without a word, until a `GetInfo` happens to choose the same
  server.  `historyCache` takes what was lost for sent, so that a lost list is sent again
  only when it changes; and a list that becomes empty is never sent (`agent.go:288`): the
  servers keep the last one that was not.
* A `GetInfo` answered after its three seconds leaves a goroutine waiting for ever
  (`agent.go:190`), and its answer may bring back an older configuration.  Two versions
  of a list under way over two connections may be stored in the reverse order.
* From twenty silent hosts on they are told of as one, by the name of the first of the
  list, and silently not at all while an open notice about that host exists
  (`health.go:69-76`).
* A host enters the cache before its notice is inserted (`health.go:90`): if the insert
  fails, or the agent stops a second time within a day, nobody is told until the cache
  is emptied.  The comment at `health.go:61` says one minute, the code five.
* The offline loop calls the notice API itself (`health.go:74`, `95`), without a deadline:
  while it hangs, no other host's silence is found or told of by that server.
* A host that reports while `cleanThread` goes through its list is removed, and back
  with its next report, without its `health` until then.

In the installation:

* `Post` promises "you will nevet allowed to dump or retry any step", but `HasInstall`
  runs before the step's first write: two operators, or a double click, insert the
  default configuration or the rules twice. The same happens without overlap when a
  query of `HasInstall` fails, which then finds nothing: on an installed console it lets
  step 1 in again. A page loaded before the upload may repeat it until the end
  (`install.go:110`), and one of the last step may ask for keys any number of times
  (`install.go:123`). `StepOnce` says what is left of the promise.
* A key file that cannot be created stays as it was, one whose writing fails is left empty
  or cut off, and `updateHTTPSKeys` moves an empty `private.pem` over the console's key,
  for it only asks whether the file exists (`install.go:176-180`).
* Two operators who create keys one after the other can store a certificate that does
  not fit the private key.
* If the first insert is cut off before the document "whitelist", the last step panics
  every time (`install.go:200`); the first is not offered again.  `Finishes` exempts it.
* The page takes every answer to an upload for a success, `ErrorReturn` too
  (`main.js:126-132`); the results of `EditByID` are ignored (`install.go:191-193`).

In the browser (`web/static/js/main.js`), where each answer is handled when it comes:

* A late answer for the tab left is appended to the tab shown; `currentpage` is not reset
  by a change of type; a notice that is handled shifts the later pages, so that the next
  page skips one.
* The global `notice` is the one opened last: a confirmation marks the entry that is open
  by then.  The switch of a rule is kept in globals over the 500 ms until the password is
  asked for: with the second factor another rule than the one confirmed may be switched.
* Switches are flipped before the answer is there, and stay so when it is a refusal.

## Not modelled

* Texts: commands, results, notices, regular expressions; RSA itself (whether
  decryption works is `keyOk`); the waits between attempts and the tickers'
  periods, of which only the order of events is kept.
* The agent's collectors (parsers of operating-system tables), the read-only views
  of the console, and the daemon's installer, a sequence an administrator runs.
* The browser side but for the wizard's page.  Nearly all of the JavaScript in the
  repository (echarts, jquery, moment, bootstrap, the upload plugin, html5tooltips) is
  third-party code that the console's templates load; the system's logic is in Go and C.
* The session and second factor of `base.go`, and the drivers.
* A malformed time in a report for Elasticsearch (`save.go:45`), which only skips
  the entry.

## Plan

1. Done: `TaskDispatch`, `TaskService`, `TaskTargets`, `DaemonGuard`,
   `NoticeBoard`, `ScanPipeline`, `AgentUplink`, `ClientHealth`, `InstallWizard`, and the
   proofs above.
2. `ProcessDriver`: the driver's single slot and event, the hook's ring, and the
   monitors that read them.
3. `EsIndex`: the monthly indices; the session and second factor of `base.go`; the
   console's page.
4. Theorems: the safety properties of the modules to come; for the modules here, the
   safety half of the liveness arguments (what a step that is due can no longer lose).
