---------------------------- MODULE InstallWizard ----------------------------
(***************************************************************************)
(* The installation of the console (web/controllers/install.go), driven by *)
(* the pages of web/static/upload/main.js.  How far it has come is written *)
(* down nowhere: HasInstall works it out, at every request, from what the  *)
(* steps left in the database.  A step is several writes, any of which may *)
(* fail, the process may end between two of them, and nothing keeps two    *)
(* pages, or two clicks on one, from being served at the same time.        *)
(*                                                                         *)
(* A key is a number that the two halves of a pair share; 0 stands for an  *)
(* empty file or field, Cut for half a file, and NoFile for a private key  *)
(* that is not there: of the other files none is the same as an empty one. *)
(* The certificate is left out.                                            *)
(***************************************************************************)
EXTENDS Integers

CONSTANTS
    Page,        \* open pages of the wizard, each with one request at a time
    MaxFaults    \* bound: failed writes and queries, restarts of the process

ASSUME InstallAssumption == MaxFaults \in Nat

VARIABLES
    config,      \* collection config: "none", "server" (cut off before the whitelist), "all"
    rules,       \* collection rules holds some
    files,       \* collection file knows of some
    priv, pub,   \* the key files that createkey writes
    https,       \* the console's own private key
    privatekey, publickey,   \* of the document "server" of config
    shown,       \* the step a page shows, 0 before it is loaded
    ready,       \* pages whose button to finish is enabled
    at,          \* the handler of a page's request
    again,       \* history: configuration or rules were put in twice in a calm installation
    crossed,     \* history: a request came while another was being served
    torn,        \* history: a key was left, or left out, by a write that failed
    blind,       \* history: a request was admitted on a query that failed
    faults       \* the bound's counter

store   == <<config, rules, files>>
pems    == <<priv, pub, https>>
keys    == <<privatekey, publickey>>
pages   == <<shown, ready>>
served  == <<crossed, blind>>
history == <<again, torn, served>>
vars    == <<store, pems, keys, pages, at, history, faults>>

Key == 1..8      \* bound: five places and a handler of each page hold one
Cut    == 9
NoFile == -1
File   == 0..Cut

Points == {"idle", "initDB", "initRules", "unzip", "createkey", "public",
           "addconfig", "rename", "private", "publish"}

TypeOK ==
    /\ config \in {"none", "server", "all"}
    /\ rules \in BOOLEAN /\ files \in BOOLEAN
    /\ priv \in File \cup {NoFile} /\ pub \in File /\ https \in File
    /\ privatekey \in File /\ publickey \in File
    /\ shown \in [Page -> 0..4] /\ ready \subseteq Page
    /\ at \in [Page -> [point : Points, key : File]]
    /\ again \in BOOLEAN /\ crossed \in BOOLEAN /\ torn \in BOOLEAN /\ blind \in BOOLEAN
    /\ faults \in 0..MaxFaults

Idle  == [point |-> "idle", key |-> 0]

Init ==
    /\ config = "none" /\ rules = FALSE /\ files = FALSE
    /\ priv = NoFile /\ pub = 0 /\ https = 0
    /\ privatekey = 0 /\ publickey = 0
    /\ shown = [p \in Page |-> 0] /\ ready = {}
    /\ at = [p \in Page |-> Idle]
    /\ again = FALSE /\ crossed = FALSE /\ torn = FALSE /\ blind = FALSE
    /\ faults = 0

-----------------------------------------------------------------------------
Fault == faults < MaxFaults /\ faults' = faults + 1
Sound == faults' = faults

(* Mutant: HasInstall does not ask for the files. *)
StageSkipsFiles(configFound, rulesFound, filesFound) ==
    CASE ~configFound -> 1
      [] ~rulesFound /\ configFound -> 2
      [] OTHER -> IF publickey = 0 THEN 4 ELSE 42

(* HasInstall, where a query that fails finds nothing. *)
Stage(configFound, rulesFound, filesFound) ==
    CASE ~configFound   -> 1
      [] ~rulesFound /\ configFound -> 2
      [] ~filesFound /\ rulesFound /\ configFound -> 3
      [] OTHER -> IF publickey = 0 THEN 4 ELSE 42

HasInstall(stage) ==
    \E c, r, f \in BOOLEAN :
        /\ (c => config # "none") /\ (r => rules) /\ (f => files)
        /\ stage = Stage(c, r, f)
        /\ IF c = (config # "none") /\ r = rules /\ f = files
           THEN Sound ELSE Fault

Goto(p, point) == at' = [at EXCEPT ![p].point = point]

(* The answer to a request: the page stays, or loads itself again. *)
Answer(p) == at' = [at EXCEPT ![p] = Idle]

Stays(p) == Answer(p) /\ UNCHANGED pages

Reloads(p) == /\ Answer(p)
              /\ shown' = [shown EXCEPT ![p] = 0]
              /\ ready' = ready \ {p}

(* Get: an installed console sends the operator elsewhere. *)
Load(p) ==
    /\ at[p].point = "idle" /\ shown[p] = 0
    /\ \E stage \in 1..4 : /\ HasInstall(stage)
                           /\ shown' = [shown EXCEPT ![p] = stage]
    /\ UNCHANGED <<store, pems, keys, ready, at, history>>

(* A click whose request Post admits at the stage it works out. *)
Request(p, stages, point) ==
    /\ at[p].point = "idle"
    /\ \E stage \in stages : HasInstall(stage)
    /\ Goto(p, point)
    /\ crossed' = (crossed \/ \E q \in Page : at[q].point # "idle")
    /\ blind' = (blind \/ faults' # faults)
    /\ UNCHANGED <<store, pems, keys, pages, again, torn>>

(* Mutant: Post lets the rules be sent at any later step, like the files. *)
ClickRulesLater(p) == shown[p] = 2 /\ Request(p, {2, 3, 4}, "initRules")

(* Only the buttons of the stage the page was loaded at are enabled. *)
ClickDatabase(p)  == shown[p] = 1 /\ Request(p, {1}, "initDB")
ClickRules(p)     == shown[p] = 2 /\ Request(p, {2}, "initRules")
ClickUpload(p)    == shown[p] = 3 /\ Request(p, {3, 4}, "unzip")
ClickCreateKey(p) == shown[p] = 4 /\ Request(p, {4}, "createkey")
ClickSetting(p)   == /\ shown[p] = 4 /\ p \in ready
                     /\ Request(p, {4}, "addconfig")

(* Post refuses the step; the operator loads the page again. *)
Refused(p) ==
    /\ at[p].point = "idle" /\ shown[p] # 0
    /\ \E stage \in (1..4) \cup {42} :
           /\ HasInstall(stage)
           /\ shown[p] # stage
           /\ shown[p] = 3 => stage # 4
    /\ Reloads(p)
    /\ UNCHANGED <<store, pems, keys, history>>

-----------------------------------------------------------------------------
(* No two requests were served at the same time, none was let in blindly.  *)
Calm == ~crossed /\ ~blind

(* initDB: one Insert of all documents, which a failure may cut off. *)
InsertConfig(p) ==
    /\ at[p].point = "initDB"
    /\ \/ /\ Sound
          /\ config' = "all" /\ again' = (again \/ (Calm /\ config # "none"))
          /\ Reloads(p)
       \/ /\ Fault
          /\ \/ UNCHANGED <<config, again>>
             \/ /\ config' = IF config = "none" THEN "server" ELSE config
                /\ again' = (again \/ (Calm /\ config # "none"))
          /\ Stays(p)
    /\ UNCHANGED <<rules, files, pems, keys, torn, served>>

(* InsertMany of the rules, which a failure may cut off as well. *)
InsertRules(p) ==
    /\ at[p].point = "initRules"
    /\ \/ Sound /\ rules' = TRUE /\ again' = (again \/ (Calm /\ rules)) /\ Reloads(p)
       \/ /\ Fault
          /\ \/ UNCHANGED <<rules, again>>
             \/ rules' = TRUE /\ again' = (again \/ (Calm /\ rules))
          /\ Stays(p)
    /\ UNCHANGED <<config, files, pems, keys, torn, served>>

(* deCompressZip unpacks a file and makes it known, and goes on until the  *)
(* archive ends or something fails; the page takes both for a success.     *)
Unzip(p) ==
    /\ at[p].point = "unzip"
    /\ \/ Sound /\ files' = TRUE /\ UNCHANGED <<at, pages>>
       \/ (IF files THEN Sound ELSE Fault) /\ Reloads(p) /\ UNCHANGED files
    /\ UNCHANGED <<config, rules, pems, keys, history>>

InUse == {priv, pub, https, privatekey, publickey} \cup {at[p].key : p \in Page}

(* GenRsaKey: a new pair, the private half first.  Where os.Create fails   *)
(* the file stays as it was, a later failure leaves it empty or cut off.   *)
WritePrivate(p) ==
    /\ at[p].point = "createkey"
    /\ \/ /\ Sound /\ Key \ InUse # {}
          /\ priv' = CHOOSE k \in Key : k \notin InUse
          /\ at' = [at EXCEPT ![p].point = "public", ![p].key = priv']
          /\ UNCHANGED <<pages, torn>>
       \/ /\ Fault
          /\ priv' \in {priv, 0, Cut} /\ torn' = (torn \/ priv' # priv)
          /\ Stays(p)
    /\ UNCHANGED <<store, pub, https, keys, again, served>>

(* Mutant: createkey leaves a public key that is there already alone. *)
WritePublicOnce(p) ==
    /\ at[p].point = "public" /\ Sound
    /\ Answer(p) /\ UNCHANGED shown
    /\ pub' = IF pub = 0 THEN at[p].key ELSE pub
    /\ ready' = ready \cup {p}
    /\ UNCHANGED <<store, priv, https, keys, history>>

(* The public half.  Whether openssl then makes a certificate or leaves it *)
(* to the operator, the page lets the installation be finished.            *)
WritePublic(p) ==
    /\ at[p].point = "public"
    /\ Answer(p) /\ UNCHANGED shown
    /\ \/ Sound /\ pub' = at[p].key /\ ready' = ready \cup {p} /\ UNCHANGED torn
       \/ Fault /\ pub' \in {pub, 0, Cut} /\ torn' = TRUE /\ UNCHANGED ready
    /\ UNCHANGED <<store, priv, https, keys, again, served>>

(* toConfig: without the document "whitelist" any entry for it panics, and *)
(* so does a query that does not find it.                                  *)
AddWhitelist(p) ==
    /\ at[p].point = "addconfig"
    /\ \/ Sound /\ Goto(p, "rename") /\ UNCHANGED pages
       \/ (IF config = "server" THEN Sound ELSE Fault) /\ Stays(p)
    /\ UNCHANGED <<store, pems, keys, history>>

(* EditByID sets a field of "server"; its result is ignored, and an empty  *)
(* value never gets there.                                                 *)
Edited(field, value) ==
    \/ Sound /\ field' = (IF value = 0 THEN field ELSE value) /\ UNCHANGED torn
    \/ Fault /\ UNCHANGED field /\ torn' = TRUE

(* Mutant: The key is moved only when the console has none yet. *)
RenameOnce(p) ==
    /\ at[p].point = "rename" /\ Sound
    /\ IF priv # NoFile /\ https = 0
       THEN https' = priv /\ priv' = NoFile /\ Goto(p, "private") /\ UNCHANGED pages
       ELSE Stays(p) /\ UNCHANGED <<https, priv>>
    /\ UNCHANGED <<store, pub, keys, history>>

(* updateHTTPSKeys moves the key file, an empty one too, to the console.   *)
(* What may fail is the move, or what comes after it: the certificate's    *)
(* file and the query for the document "server".                           *)
Rename(p) ==
    /\ at[p].point = "rename"
    /\ \/ /\ priv # NoFile /\ Sound
          /\ https' = priv /\ priv' = NoFile
          /\ Goto(p, "private")
          /\ UNCHANGED pages
       \/ /\ IF priv = NoFile THEN Sound ELSE Fault
          /\ Stays(p)
          /\ UNCHANGED <<https, priv>>
       \/ /\ priv # NoFile /\ Fault
          /\ https' = priv /\ priv' = NoFile
          /\ Stays(p)
    /\ UNCHANGED <<store, pub, keys, history>>

SetPrivate(p) ==
    /\ at[p].point = "private"
    /\ Edited(privatekey, https)
    /\ Goto(p, "publish")
    /\ UNCHANGED <<store, pems, publickey, pages, again, served>>

SetPublic(p) ==
    /\ at[p].point = "publish"
    /\ Edited(publickey, pub)
    /\ Reloads(p)
    /\ UNCHANGED <<store, pems, privatekey, again, served>>

(* The process ends; with it the sessions, so that every page logs in anew. *)
Crash ==
    /\ Fault
    /\ at' = [p \in Page |-> Idle]
    /\ shown' = [p \in Page |-> 0] /\ ready' = {}
    /\ UNCHANGED <<store, pems, keys, history>>

Serve(p) ==
    \/ InsertConfig(p) \/ InsertRules(p) \/ Unzip(p)
    \/ WritePrivate(p) \/ WritePublic(p)
    \/ AddWhitelist(p) \/ Rename(p) \/ SetPrivate(p) \/ SetPublic(p)

Click(p) == \/ ClickDatabase(p) \/ ClickRules(p) \/ ClickUpload(p)
            \/ ClickCreateKey(p) \/ ClickSetting(p)

Next == Crash \/ \E p \in Page : Load(p) \/ Click(p) \/ Refused(p) \/ Serve(p)

Spec == Init /\ [][Next]_vars

(* Go runs every handler to its end; the operators are taken to go on, and *)
(* neither to ask for keys for ever nor to try to finish without.          *)
FairSpec ==
    /\ Spec
    /\ \A p \in Page :
           /\ WF_vars(Serve(p) \/ Load(p) \/ Click(p) \/ Refused(p))
           /\ SF_vars(ClickCreateKey(p)) /\ SF_vars(ClickSetting(p))

-----------------------------------------------------------------------------
(* A console that takes itself for installed, whatever failed on the way   *)
(* and whoever was served at the same time, has a configuration (which may *)
(* be cut off after the document "server"), rules and at least one file to *)
(* give to the hosts: HasInstall and Post never let the last step begin    *)
(* before the others left something.                                       *)
InstalledIsComplete ==
    publickey # 0 => config # "none" /\ rules /\ files

(* What the hosts check orders with is the other half of what the servers  *)
(* sign them with.  Crashes between any two writes, retries, failed        *)
(* queries and stale pages, before or after, do not change this; two       *)
(* requests served at the same time do, and so does a key that could not   *)
(* be written, for the code goes on after that.                            *)
KeysFit ==
    publickey # 0 /\ ~crossed /\ ~torn => privatekey = publickey

(* However stale the pages and whatever crashed, the configuration and the *)
(* rules are put into the database once, and once the console is installed *)
(* no step is begun at all; only requests served at the same time, or let  *)
(* in by a query of HasInstall that failed, do otherwise (install.go:88,   *)
(* 94).  Files and keys are another matter until then: a page loaded       *)
(* before the upload may repeat it (install.go:110), and a page of the     *)
(* last step may ask for keys as often as it likes (install.go:123).       *)
StepOnce ==
    /\ ~again
    /\ publickey # 0 /\ Calm => \A p \in Page : at[p].point = "idle"

(* Whatever fails and whatever is asked for twice, an operator who goes on *)
(* gets the console installed, unless the very first step was cut off      *)
(* before the whitelist: no later step can make up for that.               *)
Finishes == <>(publickey # 0 \/ config = "server")
=============================================================================
