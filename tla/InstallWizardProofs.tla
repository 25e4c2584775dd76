------------------------ MODULE InstallWizardProofs ------------------------
(***************************************************************************)
(* What the installation of the console keeps to for any number of pages   *)
(* and of faults.  HasInstall may be wrong about every query, but only in  *)
(* one direction, so that a stage it names always has what it stands on.   *)
(***************************************************************************)
EXTENDS InstallWizard, TLAPS

(* The points of the last step's two requests. *)
LastStep == {"createkey", "public", "addconfig", "rename", "private", "publish"}

(* A handler runs only on what the steps before it left. *)
Grounded ==
    /\ rules => config # "none"
    /\ files => rules
    /\ \A p \in Page :
           /\ at[p].point = "initRules" => config # "none"
           /\ at[p].point = "unzip" => rules
           /\ at[p].point \in LastStep => files

IInv == TypeOK /\ Grounded /\ InstalledIsComplete

(* Whatever query fails, the stage that HasInstall works out needs no more *)
(* than what is there.                                                     *)
LEMMA StageIsGrounded ==
    ASSUME NEW stage, Grounded, HasInstall(stage)
    PROVE  /\ stage = 2 => config # "none"
           /\ stage \in {3, 4, 42} => rules
           /\ stage \in {4, 42} => files
    BY DEF Grounded, HasInstall, Stage

LEMMA InitInv == Init => IInv
<1> SUFFICES ASSUME Init PROVE IInv
    OBVIOUS
<1>1. at \in [Page -> [point : Points, key : File]]
    BY DEF Init, Idle, Points, File, Cut
<1>2. \A p \in Page : at[p].point = "idle"
    BY DEF Init, Idle
<1>3. TypeOK
    <2>1. shown \in [Page -> 0..4] /\ faults \in 0..MaxFaults
        BY InstallAssumption DEF Init
    <2>2. /\ rules \in BOOLEAN /\ files \in BOOLEAN
          /\ again \in BOOLEAN /\ crossed \in BOOLEAN /\ torn \in BOOLEAN /\ blind \in BOOLEAN
        BY Zenon DEF Init
    <2>3. /\ priv \in File \cup {NoFile} /\ pub \in File /\ https \in File
          /\ privatekey \in File /\ publickey \in File
        BY DEF Init, File, Cut
    <2>4. config \in {"none", "server", "all"} /\ ready \subseteq Page
        BY DEF Init
    <2>5. QED
        BY <1>1, <2>1, <2>2, <2>3, <2>4 DEF TypeOK
<1>4. Grounded
    BY <1>2 DEF Init, Grounded, LastStep
<1>5. InstalledIsComplete
    BY DEF Init, InstalledIsComplete
<1>6. QED
    BY <1>3, <1>4, <1>5 DEF IInv

(* The parts of the type invariant that a step of one page disturbs. *)
TypePages == /\ shown \in [Page -> 0..4] /\ ready \subseteq Page
TypeAt    == at \in [Page -> [point : Points, key : File]]
TypeStore == config \in {"none", "server", "all"} /\ rules \in BOOLEAN /\ files \in BOOLEAN
TypeKeys  == /\ priv \in File \cup {NoFile} /\ pub \in File /\ https \in File
             /\ privatekey \in File /\ publickey \in File
TypeHistory == again \in BOOLEAN /\ crossed \in BOOLEAN /\ torn \in BOOLEAN /\ blind \in BOOLEAN
TypeFaults  == faults \in 0..MaxFaults

LEMMA TypeSplit ==
    TypeOK <=> TypePages /\ TypeAt /\ TypeStore /\ TypeKeys /\ TypeHistory /\ TypeFaults
    BY DEF TypeOK, TypePages, TypeAt, TypeStore, TypeKeys, TypeHistory, TypeFaults

LEMMA FaultsCount ==
    ASSUME TypeFaults, Sound \/ Fault PROVE TypeFaults'
    BY InstallAssumption DEF TypeFaults, Sound, Fault

(* HasInstall counts what failed. *)
LEMMA QueriesCount ==
    ASSUME NEW stage, HasInstall(stage) PROVE Sound \/ Fault
    BY DEF HasInstall

(* An answer frees the handler, and only that. *)
LEMMA Answered ==
    ASSUME NEW p \in Page, TypeAt, Answer(p)
    PROVE  /\ TypeAt'
           /\ at'[p].point = "idle"
           /\ \A q \in Page \ {p} : at'[q] = at[q]
    BY DEF TypeAt, Answer, Idle, Points, File, Cut

LEMMA Went ==
    ASSUME NEW p \in Page, NEW point \in Points, TypeAt, Goto(p, point)
    PROVE  /\ TypeAt'
           /\ at'[p].point = point
           /\ \A q \in Page \ {p} : at'[q] = at[q]
    BY DEF TypeAt, Goto

LEMMA PagesKept ==
    ASSUME NEW p \in Page, TypePages, Stays(p) \/ Reloads(p)
    PROVE  TypePages' /\ Answer(p)
    BY DEF TypePages, Stays, Reloads, pages

(* A handler that goes no further than its step keeps everything grounded, *)
(* for what the steps left never goes away.                                *)
LEMMA GroundedStep ==
    ASSUME Grounded, NEW p \in Page,
           config # "none" => config' # "none", rules => rules', files => files',
           rules' => config' # "none", files' => rules',
           \A q \in Page \ {p} : at'[q] = at[q],
           at'[p].point = "initRules" => config' # "none",
           at'[p].point = "unzip" => rules',
           at'[p].point \in LastStep => files'
    PROVE  Grounded'
    BY DEF Grounded

-----------------------------------------------------------------------------
(* A click and what the operator sees of the stage. *)
LEMMA RequestInv ==
    ASSUME IInv, NEW p \in Page, NEW stages, NEW point \in Points, Request(p, stages, point),
           point = "initRules" => stages = {2},
           point = "unzip" => stages = {3, 4},
           point \in LastStep => stages = {4}
    PROVE  IInv'
<1>1. PICK stage \in stages : HasInstall(stage)
    BY DEF Request
<1>2. TypePages /\ TypeAt /\ TypeStore /\ TypeKeys /\ TypeHistory /\ TypeFaults
    BY TypeSplit DEF IInv
<1>3. /\ TypeAt'
      /\ at'[p].point = point
      /\ \A q \in Page \ {p} : at'[q] = at[q]
    BY <1>2, Went DEF Request
<1>4. TypeFaults'
    BY <1>1, <1>2, QueriesCount, FaultsCount
<1>5. UNCHANGED <<store, pems, keys, pages, again, torn>> /\ crossed' \in BOOLEAN /\ blind' \in BOOLEAN
    BY DEF Request
<1>6. TypeOK'
    <2>1. TypePages' /\ TypeStore' /\ TypeKeys' /\ TypeHistory'
        BY <1>2, <1>5 DEF TypePages, TypeStore, TypeKeys, TypeHistory,
                          store, pems, keys, pages
    <2>2. QED
        BY <2>1, <1>3, <1>4 DEF TypeOK, TypePages, TypeAt, TypeStore, TypeKeys, TypeHistory, TypeFaults
<1>7. Grounded'
    <2>1. Grounded
        BY DEF IInv
    <2>2. config' = config /\ rules' = rules /\ files' = files
        BY <1>5 DEF store
    <2>3. /\ point = "initRules" => config # "none"
          /\ point = "unzip" => rules
          /\ point \in LastStep => files
        BY <1>1, <2>1, StageIsGrounded
    <2>4. QED
        BY <1>3, <2>1, <2>2, <2>3 DEF Grounded
<1>8. InstalledIsComplete'
    BY <1>5 DEF IInv, InstalledIsComplete, store, keys
<1>9. QED
    BY <1>6, <1>7, <1>8 DEF IInv

LEMMA ClickInv == ASSUME IInv, NEW p \in Page, Click(p) PROVE IInv'
<1>1. CASE ClickDatabase(p)
    BY <1>1, RequestInv DEF ClickDatabase, Points, LastStep
<1>2. CASE ClickRules(p)
    BY <1>2, RequestInv DEF ClickRules, Points, LastStep
<1>3. CASE ClickUpload(p)
    BY <1>3, RequestInv DEF ClickUpload, Points, LastStep
<1>4. CASE ClickCreateKey(p)
    BY <1>4, RequestInv DEF ClickCreateKey, Points, LastStep
<1>5. CASE ClickSetting(p)
    BY <1>5, RequestInv DEF ClickSetting, Points, LastStep
<1>6. QED
    BY <1>1, <1>2, <1>3, <1>4, <1>5 DEF Click

LEMMA LoadInv == ASSUME IInv, NEW p \in Page, Load(p) PROVE IInv'
<1>1. PICK stage \in 1..4 : HasInstall(stage) /\ shown' = [shown EXCEPT ![p] = stage]
    BY DEF Load
<1>2. TypePages /\ TypeAt /\ TypeStore /\ TypeKeys /\ TypeHistory /\ TypeFaults
    BY TypeSplit DEF IInv
<1>3. UNCHANGED <<store, pems, keys, ready, at, history>>
    BY DEF Load
<1>4. TypeFaults'
    BY <1>1, <1>2, QueriesCount, FaultsCount
<1>5. TypePages'
    BY <1>1, <1>2, <1>3 DEF TypePages
<1>6. TypeAt' /\ TypeStore' /\ TypeKeys' /\ TypeHistory'
    BY <1>2, <1>3 DEF TypeAt, TypeStore, TypeKeys, TypeHistory, store, pems, keys, history, served
<1>7. TypeOK'
    BY <1>4, <1>5, <1>6 DEF TypeOK, TypePages, TypeAt, TypeStore, TypeKeys, TypeHistory, TypeFaults
<1>8. (Grounded /\ InstalledIsComplete)'
    BY <1>3 DEF IInv, Grounded, InstalledIsComplete, store, keys
<1>9. QED
    BY <1>7, <1>8 DEF IInv

LEMMA RefusedInv == ASSUME IInv, NEW p \in Page, Refused(p) PROVE IInv'
<1>1. PICK stage \in (1..4) \cup {42} : HasInstall(stage)
    BY DEF Refused
<1>2. TypePages /\ TypeAt /\ TypeStore /\ TypeKeys /\ TypeHistory /\ TypeFaults
    BY TypeSplit DEF IInv
<1>3. UNCHANGED <<store, pems, keys, history>> /\ Reloads(p)
    BY DEF Refused
<1>4. TypeFaults'
    BY <1>1, <1>2, QueriesCount, FaultsCount
<1>5. TypePages' /\ Answer(p)
    BY <1>2, <1>3, PagesKept
<1>6. /\ TypeAt'
      /\ at'[p].point = "idle"
      /\ \A q \in Page \ {p} : at'[q] = at[q]
    BY <1>2, <1>5, Answered
<1>7. TypeStore' /\ TypeKeys' /\ TypeHistory'
    BY <1>2, <1>3 DEF TypeStore, TypeKeys, TypeHistory, store, pems, keys, history, served
<1>8. TypeOK'
    BY <1>4, <1>5, <1>6, <1>7 DEF TypeOK, TypePages, TypeAt, TypeStore, TypeKeys, TypeHistory, TypeFaults
<1>9. Grounded'
    BY <1>3, <1>6 DEF IInv, Grounded, store, LastStep
<1>10. InstalledIsComplete'
    BY <1>3 DEF IInv, InstalledIsComplete, store, keys
<1>11. QED
    BY <1>8, <1>9, <1>10 DEF IInv

-----------------------------------------------------------------------------
(* What a handler does: it is freed, with or without a new page, or goes   *)
(* on to its next point.                                                   *)
LEMMA HandlerInv ==
    ASSUME IInv, NEW p \in Page, Sound \/ Fault,
           TypePages', TypeAt', TypeStore', TypeKeys', TypeHistory',
           \A q \in Page \ {p} : at'[q] = at[q],
           config # "none" => config' # "none", rules => rules', files => files',
           rules' => config' # "none", files' => rules',
           at'[p].point = "initRules" => config' # "none",
           at'[p].point = "unzip" => rules',
           at'[p].point \in LastStep => files',
           publickey' # publickey => files
    PROVE  IInv'
<1>1. TypeOK'
    BY FaultsCount, TypeSplit DEF IInv, TypeOK, TypePages, TypeAt, TypeStore, TypeKeys, TypeHistory, TypeFaults
<1>2. Grounded'
    BY GroundedStep DEF IInv
<1>3. InstalledIsComplete'
    BY DEF IInv, InstalledIsComplete, Grounded
<1>4. QED
    BY <1>1, <1>2, <1>3 DEF IInv

LEMMA InsertConfigInv == ASSUME IInv, NEW p \in Page, InsertConfig(p) PROVE IInv'
<1>1. TypePages /\ TypeAt /\ TypeStore /\ TypeKeys /\ TypeHistory /\ TypeFaults /\ Grounded
    BY TypeSplit DEF IInv
<1>2. (Stays(p) \/ Reloads(p)) /\ (Sound \/ Fault)
    BY DEF InsertConfig
<1>3. TypePages' /\ Answer(p)
    BY <1>1, <1>2, PagesKept
<1>4. /\ TypeAt'
      /\ at'[p].point = "idle"
      /\ \A q \in Page \ {p} : at'[q] = at[q]
    BY <1>1, <1>3, Answered
<1>5. UNCHANGED <<rules, files, pems, keys, torn, served>>
    BY DEF InsertConfig
<1>6. TypeStore' /\ TypeHistory' /\ (config # "none" => config' # "none")
    BY <1>1, <1>5 DEF InsertConfig, TypeStore, TypeHistory, served
<1>7. TypeKeys' /\ publickey' = publickey
    BY <1>1, <1>5 DEF TypeKeys, pems, keys
<1>8. QED
    BY <1>1, <1>2, <1>3, <1>4, <1>5, <1>6, <1>7, HandlerInv DEF Grounded, LastStep

LEMMA InsertRulesInv == ASSUME IInv, NEW p \in Page, InsertRules(p) PROVE IInv'
<1>1. TypePages /\ TypeAt /\ TypeStore /\ TypeKeys /\ TypeHistory /\ TypeFaults /\ Grounded
    BY TypeSplit DEF IInv
<1>2. (Stays(p) \/ Reloads(p)) /\ (Sound \/ Fault)
    BY DEF InsertRules
<1>3. TypePages' /\ Answer(p)
    BY <1>1, <1>2, PagesKept
<1>4. /\ TypeAt'
      /\ at'[p].point = "idle"
      /\ \A q \in Page \ {p} : at'[q] = at[q]
    BY <1>1, <1>3, Answered
<1>5. UNCHANGED <<config, files, pems, keys, torn, served>>
    BY DEF InsertRules
<1>6. TypeStore' /\ TypeHistory' /\ (rules => rules') /\ config # "none"
    BY <1>1, <1>5 DEF InsertRules, TypeStore, TypeHistory, Grounded, served
<1>7. TypeKeys' /\ publickey' = publickey
    BY <1>1, <1>5 DEF TypeKeys, pems, keys
<1>8. QED
    BY <1>1, <1>2, <1>3, <1>4, <1>5, <1>6, <1>7, HandlerInv DEF Grounded, LastStep

LEMMA UnzipInv == ASSUME IInv, NEW p \in Page, Unzip(p) PROVE IInv'
<1>1. TypePages /\ TypeAt /\ TypeStore /\ TypeKeys /\ TypeHistory /\ TypeFaults /\ Grounded
    BY TypeSplit DEF IInv
<1>2. UNCHANGED <<config, rules, pems, keys, history>> /\ (Sound \/ Fault)
    BY DEF Unzip
<1>3. rules /\ files' \in BOOLEAN /\ (files => files')
    BY <1>1 DEF Unzip, Grounded, TypeStore
<1>4. TypeStore' /\ TypeHistory' /\ TypeKeys' /\ publickey' = publickey
    BY <1>1, <1>2, <1>3 DEF TypeStore, TypeHistory, TypeKeys, pems, keys, history, served
<1>5. CASE Reloads(p)
    <2>1. TypePages' /\ Answer(p)
        BY <1>1, <1>5, PagesKept
    <2>2. /\ TypeAt'
          /\ at'[p].point = "idle"
          /\ \A q \in Page \ {p} : at'[q] = at[q]
        BY <1>1, <2>1, Answered
    <2>3. QED
        BY <1>1, <1>2, <1>3, <1>4, <2>1, <2>2, HandlerInv DEF Grounded, LastStep
<1>6. CASE UNCHANGED <<at, pages>>
    <2>1. TypePages' /\ TypeAt' /\ at'[p].point = "unzip"
        BY <1>1, <1>6 DEF TypePages, TypeAt, pages, Unzip
    <2>2. \A q \in Page \ {p} : at'[q] = at[q]
        BY <1>6
    <2>3. QED
        BY <1>1, <1>2, <1>3, <1>4, <2>1, <2>2, HandlerInv DEF Grounded, LastStep
<1>7. QED
    BY <1>5, <1>6 DEF Unzip

LEMMA WritePrivateInv == ASSUME IInv, NEW p \in Page, WritePrivate(p) PROVE IInv'
<1>1. TypePages /\ TypeAt /\ TypeStore /\ TypeKeys /\ TypeHistory /\ TypeFaults /\ Grounded
    BY TypeSplit DEF IInv
<1>2. /\ UNCHANGED <<store, pub, https, keys, again, served>>
      /\ Sound \/ Fault
      /\ files
    BY <1>1 DEF WritePrivate, Grounded, LastStep
<1>3. TypeStore' /\ UNCHANGED <<config, rules, files>> /\ publickey' = publickey
    BY <1>1, <1>2 DEF TypeStore, store, keys
<1>4. CASE Stays(p) /\ priv' \in {priv, 0, Cut} /\ torn' \in BOOLEAN
    <2>1. TypePages' /\ Answer(p)
        BY <1>1, <1>4, PagesKept
    <2>2. /\ TypeAt'
          /\ at'[p].point = "idle"
          /\ \A q \in Page \ {p} : at'[q] = at[q]
        BY <1>1, <2>1, Answered
    <2>3. TypeKeys' /\ TypeHistory'
        BY <1>1, <1>2, <1>4 DEF TypeKeys, TypeHistory, keys, served, File, Cut
    <2>4. QED
        BY <1>1, <1>2, <1>3, <2>1, <2>2, <2>3, HandlerInv DEF Grounded, LastStep
<1>5. CASE /\ priv' \in Key
            /\ at' = [at EXCEPT ![p].point = "public", ![p].key = priv']
            /\ UNCHANGED <<pages, torn>>
    <2>1. PICK k \in Key : priv' = k
        BY <1>5
    <2>2. /\ at' = [at EXCEPT ![p].point = "public", ![p].key = priv']
          /\ UNCHANGED <<pages, torn>>
        BY <1>5
    <2>3. TypeAt'
        <3>1. k \in File /\ "public" \in Points
            BY DEF Key, Points, File, Cut
        <3> DEFINE went == [at EXCEPT ![p].point = "public"]
        <3>2. went \in [Page -> [point : Points, key : File]]
            BY <1>1, <3>1 DEF TypeAt
        <3>3. at' = [went EXCEPT ![p].key = k]
            BY <2>1, <2>2
        <3> HIDE DEF went
        <3>4. QED
            BY <3>1, <3>2, <3>3 DEF TypeAt
    <2>4. at'[p].point = "public" /\ \A q \in Page \ {p} : at'[q] = at[q]
        BY <1>1, <2>2 DEF TypeAt
    <2>5. TypeKeys' /\ TypeHistory' /\ TypePages'
        BY <1>1, <1>2, <2>1, <2>2 DEF TypeKeys, TypeHistory, TypePages, Key, File, Cut, keys, pages, served
    <2>6. QED
        BY <1>1, <1>2, <1>3, <2>3, <2>4, <2>5, HandlerInv DEF Grounded, LastStep
<1>6. (torn \/ priv' # priv) \in BOOLEAN
    OBVIOUS
<1>7. ASSUME Key \ InUse # {} PROVE (CHOOSE k \in Key : k \notin InUse) \in Key
    BY <1>7
<1>8. QED
    BY <1>4, <1>5, <1>6, <1>7 DEF WritePrivate

LEMMA WritePublicInv == ASSUME IInv, NEW p \in Page, WritePublic(p) PROVE IInv'
<1>1. TypePages /\ TypeAt /\ TypeStore /\ TypeKeys /\ TypeHistory /\ TypeFaults /\ Grounded
    BY TypeSplit DEF IInv
<1>2. /\ UNCHANGED <<store, priv, https, keys, again, served>>
      /\ Sound \/ Fault
      /\ files
      /\ Answer(p) /\ UNCHANGED shown
    BY <1>1 DEF WritePublic, Grounded, LastStep
<1>3. TypeStore' /\ UNCHANGED <<config, rules, files>> /\ publickey' = publickey
    BY <1>1, <1>2 DEF TypeStore, store, keys
<1>4. /\ TypeAt'
      /\ at'[p].point = "idle"
      /\ \A q \in Page \ {p} : at'[q] = at[q]
    BY <1>1, <1>2, Answered
<1>5. at[p].key \in File
    BY <1>1 DEF TypeAt
<1>6. pub' \in File /\ ready' \subseteq Page /\ torn' \in BOOLEAN
    <2>1. pub' \in File
        BY <1>1, <1>5 DEF WritePublic, TypeKeys, File, Cut
    <2>2. ready' \subseteq Page
        BY <1>1 DEF WritePublic, TypePages
    <2>3. torn' \in BOOLEAN
        BY <1>1, Zenon DEF WritePublic, TypeHistory
    <2>4. QED
        BY <2>1, <2>2, <2>3
<1>7. TypeKeys' /\ TypeHistory' /\ TypePages'
    BY <1>1, <1>2, <1>6 DEF TypeKeys, TypeHistory, TypePages, keys, served
<1>8. QED
    BY <1>1, <1>2, <1>3, <1>4, <1>7, HandlerInv DEF Grounded, LastStep

LEMMA AddWhitelistInv == ASSUME IInv, NEW p \in Page, AddWhitelist(p) PROVE IInv'
<1>1. TypePages /\ TypeAt /\ TypeStore /\ TypeKeys /\ TypeHistory /\ TypeFaults /\ Grounded
    BY TypeSplit DEF IInv
<1>2. UNCHANGED <<store, pems, keys, history>> /\ (Sound \/ Fault) /\ files
    BY <1>1 DEF AddWhitelist, Grounded, LastStep
<1>3. /\ TypeStore' /\ TypeHistory' /\ TypeKeys'
      /\ UNCHANGED <<config, rules, files, publickey>>
    BY <1>1, <1>2 DEF TypeStore, TypeHistory, TypeKeys, store, pems, keys, history, served
<1>4. CASE Stays(p)
    <2>1. TypePages' /\ Answer(p)
        BY <1>1, <1>4, PagesKept
    <2>2. /\ TypeAt'
          /\ at'[p].point = "idle"
          /\ \A q \in Page \ {p} : at'[q] = at[q]
        BY <1>1, <2>1, Answered
    <2>3. QED
        BY <1>1, <1>2, <1>3, <2>1, <2>2, HandlerInv DEF Grounded, LastStep
<1>5. CASE Goto(p, "rename") /\ UNCHANGED pages
    <2>1. TypePages'
        BY <1>1, <1>5 DEF TypePages, pages
    <2>2. /\ TypeAt'
          /\ at'[p].point = "rename"
          /\ \A q \in Page \ {p} : at'[q] = at[q]
        BY <1>1, <1>5, Went DEF Points
    <2>3. QED
        BY <1>1, <1>2, <1>3, <2>1, <2>2, HandlerInv DEF Grounded, LastStep
<1>6. QED
    BY <1>4, <1>5 DEF AddWhitelist

LEMMA RenameInv == ASSUME IInv, NEW p \in Page, Rename(p) PROVE IInv'
<1>1. TypePages /\ TypeAt /\ TypeStore /\ TypeKeys /\ TypeHistory /\ TypeFaults /\ Grounded
    BY TypeSplit DEF IInv
<1>2. /\ UNCHANGED <<store, pub, keys, history>>
      /\ Sound \/ Fault
      /\ files
    BY <1>1 DEF Rename, Grounded, LastStep
<1>3. priv' \in File \cup {NoFile} /\ https' \in File
    BY <1>1 DEF Rename, TypeKeys
<1>4. /\ TypeStore' /\ TypeHistory' /\ TypeKeys'
      /\ UNCHANGED <<config, rules, files, publickey>>
    BY <1>1, <1>2, <1>3 DEF TypeStore, TypeHistory, TypeKeys, store, keys, history, served
<1>5. CASE Stays(p)
    <2>1. TypePages' /\ Answer(p)
        BY <1>1, <1>5, PagesKept
    <2>2. /\ TypeAt'
          /\ at'[p].point = "idle"
          /\ \A q \in Page \ {p} : at'[q] = at[q]
        BY <1>1, <2>1, Answered
    <2>3. QED
        BY <1>1, <1>2, <1>4, <2>1, <2>2, HandlerInv DEF Grounded, LastStep
<1>6. CASE Goto(p, "private") /\ UNCHANGED pages
    <2>1. TypePages'
        BY <1>1, <1>6 DEF TypePages, pages
    <2>2. /\ TypeAt'
          /\ at'[p].point = "private"
          /\ \A q \in Page \ {p} : at'[q] = at[q]
        BY <1>1, <1>6, Went DEF Points
    <2>3. QED
        BY <1>1, <1>2, <1>4, <2>1, <2>2, HandlerInv DEF Grounded, LastStep
<1>7. QED
    BY <1>5, <1>6 DEF Rename

LEMMA SetPrivateInv == ASSUME IInv, NEW p \in Page, SetPrivate(p) PROVE IInv'
<1>1. TypePages /\ TypeAt /\ TypeStore /\ TypeKeys /\ TypeHistory /\ TypeFaults /\ Grounded
    BY TypeSplit DEF IInv
<1>2. /\ UNCHANGED <<store, pems, publickey, pages, again, served>>
      /\ Sound \/ Fault
      /\ files /\ Goto(p, "publish")
    BY <1>1 DEF SetPrivate, Edited, Grounded, LastStep
<1>3. privatekey' \in File /\ torn' \in BOOLEAN
    BY <1>1 DEF SetPrivate, Edited, TypeKeys, TypeHistory
<1>4. /\ TypeStore' /\ TypeHistory' /\ TypeKeys' /\ TypePages'
      /\ UNCHANGED <<config, rules, files, publickey>>
    BY <1>1, <1>2, <1>3 DEF TypeStore, TypeHistory, TypeKeys, TypePages, store, pems, pages, served
<1>5. /\ TypeAt'
      /\ at'[p].point = "publish"
      /\ \A q \in Page \ {p} : at'[q] = at[q]
    BY <1>1, <1>2, Went DEF Points
<1>6. QED
    BY <1>1, <1>2, <1>4, <1>5, HandlerInv DEF Grounded, LastStep

LEMMA SetPublicInv == ASSUME IInv, NEW p \in Page, SetPublic(p) PROVE IInv'
<1>1. TypePages /\ TypeAt /\ TypeStore /\ TypeKeys /\ TypeHistory /\ TypeFaults /\ Grounded
    BY TypeSplit DEF IInv
<1>2. /\ UNCHANGED <<store, pems, privatekey, again, served>>
      /\ Sound \/ Fault
      /\ files /\ Reloads(p)
    BY <1>1 DEF SetPublic, Edited, Grounded, LastStep
<1>3. publickey' \in File /\ torn' \in BOOLEAN
    BY <1>1 DEF SetPublic, Edited, TypeKeys, TypeHistory
<1>4. TypePages' /\ Answer(p)
    BY <1>1, <1>2, PagesKept
<1>5. /\ TypeStore' /\ TypeHistory' /\ TypeKeys'
      /\ UNCHANGED <<config, rules, files>>
    BY <1>1, <1>2, <1>3 DEF TypeStore, TypeHistory, TypeKeys, store, pems, served
<1>6. /\ TypeAt'
      /\ at'[p].point = "idle"
      /\ \A q \in Page \ {p} : at'[q] = at[q]
    BY <1>1, <1>4, Answered
<1>7. QED
    BY <1>1, <1>2, <1>4, <1>5, <1>6, HandlerInv DEF Grounded, LastStep

LEMMA CrashInv == ASSUME IInv, Crash PROVE IInv'
<1>1. TypePages /\ TypeAt /\ TypeStore /\ TypeKeys /\ TypeHistory /\ TypeFaults /\ Grounded
    BY TypeSplit DEF IInv
<1>2. UNCHANGED <<store, pems, keys, history>> /\ TypeFaults'
    BY <1>1, FaultsCount DEF Crash
<1>3. TypeAt' /\ \A p \in Page : at'[p].point = "idle"
    BY DEF Crash, TypeAt, Idle, Points, File, Cut
<1>4. TypePages'
    BY DEF Crash, TypePages
<1>5. TypeStore' /\ TypeHistory' /\ TypeKeys'
    BY <1>1, <1>2 DEF TypeStore, TypeHistory, TypeKeys, store, pems, keys, history, served
<1>6. TypeOK'
    BY <1>2, <1>3, <1>4, <1>5
       DEF TypeOK, TypePages, TypeAt, TypeStore, TypeKeys, TypeHistory, TypeFaults
<1>7. Grounded'
    BY <1>1, <1>2, <1>3 DEF Grounded, LastStep, store
<1>8. InstalledIsComplete'
    BY <1>2 DEF IInv, InstalledIsComplete, store, keys
<1>9. QED
    BY <1>6, <1>7, <1>8 DEF IInv

LEMMA NextInv == IInv /\ [Next]_vars => IInv'
<1> SUFFICES ASSUME IInv, [Next]_vars PROVE IInv'
    OBVIOUS
<1>1. CASE Crash
    BY <1>1, CrashInv
<1>2. ASSUME NEW p \in Page, Load(p) PROVE IInv'
    BY <1>2, LoadInv
<1>3. ASSUME NEW p \in Page, Click(p) PROVE IInv'
    BY <1>3, ClickInv
<1>4. ASSUME NEW p \in Page, Refused(p) PROVE IInv'
    BY <1>4, RefusedInv
<1>5. ASSUME NEW p \in Page, Serve(p) PROVE IInv'
    BY <1>5, InsertConfigInv, InsertRulesInv, UnzipInv, WritePrivateInv, WritePublicInv,
       AddWhitelistInv, RenameInv, SetPrivateInv, SetPublicInv DEF Serve
<1>6. CASE UNCHANGED vars
    BY <1>6 DEF IInv, TypeOK, Grounded, InstalledIsComplete,
                vars, store, pems, keys, pages, history, served
<1>7. QED
    BY <1>1, <1>2, <1>3, <1>4, <1>5, <1>6 DEF Next

(* The wizard never leaves what its variables may hold: no page shows a    *)
(* step that there is not, and no handler stands at a point of none.       *)
THEOREM WizardTypes == Spec => []TypeOK
<1>1. IInv => TypeOK
    BY DEF IInv
<1>2. QED
    BY <1>1, InitInv, NextInv, PTL DEF Spec

(* For any number of pages, requests served at the same time, failed       *)
(* queries, failed writes and restarts: a console that takes itself for    *)
(* installed has what every step of the installation was to leave.         *)
THEOREM NoHalfInstallation == Spec => []InstalledIsComplete
<1>1. IInv => InstalledIsComplete
    BY DEF IInv
<1>2. QED
    BY <1>1, InitInv, NextInv, PTL DEF Spec

-----------------------------------------------------------------------------
(* One request at a time *)

(* Two requests are under way only after one came while another was. *)
Alone == \A p, q \in Page : at[p].point # "idle" /\ at[q].point # "idle" /\ p # q => crossed

(* A handler of one page that goes on or is freed leaves the others alone. *)
LEMMA AloneMoves ==
    ASSUME Alone, NEW p \in Page, at[p].point # "idle",
           \A q \in Page \ {p} : at'[q] = at[q], crossed' = crossed
    PROVE  Alone'
    BY DEF Alone

(* So do answers, and steps that touch no handler.                         *)
LEMMA AloneRests ==
    ASSUME Alone, crossed' = crossed,
           \A q \in Page : at'[q] = at[q] \/ at'[q].point = "idle"
    PROVE  Alone'
    BY DEF Alone

(* A handler's own steps move no other handler. *)
LEMMA OwnStep ==
    ASSUME TypeAt, NEW p \in Page, Serve(p)
    PROVE  /\ at[p].point # "idle"
           /\ \A q \in Page \ {p} : at'[q] = at[q]
           /\ crossed' = crossed
<1>1. /\ Answer(p) => \A q \in Page \ {p} : at'[q] = at[q]
      /\ \A point : Goto(p, point) => \A q \in Page \ {p} : at'[q] = at[q]
    BY DEF TypeAt, Answer, Goto
<1>2. at[p].point # "idle" /\ crossed' = crossed
    BY DEF Serve, InsertConfig, InsertRules, Unzip, WritePrivate, WritePublic,
           AddWhitelist, Rename, SetPrivate, SetPublic, history, served
<1>3. CASE WritePrivate(p)
    <2>1. Answer(p) \/ at' = [at EXCEPT ![p].point = "public", ![p].key = priv']
        BY <1>3 DEF WritePrivate, Stays
    <2>2. QED
        BY <1>1, <1>2, <2>1 DEF TypeAt
<1>4. CASE Answer(p)
    BY <1>1, <1>2, <1>4
<1>5. ASSUME NEW point, Goto(p, point) PROVE \A q \in Page \ {p} : at'[q] = at[q]
    BY <1>1, <1>5
<1>6. ASSUME ~WritePrivate(p)
      PROVE  at' = at \/ Answer(p) \/ \E point \in Points : Goto(p, point)
    BY <1>6 DEF Serve, InsertConfig, InsertRules, Unzip, WritePublic,
                AddWhitelist, Rename, SetPrivate, SetPublic, Stays, Reloads, Points
<1>7. QED
    BY <1>2, <1>3, <1>4, <1>5, <1>6

(* A request that comes while another is served is noted.                  *)
LEMMA AloneStep == ASSUME IInv, Alone, [Next]_vars PROVE Alone'
<1>0. TypeAt
    BY TypeSplit DEF IInv
<1>1. CASE Crash
    <2>1. \A p \in Page : at'[p].point = "idle"
        BY <1>1 DEF Crash, Idle
    <2>2. QED
        BY <2>1 DEF Alone
<1>2. ASSUME NEW p \in Page, Load(p) PROVE Alone'
    BY <1>2, AloneRests DEF Load, history, served
<1>3. ASSUME NEW p \in Page, NEW stages, NEW point, Request(p, stages, point) PROVE Alone'
    <2>1. \A q \in Page \ {p} : at'[q] = at[q]
        BY <1>0, <1>3 DEF Request, Goto, TypeAt
    <2>2. crossed' <=> (crossed \/ \E q \in Page : at[q].point # "idle")
        BY <1>3 DEF Request
    <2>3. QED
        BY <2>1, <2>2 DEF Alone
<1>4. ASSUME NEW p \in Page, Click(p) PROVE Alone'
    BY <1>3, <1>4 DEF Click, ClickDatabase, ClickRules, ClickUpload, ClickCreateKey, ClickSetting
<1>5. ASSUME NEW p \in Page, Refused(p) PROVE Alone'
    <2>1. Answer(p) /\ crossed' = crossed
        BY <1>5 DEF Refused, Reloads, history, served
    <2>2. QED
        BY <1>0, <2>1, Answered, AloneRests
<1>6. ASSUME NEW p \in Page, Serve(p) PROVE Alone'
    BY <1>0, <1>6, OwnStep, AloneMoves
<1>7. CASE UNCHANGED vars
    BY <1>7, AloneRests DEF vars, history, served
<1>8. QED
    BY <1>1, <1>2, <1>4, <1>5, <1>6, <1>7 DEF Next

-----------------------------------------------------------------------------
(* A step is done once *)

(* As long as nothing crossed and no request came in on a query that       *)
(* failed, the handler that fills a collection finds it as HasInstall did, *)
(* and an installed console serves nobody.                                 *)
Fresh ==
    /\ ~again
    /\ \A p \in Page : /\ at[p].point = "initDB" => config = "none"
                       /\ at[p].point = "initRules" => ~rules
                       /\ publickey # 0 => at[p].point = "idle"
StaysFresh == ~again /\ (Calm => Fresh)

(* What crossed, or was let in on a failed query, stays so. *)
LEMMA CalmBefore ==
    ASSUME IInv, [Next]_vars, Calm'
    PROVE  Calm
<1> USE DEF Calm
<1>1. ASSUME NEW p \in Page, Serve(p) PROVE UNCHANGED <<crossed, blind>>
    BY <1>1 DEF Serve, InsertConfig, InsertRules, Unzip, WritePrivate, WritePublic,
                AddWhitelist, Rename, SetPrivate, SetPublic, history, served
<1>2. ASSUME NEW p \in Page, NEW stages, NEW point, Request(p, stages, point)
      PROVE  ~crossed /\ ~blind
    <2>1. /\ crossed' = (crossed \/ \E q \in Page : at[q].point # "idle")
          /\ blind' = (blind \/ faults' # faults)
        BY <1>2 DEF Request
    <2>2. QED
        BY <2>1, Zenon
<1>3. ASSUME NEW p \in Page, Click(p) PROVE ~crossed /\ ~blind
    BY <1>2, <1>3 DEF Click, ClickDatabase, ClickRules, ClickUpload, ClickCreateKey, ClickSetting
<1>4. ASSUME Crash \/ (\E p \in Page : Load(p) \/ Refused(p)) \/ UNCHANGED vars
      PROVE  UNCHANGED <<crossed, blind>>
    BY <1>4 DEF Crash, Load, Refused, vars, history, served
<1>5. QED
    BY <1>1, <1>3, <1>4 DEF Next

(* Steps that put nothing into the database and begin nothing.             *)
LEMMA FreshRests ==
    ASSUME Fresh, UNCHANGED <<config, rules, again, publickey>>,
           \A p \in Page : at'[p] = at[p] \/ at'[p].point = "idle"
    PROVE  Fresh'
    BY DEF Fresh

(* HasInstall saw the collection empty, and the console not installed.     *)
LEMMA FreshRequest ==
    ASSUME IInv, Fresh, NEW p \in Page, NEW stages \in SUBSET (1..4), NEW point \in Points,
           Request(p, stages, point), ~blind',
           point = "initDB" => stages = {1}, point = "initRules" => stages = {2}
    PROVE  Fresh'
<1>1. TypeAt /\ faults \in Nat
    BY TypeSplit, InstallAssumption DEF IInv, TypeFaults
<1>2. PICK stage \in stages : HasInstall(stage)
    BY DEF Request
<1>3. faults' = faults
    BY DEF Request
<1>4. ~Fault
    BY <1>1, <1>3 DEF Fault
<1>5. stage = Stage(config # "none", rules, files)
    BY <1>2, <1>4 DEF HasInstall
<1>6. /\ stage = 1 => config = "none"
      /\ stage = 2 => ~rules
    BY <1>5 DEF Stage
<1>7. publickey = 0
    <2>1. stage # 42
        BY <1>2
    <2>2. QED
        BY <1>5, <2>1 DEF IInv, InstalledIsComplete, Stage
<1>8. at'[p].point = point /\ \A q \in Page \ {p} : at'[q] = at[q]
    BY <1>1, Went DEF Request
<1>9. UNCHANGED <<config, rules, again, publickey>>
    BY DEF Request, store, keys
<1>10. QED
    BY <1>6, <1>7, <1>8, <1>9 DEF Fresh

LEMMA FreshClick ==
    ASSUME IInv, Fresh, NEW p \in Page, Click(p), ~blind'
    PROVE  Fresh'
    BY FreshRequest DEF Click, ClickDatabase, ClickRules, ClickUpload, ClickCreateKey, ClickSetting, Points

(* What the only handler found empty it is the only one to fill.           *)
LEMMA FreshServe ==
    ASSUME IInv, Fresh, NEW p \in Page, Serve(p),
           \A q \in Page \ {p} : at[q].point = "idle"
    PROVE  Fresh'
<1>1. TypeAt
    BY TypeSplit DEF IInv
<1>2. at[p].point # "idle" /\ \A q \in Page \ {p} : at'[q] = at[q]
    BY <1>1, OwnStep
<1>3. publickey = 0
    BY <1>2 DEF Fresh
<1>4. \A q \in Page \ {p} : at'[q].point = "idle"
    BY <1>2
<1>5. Answer(p) => at'[p].point = "idle"
    BY <1>1, Answered
<1>6. CASE InsertConfig(p)
    <2>1. Answer(p) /\ config = "none" /\ ~again
        BY <1>6 DEF InsertConfig, Stays, Reloads, Fresh
    <2>2. again' = again \/ again' = (again \/ (Calm /\ config # "none"))
        BY <1>6, Zenon DEF InsertConfig
    <2>3. ~again'
        BY <2>1, <2>2, Zenon
    <2>4. publickey' = publickey
        BY <1>6 DEF InsertConfig, keys
    <2>5. QED
        BY <1>3, <1>4, <1>5, <2>1, <2>3, <2>4 DEF Fresh
<1>7. CASE InsertRules(p)
    <2>1. Answer(p) /\ ~rules /\ ~again
        BY <1>7 DEF InsertRules, Stays, Reloads, Fresh
    <2>2. again' = again \/ again' = (again \/ (Calm /\ rules))
        BY <1>7, Zenon DEF InsertRules
    <2>3. ~again'
        BY <2>1, <2>2, Zenon
    <2>4. publickey' = publickey
        BY <1>7 DEF InsertRules, keys
    <2>5. QED
        BY <1>3, <1>4, <1>5, <2>1, <2>3, <2>4 DEF Fresh
<1>8. CASE SetPublic(p)
    <2>1. Answer(p) /\ UNCHANGED <<config, rules, again>>
        BY <1>8 DEF SetPublic, Reloads, store
    <2>2. QED
        BY <1>4, <1>5, <2>1 DEF Fresh
<1>9. CASE ~InsertConfig(p) /\ ~InsertRules(p) /\ ~SetPublic(p)
    <2>1. UNCHANGED <<config, rules, again, publickey>>
        BY <1>9 DEF Serve, Unzip, WritePrivate, WritePublic, AddWhitelist, Rename,
                    SetPrivate, store, keys, history, served
    <2>2. at'[p] = at[p] \/ at'[p].point \notin {"initDB", "initRules"}
        <3>1. \A point \in Points : Goto(p, point) => at'[p].point = point
            BY <1>1, Went
        <3>2. CASE WritePrivate(p)
            BY <1>1, <1>5, <3>2 DEF WritePrivate, Stays, TypeAt
        <3>3. at' = at \/ Answer(p) \/ WritePrivate(p)
              \/ \E point \in Points \ {"initDB", "initRules"} : Goto(p, point)
            BY <1>9 DEF Serve, Unzip, WritePublic, AddWhitelist, Rename,
                        SetPrivate, Stays, Reloads, Points
        <3>4. QED
            BY <1>5, <3>1, <3>2, <3>3
    <2>3. QED
        BY <1>3, <1>4, <2>1, <2>2 DEF Fresh
<1>10. QED
    BY <1>6, <1>7, <1>8, <1>9

(* Without calm nothing is put down as done again.                         *)
LEMMA OnlyInCalm == ASSUME [Next]_vars, ~again, ~Calm' PROVE ~again'
<1>1. ASSUME NEW p \in Page, Serve(p) PROVE ~again'
    <2>1. ~Calm
        BY <1>1 DEF Calm, Serve, InsertConfig, InsertRules, Unzip, WritePrivate, WritePublic,
                    AddWhitelist, Rename, SetPrivate, SetPublic, history, served
    <2>2. \/ again' = again
          \/ again' = (again \/ (Calm /\ config # "none"))
          \/ again' = (again \/ (Calm /\ rules))
        BY <1>1, Zenon DEF Serve, InsertConfig, InsertRules, Unzip, WritePrivate, WritePublic,
                    AddWhitelist, Rename, SetPrivate, SetPublic, history, served
    <2>3. QED
        BY <2>1, <2>2, Zenon
<1>2. ASSUME NEW p \in Page, Load(p) \/ Click(p) \/ Refused(p) PROVE again' = again
    BY <1>2 DEF Load, Refused, Click, ClickDatabase, ClickRules, ClickUpload, ClickCreateKey,
                ClickSetting, Request, history
<1>3. CASE Crash \/ UNCHANGED vars
    BY <1>3 DEF Crash, vars, history
<1>4. QED
    BY <1>1, <1>2, <1>3 DEF Next

LEMMA FreshStep == ASSUME IInv, Alone, StaysFresh, [Next]_vars PROVE StaysFresh'
<1> SUFFICES ASSUME Calm' PROVE Fresh'
    BY OnlyInCalm DEF StaysFresh, Fresh
<1>1. Calm /\ Calm' /\ Fresh /\ TypeAt
    BY CalmBefore, TypeSplit DEF StaysFresh, IInv
<1>2. CASE Crash
    <2>1. UNCHANGED <<config, rules, again, publickey>> /\ \A p \in Page : at'[p].point = "idle"
        BY <1>2 DEF Crash, Idle, store, keys, history
    <2>2. QED
        BY <1>1, <2>1, FreshRests
<1>3. ASSUME NEW p \in Page, Load(p) PROVE Fresh'
    BY <1>1, <1>3, FreshRests DEF Load, store, keys, history
<1>4. ASSUME NEW p \in Page, Click(p) PROVE Fresh'
    BY <1>1, <1>4, FreshClick DEF Calm
<1>5. ASSUME NEW p \in Page, Refused(p) PROVE Fresh'
    <2>1. Answer(p) /\ UNCHANGED <<config, rules, again, publickey>>
        BY <1>5 DEF Refused, Reloads, store, keys, history
    <2>2. QED
        BY <1>1, <2>1, Answered, FreshRests
<1>6. ASSUME NEW p \in Page, Serve(p) PROVE Fresh'
    <2>1. \A q \in Page \ {p} : at[q].point = "idle"
        BY <1>1, <1>6, OwnStep DEF Alone, Calm
    <2>2. QED
        BY <1>1, <1>6, <2>1, FreshServe
<1>7. CASE UNCHANGED vars
    BY <1>1, <1>7, FreshRests DEF vars, store, keys, history
<1>8. QED
    BY <1>2, <1>3, <1>4, <1>5, <1>6, <1>7 DEF Next

(* For any number of pages, however stale, and of failed writes and        *)
(* crashes: the configuration and the rules are put in once, and an        *)
(* installed console begins no step, unless requests were served at the    *)
(* same time or let in by a failed query (install.go:72-108).              *)
THEOREM NothingTwice == Spec => []StepOnce
<1>1. Init => Alone /\ StaysFresh
    BY DEF Init, Alone, StaysFresh, Fresh, Idle, Calm
<1>2. IInv /\ Alone /\ StaysFresh /\ [Next]_vars => Alone' /\ StaysFresh'
    BY AloneStep, FreshStep
<1>3. StaysFresh => StepOnce
    BY DEF StaysFresh, Fresh, StepOnce
<1>4. QED
    BY <1>1, <1>2, <1>3, InitInv, NextInv, PTL DEF Spec

-----------------------------------------------------------------------------
(* The halves of the key *)

(* The halves of a pair on their way, when nothing crossed and every key   *)
(* could be written: the key of a request is the private half on disk; who *)
(* may finish finds two halves that fit; the console's own key is the      *)
(* other half of what will be published; and what is published fits, with  *)
(* no handler left that could change it.                                   *)
Finishing == {"addconfig", "rename", "private", "publish"}
Fitting ==
    /\ \A p \in Page :
           /\ at[p].point = "public" => priv = at[p].key
           /\ at[p].point \in Finishing => p \in ready
           /\ at[p].point = "private" => https = pub /\ pub # 0
           /\ at[p].point = "publish" => privatekey = pub /\ pub # 0
    /\ (\A p \in Page : at[p].point # "public") /\ ready # {} /\ priv # NoFile => priv = pub
    /\ priv # 0
    /\ publickey # 0 => /\ privatekey = publickey
                        /\ \A p \in Page : at[p].point \notin LastStep
Pairing == ~crossed /\ ~torn => Fitting

(* Steps that leave the keys alone and move no handler further into the    *)
(* last step.                                                              *)
LEMMA FittingStays ==
    ASSUME Fitting, UNCHANGED <<pems, keys>>,
           \A p \in Page : \/ at'[p] = at[p] /\ (p \in ready => p \in ready')
                           \/ at'[p].point \notin LastStep /\ at[p].point # "public",
           ready' \subseteq ready
    PROVE  Fitting'
<1>1. \A p \in Page : at'[p].point = "public" <=> at[p].point = "public"
    BY DEF LastStep
<1>2. UNCHANGED <<priv, pub, https, privatekey, publickey>>
    BY DEF pems, keys
<1>3. QED
    BY <1>1, <1>2 DEF Fitting, Finishing, LastStep

(* A request for the last step is admitted only before a key is published. *)
LEMMA FittingRequest ==
    ASSUME IInv, Fitting, NEW p \in Page, NEW stages, NEW point \in Points, Request(p, stages, point),
           point # "public", point \in LastStep => stages = {4},
           point \in Finishing => point = "addconfig" /\ p \in ready
    PROVE  Fitting'
<1>1. TypeAt
    BY TypeSplit DEF IInv
<1>2. UNCHANGED <<priv, pub, https, privatekey, publickey, ready>>
    BY DEF Request, pems, keys, pages
<1>3. at'[p].point = point /\ \A q \in Page \ {p} : at'[q] = at[q]
    BY <1>1, Went DEF Request
<1>4. PICK stage \in stages : HasInstall(stage)
    BY DEF Request
<1>5. stage = 4 => publickey = 0
    BY <1>4 DEF HasInstall, Stage
<1>6. at[p].point = "idle"
    BY DEF Request
<1>7. QED
    BY <1>2, <1>3, <1>4, <1>5, <1>6 DEF Fitting, Finishing, LastStep

(* A click is such a request, and so is one that comes alone.              *)
LEMMA FittingClick ==
    ASSUME IInv, Fitting, NEW p \in Page, Click(p)
    PROVE  Fitting'
<1>1. CASE ClickDatabase(p)
    BY <1>1, FittingRequest DEF ClickDatabase, Points, LastStep, Finishing
<1>2. CASE ClickRules(p)
    BY <1>2, FittingRequest DEF ClickRules, Points, LastStep, Finishing
<1>3. CASE ClickUpload(p)
    BY <1>3, FittingRequest DEF ClickUpload, Points, LastStep, Finishing
<1>4. CASE ClickCreateKey(p)
    BY <1>4, FittingRequest DEF ClickCreateKey, Points, LastStep, Finishing
<1>5. CASE ClickSetting(p)
    BY <1>5, FittingRequest DEF ClickSetting, Points, LastStep, Finishing
<1>6. QED
    BY <1>1, <1>2, <1>3, <1>4, <1>5 DEF Click

(* The only handler that runs takes its step.                              *)
LEMMA FittingServe ==
    ASSUME IInv, Fitting, NEW p \in Page, Serve(p), ~torn', ~torn,
           \A q \in Page \ {p} : at[q].point = "idle"
    PROVE  Fitting'
<1>1. TypeAt /\ TypeKeys /\ TypePages
    BY TypeSplit DEF IInv
<1>2. \A q \in Page \ {p} : at'[q] = at[q]
    BY <1>1, OwnStep
<1>3. Answer(p) => at'[p].point = "idle"
    BY <1>1, Answered
<1>4. \A point \in Points : Goto(p, point) => at'[p].point = point
    BY <1>1, Went
<1>5. \A q \in Page \ {p} : at'[q].point = "idle"
    BY <1>2
<1>6. CASE InsertConfig(p) \/ InsertRules(p) \/ Unzip(p)
    <2>1. UNCHANGED <<pems, keys>> /\ ready' \subseteq ready
        BY <1>6 DEF InsertConfig, InsertRules, Unzip, Stays, Reloads, pages
    <2>2. at[p].point \notin LastStep /\ at'[p].point \notin LastStep
        BY <1>3, <1>6 DEF InsertConfig, InsertRules, Unzip, Stays, Reloads, LastStep
    <2>3. QED
        BY <1>2, <1>5, <2>1, <2>2, FittingStays DEF LastStep
<1>7. CASE WritePrivate(p)
    <2>1. at[p].point = "createkey" /\ UNCHANGED <<pub, https, publickey, privatekey>>
        BY <1>7 DEF WritePrivate, keys
    <2>2. publickey = 0
        BY <2>1 DEF Fitting, LastStep
    <2>3. CASE Stays(p) /\ priv' = priv
        BY <1>3, <1>5, <2>1, <2>2, <2>3 DEF Stays, pages, Fitting, Finishing, LastStep
    <2>4. CASE priv' \in Key /\ at' = [at EXCEPT ![p].point = "public", ![p].key = priv']
        <3>1. at'[p].point = "public" /\ at'[p].key = priv'
            BY <1>1, <2>4 DEF TypeAt
        <3>2. priv' # 0
            BY <2>4 DEF Key
        <3>3. QED
            BY <1>5, <2>1, <2>2, <3>1, <3>2 DEF Fitting, Finishing, LastStep
    <2>5. QED
        BY <1>7, <2>3, <2>4 DEF WritePrivate
<1>8. CASE WritePublic(p)
    <2>1. /\ at[p].point = "public" /\ UNCHANGED <<priv, https, publickey, privatekey>>
          /\ pub' = at[p].key /\ at'[p].point = "idle"
        BY <1>3, <1>8 DEF WritePublic, keys
    <2>2. priv = at[p].key /\ publickey = 0
        BY <2>1 DEF Fitting, LastStep
    <2>3. QED
        BY <1>5, <2>1, <2>2 DEF Fitting, Finishing, LastStep
<1>9. CASE AddWhitelist(p)
    <2>1. at[p].point = "addconfig" /\ UNCHANGED <<priv, pub, https, publickey, privatekey, ready>>
        BY <1>9 DEF AddWhitelist, Stays, pems, keys, pages
    <2>2. at'[p].point \in {"idle", "rename"}
        BY <1>3, <1>4, <1>9 DEF AddWhitelist, Stays, Points
    <2>3. publickey = 0 /\ p \in ready
        BY <2>1 DEF Fitting, LastStep, Finishing
    <2>4. QED
        BY <1>5, <2>1, <2>2, <2>3 DEF Fitting, Finishing, LastStep
<1>10. CASE Rename(p)
    <2>1. at[p].point = "rename" /\ UNCHANGED <<pub, publickey, privatekey, ready>>
        BY <1>10 DEF Rename, Stays, keys, pages
    <2>2. publickey = 0 /\ p \in ready /\ (priv # NoFile => priv = pub)
        BY <1>5, <2>1 DEF Fitting, LastStep, Finishing
    <2>3. \/ priv # NoFile /\ https' = priv /\ priv' = NoFile /\ at'[p].point \in {"idle", "private"}
          \/ priv' = priv /\ at'[p].point = "idle"
        BY <1>3, <1>4, <1>10 DEF Rename, Stays, Points
    <2>4. priv # 0 /\ NoFile # 0
        BY DEF Fitting, NoFile
    <2>5. QED
        BY <1>5, <2>1, <2>2, <2>3, <2>4 DEF Fitting, Finishing, LastStep
<1>11. CASE SetPrivate(p)
    <2>1. at[p].point = "private" /\ UNCHANGED <<priv, pub, https, publickey, ready>>
        BY <1>11 DEF SetPrivate, pems, pages
    <2>2. publickey = 0 /\ p \in ready /\ https = pub /\ pub # 0
          /\ (priv # NoFile => priv = pub)
        BY <1>5, <2>1 DEF Fitting, LastStep, Finishing
    <2>3. privatekey' = https /\ at'[p].point = "publish"
        BY <1>4, <1>11, <2>2 DEF SetPrivate, Edited, Points
    <2>4. QED
        BY <1>5, <2>1, <2>2, <2>3 DEF Fitting, Finishing, LastStep
<1>12. CASE SetPublic(p)
    <2>1. at[p].point = "publish" /\ UNCHANGED <<priv, pub, https, privatekey>> /\ ready' \subseteq ready
        BY <1>12 DEF SetPublic, Reloads, pems
    <2>2. privatekey = pub /\ pub # 0 /\ p \in ready /\ (priv # NoFile => priv = pub)
        BY <1>5, <2>1 DEF Fitting, LastStep, Finishing
    <2>3. publickey' = pub /\ at'[p].point = "idle"
        BY <1>3, <1>12, <2>2 DEF SetPublic, Edited, Reloads
    <2>4. QED
        BY <1>5, <2>1, <2>2, <2>3 DEF Fitting, Finishing, LastStep
<1>13. QED
    BY <1>6, <1>7, <1>8, <1>9, <1>10, <1>11, <1>12 DEF Serve

(* A crash stops every handler, and takes the right to finish from all.    *)
LEMMA PairingStep == ASSUME IInv, Alone, Pairing, [Next]_vars PROVE Pairing'
<1> SUFFICES ASSUME ~crossed', ~torn' PROVE Fitting'
    BY DEF Pairing
<1>0. TypeAt
    BY TypeSplit DEF IInv
<1>1. ~crossed
    <2>1. ASSUME NEW p \in Page, Serve(p) PROVE crossed' = crossed
        BY <1>0, <2>1, OwnStep
    <2>2. QED
        BY <2>1 DEF Next, Crash, Load, Click, ClickDatabase, ClickRules, ClickUpload,
                    ClickCreateKey, ClickSetting, Request, Refused, vars, history, served
<1>2. ~torn
    <2>1. ASSUME NEW p \in Page, Serve(p) PROVE torn => torn'
        BY <2>1, Zenon DEF Serve, InsertConfig, InsertRules, Unzip, WritePrivate, WritePublic,
                    AddWhitelist, Rename, SetPrivate, SetPublic, Edited, history, served
    <2>2. QED
        BY <2>1 DEF Next, Crash, Load, Click, ClickDatabase, ClickRules, ClickUpload,
                    ClickCreateKey, ClickSetting, Request, Refused, vars, history, served
<1>3. Fitting
    BY <1>1, <1>2 DEF Pairing
<1>4. CASE Crash
    <2>1. UNCHANGED <<priv, pub, https, privatekey, publickey>> /\ ready' = {}
          /\ \A p \in Page : at'[p].point = "idle"
        BY <1>4 DEF Crash, pems, keys, Idle
    <2>2. QED
        BY <1>3, <2>1 DEF Fitting, Finishing, LastStep
<1>5. ASSUME NEW p \in Page, Load(p) PROVE Fitting'
    BY <1>3, <1>5, FittingStays DEF Load
<1>6. ASSUME NEW p \in Page, Click(p) PROVE Fitting'
    BY <1>3, <1>6, FittingClick
<1>7. ASSUME NEW p \in Page, Refused(p) PROVE Fitting'
    <2>1. Answer(p) /\ ready' = ready \ {p} /\ at[p].point = "idle" /\ UNCHANGED <<pems, keys>>
        BY <1>7 DEF Refused, Reloads
    <2>2. at'[p].point = "idle" /\ \A q \in Page \ {p} : at'[q] = at[q]
        BY <1>0, <2>1, Answered
    <2>3. QED
        BY <1>3, <2>1, <2>2, FittingStays DEF LastStep
<1>8. ASSUME NEW p \in Page, Serve(p) PROVE Fitting'
    <2>1. \A q \in Page \ {p} : at[q].point = "idle"
        BY <1>0, <1>1, <1>8, OwnStep DEF Alone
    <2>2. QED
        BY <1>2, <1>3, <1>8, <2>1, FittingServe
<1>9. CASE UNCHANGED vars
    BY <1>3, <1>9, FittingStays DEF vars, pages
<1>10. QED
    BY <1>4, <1>5, <1>6, <1>7, <1>8, <1>9 DEF Next

(* What the hosts check orders with is the other half of what the servers  *)
(* sign them with, through crashes between any two writes, retries, failed *)
(* queries and stale pages, for any number of them, unless requests were   *)
(* served at the same time or a key could not be written.                  *)
THEOREM PairsStayTogether == Spec => []KeysFit
<1>1. Init => Alone /\ Pairing
    BY DEF Init, Alone, Pairing, Fitting, Finishing, LastStep, Idle, NoFile
<1>2. IInv /\ Alone /\ Pairing /\ [Next]_vars => Alone' /\ Pairing'
    BY AloneStep, PairingStep
<1>3. Pairing => KeysFit
    BY DEF Pairing, Fitting, KeysFit
<1>4. QED
    BY <1>1, <1>2, <1>3, InitInv, NextInv, PTL DEF Spec
=============================================================================
