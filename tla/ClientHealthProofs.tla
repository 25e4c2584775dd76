------------------------- MODULE ClientHealthProofs -------------------------
(***************************************************************************)
(* The caches of the servers and the notices agree: a host is passed over  *)
(* only if it was told of, is about to be, or an insert about it failed.   *)
(***************************************************************************)
EXTENDS ClientHealth, TLAPS

\* A thread that pings or inserts does so for one host.
OneHost == \A s \in Server : turn[s].at \in {"ping", "insert"} => \E h \in Host : turn[s].of = {h}

HealthInv == TypeOK /\ OneHost /\ CachedWereTold

\* Both hold when the servers start.
LEMMA HealthInit == Init => HealthInv
BY HealthAssumption DEF Init, HealthInv, TypeOK, OneHost, CachedWereTold, Loop

\* A notice enters both histories.
LEMMA TellTypes ==
    ASSUME TypeOK, NEW h \in Host, Tell(h)
    PROVE  /\ told' \subseteq ever' /\ ever' \subseteq Host /\ lost' = lost
           /\ ever \subseteq ever' /\ h \in ever'
BY DEF TypeOK, Tell

Turn == [at : {"loop", "ping", "insert", "call"}, of : SUBSET Host]

\* Where a thread goes is its own.
LEMMA Gone ==
    ASSUME turn \in [Server -> Turn], NEW s \in Server,
           NEW point \in {"loop", "ping", "insert", "call"}, GoTo(s, point)
    PROVE  /\ turn' \in [Server -> Turn]
           /\ turn'[s].at = point /\ turn'[s].of = turn[s].of
           /\ \A t \in Server \ {s} : turn'[t] = turn[t]
BY DEF Turn, GoTo

LEMMA Passed ==
    ASSUME turn \in [Server -> Turn], NEW s \in Server, NextHost(s)
    PROVE  /\ turn' \in [Server -> Turn]
           /\ turn'[s].at = "loop" /\ turn'[s].of = {}
           /\ \A t \in Server \ {s} : turn'[t] = turn[t]
BY DEF Turn, NextHost, Loop

\* The start of a turn over a list of many hosts, with the one notice for all.
LEMMA MassKeeps ==
    ASSUME HealthInv, NEW s \in Server, NEW hosts \in SUBSET Host,
           turn[s].at = "loop", TellMass(s, hosts),
           todo' = [todo EXCEPT ![s] = hosts], list' = [list EXCEPT ![s] = hosts],
           many' = many \cup {s}, faults' \in 0..MaxFaults,
           UNCHANGED <<machine, client, cache, trash, dial, changes>>
    PROVE  HealthInv'
<1>1. /\ told' \subseteq ever' /\ ever' \subseteq Host /\ lost' = lost
      /\ ever \subseteq ever'
  BY TellTypes DEF TellMass, HealthInv, TypeOK, notices
<1>2. /\ turn' \in [Server -> Turn]
      /\ turn'[s].at \in {"loop", "call"}
      /\ \A t \in Server \ {s} : turn'[t] = turn[t]
  <2>1. turn \in [Server -> Turn]
    BY DEF HealthInv, TypeOK, Turn
  <2>2. QED
    BY <2>1, Gone DEF TellMass
<1>3. TypeOK'
  BY <1>1, <1>2 DEF HealthInv, TypeOK, Turn, machine, client
<1>4. OneHost'
  BY <1>2 DEF HealthInv, OneHost
<1>5. CachedWereTold'
  BY <1>1, <1>2 DEF HealthInv, CachedWereTold
<1>6. QED
  BY <1>3, <1>4, <1>5 DEF HealthInv

\* One step of a host, a handler or one of the threads.
LEMMA HealthStep == HealthInv /\ [Next]_vars => HealthInv'
<1> SUFFICES ASSUME HealthInv, [Next]_vars PROVE HealthInv'
  OBVIOUS
<1> USE HealthAssumption DEF HealthInv
<1>1. ASSUME NEW h \in Host, Change(h) PROVE HealthInv'
  BY <1>1 DEF Change, TypeOK, OneHost, CachedWereTold, client, offline
<1>2. ASSUME CrowdChanges PROVE HealthInv'
  BY <1>2 DEF CrowdChanges, TypeOK, OneHost, CachedWereTold, client, offline, notices
<1>3. ASSUME NEW h \in Host, GrowOld(h) \/ GrowAncient(h) PROVE HealthInv'
  BY <1>3 DEF GrowOld, GrowAncient, Age, TypeOK, OneHost, CachedWereTold, machine, offline, notices
<1>4. ASSUME NEW h \in Host, Save(h) PROVE HealthInv'
  BY <1>4 DEF Save, TypeOK, OneHost, CachedWereTold, machine, offline, notices
<1>5. ASSUME NEW h \in Host, SetHealthy(h) PROVE HealthInv'
  BY <1>5 DEF SetHealthy, TypeOK, OneHost, CachedWereTold, machine, offline, notices
<1>6. ASSUME NEW s \in Server, QueryOffline(s) PROVE HealthInv'
  <2>1. CASE crowd = "few"
    BY <1>6, <2>1 DEF QueryOffline, StartTurn, Silent, TypeOK, OneHost, CachedWereTold, machine, client, notices
  <2>2. CASE crowd # "few"
    <3>1. TellMass(s, Silent) /\ Silent \in SUBSET Host
      BY <1>6, <2>2 DEF QueryOffline, Silent
    <3>2. turn[s].at = "loop" /\ todo' = [todo EXCEPT ![s] = Silent]
          /\ list' = [list EXCEPT ![s] = Silent] /\ many' = many \cup {s} /\ faults' \in 0..MaxFaults
          /\ UNCHANGED <<machine, client, cache, trash, dial, changes>>
      BY <1>6, <2>2 DEF QueryOffline, StartTurn, TypeOK
    <3>3. QED
      BY <3>1, <3>2, MassKeeps
  <2>3. QED
    BY <2>1, <2>2
<1>7. ASSUME NEW s \in Server, QueryOfflineFails(s) PROVE HealthInv'
  <2>1. CASE s \notin many
    BY <1>7, <2>1 DEF QueryOfflineFails, StartTurn, Fault, TypeOK, OneHost, CachedWereTold, machine, client, notices
  <2>2. CASE s \in many
    <3>1. TellMass(s, list[s]) /\ list[s] \in SUBSET Host
      BY <1>7, <2>2 DEF QueryOfflineFails, TypeOK
    <3>2. turn[s].at = "loop" /\ todo' = [todo EXCEPT ![s] = list[s]]
          /\ list' = [list EXCEPT ![s] = list[s]] /\ many' = many \cup {s} /\ faults' \in 0..MaxFaults
          /\ UNCHANGED <<machine, client, cache, trash, dial, changes>>
      BY <1>7, <2>2 DEF QueryOfflineFails, StartTurn, Fault, TypeOK
    <3>3. QED
      BY <3>1, <3>2, MassKeeps
  <2>3. QED
    BY <2>1, <2>2
<1>8. ASSUME NEW s \in Server, NEW h \in todo[s], SetOffline(s, h) PROVE HealthInv'
  <2> h \in Host
    BY DEF TypeOK
  <2>1. health' \in [Host -> {"absent", "nil", "ok", "offline", "walled"}]
    BY <1>8 DEF SetOffline, ShowOffline, TypeOK
  <2>2. todo' \in [Server -> SUBSET Host] /\ \A t \in Server : todo'[t] \subseteq list[t]
    BY <1>8 DEF SetOffline, TypeOK
  <2>3. /\ turn' \in [Server -> [at : {"loop", "ping", "insert", "call"}, of : SUBSET Host]]
        /\ turn[s].at = "loop"
        /\ \A t \in Server \ {s} : turn'[t] = turn[t]
    BY <1>8 DEF SetOffline, TypeOK
  <2>4. UNCHANGED <<machine, age, saving, list, many, cache, trash, dial, notices, changes, faults>>
    BY <1>8 DEF SetOffline
  <2>5. TypeOK'
    BY <2>1, <2>2, <2>3, <2>4 DEF TypeOK, machine, notices
  <2>6. CachedWereTold'
    BY <2>3, <2>4 DEF CachedWereTold, notices
  <2>7. OneHost'
    <3>1. turn'[s].at = "loop" \/ turn'[s].of = {h}
      BY <1>8 DEF SetOffline, TypeOK
    <3>2. QED
      BY <2>3, <3>1 DEF OneHost
  <2>8. QED
    BY <2>5, <2>6, <2>7
<1>18. ASSUME NEW s \in Server, Ping(s) PROVE HealthInv'
  <2>1. PICK h \in turn[s].of :
           \/ /\ h \notin cache[s]
              /\ cache' = [cache EXCEPT ![s] = @ \cup {h}] /\ GoTo(s, "insert")
           \/ NextHost(s) /\ UNCHANGED cache
    BY <1>18 DEF Ping
  <2>2. UNCHANGED <<machine, client, list, many, todo, trash, dial, notices, changes, faults>>
        /\ turn[s].at = "ping"
    BY <1>18 DEF Ping
  <2>3. turn \in [Server -> Turn] /\ h \in Host
    BY <2>1 DEF TypeOK, Turn
  <2>4. turn[s].of = {h}
    BY <2>1, <2>2 DEF OneHost
  <2>5. CASE cache' = [cache EXCEPT ![s] = @ \cup {h}] /\ GoTo(s, "insert")
    <3>1. /\ turn' \in [Server -> Turn] /\ turn'[s].at = "insert" /\ turn'[s].of = {h}
          /\ \A t \in Server \ {s} : turn'[t] = turn[t]
      BY <2>3, <2>4, <2>5, Gone
    <3>2. cache' \in [Server -> SUBSET Host] /\ cache'[s] = cache[s] \cup {h}
          /\ \A t \in Server \ {s} : cache'[t] = cache[t]
      BY <2>3, <2>5 DEF TypeOK
    <3>3. TypeOK'
      BY <2>2, <3>1, <3>2 DEF TypeOK, Turn, machine, client, notices
    <3>4. OneHost'
      BY <2>3, <3>1 DEF OneHost
    <3>5. CachedWereTold'
      BY <2>2, <3>1, <3>2 DEF CachedWereTold, notices
    <3>6. QED
      BY <3>3, <3>4, <3>5
  <2>6. CASE NextHost(s) /\ UNCHANGED cache
    <3>1. /\ turn' \in [Server -> Turn] /\ turn'[s].at = "loop"
          /\ \A t \in Server \ {s} : turn'[t] = turn[t]
      BY <2>3, <2>6, Passed
    <3>2. TypeOK'
      BY <2>2, <2>6, <3>1 DEF TypeOK, Turn, machine, client, notices
    <3>3. OneHost'
      BY <3>1 DEF OneHost
    <3>4. CachedWereTold'
      BY <2>2, <2>6, <3>1 DEF CachedWereTold, notices
    <3>5. QED
      BY <3>2, <3>3, <3>4
  <2>7. QED
    BY <2>1, <2>5, <2>6
<1>19. ASSUME NEW s \in Server, InsertAbnormal(s) PROVE HealthInv'
  <2>1. PICK h \in turn[s].of :
         \/ Tell(h) /\ (GoTo(s, "call") \/ NextHost(s)) /\ UNCHANGED faults
         \/ Fault /\ lost' = lost \cup {h} /\ UNCHANGED <<told, ever>> /\ NextHost(s)
    BY <1>19 DEF InsertAbnormal
  <2>2. UNCHANGED <<machine, client, list, many, todo, cache, trash, dial, changes>>
        /\ turn[s].at = "insert"
    BY <1>19 DEF InsertAbnormal
  <2>3. turn \in [Server -> Turn] /\ h \in Host
    BY <2>1 DEF TypeOK, Turn
  <2>4. turn[s].of = {h}
    BY <2>1, <2>2 DEF OneHost
  <2>5. /\ told' \subseteq ever' /\ ever' \subseteq Host /\ lost' \subseteq Host
        /\ ever \subseteq ever' /\ lost \subseteq lost' /\ h \in ever' \cup lost'
        /\ faults' \in 0..MaxFaults
    BY <2>1, <2>3, TellTypes DEF Fault, TypeOK
  <2>6. /\ turn' \in [Server -> Turn] /\ turn'[s].at \in {"call", "loop"}
        /\ \A t \in Server \ {s} : turn'[t] = turn[t]
    BY <2>1, <2>3, Gone, Passed
  <2>7. TypeOK'
    BY <2>2, <2>5, <2>6 DEF TypeOK, Turn, machine, client
  <2>8. OneHost'
    BY <2>6 DEF OneHost
  <2>9. CachedWereTold'
    BY <2>2, <2>4, <2>5, <2>6 DEF CachedWereTold
  <2>10. QED
    BY <2>7, <2>8, <2>9
<1>20. ASSUME NEW s \in Server, SendNotice(s) PROVE HealthInv'
  BY <1>20 DEF SendNotice, NextHost, TypeOK, OneHost, CachedWereTold, Loop, machine, client, notices
<1>9. ASSUME NEW s \in Server, EmptyCache(s) PROVE HealthInv'
  BY <1>9 DEF EmptyCache, TypeOK, OneHost, CachedWereTold, machine, client, notices
<1>10. ASSUME NEW s \in Server, QueryClean(s) PROVE HealthInv'
  BY <1>10 DEF QueryClean, Ancient, TypeOK, OneHost, CachedWereTold, machine, client, offline, notices
<1>11. ASSUME NEW s \in Server, NEW h \in trash[s], Remove(s, h) PROVE HealthInv'
  BY <1>11 DEF Remove, TypeOK, OneHost, CachedWereTold, machine, offline, notices
<1>12. ASSUME NEW s \in Server, NEW hosts \in SUBSET Host, QueryFirewall(s, hosts) PROVE HealthInv'
  BY <1>12 DEF QueryFirewall, TypeOK, OneHost, CachedWereTold, machine, client, offline, notices
<1>13. ASSUME NEW s \in Server, NEW hosts \in SUBSET Host, QueryFirewallFails(s, hosts) PROVE HealthInv'
  BY <1>13 DEF QueryFirewallFails, Fault, TypeOK, OneHost, CachedWereTold, machine, client, offline, notices
<1>14. ASSUME NEW s \in Server, NEW h \in dial[s].todo, Dial(s, h) PROVE HealthInv'
  BY <1>14 DEF Dial, Dialled, TypeOK, OneHost, CachedWereTold, machine, offline, notices
<1>15. ASSUME NEW s \in Server, Restart(s) PROVE HealthInv'
  <2>1. /\ turn' = [turn EXCEPT ![s] = Loop] /\ cache' = [cache EXCEPT ![s] = {}]
        /\ UNCHANGED notices
    BY <1>15 DEF Restart
  <2>2. TypeOK'
    BY <1>15 DEF Restart, Fault, TypeOK, Loop, machine, notices
  <2>3. OneHost' /\ CachedWereTold'
    BY <2>1 DEF TypeOK, OneHost, CachedWereTold, Loop, notices
  <2>4. QED
    BY <2>2, <2>3
<1>16. ASSUME UNCHANGED vars PROVE HealthInv'
  BY <1>16 DEF vars, TypeOK, OneHost, CachedWereTold, machine, client, offline, notices
<1>17. QED
  BY <1>1, <1>2, <1>3, <1>4, <1>5, <1>6, <1>7, <1>8, <1>9, <1>10, <1>11, <1>12, <1>13, <1>14, <1>15, <1>16, <1>18, <1>19, <1>20
  DEF Next, Report, OfflineCheckThread, CleanThread, FirewallCheckThread

\* For any hosts, servers and faults: what health.go and save.go keep is what it
\* is declared for, and a turn never walks over a host that is not on its list.
THEOREM HealthTypes == Spec => []TypeOK
<1>1. HealthInv => TypeOK
  BY DEF HealthInv
<1>2. QED
  BY <1>1, HealthInit, HealthStep, PTL DEF Spec

\* For any hosts and servers, each with its own cache: a cached host was told of
\* or is about to be, unless an insert about it failed (health.go:87-98).
THEOREM CachesAreHonest == Spec => []CachedWereTold
<1>1. HealthInv => CachedWereTold
  BY DEF HealthInv
<1>2. QED
  BY <1>1, HealthInit, HealthStep, PTL DEF Spec
=============================================================================
