------------------------- MODULE AgentUplinkProofs -------------------------
(***************************************************************************)
(* Replacing the client loses nothing: while no fault happens every item   *)
(* the senders take is written to a connection that is there.              *)
(***************************************************************************)
EXTENDS AgentUplink, TLAPS

\* Who holds the mutex is where it lets him be, and nobody else is there.
Locking ==
    /\ \A p \in Sender : pc[p] = "write" <=> Mutex = p
    /\ Mutex = "refresh" <=> refresh \in {"close", "new"}

\* A sender that is to write has a copy of the current client, which is open.
Held == \A p \in Sender : holds[p] = IF pc[p] = "write" THEN "open" ELSE "none"

\* What a sender has in hand is its own, and no event that has not happened.
ItemsOf(p) == IF p = "info" THEN {"info"} \X (1..MaxContent) ELSE {"monitor"} \X (1..events)
Carried ==
    \A p \in Sender : IF pc[p] = "idle" THEN item[p] = NoItem ELSE item[p] \in ItemsOf(p)

\* Before the first fault all servers the agent may know run.
Intact ==
    faults = 0 =>
        /\ lost = {}
        /\ fresh \subseteq alive /\ known \subseteq alive /\ nodes \subseteq alive
        /\ \A s \in Server : link[s] # "broken"

UplinkInv == TypeOK /\ Locking /\ Held /\ Carried /\ Intact

\* The two goroutines that send (agent.go:84-87).
LEMMA Senders == Sender = {"info", "monitor"}
BY DEF Sender

\* The state before the first server and the agent start.
LEMMA UplinkInit == Init => UplinkInv
<1> SUFFICES ASSUME Init PROVE UplinkInv
  OBVIOUS
<1> USE UplinkAssumption
<1>1. TypeOK
  BY DEF Init, TypeOK, NoLinks, Sender, NoItem
<1>2. Locking /\ Held /\ Carried
  BY DEF Init, Locking, Held, Carried, Sender, NoItem
<1>3. Intact
  BY DEF Init, Intact, NoLinks
<1>4. QED
  BY <1>1, <1>2, <1>3 DEF UplinkInv

\* One step of a server, the network, the host or one of the goroutines.
LEMMA UplinkStep == UplinkInv /\ [Next]_vars => UplinkInv'
<1> SUFFICES ASSUME UplinkInv, [Next]_vars PROVE UplinkInv'
  OBVIOUS
<1> USE UplinkAssumption DEF UplinkInv
<1>1. ASSUME NEW s \in Server, Register(s) PROVE UplinkInv'
  BY <1>1 DEF Register, TypeOK, Locking, Held, Carried, ItemsOf, Intact, conn, ticker, sender, host, net
<1>2. ASSUME NEW s \in Server, Expire(s) PROVE UplinkInv'
  BY <1>2 DEF Expire, TypeOK, Locking, Held, Carried, ItemsOf, Intact, conn, ticker, sender, host, net
<1>3. ASSUME NEW s \in Server, ServerStarts(s) PROVE UplinkInv'
  BY <1>3 DEF ServerStarts, TypeOK, Locking, Held, Carried, ItemsOf, Intact, conn, ticker, sender, host, net
<1>4. ASSUME NEW s \in Server, ServerDies(s) PROVE UplinkInv'
  BY <1>4 DEF ServerDies, Fault, Cut, Unreceived, TypeOK, Locking, Held, Carried, ItemsOf, Intact, conn, ticker, sender, host, net
<1>5. ASSUME NEW s \in Server, LinkBreaks(s) PROVE UplinkInv'
  BY <1>5 DEF LinkBreaks, Fault, Cut, Unreceived, TypeOK, Locking, Held, Carried, ItemsOf, Intact, servers, conn, ticker, sender, host, net
<1>6. ASSUME NEW s \in Server, AgentStarts(s) PROVE UplinkInv'
  BY <1>6 DEF AgentStarts, GetAliveServerList, NoLinks, Fault, TypeOK, Locking, Held, Carried, ItemsOf, Intact, servers, sender, host, net
<1>7. ASSUME NEW s \in Server, Tick(s) PROVE UplinkInv'
  BY <1>7 DEF Tick, Refresh, TypeOK, Locking, Held, Carried, ItemsOf, Intact, servers, conn, sender, host, net
<1>8. ASSUME NEW f \in flight, PutInfo(f) PROVE UplinkInv'
  BY <1>8 DEF PutInfo, TypeOK, Locking, Held, Carried, ItemsOf, Intact, servers, conn, ticker, sender, host
<1>9. ASSUME ConfigChanges PROVE UplinkInv'
  BY <1>9 DEF ConfigChanges, TypeOK, Locking, Held, Carried, ItemsOf, Intact, conn, ticker, sender, host, net
<1>10. ASSUME ListChanges PROVE UplinkInv'
  BY <1>10 DEF ListChanges, TypeOK, Locking, Held, Carried, ItemsOf, Intact, servers, conn, ticker, sender, net
<1>11. ASSUME AgentDies PROVE UplinkInv'
  <2>1. lost' \subseteq Item
    <3>1. \A p \in Sender : pc[p] # "idle" => item[p] \in Item
      BY Senders DEF Carried, ItemsOf, Item, TypeOK
    <3>2. lost' = lost \cup {item[p] : p \in {q \in Sender : pc[q] # "idle"}}
      BY <1>11 DEF AgentDies
    <3>3. QED
      BY <3>1, <3>2 DEF TypeOK
  <2>2. TypeOK'
    BY <1>11, <2>1 DEF AgentDies, Blank, Fault, NoLinks, NoItem, TypeOK, servers, host
  <2>3. Locking' /\ Held'
    BY <1>11, Senders DEF AgentDies, Blank, Locking, Held, servers, host
  <2>4. Carried'
    BY <1>11, Senders DEF AgentDies, Blank, TypeOK, Carried, host
  <2>5. Intact'
    BY <1>11 DEF AgentDies, Fault, TypeOK, Intact
  <2>6. QED
    BY <2>2, <2>3, <2>4, <2>5
<1>12. ASSUME NEW s \in target, Answer(s) PROVE UplinkInv'
  BY <1>12 DEF Answer, Reconnect, Refresh, Fault, TypeOK, Locking, Held, Carried, ItemsOf, Intact, servers, sender, host, net
<1>13. ASSUME NEW s \in target, NoAnswer(s) PROVE UplinkInv'
  BY <1>13 DEF NoAnswer, Refresh, TypeOK, Locking, Held, Carried, ItemsOf, Intact, servers, sender, host, net
<1>14. ASSUME NEW s \in target, SlowAnswer(s) PROVE UplinkInv'
  BY <1>14 DEF SlowAnswer, Reconnect, Refresh, Fault, TypeOK, Locking, Held, Carried, ItemsOf, Intact, servers, sender, host, net
<1>15. ASSUME NEW v \in late, LateAnswer(v) PROVE UplinkInv'
  BY <1>15 DEF LateAnswer, TypeOK, Locking, Held, Carried, ItemsOf, Intact, servers, conn, sender, host, net
<1>16. ASSUME Fetch PROVE UplinkInv'
  BY <1>16 DEF Fetch, GetAliveServerList, Refresh, TypeOK, Locking, Held, Carried, ItemsOf, Intact, servers, sender, host, net
<1>17. ASSUME FetchFails PROVE UplinkInv'
  BY <1>17 DEF FetchFails, Refresh, Fault, TypeOK, Locking, Held, Carried, ItemsOf, Intact, servers, conn, sender, host, net
<1>18. ASSUME ResetLock PROVE UplinkInv'
  BY <1>18, Senders DEF ResetLock, Refresh, TypeOK, Locking, Held, Carried, ItemsOf, Intact, servers, conn, host, net
<1>19. ASSUME Close PROVE UplinkInv'
  BY <1>19, Senders DEF Close, Refresh, NoLinks, TypeOK, Locking, Held, Carried, ItemsOf, Intact, servers, host, net
<1>20. ASSUME NewClient PROVE UplinkInv'
  BY <1>20, Senders DEF NewClient, Refresh, TypeOK, Locking, Held, Carried, ItemsOf, Intact, servers, host, net
<1>21. ASSUME GetInfo PROVE UplinkInv'
  BY <1>21, Senders DEF GetInfo, Move, TypeOK, Item, Locking, Held, Carried, ItemsOf, Intact, servers, conn, ticker, host, net
<1>22. ASSUME Monitor PROVE UplinkInv'
  BY <1>22, Senders DEF Monitor, Move, TypeOK, Item, Locking, Held, Carried, ItemsOf, Intact, servers, conn, ticker, net
<1>23. ASSUME NEW p \in Sender, Lock(p) PROVE UplinkInv'
  BY <1>23, Senders DEF Lock, Move, TypeOK, Locking, Held, Carried, ItemsOf, Intact, servers, conn, ticker, host, net
<1>24. ASSUME NEW p \in Sender, NEW s \in Server, Write(p, s) PROVE UplinkInv'
  BY <1>24, Senders DEF Write, Move, TypeOK, Item, Locking, Held, Carried, ItemsOf, Intact, servers, ticker, host
<1>25. ASSUME UNCHANGED vars PROVE UplinkInv'
  BY <1>25 DEF vars, TypeOK, Locking, Held, Carried, ItemsOf, Intact, servers, conn, ticker, sender, host, net
<1>26. QED
  BY <1>1, <1>2, <1>3, <1>4, <1>5, <1>6, <1>7, <1>8, <1>9, <1>10, <1>11, <1>12, <1>13, <1>14, <1>15,
     <1>16, <1>17, <1>18, <1>19, <1>20, <1>21, <1>22, <1>23, <1>24, <1>25
  DEF Next, AwaitAnswer, Replace, Send

\* The parts above hold in every state the agent and the servers get to; the
\* mutex excludes the senders and the refresh from each other (agent.go:27).
THEOREM UplinkInvariant == Spec => []UplinkInv
<1>1. Init => UplinkInv
  BY UplinkInit
<1>2. UplinkInv /\ [Next]_vars => UplinkInv'
  BY UplinkStep
<1>3. QED
  BY <1>1, <1>2, PTL DEF Spec

\* For any servers, versions, events and faults: every variable of the agent and
\* of the network keeps to what it is declared for (agent.go:25-40).
THEOREM UplinkTypes == Spec => []TypeOK
<1>1. UplinkInv => TypeOK
  BY DEF UplinkInv
<1>2. QED
  BY <1>1, UplinkInvariant, PTL

\* However the list of servers changes, configRefresh closes no client that a
\* put is about to use: data are lost only to a fault (agent.go:212, 311-316).
THEOREM ReplacingLosesNothing == Spec => []ResetLosesNothing
<1>1. UplinkInv => ResetLosesNothing
  BY DEF UplinkInv, Intact, ResetLosesNothing
<1>2. QED
  BY <1>1, UplinkInvariant, PTL
=============================================================================
