-------------------------- MODULE TaskTargetsProofs --------------------------
(***************************************************************************)
(* For any set of addresses, any ranges and any length of the list: no     *)
(* task reaches a host its list does not stand for, and a precise list is  *)
(* carried out, whatever else fails, but where its own query or insert did.*)
(* The loop over HostList is a chain of steps, so both are inductive       *)
(* invariants of it; what the list operators return is stated place by     *)
(* place in lemmas.                                                        *)
(***************************************************************************)
EXTENDS TaskTargets, FiniteSetTheorems, SequenceTheorems, TLAPS

-----------------------------------------------------------------------------
(* Lists *)

\* A set of natural numbers that is not empty has a least element: intervals are
\* finite, and finite sets are well ordered by inclusion.
LEMMA LeastNatural ==
  ASSUME NEW I \in SUBSET Nat, I # {}
  PROVE  \E m \in I : \A n \in I : m <= n
  <1> DEFINE T == {0..n : n \in I}
  <1>1. T \subseteq FiniteSubsetsOf(Nat)
    <2> SUFFICES ASSUME NEW n \in I PROVE 0..n \in FiniteSubsetsOf(Nat)
      OBVIOUS
    <2>1. n \in Nat /\ 0 \in Int /\ n \in Int
      OBVIOUS
    <2>2. IsFiniteSet(0..n)
      BY <2>1, FS_Interval
    <2>3. 0..n \subseteq Nat
      OBVIOUS
    <2> QED BY <2>2, <2>3 DEF FiniteSubsetsOf
  <1>2. T # {}
    OBVIOUS
  <1>3. IsWellFoundedOn(StrictSubsetOrdering(Nat), FiniteSubsetsOf(Nat))
    BY FS_StrictSubsetOrderingWellFounded
  <1> HIDE DEF T
  <1>4. PICK x \in T : \A y \in T : ~ (<<y, x>> \in StrictSubsetOrdering(Nat))
    BY <1>1, <1>2, <1>3, WFMin
  <1>5. PICK m \in I : x = 0..m
    BY DEF T
  <1>6. ASSUME NEW n \in I, ~(m <= n) PROVE FALSE
    <2>1. 0..n \in T
      BY DEF T
    <2>2. /\ 0..n \subseteq 0..m /\ m \in 0..m /\ m \notin 0..n
          /\ 0..n \subseteq Nat /\ 0..m \subseteq Nat
      BY <1>6
    <2>3. <<0..n, 0..m>> \in StrictSubsetOrdering(Nat)
      BY <2>2 DEF StrictSubsetOrdering
    <2> QED BY <1>4, <1>5, <2>1, <2>3
  <1> QED BY <1>6

\* RemoveFirst takes one place of the element out and moves the rest up.
LEMMA RemoveFirstIs ==
  ASSUME NEW S, NEW s \in Seq(S), NEW e, Contains(s, e)
  PROVE  \E k \in 1..Len(s) :
            /\ s[k] = e
            /\ RemoveFirst(s, e) \in Seq(S)
            /\ Len(RemoveFirst(s, e)) = Len(s) - 1
            /\ \A i \in 1..(Len(s) - 1) : RemoveFirst(s, e)[i] = IF i < k THEN s[i] ELSE s[i + 1]
  <1> DEFINE I == {i \in 1..Len(s) : s[i] = e}
             k == Min(I)
  <1>0. I # {} /\ I \in SUBSET Nat
    BY DEF Contains
  <1>1. \E m \in I : \A n \in I : m <= n
    BY <1>0, LeastNatural
  <1>2. k \in I
    BY <1>1 DEF Min
  <1>3. RemoveFirst(s, e) = SubSeq(s, 1, k - 1) \o SubSeq(s, k + 1, Len(s))
    BY <1>0 DEF RemoveFirst, RemoveAt, SelectInSeq
  <1>4. k \in 1..Len(s) /\ s[k] = e
    BY <1>2
  <1> HIDE DEF k, I
  <1>5. /\ SubSeq(s, 1, k - 1) \in Seq(S) /\ Len(SubSeq(s, 1, k - 1)) = k - 1
        /\ \A i \in 1..(k - 1) : SubSeq(s, 1, k - 1)[i] = s[i]
    BY <1>4
  <1>6. /\ SubSeq(s, k + 1, Len(s)) \in Seq(S) /\ Len(SubSeq(s, k + 1, Len(s))) = Len(s) - k
        /\ \A i \in 1..(Len(s) - k) : SubSeq(s, k + 1, Len(s))[i] = s[i + k]
    BY <1>4
  <1> DEFINE a == SubSeq(s, 1, k - 1)
             b == SubSeq(s, k + 1, Len(s))
  <1>7. /\ a \o b \in Seq(S) /\ Len(a \o b) = Len(s) - 1
        /\ \A i \in 1..(Len(s) - 1) : (a \o b)[i] = IF i < k THEN s[i] ELSE s[i + 1]
    <2>1. a \in Seq(S) /\ b \in Seq(S)
      BY <1>5, <1>6
    <2>2. /\ a \o b \in Seq(S) /\ Len(a \o b) = Len(a) + Len(b)
          /\ \A i \in 1 .. Len(a) + Len(b) :
                (a \o b)[i] = IF i <= Len(a) THEN a[i] ELSE b[i - Len(a)]
      BY <2>1, ConcatProperties
    <2>3. /\ Len(a) = k - 1 /\ Len(b) = Len(s) - k /\ Len(s) \in Nat
          /\ \A i \in 1..(k - 1) : a[i] = s[i]
          /\ \A i \in 1..(Len(s) - k) : b[i] = s[i + k]
      BY <1>5, <1>6
    <2> HIDE DEF a, b
    <2> QED BY <1>4, <2>2, <2>3
  <1> QED BY <1>3, <1>4, <1>7

-----------------------------------------------------------------------------
(* What the entries stand for *)

\* No two entries of the list are equal or stand for a common address.
Parted(list) ==
    \A m, n \in 1..Len(list) :
        m # n => list[m] # list[n] /\ Meant(list[m]) \cap Meant(list[n]) = {}
\* What the entries of the list stand for.
CoverOf(list) == UNION {Meant(list[n]) : n \in 1..Len(list)}

\* A request is a finite sequence.
LEMMA BoundedIsSeq ==
  ASSUME NEW S, NEW n \in Nat, NEW s \in BoundedSeq(S, n)
  PROVE  s \in Seq(S)
  BY DEF BoundedSeq, SeqOf

\* The addresses a query of clientdb.Distinct can answer with.
Matching(name, failing) ==
    IF name \in failing THEN {} ELSE {a \in Addresses : client[a] \in Filter(name)}

\* A list of the addresses of A, each of them once.
Listing(ips, A) ==
    /\ ips \in Seq({Ip(a) : a \in A})
    /\ \A m, n \in 1..Len(ips) : m # n => ips[m] # ips[n]
    /\ \A a \in A : \E n \in 1..Len(ips) : ips[n] = Ip(a)

\* clientdb.Distinct returns each of them, once.
LEMMA DistinctIs ==
  ASSUME NEW name, NEW failing, NEW ips \in Distinct(name, failing)
  PROVE  Listing(ips, Matching(name, failing))
  <1>1. CASE name \in failing
    BY <1>1 DEF Distinct, Matching, Listing
  <1>2. CASE name \notin failing
    <2> DEFINE A == {a \in Addresses : client[a] \in Filter(name)}
               S == {Ip(a) : a \in A}
               f == [a \in A |-> Ip(a)]
    <2>1. IsFiniteSet(A)
      BY TaskTargetsAssumption, FS_Subset
    <2>2. f \in Surjection(A, S)
      BY DEF Surjection
    <2>3. IsFiniteSet(S)
      BY <2>1, <2>2, FS_Surjection
    <2> DEFINE N == Cardinality(S)
    <2>4. N \in Nat
      BY <2>3, FS_CardinalityType
    <2>5. ips \in [1..N -> S] /\ \A i, j \in 1..N : i # j => ips[i] # ips[j]
      BY <1>2 DEF Distinct, SetToSeqs
    <2>6. S = {Ip(a) : a \in A}
      OBVIOUS
    <2> HIDE DEF N, S
    <2>7. ips \in Seq(S) /\ Len(ips) = N
      BY <2>4, <2>5
    <2>8. ips \in Injection(1..N, S)
      BY <2>5 DEF Injection, IsInjective
    <2>9. Cardinality(1..N) = N
      BY <2>4, FS_Interval
    <2>10. ips \in Surjection(1..N, S)
      BY <2>3, <2>8, <2>9, FS_Injection DEF N
    <2>11. ASSUME NEW a \in A PROVE \E n \in 1..Len(ips) : ips[n] = Ip(a)
      BY <2>6, <2>7, <2>10 DEF Surjection
    <2> QED BY <1>2, <2>5, <2>6, <2>7, <2>11 DEF Matching, Listing
  <1> QED BY <1>1, <1>2

\* The list stands for nothing the request does not.
Sound(list) == \A n \in 1..Len(list) : Meant(list[n]) \subseteq Targets

\* What an address and a tag stand for (docs/help.md), and that the code's
\* expansions of "all", "windows" and "linux" are what the list says.
LEMMA EntryMeant ==
  /\ \A a \in Addresses : Ip(a) \in Entries /\ Meant(Ip(a)) = {a}
  /\ \A name \in {"windows", "linux"} :
        /\ Tag(name) \in Entries
        /\ Meant(Tag(name)) = {a \in Addresses : client[a] \in Filter(name)}
  /\ client \in [Addresses -> Systems] =>
        Meant(Tag("all")) = {a \in Addresses : client[a] \in Filter("all")}
  <1>1. ASSUME NEW a \in Addresses PROVE Ip(a) \in Entries /\ Meant(Ip(a)) = {a}
    <2>1. a \in Int
      BY TaskTargetsAssumption
    <2>2. Meant(Ip(a)) = a..a
      BY DEF Meant, Ip, Entry, Systems
    <2> QED BY <2>1, <2>2 DEF Entries
  <1>2. ASSUME NEW name \in {"windows", "linux"}
        PROVE  /\ Tag(name) \in Entries
               /\ Meant(Tag(name)) = {a \in Addresses : client[a] \in Filter(name)}
    BY DEF Entries, Tags, Meant, Tag, Entry, Systems, Filter
  <1>3. ASSUME client \in [Addresses -> Systems]
        PROVE  Meant(Tag("all")) = {a \in Addresses : client[a] \in Filter("all")}
    BY <1>3 DEF Meant, Tag, Entry, Systems, Filter
  <1> QED BY <1>1, <1>2, <1>3

\* What ExpandTag makes of a list with the tag: the tag at k is gone, and the p
\* addresses of A come at the end, each of them once.
Expanded(list, A, name, out, k, p) ==
    LET top == Len(list) - 1
    IN  /\ list[k] = Tag(name)
        /\ out \in Seq(Entries) /\ Len(out) = top + p
        /\ \A i \in 1..top : out[i] = IF i < k THEN list[i] ELSE list[i + 1]
        /\ \A i \in top+1..top+p : \E a \in A : out[i] = Ip(a)
        /\ \A i, j \in top+1..top+p : i # j => out[i] # out[j]
        /\ \A a \in A : \E i \in top+1..top+p : out[i] = Ip(a)

\* ExpandTag on a list that has the tag, place by place.
LEMMA ExpandTagIs ==
  ASSUME NEW list \in Seq(Entries), NEW name \in {"windows", "linux"},
         Contains(list, Tag(name)), NEW failing, NEW out \in ExpandTag(list, name, failing)
  PROVE  \E k \in 1..Len(list), p \in Nat :
            Expanded(list, Matching(name, failing), name, out, k, p)
  <1> DEFINE A == Matching(name, failing)
             t == RemoveFirst(list, Tag(name))
             top == Len(list) - 1
  <1>1. PICK ips \in Distinct(name, failing) : out = t \o ips
    BY DEF ExpandTag
  <1>2. /\ ips \in Seq({Ip(a) : a \in A})
        /\ \A m, n \in 1..Len(ips) : m # n => ips[m] # ips[n]
        /\ \A a \in A : \E n \in 1..Len(ips) : ips[n] = Ip(a)
    <2>1. Listing(ips, A)
      BY DistinctIs, Zenon
    <2> QED BY <2>1, Zenon DEF Listing
  <1>3. PICK k \in 1..Len(list) :
            /\ list[k] = Tag(name)
            /\ t \in Seq(Entries) /\ Len(t) = Len(list) - 1
            /\ \A i \in 1..(Len(list) - 1) : t[i] = IF i < k THEN list[i] ELSE list[i + 1]
    BY RemoveFirstIs
  <1> DEFINE p == Len(ips)
  <1>4. {Ip(a) : a \in A} \subseteq Entries
    BY DEF Entries, Matching
  <1>5. ips \in Seq(Entries) /\ p \in Nat /\ Len(list) \in Nat /\ top \in Nat
        /\ \A n \in 1..p : \E a \in A : ips[n] = Ip(a)
    <2>1. Len(list) \in Nat /\ Len(list) - 1 \in Nat
      BY <1>3
    <2>2. \A S : ips \in Seq(S) => \A n \in 1..Len(ips) : ips[n] \in S
      OBVIOUS
    <2>3. \A n \in 1..p : \E a \in A : ips[n] = Ip(a)
      BY <2>2, <1>2
    <2>4. \A S : ips \in Seq(S) /\ S \subseteq Entries => ips \in Seq(Entries)
      OBVIOUS
    <2> QED BY <2>1, <2>3, <2>4, <1>2, <1>4
  <1> HIDE DEF A, t
  <1>6. /\ out \in Seq(Entries) /\ Len(out) = Len(t) + Len(ips)
        /\ \A i \in 1..Len(t) + Len(ips) : out[i] = IF i <= Len(t) THEN t[i] ELSE ips[i - Len(t)]
    BY <1>1, <1>3, <1>5, ConcatProperties
  <1>7. ASSUME NEW i \in top+1..top+p
        PROVE  i - top \in 1..p /\ out[i] = ips[i - top]
    <2>1. i - top \in 1..p /\ i \in 1..top+p /\ ~(i <= top)
      BY <1>5
    <2>2. Len(t) = top /\ Len(ips) = p
      BY <1>3
    <2> QED BY <1>6, <2>1, <2>2
  <1>8. ASSUME NEW i \in 1..top PROVE out[i] = IF i < k THEN list[i] ELSE list[i + 1]
    <2>1. i \in 1..(Len(list) - 1) /\ i \in 1..Len(t) + Len(ips) /\ i <= Len(t)
      BY <1>3, <1>5
    <2> QED BY <1>3, <1>6, <2>1
  <1>9. \A i \in top+1..top+p : \E a \in A : out[i] = Ip(a)
    BY <1>5, <1>7
  <1>10. ASSUME NEW i \in top+1..top+p, NEW j \in top+1..top+p, i # j
         PROVE  out[i] # out[j]
    <2>1. i - top # j - top
      BY <1>5, <1>10
    <2> QED BY <1>2, <1>7, <2>1
  <1>11. ASSUME NEW a \in A PROVE \E i \in top+1..top+p : out[i] = Ip(a)
    <2>1. PICK n \in 1..p : ips[n] = Ip(a)
      BY <1>2
    <2>2. n + top \in top+1..top+p /\ (n + top) - top = n
      BY <1>5
    <2> QED BY <2>1, <2>2, <1>7
  <1>12. Len(out) = top + p
    BY <1>3, <1>6
  <1> QED BY <1>3, <1>5, <1>6, <1>8, <1>9, <1>10, <1>11, <1>12 DEF A, Expanded

\* Expanding a tag adds no address the list did not stand for.
LEMMA ExpandTagSound ==
  ASSUME NEW list \in Seq(Entries), NEW name \in {"windows", "linux"}, Sound(list),
         NEW failing, NEW out \in ExpandTag(list, name, failing)
  PROVE  out \in Seq(Entries) /\ Sound(out)
  <1>1. CASE ~ Contains(list, Tag(name))
    BY <1>1 DEF ExpandTag
  <1>2. CASE Contains(list, Tag(name))
    <2> DEFINE A == Matching(name, failing)
               top == Len(list) - 1
    <2>0. PICK k \in 1..Len(list), p \in Nat : Expanded(list, A, name, out, k, p)
      BY <1>2, ExpandTagIs
    <2>1. /\ list[k] = Tag(name)
          /\ out \in Seq(Entries) /\ Len(out) = top + p
          /\ \A i \in 1..top : out[i] = IF i < k THEN list[i] ELSE list[i + 1]
          /\ \A i \in top+1..top+p : \E a \in A : out[i] = Ip(a)
      BY <2>0 DEF Expanded
    <2>2. A \subseteq Targets
      BY <2>1, EntryMeant DEF Sound, Matching
    <2>3. ASSUME NEW i \in 1..Len(out) PROVE Meant(out[i]) \subseteq Targets
      <3>1. CASE i \in 1..top
        <4>1. i \in 1..Len(list) /\ i + 1 \in 1..Len(list)
          BY <3>1
        <4> QED BY <4>1, <3>1, <2>1 DEF Sound
      <3>2. CASE i \in top+1..top+p
        <4>1. PICK a \in A : out[i] = Ip(a)
          BY <2>1, <3>2
        <4>2. a \in Addresses
          BY DEF Matching
        <4> QED BY <4>1, <4>2, <2>2, EntryMeant
      <3> QED BY <2>1, <3>1, <3>2
    <2> QED BY <2>1, <2>3 DEF Sound
  <1> QED BY <1>1, <1>2

-----------------------------------------------------------------------------
(* No stranger *)

\* What a queue document may hold.
Hosts == Entries \cup {Ip(a) : a \in Int}

\* The types, and that nothing is queued before the expansion.
Shapes ==
    /\ request \in Seq(Entries) /\ client \in [Addresses -> Systems]
    /\ hostList \in Seq(Entries) /\ addedLst \subseteq Entries
    /\ queue \in Seq(Hosts) /\ subs \in Seq(Hosts)
    /\ pc \in {"expand", "loop", "saved", "panic"}
    /\ pc = "expand" => hostList = request /\ addedLst = {} /\ queue = <<>> /\ subs = <<>>

\* The addresses in the list are targets.
NoneStrange(q) == \A n \in 1..Len(q) : q[n].kind = "ip" => q[n].lo \in Targets

\* The inductive form of NoStranger: what is to come is sound, too.
Kept ==
    /\ Sound(hostList)
    /\ NoneStrange(subs) /\ NoneStrange(queue)

\* The forms an entry has.
LEMMA EntryKinds ==
  ASSUME NEW e \in Entries
  PROVE  /\ e.lo \in Int /\ e.hi \in Int
         /\ e.kind = "ip" => e.hi = e.lo /\ Meant(e) = {e.lo}
         /\ e.kind = "range" => Meant(e) = e.lo..e.hi
         /\ e.kind \in {"ip", "range", "all", "windows", "linux", "malformed"}
         /\ e.kind = "malformed" <=> e = Malformed
  <1>1. CASE \E a \in Addresses : e = Ip(a)
    <2>1. PICK a \in Addresses : e = Ip(a)
      BY <1>1
    <2>2. a \in Int
      BY TaskTargetsAssumption
    <2>3. e.kind = "ip" /\ e.lo = a /\ e.hi = a
      BY <2>1 DEF Ip, Entry
    <2>4. Meant(e) = {e.lo}
      BY <2>1, <2>3, EntryMeant
    <2> QED BY <2>2, <2>3, <2>4 DEF Malformed, Tag, Entry
  <1>2. CASE \E r \in Ranges : e = Entry("range", r[1], r[2])
    <2>1. PICK r \in Ranges : e = Entry("range", r[1], r[2])
      BY <1>2
    <2>2. r[1] \in Int /\ r[2] \in Int
      BY TaskTargetsAssumption
    <2>3. e.kind = "range" /\ e.lo = r[1] /\ e.hi = r[2]
      BY <2>1 DEF Entry
    <2>4. Meant(e) = e.lo..e.hi
      BY <2>3 DEF Meant, Systems
    <2> QED BY <2>2, <2>3, <2>4 DEF Malformed, Tag, Entry
  <1>3. CASE e \in {Tag(name) : name \in Tags} \cup {Malformed}
    BY <1>3 DEF Tags, Malformed, Tag, Entry
  <1> QED BY <1>1, <1>2, <1>3 DEF Entries

\* BetweenIP counts from the first address to the last.
LEMMA BetweenIPIs ==
  ASSUME NEW lo \in Int, NEW hi \in Int
  PROVE  LET s == BetweenIP(lo, hi)
             n == IF hi > lo THEN hi - lo + 1 ELSE 0
         IN  /\ n \in Nat /\ s \in Seq(Int) /\ Len(s) = n /\ DOMAIN s = 1..n
             /\ \A i \in 1..n : s[i] = lo + i - 1
  BY DEF BetweenIP

\* The invariant holds of a task just posted.
LEMMA InitShapes == Init => Shapes /\ Kept
  <1> SUFFICES ASSUME Init PROVE Shapes /\ Kept
    OBVIOUS
  <1>1. request \in Seq(Entries)
    BY TaskTargetsAssumption, BoundedIsSeq DEF Init
  <1>2. Shapes
    BY <1>1 DEF Init, Shapes
  <1>3. Sound(hostList)
    BY <1>1 DEF Init, Sound, Targets, ToSet
  <1> QED BY <1>2, <1>3 DEF Kept, Init, NoneStrange

\* "all" is replaced by addresses it stands for.
LEMMA AllSound ==
  ASSUME Shapes, Kept, Contains(request, Tag("all")), NEW failing,
         NEW all \in Distinct("all", failing)
  PROVE  all \in Seq(Entries) /\ Sound(all)
  <1> DEFINE A == Matching("all", failing)
  <1>1. A \subseteq Targets
    <2>1. PICK i \in 1..Len(request) : request[i] = Tag("all")
      BY DEF Contains
    <2>2. A \subseteq Meant(Tag("all"))
      BY EntryMeant DEF Shapes, Matching
    <2> QED BY <2>1, <2>2 DEF Targets, ToSet, Shapes
  <1>2. all \in Seq({Ip(a) : a \in A})
    <2>1. Listing(all, A)
      BY DistinctIs, Zenon
    <2> QED BY <2>1, Zenon DEF Listing
  <1>3. \A a \in A : Ip(a) \in Entries /\ Meant(Ip(a)) \subseteq Targets
    BY <1>1, EntryMeant DEF Matching
  <1> HIDE DEF A
  <1>4. \A n \in 1..Len(all) : \E a \in A : all[n] = Ip(a)
    <2>1. \A S : all \in Seq(S) => \A n \in 1..Len(all) : all[n] \in S
      OBVIOUS
    <2> QED BY <1>2, <2>1
  <1>5. all \in Seq(Entries)
    <2>1. \A S : all \in Seq(S) /\ S \subseteq Entries => all \in Seq(Entries)
      OBVIOUS
    <2> QED BY <1>2, <1>3, <2>1
  <1> QED BY <1>3, <1>4, <1>5 DEF Sound

\* Every list Expand can leave consists of entries the request stands for.
LEMMA ExpandSound ==
  ASSUME Shapes, Kept, Expand
  PROVE  hostList' \in Seq(Entries) /\ Sound(hostList')
  <1>0. request \in Seq(Entries) /\ Sound(request)
    BY DEF Shapes, Sound, Targets, ToSet
  <1> DEFINE h == hostList'
             failing == unasked'
  <1>1. PICK all \in IF Contains(request, Tag("all")) THEN Distinct("all", failing)
                                                      ELSE {request} :
          \E win \in ExpandTag(all, "windows", failing) : h \in ExpandTag(win, "linux", failing)
    BY DEF Expand
  <1> HIDE DEF h, failing
  <1>2. all \in Seq(Entries) /\ Sound(all)
    BY <1>0, <1>1, AllSound
  <1>3. PICK win \in ExpandTag(all, "windows", failing) : h \in ExpandTag(win, "linux", failing)
    BY <1>1
  <1>4. win \in Seq(Entries) /\ Sound(win)
    BY <1>2, ExpandTagSound
  <1>5. h \in Seq(Entries) /\ Sound(h)
    BY <1>3, <1>4, ExpandTagSound
  <1> QED BY <1>5 DEF h

\* What an entry puts into the queue, place by place.
LEMMA IpsIs ==
  ASSUME NEW e \in Entries, e # Malformed
  PROVE  /\ Ips(e) \in Seq(Hosts)
         /\ e.kind # "range" => Ips(e) = <<e>>
         /\ e.kind = "range" =>
              /\ Len(Ips(e)) = IF e.hi > e.lo THEN e.hi - e.lo + 1 ELSE 0
              /\ \A n \in 1..Len(Ips(e)) : Ips(e)[n] = Ip(e.lo + n - 1)
  <1>1. CASE e.kind # "range"
    BY <1>1 DEF Ips, Hosts
  <1>2. CASE e.kind = "range"
    <2> DEFINE ips == BetweenIP(e.lo, e.hi)
               m == IF e.hi > e.lo THEN e.hi - e.lo + 1 ELSE 0
    <2>1. e.lo \in Int /\ e.hi \in Int
      BY EntryKinds
    <2>2. m \in Nat /\ DOMAIN ips = 1..m /\ \A i \in 1..m : ips[i] = e.lo + i - 1
      BY <2>1, BetweenIPIs
    <2>3. Ips(e) = [n \in DOMAIN ips |-> Ip(ips[n])]
      BY <1>2 DEF Ips
    <2> HIDE DEF ips
    <2>4. Ips(e) = [n \in 1..m |-> Ip(e.lo + n - 1)]
      BY <2>2, <2>3
    <2>5. \A n \in 1..m : Ip(e.lo + n - 1) \in Hosts
      BY <2>1, <2>2 DEF Hosts
    <2> HIDE DEF m
    <2>6. Ips(e) \in Seq(Hosts) /\ Len(Ips(e)) = m
      BY <2>2, <2>4, <2>5
    <2> QED BY <1>2, <2>2, <2>4, <2>6 DEF m
  <1> QED BY <1>1, <1>2

\* What one turn of the loop does, by the entry it takes.
LEMMA TurnIs ==
  ASSUME Shapes, Turn
  PROVE  LET e == Head(hostList) IN
         /\ pc = "loop" /\ subs = <<>> /\ hostList # <<>> /\ e \in Entries
         /\ Len(hostList) \in Nat /\ Len(hostList) > 0 /\ e = hostList[1]
         /\ hostList' \in Seq(Entries) /\ Len(hostList') = Len(hostList) - 1
         /\ \A n \in 1..(Len(hostList) - 1) : hostList'[n] = hostList[n + 1]
         /\ request' = request /\ client' = client /\ queue' = queue
         /\ unasked' = unasked /\ lost' = lost
         /\ e \in addedLst \/ e = Malformed => subs' = <<>>
         /\ e \notin addedLst /\ e # Malformed => pc' = "loop" /\ subs' = Ips(e)
         /\ pc' \in {"loop", "saved", "panic"}
         /\ addedLst' \subseteq addedLst \cup {e}
  <1> DEFINE e == Head(hostList)
  <1>1. /\ pc = "loop" /\ subs = <<>> /\ hostList # <<>>
        /\ request' = request /\ client' = client /\ queue' = queue
        /\ unasked' = unasked /\ lost' = lost
        /\ hostList' = Tail(hostList) /\ hostList \in Seq(Entries)
    BY DEF Turn, Shapes
  <1>2. /\ Len(hostList) \in Nat /\ Len(hostList) > 0 /\ e = hostList[1] /\ e \in Entries
        /\ hostList' \in Seq(Entries) /\ Len(hostList') = Len(hostList) - 1
        /\ \A n \in 1..(Len(hostList) - 1) : hostList'[n] = hostList[n + 1]
    BY <1>1
  <1>3. \/ e \in addedLst /\ pc' = "saved" /\ addedLst' = addedLst /\ subs' = <<>>
        \/ e \notin addedLst /\ e = Malformed /\ pc' = "panic" /\ addedLst' = addedLst /\ subs' = <<>>
        \/ /\ e \notin addedLst /\ e # Malformed
           /\ pc' = "loop"
           /\ subs' = Ips(e)
           /\ addedLst' = IF Ips(e) = <<>> THEN addedLst ELSE addedLst \cup {e}
    BY <1>1 DEF Turn
  <1> HIDE DEF e
  <1> QED BY <1>1, <1>2, <1>3 DEF e

\* The addresses an entry gives are those it stands for.
LEMMA IpsKept ==
  ASSUME NEW e \in Entries, e # Malformed, Meant(e) \subseteq Targets
  PROVE  NoneStrange(Ips(e))
  <1> DEFINE s == Ips(e)
  <1>1. s \in Seq(Hosts)
    BY IpsIs
  <1>2. CASE e.kind # "range"
    <2>1. s = <<e>>
      BY <1>2, IpsIs
    <2>2. e.kind = "ip" => e.lo \in Targets
      BY EntryKinds
    <2> QED BY <2>1, <2>2 DEF NoneStrange
  <1>3. CASE e.kind = "range"
    <2>1. /\ e.lo \in Int /\ e.hi \in Int /\ Meant(e) = e.lo..e.hi
          /\ Len(s) = IF e.hi > e.lo THEN e.hi - e.lo + 1 ELSE 0
          /\ \A n \in 1..Len(s) : s[n] = Ip(e.lo + n - 1)
      BY <1>3, EntryKinds, IpsIs
    <2> HIDE DEF s
    <2>2. ASSUME NEW n \in 1..Len(s) PROVE s[n].lo \in Targets
      <3>1. e.lo + n - 1 \in e.lo..e.hi
        BY <2>1
      <3>2. s[n].lo = e.lo + n - 1
        <4>1. \A x : Ip(x).lo = x
          BY DEF Ip, Entry
        <4>2. s[n] = Ip(e.lo + n - 1)
          BY <2>1
        <4> QED BY <4>1, <4>2
      <3> QED BY <2>1, <3>1, <3>2
    <2> QED BY <2>2 DEF NoneStrange, s
  <1> QED BY <1>2, <1>3

\* A turn sets out to queue addresses the request stands for, and no other.
LEMMA TurnKept ==
  ASSUME Shapes, Kept, Turn
  PROVE  Shapes' /\ Kept'
  <1> DEFINE e == Head(hostList)
  <1>1. /\ pc = "loop" /\ hostList # <<>> /\ e \in Entries
        /\ Len(hostList) \in Nat /\ Len(hostList) > 0 /\ e = hostList[1]
        /\ hostList' \in Seq(Entries) /\ Len(hostList') = Len(hostList) - 1
        /\ \A n \in 1..(Len(hostList) - 1) : hostList'[n] = hostList[n + 1]
        /\ request' = request /\ client' = client /\ queue' = queue
        /\ e \in addedLst \/ e = Malformed => subs' = <<>>
        /\ e \notin addedLst /\ e # Malformed => subs' = Ips(e)
        /\ pc' \in {"loop", "saved", "panic"}
        /\ addedLst' \subseteq addedLst \cup {e}
    BY TurnIs
  <1> HIDE DEF e
  <1>2. Targets' = Targets
    BY <1>1 DEF Targets, Meant
  <1>3. \A n \in 1..Len(hostList') : Meant(hostList'[n]) \subseteq Targets
    <2> SUFFICES ASSUME NEW n \in 1..Len(hostList') PROVE Meant(hostList'[n]) \subseteq Targets
      OBVIOUS
    <2>1. n \in 1..(Len(hostList) - 1) /\ n + 1 \in 1..Len(hostList)
      BY <1>1
    <2> QED BY <1>1, <2>1 DEF Kept, Sound
  <1>4. Sound(hostList)'
    BY <1>2, <1>3, <1>1 DEF Sound, Meant
  <1> DEFINE s == subs'
  <1>5. s \in Seq(Hosts) /\ NoneStrange(s)
    <2>1. CASE e \in addedLst \/ e = Malformed
      <3>1. s = <<>>
        BY <1>1, <2>1
      <3>2. <<>> \in Seq(Hosts) /\ NoneStrange(<<>>)
        BY DEF NoneStrange
      <3> QED BY <3>1, <3>2
    <2>2. CASE e \notin addedLst /\ e # Malformed
      <3>1. Meant(e) \subseteq Targets
        BY <1>1 DEF Kept, Sound
      <3>2. s = Ips(e)
        BY <1>1, <2>2
      <3> HIDE DEF s
      <3> QED BY <1>1, <2>2, <3>1, <3>2, IpsIs, IpsKept
    <2> QED BY <2>1, <2>2
  <1>6. Shapes'
    BY <1>1, <1>5 DEF Shapes
  <1>7. NoneStrange(subs)' /\ NoneStrange(queue)'
    BY <1>1, <1>2, <1>5 DEF NoneStrange, Kept
  <1> QED BY <1>4, <1>6, <1>7 DEF Kept

\* addQueue takes the first address that is left, and queues it or loses it.
LEMMA AddQueueIs ==
  ASSUME Shapes, AddQueue
  PROVE  /\ pc = "loop" /\ Len(subs) \in Nat /\ Len(subs) > 0
         /\ Head(subs) = subs[1] /\ subs[1] \in Hosts
         /\ subs' \in Seq(Hosts) /\ Len(subs') = Len(subs) - 1
         /\ \A n \in 1..(Len(subs) - 1) : subs'[n] = subs[n + 1]
         /\ queue' \in Seq(Hosts)
         /\ \/ queue' = Append(queue, subs[1])
            \/ queue' = queue /\ subs[1].lo \in lost'
         /\ lost \subseteq lost' /\ lost' \subseteq lost \cup {subs[1].lo}
         /\ request' = request /\ client' = client /\ hostList' = hostList
         /\ addedLst' = addedLst /\ unasked' = unasked /\ pc' = pc
  <1>1. /\ pc = "loop" /\ subs # <<>> /\ subs' = Tail(subs)
        /\ subs \in Seq(Hosts) /\ queue \in Seq(Hosts)
        /\ request' = request /\ client' = client /\ hostList' = hostList
        /\ addedLst' = addedLst /\ unasked' = unasked /\ pc' = pc
    BY DEF AddQueue, Shapes
  <1>2. /\ Len(subs) \in Nat /\ Len(subs) > 0 /\ Head(subs) = subs[1] /\ subs[1] \in Hosts
        /\ subs' \in Seq(Hosts) /\ Len(subs') = Len(subs) - 1
        /\ \A n \in 1..(Len(subs) - 1) : subs'[n] = subs[n + 1]
    BY <1>1
  <1> DEFINE x == Head(subs)
  <1>3. /\ \/ queue' = Append(queue, x)
           \/ queue' = queue /\ x.lo \in lost'
        /\ lost \subseteq lost' /\ lost' \subseteq lost \cup {x.lo}
    BY DEF AddQueue
  <1> HIDE DEF x
  <1>4. x = subs[1]
    BY <1>2 DEF x
  <1>5. queue' \in Seq(Hosts)
    BY <1>1, <1>2, <1>3, <1>4
  <1> QED BY <1>1, <1>2, <1>3, <1>4, <1>5

\* addQueue queues nothing but what it was called with.
LEMMA AddQueueKept ==
  ASSUME Shapes, Kept, AddQueue
  PROVE  Shapes' /\ Kept'
  <1>1. /\ pc = "loop" /\ Len(subs) \in Nat /\ Len(subs) > 0
        /\ subs' \in Seq(Hosts) /\ Len(subs') = Len(subs) - 1
        /\ \A n \in 1..(Len(subs) - 1) : subs'[n] = subs[n + 1]
        /\ queue' \in Seq(Hosts)
        /\ queue' = Append(queue, subs[1]) \/ queue' = queue
        /\ request' = request /\ client' = client /\ hostList' = hostList
        /\ addedLst' = addedLst /\ pc' = pc
    BY AddQueueIs
  <1>2. Shapes'
    BY <1>1 DEF Shapes
  <1>3. Targets' = Targets /\ Sound(hostList)'
    BY <1>1 DEF Targets, Meant, Kept, Sound
  <1>4. ASSUME NEW n \in 1..Len(subs'), subs'[n].kind = "ip" PROVE subs'[n].lo \in Targets
    <2>1. n \in 1..(Len(subs) - 1) /\ n + 1 \in 1..Len(subs)
      BY <1>1
    <2> QED BY <1>1, <1>4, <2>1 DEF Kept, NoneStrange
  <1>5. ASSUME NEW n \in 1..Len(queue'), queue'[n].kind = "ip" PROVE queue'[n].lo \in Targets
    <2>1. CASE queue' = queue
      BY <1>5, <2>1 DEF Kept, NoneStrange
    <2>2. CASE queue' = Append(queue, subs[1])
      <3>1. queue \in Seq(Hosts) /\ 1 \in 1..Len(subs)
        BY <1>1 DEF Shapes
      <3>2. (n \in 1..Len(queue) /\ queue'[n] = queue[n]) \/ queue'[n] = subs[1]
        BY <2>2, <3>1
      <3> QED BY <1>5, <3>1, <3>2 DEF Kept, NoneStrange
    <2> QED BY <1>1, <2>1, <2>2
  <1>6. NoneStrange(subs)' /\ NoneStrange(queue)'
    BY <1>3, <1>4, <1>5 DEF NoneStrange
  <1> QED BY <1>2, <1>3, <1>6 DEF Kept

\* Every step keeps the types and what the lists stand for.
LEMMA StepShapes ==
  ASSUME Shapes, Kept, [Next]_vars
  PROVE  Shapes' /\ Kept'
  <1>1. CASE Expand
    <2>1. hostList' \in Seq(Entries) /\ Sound(hostList')
      BY <1>1, ExpandSound
    <2>2. /\ request' = request /\ client' = client
          /\ queue' = queue /\ subs' = subs /\ addedLst' = addedLst /\ pc' = "loop"
      BY <1>1 DEF Expand
    <2>3. Shapes'
      BY <2>1, <2>2 DEF Shapes
    <2>4. Kept'
      BY <2>1, <2>2 DEF Kept, NoneStrange, Sound, Meant, Targets
    <2> QED BY <2>3, <2>4
  <1>2. CASE Turn
    BY <1>2, TurnKept
  <1>3. CASE EndLoop
    BY <1>3 DEF EndLoop, Shapes, Kept, NoneStrange, Sound, Meant, Targets
  <1>4. CASE AddQueue
    BY <1>4, AddQueueKept
  <1>5. CASE UNCHANGED vars
    BY <1>5 DEF vars, Shapes, Kept, NoneStrange, Sound, Meant, Targets
  <1> QED BY <1>1, <1>2, <1>3, <1>4, <1>5 DEF Next

\* No task reaches a host the operator's list does not stand for (Task.Save,
\* BetweenIP), for any addresses, ranges, clients and length of the list.
THEOREM Strangers == Spec => []NoStranger
  <1>1. Shapes /\ Kept => NoStranger
    BY DEF Shapes, Kept, NoneStrange, NoStranger, ToSet
  <1> QED BY <1>1, InitShapes, StepShapes, PTL DEF Spec

-----------------------------------------------------------------------------
(* Precise lists *)

\* Well-formed entries, with no tag but those of a set.
Tidy(list, tags) ==
    \A n \in 1..Len(list) :
        /\ list[n].kind \in {"ip", "range"} \cup tags
        /\ list[n].kind = "range" => list[n].lo # list[n].hi

\* What the tags stand for whose query fails.
MissedFor(failing) == UNION {Meant(Tag(name)) : name \in failing}

\* A tag is known by its kind.
LEMMA TagKind ==
  ASSUME NEW e \in Entries, NEW name \in {"windows", "linux"}
  PROVE  e.kind = name <=> e = Tag(name)
  BY DEF Entries, Tags, Malformed, Tag, Ip, Entry

\* In a list of disjoint entries, expanding a tag keeps them disjoint and keeps
\* what they stand for, but for the tag's if its query fails, and the tag is gone.
LEMMA ExpandTagExact ==
  ASSUME NEW list \in Seq(Entries), NEW name \in {"windows", "linux"}, NEW tags,
         Tidy(list, tags), Parted(list),
         NEW failing, NEW out \in ExpandTag(list, name, failing)
  PROVE  /\ out \in Seq(Entries)
         /\ Tidy(out, tags \ {name}) /\ Parted(out) /\ CoverOf(out) \subseteq CoverOf(list)
         /\ CoverOf(list) \subseteq CoverOf(out) \cup MissedFor(failing)
  <1>1. CASE ~ Contains(list, Tag(name))
    <2>1. out = list
      BY <1>1 DEF ExpandTag
    <2>2. ASSUME NEW n \in 1..Len(list) PROVE list[n].kind # name
      <3>1. list[n] \in Entries /\ list[n] # Tag(name)
        BY <1>1 DEF Contains
      <3> QED BY <3>1, TagKind
    <2>3. Tidy(out, tags \ {name})
      BY <2>1, <2>2 DEF Tidy
    <2> QED BY <2>1, <2>3
  <1>2. CASE Contains(list, Tag(name))
    <2> DEFINE A == Matching(name, failing)
               top == Len(list) - 1
    <2>1. PICK k \in 1..Len(list), p \in Nat : Expanded(list, A, name, out, k, p)
      BY <1>2, ExpandTagIs
    <2> DEFINE at(i) == IF i < k THEN i ELSE i + 1
    <2>2. /\ list[k] = Tag(name) /\ Len(list) \in Nat
          /\ out \in Seq(Entries) /\ Len(out) = top + p
          /\ \A i \in 1..top : out[i] = IF i < k THEN list[i] ELSE list[i + 1]
          /\ \A i \in top+1..top+p : \E a \in A : out[i] = Ip(a)
          /\ \A i, j \in top+1..top+p : i # j => out[i] # out[j]
          /\ \A a \in A : \E i \in top+1..top+p : out[i] = Ip(a)
      <3>1. Len(list) \in Nat
        OBVIOUS
      <3> HIDE DEF A, at
      <3>2. /\ list[k] = Tag(name)
            /\ out \in Seq(Entries) /\ Len(out) = top + p
            /\ \A i \in 1..top : out[i] = IF i < k THEN list[i] ELSE list[i + 1]
        BY <2>1 DEF Expanded
      <3>3. /\ \A i \in top+1..top+p : \E a \in A : out[i] = Ip(a)
            /\ \A i, j \in top+1..top+p : i # j => out[i] # out[j]
        BY <2>1 DEF Expanded
      <3>4. \A a \in A : \E i \in top+1..top+p : out[i] = Ip(a)
        BY <2>1 DEF Expanded
      <3> QED BY <3>1, <3>2, <3>3, <3>4
    <2>3. ASSUME NEW i \in 1..top
          PROVE  /\ at(i) \in 1..Len(list) /\ at(i) # k /\ out[i] = list[at(i)]
                 /\ out[i] \in Entries
                 /\ \A j \in 1..top : i # j => at(i) # at(j)
      <3>1. /\ at(i) \in 1..Len(list) /\ at(i) # k
            /\ \A j \in 1..top : i # j => at(i) # at(j)
        BY <2>2
      <3>2. out[i] = list[at(i)]
        BY <2>2
      <3> QED BY <3>1, <3>2
    <2> HIDE DEF at
    <2>4. /\ A \subseteq Meant(list[k])
          /\ Meant(list[k]) \subseteq A \/ Meant(list[k]) \subseteq MissedFor(failing)
          /\ A \subseteq Addresses
      BY <2>2, EntryMeant DEF Matching, MissedFor
    <2>5. ASSUME NEW i \in 1..top
          PROVE  Meant(out[i]) \cap A = {} /\ out[i] # Tag(name)
      <3>1. list[at(i)] # list[k] /\ Meant(list[at(i)]) \cap Meant(list[k]) = {}
        BY <2>3 DEF Parted
      <3>2. out[i] = list[at(i)]
        BY <2>3
      <3>3. list[k] = Tag(name)
        BY <2>2
      <3> HIDE DEF A
      <3> QED BY <3>1, <3>2, <3>3, <2>4
    <2>6. ASSUME NEW i \in top+1..top+p
          PROVE  \E a \in A : out[i] = Ip(a) /\ Meant(out[i]) = {a}
      <3>1. PICK a \in A : out[i] = Ip(a)
        BY <2>2
      <3>2. a \in Addresses
        BY DEF Matching
      <3>3. Meant(Ip(a)) = {a}
        BY <3>2, EntryMeant
      <3> HIDE DEF A
      <3> QED BY <3>1, <3>3
    <2> HIDE DEF A
    <2>7. ASSUME NEW i \in 1..Len(out) PROVE i \in 1..top \/ i \in top+1..top+p
      BY <2>2
    <2> HIDE DEF top
    <2>8. Tidy(out, tags \ {name})
      <3> SUFFICES ASSUME NEW n \in 1..Len(out)
                   PROVE  /\ out[n].kind \in {"ip", "range"} \cup (tags \ {name})
                          /\ out[n].kind = "range" => out[n].lo # out[n].hi
        BY DEF Tidy
      <3>1. CASE n \in 1..top
        <4>1. out[n].kind # name
          BY <3>1, <2>3, <2>5, TagKind
        <4> QED BY <3>1, <4>1, <2>3 DEF Tidy
      <3>2. CASE n \in top+1..top+p
        <4>1. \A a : Ip(a).kind = "ip"
          BY DEF Ip, Entry
        <4> QED BY <3>2, <4>1, <2>6
      <3> QED BY <2>7, <3>1, <3>2
    <2>9. Parted(out)
      <3> SUFFICES ASSUME NEW m \in 1..Len(out), NEW n \in 1..Len(out), m # n
                   PROVE  out[m] # out[n] /\ Meant(out[m]) \cap Meant(out[n]) = {}
        BY DEF Parted
      <3>1. CASE m \in 1..top /\ n \in 1..top
        BY <3>1, <2>3 DEF Parted
      <3>2. CASE m \in 1..top /\ n \in top+1..top+p
        BY <3>2, <2>5, <2>6
      <3>3. CASE m \in top+1..top+p /\ n \in 1..top
        BY <3>3, <2>5, <2>6
      <3>4. CASE m \in top+1..top+p /\ n \in top+1..top+p
        <4>1. PICK a \in A : out[m] = Ip(a) /\ Meant(out[m]) = {a}
          BY <3>4, <2>6
        <4>2. PICK b \in A : out[n] = Ip(b) /\ Meant(out[n]) = {b}
          BY <3>4, <2>6
        <4>3. out[m] # out[n]
          BY <3>4, <2>2
        <4> QED BY <4>1, <4>2, <4>3
      <3> QED BY <2>7, <3>1, <3>2, <3>3, <3>4
    <2>10. CoverOf(out) \subseteq CoverOf(list)
      <3> SUFFICES ASSUME NEW n \in 1..Len(out) PROVE Meant(out[n]) \subseteq CoverOf(list)
        BY DEF CoverOf
      <3>1. CASE n \in 1..top
        BY <3>1, <2>3 DEF CoverOf
      <3>2. CASE n \in top+1..top+p
        <4>1. PICK a \in A : out[n] = Ip(a) /\ Meant(out[n]) = {a}
          BY <3>2, <2>6
        <4>2. a \in Meant(list[k])
          BY <2>4
        <4> QED BY <4>1, <4>2 DEF CoverOf
      <3> QED BY <2>7, <3>1, <3>2
    <2>11. CoverOf(list) \subseteq CoverOf(out) \cup MissedFor(failing)
      <3> SUFFICES ASSUME NEW n \in 1..Len(list)
                   PROVE  Meant(list[n]) \subseteq CoverOf(out) \cup MissedFor(failing)
        BY DEF CoverOf
      <3>1. CASE n = k
        <4>1. ASSUME NEW a \in A PROVE a \in CoverOf(out)
          <5>1. PICK i \in top+1..top+p : out[i] = Ip(a)
            BY <2>2
          <5>2. a \in Meant(out[i])
            BY <5>1, <2>4, EntryMeant
          <5>3. i \in 1..Len(out)
            BY <5>1, <2>2 DEF top
          <5> QED BY <5>2, <5>3 DEF CoverOf
        <4> QED BY <3>1, <4>1, <2>4
      <3>2. CASE n # k
        <4>1. PICK i \in 1..top : at(i) = n
          <5>1. CASE n < k
            <6>1. n \in 1..top /\ at(n) = n
              BY <5>1, <2>2 DEF at, top
            <6> QED BY <6>1
          <5>2. CASE n > k
            <6>1. n - 1 \in 1..top /\ at(n - 1) = n
              BY <5>2, <2>2 DEF at, top
            <6> QED BY <6>1
          <5> QED BY <3>2, <5>1, <5>2, <2>2
        <4>2. i \in 1..Len(out)
          BY <2>2 DEF top
        <4>3. out[i] = list[n]
          BY <2>3, <4>1
        <4> QED BY <4>2, <4>3 DEF CoverOf
      <3> QED BY <3>1, <3>2
    <2> QED BY <2>2, <2>8, <2>9, <2>10, <2>11
  <1> QED BY <1>1, <1>2

\* The addresses of a queue.
LoOf(q) == {q[n].lo : n \in 1..Len(q)}
\* No address is twice in the queue.
Once(q) == \A m, n \in 1..Len(q) : m # n => q[m].lo # q[n].lo

\* The queue, what the turn has left and the rest of the list share the targets
\* between them, all but those of a set; the loop has met nothing of the rest, so
\* it will not break before the end.
Course(list, rest, q, added, away) ==
    /\ Tidy(list, {}) /\ Parted(list)
    /\ LoOf(q) \cup LoOf(rest) \cup CoverOf(list) \subseteq Targets
    /\ Targets \subseteq LoOf(q) \cup LoOf(rest) \cup CoverOf(list) \cup away
    /\ LoOf(q) \cap CoverOf(list) = {} /\ LoOf(q) \cap LoOf(rest) = {}
    /\ LoOf(rest) \cap CoverOf(list) = {}
    /\ Once(q) /\ Once(rest)
    /\ \A n \in 1..Len(list) : list[n] \notin added
OnCourse == Course(hostList, subs, queue, addedLst, lost \cup MissedFor(unasked))

\* The inductive form of PreciseListDone.
Exact ==
    PreciseList =>
        /\ pc # "panic"
        /\ pc = "saved" => hostList = <<>> /\ subs = <<>>
        /\ pc # "expand" => OnCourse

\* A well-formed entry puts each address it stands for into the queue, once.
LEMMA IpsExact ==
  ASSUME NEW e \in Entries, e.kind \in {"ip", "range"}, e.kind = "range" => e.lo # e.hi
  PROVE  Ips(e) \in Seq(Hosts) /\ LoOf(Ips(e)) = Meant(e) /\ Once(Ips(e))
  <1> DEFINE s == Ips(e)
  <1>1. e # Malformed /\ e.lo \in Int /\ e.hi \in Int /\ s \in Seq(Hosts)
    BY EntryKinds, IpsIs DEF Malformed, Tag, Entry
  <1>2. CASE e.kind = "ip"
    <2>1. s = <<e>> /\ Meant(e) = {e.lo}
      BY <1>1, <1>2, EntryKinds, IpsIs
    <2>2. Len(s) = 1 /\ s[1] = e
      BY <2>1
    <2> HIDE DEF s
    <2>3. \A n \in 1..Len(s) : n = 1
      BY <2>2
    <2>4. LoOf(s) = {e.lo}
      BY <2>2, <2>3 DEF LoOf
    <2> QED BY <1>1, <2>1, <2>3, <2>4 DEF Once, s
  <1>3. CASE e.kind = "range"
    <2>1. /\ Meant(e) = e.lo..e.hi
          /\ Len(s) = IF e.hi > e.lo THEN e.hi - e.lo + 1 ELSE 0
          /\ \A n \in 1..Len(s) : s[n] = Ip(e.lo + n - 1)
      BY <1>1, <1>3, EntryKinds, IpsIs
    <2>2. \A x : Ip(x).lo = x
      BY DEF Ip, Entry
    <2> HIDE DEF s
    <2>3. \A n \in 1..Len(s) : s[n].lo = e.lo + n - 1
      BY <2>1, <2>2
    <2>4. Len(s) \in Nat
      BY <1>1
    <2>5. ASSUME NEW a \in e.lo..e.hi PROVE a \in LoOf(s)
      <3>1. a - e.lo + 1 \in 1..Len(s) /\ e.lo + (a - e.lo + 1) - 1 = a
        BY <1>1, <1>3, <2>1
      <3> QED BY <2>3, <3>1 DEF LoOf
    <2>6. ASSUME NEW n \in 1..Len(s) PROVE s[n].lo \in e.lo..e.hi
      BY <1>1, <2>1, <2>3
    <2>7. LoOf(s) = Meant(e)
      BY <2>1, <2>5, <2>6 DEF LoOf
    <2>8. Once(s)
      BY <1>1, <2>3, <2>4 DEF Once
    <2> QED BY <1>1, <2>7, <2>8 DEF s
  <1> QED BY <1>2, <1>3

\* What a precise list gives the expansion.
LEMMA PreciseRequest ==
  ASSUME Shapes, PreciseList
  PROVE  /\ Tidy(request, {"windows", "linux"}) /\ Parted(request)
         /\ CoverOf(request) = Targets /\ ~ Contains(request, Tag("all"))
  <1>1. request \in Seq(Entries) /\ DOMAIN request = 1..Len(request)
    BY DEF Shapes
  <1>2. ASSUME NEW n \in 1..Len(request)
        PROVE  /\ request[n].kind \in {"ip", "range", "windows", "linux"}
               /\ request[n].kind = "range" => request[n].lo # request[n].hi
               /\ request[n] # Tag("all")
    <2>1. /\ request[n] \in Entries /\ request[n] # Malformed /\ request[n].kind # "all"
          /\ request[n].kind = "range" => request[n].lo # request[n].hi
      BY <1>1 DEF PreciseList, ToSet
    <2>2. Tag("all").kind = "all"
      BY DEF Tag, Entry
    <2> QED BY <2>1, <2>2, EntryKinds
  <1>3. Tidy(request, {"windows", "linux"})
    BY <1>2 DEF Tidy
  <1>4. Parted(request)
    BY <1>1 DEF PreciseList, Parted
  <1>5. CoverOf(request) = Targets
    BY <1>1 DEF CoverOf, Targets, ToSet
  <1> QED BY <1>2, <1>3, <1>4, <1>5 DEF Contains

\* The expansion of a precise list has disjoint entries and the same targets, but
\* for those of a tag whose query fails.
LEMMA ExpandExact ==
  ASSUME Shapes, PreciseList, Expand
  PROVE  /\ Tidy(hostList', {}) /\ Parted(hostList') /\ CoverOf(hostList') \subseteq Targets
         /\ Targets \subseteq CoverOf(hostList') \cup MissedFor(unasked')
  <1> DEFINE h == hostList'
             failing == unasked'
  <1>1. PICK win \in ExpandTag(request, "windows", failing) : h \in ExpandTag(win, "linux", failing)
    BY PreciseRequest DEF Expand
  <1> HIDE DEF h, failing
  <1> DEFINE tags == {"windows", "linux"} \ {"windows"}
  <1>2. /\ win \in Seq(Entries) /\ Tidy(win, tags)
        /\ Parted(win) /\ CoverOf(win) \subseteq Targets
        /\ Targets \subseteq CoverOf(win) \cup MissedFor(failing)
    BY PreciseRequest, ExpandTagExact DEF Shapes
  <1>3. tags \ {"linux"} = {}
    OBVIOUS
  <1> HIDE DEF tags
  <1>4. /\ Tidy(h, tags \ {"linux"})
        /\ Parted(h) /\ CoverOf(h) \subseteq CoverOf(win)
        /\ CoverOf(win) \subseteq CoverOf(h) \cup MissedFor(failing)
    BY <1>1, <1>2, ExpandTagExact
  <1> QED BY <1>2, <1>3, <1>4 DEF h, failing

\* A turn moves what its entry stands for from the list to what is left to queue.
LEMMA TurnExact ==
  ASSUME Shapes, NEW away, Course(hostList, <<>>, queue, addedLst, away), Turn
  PROVE  pc' = "loop" /\ Course(hostList', subs', queue, addedLst', away)
  <1> DEFINE e == Head(hostList)
             h == hostList'
             s == subs'
  <1>1. /\ e \in Entries /\ Len(hostList) \in Nat /\ Len(hostList) > 0 /\ e = hostList[1]
        /\ h \in Seq(Entries) /\ Len(h) = Len(hostList) - 1
        /\ \A n \in 1..(Len(hostList) - 1) : h[n] = hostList[n + 1]
        /\ e \notin addedLst /\ e # Malformed => pc' = "loop" /\ s = Ips(e)
        /\ addedLst' \subseteq addedLst \cup {e}
    BY TurnIs
  <1>2. 1 \in 1..Len(hostList)
    BY <1>1
  <1>3. e \notin addedLst /\ e.kind \in {"ip", "range"} /\ (e.kind = "range" => e.lo # e.hi)
    BY <1>1, <1>2 DEF Course, Tidy
  <1>4. e # Malformed
    BY <1>3 DEF Malformed, Tag, Entry
  <1>5. pc' = "loop" /\ s = Ips(e)
    BY <1>1, <1>3, <1>4
  <1> HIDE DEF h, s, e
  <1>6. s \in Seq(Hosts) /\ LoOf(s) = Meant(e) /\ Once(s)
    BY <1>1, <1>3, <1>5, IpsExact
  <1>7. ASSUME NEW n \in 1..Len(h)
        PROVE  /\ n + 1 \in 1..Len(hostList) /\ h[n] = hostList[n + 1]
               /\ h[n] # e /\ Meant(h[n]) \cap Meant(e) = {}
    <2>1. n + 1 \in 1..Len(hostList) /\ h[n] = hostList[n + 1] /\ n + 1 # 1
      BY <1>1
    <2> QED BY <1>1, <1>2, <2>1 DEF Course, Parted
  <1>8. Tidy(h, {})
    BY <1>7 DEF Course, Tidy
  <1>9. Parted(h)
    <2> SUFFICES ASSUME NEW m \in 1..Len(h), NEW n \in 1..Len(h), m # n
                 PROVE  h[m] # h[n] /\ Meant(h[m]) \cap Meant(h[n]) = {}
      BY DEF Parted
    <2>1. m + 1 # n + 1
      BY <1>1
    <2> QED BY <1>7, <2>1 DEF Course, Parted
  <1>10. CoverOf(hostList) = Meant(e) \cup CoverOf(h) /\ Meant(e) \cap CoverOf(h) = {}
    <2>1. Meant(e) \cap CoverOf(h) = {}
      BY <1>7 DEF CoverOf
    <2>2. Meant(e) \cup CoverOf(h) \subseteq CoverOf(hostList)
      BY <1>1, <1>2, <1>7 DEF CoverOf
    <2>3. ASSUME NEW n \in 1..Len(hostList)
          PROVE  Meant(hostList[n]) \subseteq Meant(e) \cup CoverOf(h)
      <3>1. CASE n = 1
        BY <1>1, <3>1
      <3>2. CASE n # 1
        <4>1. n - 1 \in 1..Len(h) /\ n - 1 \in 1..(Len(hostList) - 1) /\ (n - 1) + 1 = n
          BY <1>1, <3>2
        <4>2. h[n - 1] = hostList[n]
          BY <1>1, <4>1
        <4> QED BY <4>1, <4>2 DEF CoverOf
      <3> QED BY <3>1, <3>2
    <2>4. CoverOf(hostList) \subseteq Meant(e) \cup CoverOf(h)
      BY <2>3 DEF CoverOf
    <2> QED BY <2>1, <2>2, <2>4
  <1>11. LoOf(<<>>) = {}
    BY DEF LoOf
  <1>12. /\ LoOf(queue) \cup LoOf(s) \cup CoverOf(h) \subseteq Targets
         /\ Targets \subseteq LoOf(queue) \cup LoOf(s) \cup CoverOf(h) \cup away
         /\ LoOf(queue) \cap CoverOf(h) = {} /\ LoOf(queue) \cap LoOf(s) = {}
         /\ LoOf(s) \cap CoverOf(h) = {} /\ Once(queue)
    BY <1>6, <1>10, <1>11 DEF Course
  <1>13. \A n \in 1..Len(h) : h[n] \notin addedLst'
    BY <1>1, <1>7 DEF Course
  <1> QED BY <1>5, <1>6, <1>8, <1>9, <1>12, <1>13 DEF h, s, Course

\* addQueue moves one address from what is left to the queue, or loses it.
LEMMA AddQueueExact ==
  ASSUME Shapes, NEW away, NEW list, NEW added, Course(list, subs, queue, added, away), AddQueue
  PROVE  Course(list, subs', queue', added, away \cup lost')
  <1> DEFINE s == subs'
             q == queue'
             gone == lost'
             x == subs[1].lo
  <1>1. /\ Len(subs) \in Nat /\ Len(subs) > 0
        /\ s \in Seq(Hosts) /\ Len(s) = Len(subs) - 1
        /\ \A n \in 1..(Len(subs) - 1) : s[n] = subs[n + 1]
        /\ q = Append(queue, subs[1]) \/ (q = queue /\ x \in gone)
        /\ queue \in Seq(Hosts)
    BY AddQueueIs DEF Shapes
  <1>2. 1 \in 1..Len(subs) /\ Once(subs) /\ Once(queue) /\ LoOf(queue) \cap LoOf(subs) = {}
    BY <1>1 DEF Course
  <1> HIDE DEF s, q, gone
  <1>3. ASSUME NEW n \in 1..Len(s)
        PROVE  n + 1 \in 1..Len(subs) /\ s[n] = subs[n + 1] /\ s[n].lo # x
    <2>1. n + 1 \in 1..Len(subs) /\ s[n] = subs[n + 1] /\ n + 1 # 1
      BY <1>1
    <2> QED BY <1>2, <2>1 DEF Once
  <1>4. Once(s)
    <2> SUFFICES ASSUME NEW m \in 1..Len(s), NEW n \in 1..Len(s), m # n PROVE s[m].lo # s[n].lo
      BY DEF Once
    <2>1. m + 1 # n + 1
      BY <1>1
    <2> QED BY <1>2, <1>3, <2>1 DEF Once
  <1>5. LoOf(subs) = {x} \cup LoOf(s) /\ x \notin LoOf(s)
    <2>1. x \in LoOf(subs) /\ x \notin LoOf(s) /\ LoOf(s) \subseteq LoOf(subs)
      BY <1>2, <1>3 DEF LoOf
    <2>2. ASSUME NEW n \in 1..Len(subs) PROVE subs[n].lo \in {x} \cup LoOf(s)
      <3>1. CASE n = 1
        BY <3>1
      <3>2. CASE n # 1
        <4>1. n - 1 \in 1..Len(s) /\ n - 1 \in 1..(Len(subs) - 1) /\ (n - 1) + 1 = n
          BY <1>1, <3>2
        <4>2. s[n - 1] = subs[n]
          BY <1>1, <4>1
        <4> QED BY <4>1, <4>2 DEF LoOf
      <3> QED BY <3>1, <3>2
    <2>3. LoOf(subs) \subseteq {x} \cup LoOf(s)
      BY <2>2 DEF LoOf
    <2> QED BY <2>1, <2>3
  <1>6. Once(q) /\ (LoOf(q) = LoOf(queue) \cup {x} \/ (LoOf(q) = LoOf(queue) /\ x \in gone))
    <2>1. CASE q = queue /\ x \in gone
      BY <1>2, <2>1
    <2>2. CASE q = Append(queue, subs[1])
      <3>1. /\ Len(q) = Len(queue) + 1 /\ Len(queue) \in Nat
            /\ q[Len(queue) + 1] = subs[1]
            /\ \A n \in 1..Len(queue) : q[n] = queue[n]
        BY <1>1, <2>2
      <3>2. ASSUME NEW n \in 1..Len(q)
            PROVE  \/ n \in 1..Len(queue) /\ q[n] = queue[n]
                   \/ n = Len(queue) + 1 /\ q[n] = subs[1]
        <4>1. n \in 1..Len(queue) \/ n = Len(queue) + 1
          BY <3>1
        <4> QED BY <3>1, <4>1
      <3>3. LoOf(q) \subseteq LoOf(queue) \cup {x}
        BY <3>2 DEF LoOf
      <3>4. LoOf(queue) \cup {x} \subseteq LoOf(q)
        <4>1. Len(queue) + 1 \in 1..Len(q) /\ \A n \in 1..Len(queue) : n \in 1..Len(q)
          BY <3>1
        <4> QED BY <3>1, <4>1 DEF LoOf
      <3>5. x \notin LoOf(queue)
        BY <1>2, <1>5
      <3>6. Once(q)
        <4> SUFFICES ASSUME NEW m \in 1..Len(q), NEW n \in 1..Len(q), m # n PROVE q[m].lo # q[n].lo
          BY DEF Once
        <4>1. \A i \in 1..Len(queue) : queue[i].lo # x
          BY <3>5 DEF LoOf
        <4> QED BY <1>2, <3>2, <4>1 DEF Once
      <3> QED BY <3>3, <3>4, <3>6
    <2> QED BY <1>1, <2>1, <2>2
  <1>7. /\ LoOf(q) \cup LoOf(s) \cup CoverOf(list) \subseteq Targets
        /\ Targets \subseteq LoOf(q) \cup LoOf(s) \cup CoverOf(list) \cup (away \cup gone)
        /\ LoOf(q) \cap CoverOf(list) = {} /\ LoOf(q) \cap LoOf(s) = {}
        /\ LoOf(s) \cap CoverOf(list) = {}
    BY <1>5, <1>6 DEF Course
  <1> QED BY <1>4, <1>6, <1>7 DEF s, q, gone, Course

\* Every step keeps a precise list on course.
LEMMA StepExact ==
  ASSUME Shapes, Exact, [Next]_vars
  PROVE  Exact'
  <1>1. request' = request /\ client' = client
    BY DEF Next, Expand, Turn, AddQueue, EndLoop, vars
  <1>2. PreciseList' <=> PreciseList
    BY <1>1 DEF PreciseList, Meant
  <1> SUFFICES ASSUME PreciseList
               PROVE  /\ pc' # "panic"
                      /\ pc' = "saved" => hostList' = <<>> /\ subs' = <<>>
                      /\ pc' # "expand" => OnCourse'
    BY <1>2 DEF Exact
  <1> DEFINE Good == Course(hostList', subs', queue', addedLst', lost' \cup MissedFor(unasked'))
  <1>3. ASSUME Good PROVE OnCourse'
    <2>1. Parted(hostList)' <=> Parted(hostList')
      BY <1>1 DEF Parted, Meant
    <2>2. /\ CoverOf(hostList)' = CoverOf(hostList')
          /\ MissedFor(unasked)' = MissedFor(unasked') /\ Targets' = Targets
      BY <1>1 DEF CoverOf, MissedFor, Targets, Meant
    <2>3. /\ LoOf(queue)' = LoOf(queue') /\ (Once(queue)' <=> Once(queue'))
          /\ LoOf(subs)' = LoOf(subs') /\ (Once(subs)' <=> Once(subs'))
          /\ (Tidy(hostList, {})' <=> Tidy(hostList', {}))
      BY DEF LoOf, Once, Tidy
    <2> QED BY <1>3, <2>1, <2>2, <2>3 DEF OnCourse, Course
  <1>4. CASE Expand
    <2>1. /\ Tidy(hostList', {}) /\ Parted(hostList') /\ CoverOf(hostList') \subseteq Targets
          /\ Targets \subseteq CoverOf(hostList') \cup MissedFor(unasked')
      BY <1>4, ExpandExact
    <2>2. queue' = <<>> /\ subs' = <<>> /\ addedLst' = {} /\ pc' = "loop"
      BY <1>4 DEF Expand, Shapes
    <2>3. LoOf(<<>>) = {} /\ Once(<<>>)
      BY DEF LoOf, Once
    <2>4. Good
      BY <2>1, <2>2, <2>3 DEF Course
    <2> QED BY <1>3, <2>2, <2>4
  <1>5. CASE Turn
    <2>1. pc = "loop" /\ subs = <<>> /\ queue' = queue /\ unasked' = unasked /\ lost' = lost
      BY <1>5 DEF Turn
    <2>2. Course(hostList, <<>>, queue, addedLst, lost \cup MissedFor(unasked))
      BY <2>1 DEF Exact, OnCourse
    <2>3. /\ pc' = "loop"
          /\ Course(hostList', subs', queue, addedLst', lost \cup MissedFor(unasked))
      BY <1>5, <2>2, TurnExact
    <2> QED BY <1>3, <2>1, <2>3
  <1>6. CASE AddQueue
    <2>1. /\ pc = "loop" /\ pc' = "loop" /\ unasked' = unasked /\ lost \subseteq lost'
          /\ hostList' = hostList /\ addedLst' = addedLst
      BY <1>6, AddQueueIs
    <2>2. Course(hostList, subs, queue, addedLst, lost \cup MissedFor(unasked))
      BY <2>1 DEF Exact, OnCourse
    <2>3. Course(hostList, subs', queue', addedLst, (lost \cup MissedFor(unasked)) \cup lost')
      BY <1>6, <2>2, AddQueueExact
    <2>4. (lost \cup MissedFor(unasked)) \cup lost' = lost' \cup MissedFor(unasked')
      BY <2>1
    <2> QED BY <1>3, <2>1, <2>3, <2>4
  <1>7. CASE EndLoop \/ UNCHANGED vars
    <2>1. /\ hostList' = hostList /\ addedLst' = addedLst /\ queue' = queue
          /\ subs' = subs /\ lost' = lost /\ unasked' = unasked
          /\ pc' = "expand" => pc = "expand"
          /\ pc' # "expand" => pc # "expand"
          /\ pc' = "panic" => pc = "panic"
          /\ pc' = "saved" => pc = "saved" \/ (hostList = <<>> /\ subs = <<>>)
      BY <1>7 DEF EndLoop, vars
    <2>2. OnCourse => OnCourse'
      <3> SUFFICES ASSUME OnCourse PROVE Good
        BY <1>3
      <3> QED BY <2>1 DEF OnCourse
    <2> QED BY <2>1, <2>2 DEF Exact
  <1> QED BY <1>4, <1>5, <1>6, <1>7 DEF Next

\* A queue that has every address once is as long as the set of its addresses.
LEMMA OncePerHost ==
  ASSUME NEW q \in Seq(Hosts), Once(q)
  PROVE  Len(q) = Cardinality(LoOf(q))
  <1> DEFINE f == [n \in 1..Len(q) |-> q[n].lo]
             S == LoOf(q)
  <1>1. Len(q) \in Nat
    OBVIOUS
  <1>2. f \in Bijection(1..Len(q), S)
    BY DEF LoOf, Once, Bijection, Injection, IsInjective, Surjection
  <1>3. ExistsBijection(1..Len(q), S)
    BY <1>2 DEF ExistsBijection
  <1> HIDE DEF S
  <1>4. Cardinality(S) = Len(q)
    BY <1>1, <1>3, FS_CountingElements
  <1> QED BY <1>4 DEF S

\* When Save returns, a list that names every host once, by well-formed entries
\* and without "all", has one document for each host it stands for and none for
\* another, whatever query or insert failed; a host is missing only if its own
\* insert or its tag's query failed (Task.Save, addQueue), for any addresses,
\* ranges, clients and length of the list and any number of failures.
THEOREM Precisely == Spec => []PreciseListDone
  <1>1. Init => Exact
    BY DEF Init, Exact
  <1>2. Shapes /\ Exact => PreciseListDone
    <2> SUFFICES ASSUME Shapes, Exact, pc = "saved", PreciseList
                 PROVE  /\ Queued \subseteq Targets
                        /\ Targets \subseteq Queued \cup lost \cup Missed
                        /\ Len(queue) = Cardinality(Queued)
      BY DEF PreciseListDone
    <2>1. hostList = <<>> /\ subs = <<>> /\ OnCourse /\ queue \in Seq(Hosts)
      BY DEF Exact, Shapes
    <2>2. CoverOf(<<>>) = {} /\ LoOf(<<>>) = {}
      BY DEF CoverOf, LoOf
    <2>3. /\ LoOf(queue) \subseteq Targets /\ Once(queue)
          /\ Targets \subseteq LoOf(queue) \cup (lost \cup MissedFor(unasked))
      BY <2>1, <2>2 DEF OnCourse, Course
    <2>4. Queued = LoOf(queue)
      BY <2>1 DEF Queued, ToSet, LoOf
    <2>5. Missed = MissedFor(unasked)
      BY DEF Missed, MissedFor
    <2> QED BY <2>1, <2>3, <2>4, <2>5, OncePerHost
  <1> QED BY <1>1, <1>2, InitShapes, StepShapes, StepExact, PTL DEF Spec
=============================================================================
