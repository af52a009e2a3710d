------------------------- MODULE RetainedFilesProofs ------------------------
(***************************************************************************)
(* The store of completed files is consistent for every set of names, any  *)
(* capacity and any time to live, however the clock is set.                *)
(***************************************************************************)
EXTENDS RetainedFiles, DataLemmas

-----------------------------------------------------------------------------
(* The inductive invariant *)

\* The insertion v is the last one of its name.
LastAt(v) ==
    /\ v \in 1..Len(inserted)
    /\ \A j \in (v + 1)..Len(inserted) : inserted[j] # inserted[v]

\* The names stored after the insertion v.
After(v) == {inserted[i] : i \in (v + 1)..Len(inserted)}

StoredLast ==
    \A n \in DOMAIN byName :
        LastAt(byName[n].version) /\ inserted[byName[n].version] = n

LastKept ==
    \A v \in 1..Len(inserted) :
        LastAt(v) => \/ inserted[v] \in DOMAIN byName
                     \/ v \in lapsed
                     \/ Cardinality(After(v)) >= MaxEntries

\* StoreConsistent, with the latest version of a name given by its place in
\* the history, which is what a step extends.
StoreInv ==
    /\ TypeOK
    /\ Members(order) = DOMAIN byName
    /\ Len(order) <= MaxEntries
    /\ OrderIsAge
    /\ StoredLast
    /\ LastKept

\* Along s the values of f grow.
Rising(s, f) == \A i, j \in 1..Len(s) : i < j => f[s[i]] < f[s[j]]

\* The versions of the files retained.
Versions == [n \in DOMAIN byName |-> byName[n].version]

\* What is left of a rising sequence rises.
LEMMA ThinnedRises ==
    ASSUME NEW r, NEW s, NEW f, Len(r) \in Nat, Len(s) \in Nat, Thinned(r, s), Rising(s, f)
    PROVE  Rising(r, f)
<1>1. PICK g \in [1..Len(r) -> 1..Len(s)] :
        /\ \A i \in 1..Len(r) : r[i] = s[g[i]]
        /\ \A i, j \in 1..Len(r) : i < j => g[i] < g[j]
  BY DEF Thinned
<1>2. ASSUME NEW i \in 1..Len(r), NEW j \in 1..Len(r), i < j PROVE f[r[i]] < f[r[j]]
  <2>1. g[i] \in 1..Len(s) /\ g[j] \in 1..Len(s) /\ g[i] < g[j]
    BY <1>1, <1>2
  <2>2. f[s[g[i]]] < f[s[g[j]]]
    BY <2>1 DEF Rising
  <2>3. QED
    BY <1>1, <2>2
<1>3. QED
  BY <1>2 DEF Rising

\* A sequence along which a number grows repeats nothing, so that it has as
\* many members as places.
LEMMA RisingCount ==
    ASSUME NEW E, NEW s \in Seq(E), NEW f, \A x \in Members(s) : f[x] \in Int, Rising(s, f)
    PROVE  IsFiniteSet(Members(s)) /\ Cardinality(Members(s)) = Len(s)
<1>1. ASSUME NEW i \in 1..Len(s), NEW j \in 1..Len(s), i # j PROVE s[i] # s[j]
  <2>1. i < j \/ j < i
    BY <1>1
  <2>2. f[s[i]] < f[s[j]] \/ f[s[j]] < f[s[i]]
    BY <2>1 DEF Rising
  <2>3. f[s[i]] \in Int /\ f[s[j]] \in Int
    BY DEF Members
  <2>4. QED
    BY <2>2, <2>3
<1>2. QED
  BY <1>1, DistinctMembers DEF Members

\* OrderIsAge in these terms.
LEMMA AgeRises ==
    ASSUME StoreInv
    PROVE  /\ Rising(order, Versions)
           /\ \A n \in DOMAIN byName : Versions[n] = byName[n].version /\ Versions[n] \in Nat
<1>1. \A n \in DOMAIN byName : Versions[n] = byName[n].version /\ Versions[n] \in Nat
  BY DEF StoreInv, TypeOK, Versions
<1>2. \A i \in 1..Len(order) : order[i] \in DOMAIN byName
  BY DEF StoreInv, Members
<1>3. ASSUME NEW i \in 1..Len(order), NEW j \in 1..Len(order), i < j
      PROVE  Versions[order[i]] < Versions[order[j]]
  <2>1. byName[order[i]].version < byName[order[j]].version
    BY <1>3 DEF StoreInv, OrderIsAge
  <2>2. QED
    BY <1>1, <1>2, <2>1
<1>4. QED
  BY <1>1, <1>3 DEF Rising

\* The eviction of expired files leaves a sound order of the names alive.
LEMMA AliveShape ==
    ASSUME StoreInv
    PROVE  /\ AliveOrder \in Seq(Names)
           /\ Members(AliveOrder) = Alive
           /\ Alive \subseteq DOMAIN byName
           /\ Rising(AliveOrder, Versions)
           /\ Len(AliveOrder) \in Nat
           /\ Len(AliveOrder) <= MaxEntries
<1>1. order \in Seq(Names) /\ Members(order) = DOMAIN byName /\ Len(order) <= MaxEntries
  BY DEF StoreInv, TypeOK
<1>2. /\ AliveOrder \in Seq(Names)
      /\ Members(AliveOrder) = Members(order) \cap Alive
      /\ Thinned(AliveOrder, order)
  BY <1>1, RetainKeeps DEF AliveOrder
<1>3. Alive \subseteq DOMAIN byName
  BY DEF Alive
<1>4. Len(AliveOrder) \in Nat /\ Len(order) \in Nat
  BY <1>1, <1>2
<1>5. Rising(AliveOrder, Versions)
  BY <1>2, <1>4, AgeRises, ThinnedRises
<1>6. Members(AliveOrder) = Alive
  BY <1>1, <1>2, <1>3
<1>7. Cardinality(Members(AliveOrder)) = Len(AliveOrder)
  <2>1. \A x \in Members(AliveOrder) : Versions[x] \in Int
    BY <1>3, <1>6, AgeRises
  <2>2. QED
    BY <1>2, <1>5, <2>1, RisingCount
<1>8. IsFiniteSet(Members(order)) /\ Cardinality(Members(order)) = Len(order)
  BY <1>1, AgeRises, RisingCount
<1>9. Len(AliveOrder) <= Len(order)
  BY <1>1, <1>3, <1>6, <1>7, <1>8, FS_Subset
<1>10. QED
  BY <1>1, <1>2, <1>3, <1>4, <1>5, <1>6, <1>9, StoreAssumption

\* A name has one last insertion.
LEMMA LastUnique ==
    ASSUME NEW v, NEW w, Len(inserted) \in Nat, LastAt(v), LastAt(w), inserted[v] = inserted[w]
    PROVE  v = w
<1>1. v \in 1..Len(inserted) /\ w \in 1..Len(inserted)
  BY DEF LastAt
<1>2. CASE v < w
  BY <1>1, <1>2 DEF LastAt
<1>3. CASE w < v
  BY <1>1, <1>3 DEF LastAt
<1>4. QED
  BY <1>1, <1>2, <1>3

\* A file dropped by the eviction is remembered as expired.
LEMMA DroppedHasLapsed ==
    ASSUME StoreInv, NEW v, LastAt(v), inserted[v] \in DOMAIN byName
    PROVE  inserted[v] \in Alive \/ v \in Lapsing
<1> DEFINE n == inserted[v]
<1>1. LastAt(byName[n].version) /\ inserted[byName[n].version] = n
  BY DEF StoreInv, StoredLast
<1>2. byName[n].version = v
  BY <1>1, LastUnique DEF StoreInv, TypeOK
<1>3. QED
  BY <1>2 DEF Lapsing

\* Versions dropped by the eviction are versions.
LEMMA LapsingType ==
    ASSUME StoreInv
    PROVE  Lapsing \subseteq 1..Len(inserted)
BY DEF StoreInv, TypeOK, Lapsing

\* Reading the store, which evicts what has expired, keeps it consistent.
LEMMA EvictKeeps ==
    ASSUME StoreInv, EvictExpired, reply' \in Seq(1..Len(inserted))
    PROVE  StoreInv'
<1>1. /\ byName' = [n \in Alive |-> byName[n]]
      /\ order' = AliveOrder
      /\ lapsed' = lapsed \cup Lapsing
      /\ now' = now /\ inserted' = inserted
  BY DEF EvictExpired
<1>2. DOMAIN byName' = Alive /\ \A n \in Alive : byName'[n] = byName[n]
  BY <1>1
<1>3. TypeOK'
  BY <1>1, <1>2, AliveShape, LapsingType DEF StoreInv, TypeOK
<1>4. Members(order)' = DOMAIN byName' /\ Len(order') <= MaxEntries
  <2>1. Members(order)' = Members(AliveOrder)
    BY <1>1 DEF Members
  <2>2. QED
    BY <1>1, <1>2, <2>1, AliveShape
<1>5. OrderIsAge'
  <2>1. ASSUME NEW i \in 1..Len(AliveOrder), NEW j \in 1..Len(AliveOrder), i < j
        PROVE  byName'[AliveOrder[i]].version < byName'[AliveOrder[j]].version
    <3>1. AliveOrder[i] \in Alive /\ AliveOrder[j] \in Alive
      BY AliveShape DEF Members
    <3>2. Versions[AliveOrder[i]] < Versions[AliveOrder[j]]
      BY <2>1, AliveShape DEF Rising
    <3>3. QED
      BY <1>2, <3>1, <3>2, AliveShape, AgeRises
  <2>2. QED
    BY <1>1, <2>1 DEF OrderIsAge
<1>6. \A v : LastAt(v)' <=> LastAt(v)
  BY <1>1 DEF LastAt
<1>7. StoredLast'
  BY <1>1, <1>2, <1>6, AliveShape DEF StoreInv, StoredLast
<1>8. LastKept'
  <2>1. ASSUME NEW v \in 1..Len(inserted), LastAt(v)
        PROVE  \/ inserted[v] \in Alive
               \/ v \in lapsed \cup Lapsing
               \/ Cardinality(After(v)) >= MaxEntries
    BY <2>1, DroppedHasLapsed DEF StoreInv, LastKept
  <2>2. \A v : After(v)' = After(v)
    BY <1>1 DEF After
  <2>3. QED
    BY <1>1, <1>2, <1>6, <2>1, <2>2 DEF LastKept
<1>9. QED
  BY <1>3, <1>4, <1>5, <1>7, <1>8 DEF StoreInv

-----------------------------------------------------------------------------
(* The insertion *)

\* The versions after the insertion of a name.
NewVersions(name) ==
    [n \in Alive \cup {name} |-> IF n = name THEN Len(inserted) + 1 ELSE byName[n].version]

\* The name inserted is last, behind the names alive in their order.
LEMMA ReorderedShape ==
    ASSUME StoreInv, NEW name \in Names
    PROVE  /\ Reordered(name) \in Seq(Names)
           /\ Members(Reordered(name)) = Alive \cup {name}
           /\ Rising(Reordered(name), NewVersions(name))
           /\ Len(Reordered(name)) \in Nat \ {0}
           /\ Reordered(name)[Len(Reordered(name))] = name
<1> DEFINE rest == Retain(AliveOrder, Names \ {name})
           all  == Append(rest, name)
           l    == Len(rest)
           f    == NewVersions(name)
<1>1. AliveOrder \in Seq(Names) /\ Members(AliveOrder) = Alive /\ Rising(AliveOrder, Versions)
  BY AliveShape
<1>2. /\ rest \in Seq(Names)
      /\ Members(rest) = Members(AliveOrder) \cap (Names \ {name})
      /\ Thinned(rest, AliveOrder)
  BY <1>1, RetainKeeps
<1>3. Rising(rest, Versions)
  BY <1>1, <1>2, ThinnedRises
<1>4. Reordered(name) = all
  BY DEF Reordered
<1> HIDE DEF rest
<1>5. /\ l \in Nat /\ all \in Seq(Names) /\ Len(all) = l + 1 /\ all[l + 1] = name
      /\ \A i \in 1..l : all[i] = rest[i]
  BY <1>2
<1>6. Alive \subseteq Names
  BY DEF StoreInv, TypeOK, Alive
<1> HIDE DEF all, l
<1>7. \A i \in 1..l : rest[i] \in Alive /\ rest[i] # name
  BY <1>1, <1>2 DEF Members, l
<1>8. Members(all) = Alive \cup {name}
  <2>1. ASSUME NEW x \in Members(all) PROVE x \in Alive \cup {name}
    <3>1. PICK i \in 1..(l + 1) : x = all[i]
      BY <1>5 DEF Members
    <3>2. QED
      BY <1>5, <1>7, <3>1
  <2>2. ASSUME NEW x \in Alive, x # name PROVE x \in Members(all)
    <3>1. x \in Members(rest)
      BY <1>1, <1>2, <1>6, <2>2
    <3>2. PICK i \in 1..l : x = rest[i]
      BY <3>1 DEF Members, l
    <3>3. i \in 1..Len(all) /\ x = all[i]
      BY <1>5, <3>2
    <3>4. QED
      BY <3>3 DEF Members
  <2>3. name \in Members(all)
    <3>1. l + 1 \in 1..Len(all)
      BY <1>5
    <3>2. QED
      BY <1>5, <3>1 DEF Members
  <2>4. QED
    BY <2>1, <2>2, <2>3
<1>9. ASSUME NEW i \in 1..(l + 1), NEW j \in 1..(l + 1), i < j PROVE f[all[i]] < f[all[j]]
  <2>1. i \in 1..l /\ all[i] = rest[i] /\ all[i] \in Alive /\ all[i] # name
    BY <1>5, <1>7, <1>9
  <2>2. f[all[i]] = Versions[rest[i]] /\ Versions[rest[i]] \in 1..Len(inserted)
    <3>1. all[i] \in DOMAIN byName
      BY <2>1, AliveShape
    <3>2. byName[all[i]].version \in 1..Len(inserted)
      BY <3>1 DEF StoreInv, TypeOK
    <3>3. QED
      BY <2>1, <3>1, <3>2, AgeRises DEF NewVersions
  <2>3. CASE j = l + 1
    <3>1. f[all[j]] = Len(inserted) + 1
      BY <1>5, <2>3 DEF NewVersions
    <3>2. Len(inserted) \in Nat
      BY DEF StoreInv, TypeOK
    <3>3. QED
      BY <2>2, <3>1, <3>2
  <2>4. CASE j # l + 1
    <3>1. j \in 1..l /\ all[j] = rest[j] /\ all[j] \in Alive /\ all[j] # name
      BY <1>5, <1>7, <2>4
    <3>2. f[all[j]] = Versions[rest[j]]
      BY <3>1, AliveShape, AgeRises DEF NewVersions
    <3>3. Versions[rest[i]] < Versions[rest[j]]
      BY <1>3, <1>9, <2>1, <3>1 DEF Rising, l
    <3>4. QED
      BY <2>2, <3>2, <3>3
  <2>5. QED
    BY <2>3, <2>4
<1>10. Rising(all, f)
  BY <1>5, <1>9 DEF Rising
<1>11. QED
  BY <1>4, <1>5, <1>8, <1>10

\* Trimming keeps the newest names, the inserted one among them; when it takes
\* a name, MaxEntries names with later versions remain.
LEMMA TrimmedShape ==
    ASSUME StoreInv, NEW name \in Names
    PROVE  /\ Trimmed(name) \in Seq(Names)
           /\ Members(Trimmed(name)) \subseteq Alive \cup {name}
           /\ name \in Members(Trimmed(name))
           /\ Rising(Trimmed(name), NewVersions(name))
           /\ Len(Trimmed(name)) <= MaxEntries
           /\ \A n \in (Alive \cup {name}) \ Members(Trimmed(name)) :
                  /\ Len(Trimmed(name)) = MaxEntries
                  /\ \A m \in Members(Trimmed(name)) :
                         NewVersions(name)[n] < NewVersions(name)[m]
<1> DEFINE all == Reordered(name)
           l   == Len(all)
           f   == NewVersions(name)
           x   == l - MaxEntries
<1>1. /\ all \in Seq(Names) /\ Members(all) = Alive \cup {name}
      /\ Rising(all, f) /\ l \in Nat \ {0} /\ all[l] = name
  BY ReorderedShape
<1>m. MaxEntries \in Nat /\ MaxEntries >= 1
  BY StoreAssumption
<1>2. Trimmed(name) = IF x > 0 THEN SubSeq(all, x + 1, l) ELSE all
  BY DEF Trimmed
<1> HIDE DEF all, f
<1>3. CASE x <= 0
  <2>1. Trimmed(name) = all /\ l <= MaxEntries
    BY <1>1, <1>2, <1>3, <1>m
  <2>2. QED
    BY <1>1, <2>1 DEF f
<1>4. CASE x > 0
  <2> DEFINE s == SubSeq(all, x + 1, l)
  <2>1. x \in 1..l
    BY <1>1, <1>4, <1>m
  <2>2. /\ s \in Seq(Names) /\ Len(s) = MaxEntries
        /\ \A i \in 1..MaxEntries : s[i] = all[x + i]
    <3>1. x + 1 \in 1..(l + 1) /\ x + 1 <= l /\ l - (x + 1) + 1 = MaxEntries
      BY <1>1, <1>4, <1>m
    <3>2. x + 1 \in Int /\ l \in Int /\ \A i \in (x + 1)..l : all[i] \in Names
      BY <1>1, <2>1
    <3>3. /\ s \in Seq(Names)
          /\ Len(s) = IF x + 1 <= l THEN l - (x + 1) + 1 ELSE 0
          /\ \A i \in 1..(l - (x + 1) + 1) : s[i] = all[(x + 1) + i - 1]
      BY <3>2, SubSeqProperties
    <3> HIDE DEF s
    <3>4. \A i \in 1..MaxEntries : (x + 1) + i - 1 = x + i
      BY <1>1, <1>m
    <3>5. QED
      BY <3>1, <3>3, <3>4
  <2>3. Trimmed(name) = s
    BY <1>2, <1>4
  <2> HIDE DEF s
  <2>4. \A i \in 1..MaxEntries : x + i \in 1..l
    BY <1>1, <1>m, <2>1
  <2>5. Members(s) \subseteq Alive \cup {name}
    BY <1>1, <2>2, <2>4 DEF Members
  <2>6. name \in Members(s)
    <3>1. MaxEntries \in 1..MaxEntries /\ x + MaxEntries = l
      BY <1>1, <1>m
    <3>2. s[MaxEntries] = name
      BY <1>1, <2>2, <3>1
    <3>3. QED
      BY <2>2, <3>1, <3>2 DEF Members
  <2>7. Rising(s, f)
    <3>1. ASSUME NEW i \in 1..MaxEntries, NEW j \in 1..MaxEntries, i < j
          PROVE  f[s[i]] < f[s[j]]
      <4>1. x + i \in 1..l /\ x + j \in 1..l /\ x + i < x + j
        BY <1>1, <1>m, <2>4, <3>1
      <4>2. f[all[x + i]] < f[all[x + j]]
        BY <1>1, <4>1 DEF Rising
      <4>3. QED
        BY <2>2, <4>2
    <3>2. QED
      BY <2>2, <3>1 DEF Rising
  <2>8. ASSUME NEW n \in (Alive \cup {name}) \ Members(s), NEW m \in Members(s)
        PROVE  f[n] < f[m]
    <3>1. PICK i \in 1..l : all[i] = n
      BY <1>1 DEF Members
    <3>2. PICK j \in 1..MaxEntries : s[j] = m
      BY <2>2 DEF Members
    <3>3. i <= x
      <4>1. SUFFICES ASSUME i > x PROVE FALSE
        BY <1>1, <1>m
      <4>2. i - x \in 1..MaxEntries /\ x + (i - x) = i
        BY <1>1, <1>m, <4>1
      <4>3. s[i - x] = n
        BY <2>2, <3>1, <4>2
      <4>4. QED
        BY <2>2, <4>2, <4>3 DEF Members
    <3>4. x + j \in 1..l /\ i < x + j
      BY <1>1, <1>m, <2>4, <3>3
    <3>5. QED
      BY <1>1, <2>2, <3>1, <3>2, <3>4 DEF Rising
  <2>9. QED
    BY <1>m, <2>2, <2>3, <2>5, <2>6, <2>7, <2>8 DEF f
<1>5. QED
  BY <1>1, <1>3, <1>4, <1>m

\* Storing a file keeps the store consistent.
LEMMA InsertKeeps ==
    ASSUME StoreInv, NEW name \in Names, NEW t \in Times, Insert(name, t)
    PROVE  StoreInv'
<1> DEFINE s == Trimmed(name)
           f == NewVersions(name)
<1>0. PICK l \in Nat : l = Len(inserted)
  BY DEF StoreInv, TypeOK
<1>1. /\ order' = s
      /\ byName' = [n \in Members(s) |->
                       IF n = name THEN [version |-> l + 1, completedAt |-> t] ELSE byName[n]]
      /\ inserted' = Append(inserted, name)
      /\ lapsed' = lapsed \cup Lapsing
      /\ reply' = <<>> /\ now' = now
  BY <1>0 DEF Insert
<1>2. /\ s \in Seq(Names) /\ Members(s) \subseteq Alive \cup {name} /\ name \in Members(s)
      /\ Rising(s, f) /\ Len(s) <= MaxEntries
      /\ \A n \in (Alive \cup {name}) \ Members(s) :
             Len(s) = MaxEntries /\ \A m \in Members(s) : f[n] < f[m]
  BY TrimmedShape
<1>3. /\ l \in Nat /\ l = Len(inserted) /\ inserted \in Seq(Names)
      /\ inserted' \in Seq(Names) /\ Len(inserted') = l + 1 /\ inserted'[l + 1] = name
      /\ \A i \in 1..l : inserted'[i] = inserted[i]
  BY <1>0, <1>1 DEF StoreInv, TypeOK
<1> HIDE DEF s
<1>4. /\ DOMAIN byName' = Members(s)
      /\ byName'[name].version = l + 1 /\ byName'[name].completedAt = t
      /\ \A n \in Members(s) \ {name} : byName'[n] = byName[n]
  BY <1>1, <1>2
<1>5. \A n \in Alive \ {name} :
          /\ n \in DOMAIN byName
          /\ f[n] = byName[n].version /\ f[n] \in 1..l
  BY <1>0, AliveShape DEF NewVersions, StoreInv, TypeOK
<1>n. f[name] = l + 1
  BY <1>0 DEF NewVersions
<1>6. \A n \in Members(s) : byName'[n].version = f[n]
  BY <1>2, <1>4, <1>5, <1>n
<1> HIDE DEF f
<1>7. TypeOK'
  <2>1. ASSUME NEW n \in Members(s)
        PROVE  /\ n \in Names
               /\ byName'[n].version \in 1..(l + 1) /\ byName'[n].completedAt \in Times
    <3>1. CASE n = name
      BY <1>3, <1>4, <3>1
    <3>2. CASE n # name
      <4>1. n \in Alive \ {name} /\ byName'[n] = byName[n]
        BY <1>2, <1>4, <3>2
      <4>2. QED
        BY <1>3, <1>5, <4>1 DEF StoreInv, TypeOK
    <3>3. QED
      BY <3>1, <3>2
  <2>2. lapsed' \subseteq 1..(l + 1)
    <3>1. lapsed \subseteq 1..l /\ Lapsing \subseteq 1..l
      BY <1>3, LapsingType DEF StoreInv, TypeOK
    <3>2. QED
      BY <1>1, <1>3, <3>1
  <2>3. now' \in Times /\ reply' \in Seq(1..(l + 1))
    BY <1>1 DEF StoreInv, TypeOK
  <2>4. QED
    BY <1>1, <1>2, <1>3, <1>4, <2>1, <2>2, <2>3 DEF TypeOK
<1>8. Members(order)' = DOMAIN byName' /\ Len(order') <= MaxEntries
  BY <1>1, <1>2, <1>4 DEF Members
<1>9. OrderIsAge'
  <2>1. ASSUME NEW i \in 1..Len(s), NEW j \in 1..Len(s), i < j
        PROVE  byName'[s[i]].version < byName'[s[j]].version
    <3>1. s[i] \in Members(s) /\ s[j] \in Members(s)
      BY DEF Members
    <3>2. f[s[i]] < f[s[j]]
      BY <1>2, <2>1 DEF Rising
    <3>3. QED
      BY <1>6, <3>1, <3>2
  <2>2. QED
    BY <1>1, <2>1 DEF OrderIsAge
<1>10. /\ LastAt(l + 1)'
       /\ \A v \in 1..l : LastAt(v)' <=> (LastAt(v) /\ inserted[v] # name)
  <2>1. LastAt(l + 1)'
    BY <1>3 DEF LastAt
  <2>2. ASSUME NEW v \in 1..l PROVE LastAt(v)' <=> (LastAt(v) /\ inserted[v] # name)
    <3>1. ASSUME LastAt(v)' PROVE LastAt(v) /\ inserted[v] # name
      <4>1. \A j \in (v + 1)..(l + 1) : inserted'[j] # inserted'[v]
        BY <1>3, <3>1 DEF LastAt
      <4>2. l + 1 \in (v + 1)..(l + 1) /\ inserted'[v] = inserted[v]
        BY <1>3
      <4>3. inserted[v] # name
        BY <1>3, <4>1, <4>2
      <4>4. ASSUME NEW j \in (v + 1)..l PROVE inserted[j] # inserted[v]
        <5>1. j \in (v + 1)..(l + 1) /\ j \in 1..l
          BY <1>3
        <5>2. QED
          BY <1>3, <4>1, <4>2, <5>1
      <4>5. QED
        BY <1>3, <4>3, <4>4 DEF LastAt
    <3>2. ASSUME LastAt(v), inserted[v] # name PROVE LastAt(v)'
      <4>1. ASSUME NEW j \in (v + 1)..(l + 1) PROVE inserted'[j] # inserted'[v]
        <5>1. inserted'[v] = inserted[v]
          BY <1>3
        <5>2. CASE j = l + 1
          BY <1>3, <3>2, <5>1, <5>2
        <5>3. CASE j # l + 1
          <6>1. j \in (v + 1)..l /\ j \in 1..l
            BY <1>3, <5>3
          <6>2. QED
            BY <1>3, <3>2, <5>1, <6>1 DEF LastAt
        <5>4. QED
          BY <5>2, <5>3
      <4>2. v \in 1..(l + 1)
        BY <1>3
      <4>3. QED
        BY <1>3, <4>1, <4>2 DEF LastAt
    <3>3. QED
      BY <3>1, <3>2
  <2>3. QED
    BY <2>1, <2>2
<1>11. StoredLast'
  <2>1. ASSUME NEW n \in Members(s)
        PROVE  \E v \in 1..(l + 1) : byName'[n].version = v /\ LastAt(v)' /\ inserted'[v] = n
    <3>1. CASE n = name
      BY <1>3, <1>4, <1>10, <3>1
    <3>2. CASE n # name
      <4>1. n \in Alive \ {name} /\ byName'[n] = byName[n]
        BY <1>2, <1>4, <3>2
      <4>2. n \in DOMAIN byName /\ byName[n].version \in 1..l
        BY <1>5, <4>1
      <4>3. LastAt(byName[n].version) /\ inserted[byName[n].version] = n
        BY <4>2 DEF StoreInv, StoredLast
      <4>4. PICK v \in 1..l : v = byName[n].version
        BY <4>2
      <4>5. LastAt(v)' /\ inserted'[v] = n /\ v \in 1..(l + 1)
        BY <1>3, <1>10, <3>2, <4>3, <4>4
      <4>6. QED
        BY <4>1, <4>4, <4>5
    <3>3. QED
      BY <3>1, <3>2
  <2>2. QED
    BY <1>4, <2>1 DEF StoredLast, LastAt
<1>12. LastKept'
  <2>1. \A v \in 1..l : IsFiniteSet(After(v)') /\ After(v) \subseteq After(v)'
    <3>1. ASSUME NEW v \in 1..l PROVE IsFiniteSet(After(v)')
      <4>1. After(v)' = {inserted'[i] : i \in (v + 1)..(l + 1)}
        BY <1>3 DEF After
      <4>2. v + 1 \in Int /\ l + 1 \in Int
        BY <1>3
      <4>3. \A g : \A a, b \in Int : IsFiniteSet({g[i] : i \in a..b})
        BY StretchFinite
      <4>4. IsFiniteSet({inserted'[i] : i \in (v + 1)..(l + 1)})
        BY <4>2, <4>3
      <4>5. QED
        BY <4>1, <4>4
    <3>2. ASSUME NEW v \in 1..l, NEW n \in After(v) PROVE n \in After(v)'
      <4>1. PICK i \in (v + 1)..l : n = inserted[i]
        BY <1>3 DEF After
      <4>2. i \in (v + 1)..Len(inserted') /\ n = inserted'[i]
        BY <1>3, <4>1
      <4>3. QED
        BY <4>2 DEF After
    <3>3. QED
      BY <3>1, <3>2
  <2>2. ASSUME NEW v \in 1..l, LastAt(v)', inserted[v] \in Alive, inserted[v] \notin Members(s)
        PROVE  Cardinality(After(v)') >= MaxEntries
    <3> DEFINE n == inserted[v]
    <3>1. LastAt(v) /\ n # name
      BY <1>10, <2>2
    <3>2. f[n] = v
      <4>1. n \in DOMAIN byName /\ f[n] = byName[n].version
        BY <1>5, <2>2, <3>1
      <4>2. LastAt(byName[n].version) /\ inserted[byName[n].version] = n
        BY <4>1 DEF StoreInv, StoredLast
      <4>3. QED
        BY <1>3, <3>1, <4>1, <4>2, LastUnique
    <3>3. Len(s) = MaxEntries /\ \A m \in Members(s) : v < f[m]
      BY <1>2, <2>2, <3>2
    <3>4. ASSUME NEW m \in Members(s) PROVE m \in After(v)'
      <4>1. PICK w \in 1..(l + 1) : byName'[m].version = w /\ LastAt(w)' /\ inserted'[w] = m
        BY <1>4, <1>11, <1>7, <1>3 DEF StoredLast, TypeOK, LastAt
      <4>2. w \in (v + 1)..Len(inserted')
        BY <1>3, <1>6, <3>3, <4>1
      <4>3. QED
        BY <4>1, <4>2 DEF After
    <3>5. Cardinality(Members(s)) = MaxEntries
      <4>1. \A m \in Members(s) : f[m] \in Int
        BY <1>2, <1>3, <1>5, <1>n
      <4>2. QED
        BY <1>2, <3>3, <4>1, RisingCount
    <3>6. Cardinality(Members(s)) <= Cardinality(After(v)')
      BY <2>1, <3>4, FS_Subset
    <3>7. Cardinality(After(v)') \in Nat
      BY <2>1, FS_CardinalityType
    <3>8. QED
      BY <3>5, <3>6, <3>7, StoreAssumption
  <2>3. ASSUME NEW v \in 1..(l + 1), LastAt(v)'
        PROVE  \/ inserted'[v] \in Members(s)
               \/ v \in lapsed \cup Lapsing
               \/ Cardinality(After(v)') >= MaxEntries
    <3>1. CASE v = l + 1
      BY <1>2, <1>3, <3>1
    <3>2. CASE v # l + 1
      <4>1. v \in 1..l /\ LastAt(v) /\ inserted'[v] = inserted[v]
        BY <1>3, <1>10, <2>3, <3>2
      <4>2. CASE inserted[v] \in DOMAIN byName
        BY <2>2, <2>3, <4>1, <4>2, DroppedHasLapsed
      <4>3. CASE inserted[v] \notin DOMAIN byName /\ v \notin lapsed
        <5>1. Cardinality(After(v)) >= MaxEntries
          BY <1>3, <4>1, <4>3 DEF StoreInv, LastKept
        <5>2. Cardinality(After(v)) <= Cardinality(After(v)') /\ Cardinality(After(v)) \in Nat
              /\ Cardinality(After(v)') \in Nat
          BY <2>1, <4>1, FS_Subset, FS_CardinalityType
        <5>3. QED
          BY <5>1, <5>2, StoreAssumption
      <4>4. QED
        BY <4>2, <4>3
    <3>3. QED
      BY <3>1, <3>2
  <2>4. QED
    BY <1>1, <1>3, <1>4, <2>3 DEF LastKept
<1>13. QED
  BY <1>7, <1>8, <1>9, <1>11, <1>12 DEF StoreInv

-----------------------------------------------------------------------------
(* Answers *)

\* The versions a reader is given, by list or by get, exist, and are those of
\* files that are alive.
LEMMA AnswerAlive ==
    ASSUME StoreInv, EvictExpired, List \/ (\E n \in Names : Get(n)) \/ Length
    PROVE  /\ reply' \in Seq(1..Len(inserted))
           /\ \A i \in 1..Len(reply') : \E n \in Alive : byName[n].version = reply'[i]
           /\ \A i, j \in 1..Len(reply') : i < j => reply'[i] > reply'[j]
<1>1. \A n \in Alive : byName[n].version \in 1..Len(inserted)
  BY AliveShape DEF StoreInv, TypeOK
<1>2. CASE List
  <2> DEFINE l == Len(AliveOrder)
             back(i) == AliveOrder[l + 1 - i]
  <2>1. AliveOrder \in Seq(Names) /\ l \in Nat /\ Members(AliveOrder) = Alive
    BY AliveShape
  <2>2. reply' = [i \in 1..l |-> byName[back(i)].version]
    BY <1>2 DEF List
  <2>3. ASSUME NEW i \in 1..l PROVE back(i) \in Alive /\ l + 1 - i \in 1..l
    <3>1. l + 1 - i \in 1..l
      BY <2>1
    <3>2. QED
      BY <2>1, <3>1 DEF Members
  <2>4. ASSUME NEW i \in 1..l, NEW j \in 1..l, i < j
        PROVE  byName[back(j)].version < byName[back(i)].version
    <3> HIDE DEF back, l
    <3>1. l + 1 - j < l + 1 - i /\ l + 1 - i \in 1..l /\ l + 1 - j \in 1..l
      BY <2>1, <2>4
    <3>2. Versions[back(j)] < Versions[back(i)]
      BY <3>1, AliveShape DEF Rising, back, l
    <3>3. QED
      BY <2>3, <3>2, AliveShape, AgeRises
  <2> HIDE DEF back, l
  <2>5. /\ reply' \in Seq(1..Len(inserted)) /\ Len(reply') = l
        /\ \A i \in 1..l : reply'[i] = byName[back(i)].version
    <3>1. \A i \in 1..l : byName[back(i)].version \in 1..Len(inserted)
      BY <1>1, <2>3
    <3>2. QED
      BY <2>1, <2>2, <3>1
  <2>6. ASSUME NEW i \in 1..l, NEW j \in 1..l, i < j PROVE reply'[i] > reply'[j]
    <3>1. byName[back(i)].version \in Int /\ byName[back(j)].version \in Int
      BY <1>1, <2>3, SMTT(40)
    <3>2. QED
      BY <2>4, <2>5, <2>6, <3>1
  <2>7. QED
    BY <2>3, <2>5, <2>6
<1>3. CASE \E n \in Names : Get(n)
  <2>1. PICK name \in Names : reply' = IF name \in Alive THEN <<byName[name].version>> ELSE <<>>
    BY <1>3 DEF Get
  <2>2. CASE name \in Alive
    BY <1>1, <2>1, <2>2
  <2>3. CASE name \notin Alive
    BY <2>1, <2>3
  <2>4. QED
    BY <2>2, <2>3
<1>4. CASE Length
  BY <1>4 DEF Length
<1>5. QED
  BY <1>2, <1>3, <1>4

-----------------------------------------------------------------------------
(* The theorems *)

\* Every step of the store preserves the invariant.
LEMMA StoreInvStep ==
    ASSUME StoreInv, [Next]_vars
    PROVE  StoreInv'
<1>1. CASE \E n \in Names, t \in Times : Insert(n, t)
  BY <1>1, InsertKeeps
<1>2. CASE List \/ (\E n \in Names : Get(n)) \/ Length
  <2>1. EvictExpired
    BY <1>2 DEF List, Get, Length
  <2>2. QED
    BY <1>2, <2>1, AnswerAlive, EvictKeeps
<1>3. CASE ClockMoves \/ UNCHANGED vars
  <2>1. /\ byName' = byName /\ order' = order /\ inserted' = inserted /\ lapsed' = lapsed
        /\ now' \in Times /\ reply' \in Seq(1..Len(inserted))
    <3>1. CASE ClockMoves
      BY <3>1 DEF ClockMoves
    <3>2. CASE UNCHANGED vars
      BY <3>2 DEF vars, StoreInv, TypeOK
    <3>3. QED
      BY <1>3, <3>1, <3>2
  <2>2. TypeOK'
    BY <2>1 DEF StoreInv, TypeOK
  <2>3. Members(order)' = DOMAIN byName' /\ Len(order') <= MaxEntries /\ OrderIsAge'
    BY <2>1 DEF StoreInv, Members, OrderIsAge
  <2>4. \A v : (LastAt(v)' <=> LastAt(v)) /\ After(v)' = After(v)
    BY <2>1 DEF LastAt, After
  <2>5. StoredLast'
    BY <2>1, <2>4 DEF StoreInv, StoredLast
  <2>6. LastKept'
    BY <2>1, <2>4 DEF StoreInv, LastKept
  <2>7. QED
    BY <2>2, <2>3, <2>5, <2>6 DEF StoreInv
<1>4. QED
  BY <1>1, <1>2, <1>3 DEF Next

\* The invariant holds throughout.
LEMMA StoreInvHolds == Spec => []StoreInv
<1>1. Init => StoreInv
  <2>1. ASSUME Init PROVE StoreInv
    <3>1. /\ DOMAIN byName = {} /\ order = <<>> /\ inserted = <<>> /\ Len(order) = 0
          /\ Len(inserted) = 0 /\ now \in Times /\ lapsed = {} /\ reply = <<>>
      BY <2>1 DEF Init
    <3>2. 1..0 = {} /\ <<>> \in Seq(Names) /\ <<>> \in Seq(1..0)
      OBVIOUS
    <3>3. TypeOK /\ OrderIsAge /\ StoredLast /\ LastKept
      BY <3>1, <3>2 DEF TypeOK, OrderIsAge, StoredLast, LastKept
    <3>4. Members(order) = DOMAIN byName /\ Len(order) <= MaxEntries
      BY <3>1, <3>2, StoreAssumption DEF Members
    <3>5. QED
      BY <3>3, <3>4 DEF StoreInv
  <2>2. QED
    BY <2>1
<1>2. StoreInv /\ [Next]_vars => StoreInv'
  BY StoreInvStep
<1>3. QED
  BY <1>1, <1>2, PTL DEF Spec

\* The last version of a name, as Latest computes it, is its last insertion.
LEMMA LatestIsLast ==
    ASSUME inserted \in Seq(Names), NEW n
    PROVE  \/ Latest(n) = 0
           \/ LastAt(Latest(n)) /\ inserted[Latest(n)] = n
<1> DEFINE at == {i \in 1..Len(inserted) : inserted[i] = n}
<1>1. CASE at = {}
  BY <1>1 DEF Latest
<1>2. CASE at # {}
  <2>1. Len(inserted) \in Nat /\ at \in SUBSET (0..Len(inserted))
    OBVIOUS
  <2>2. \E x \in at : \A y \in at : y <= x
    BY <1>2, <2>1, GreatestElement
  <2>3. Latest(n) \in at /\ \A y \in at : y <= Latest(n)
    BY <1>2, <2>2 DEF Latest
  <2>4. ASSUME NEW j \in (Latest(n) + 1)..Len(inserted), inserted[j] = inserted[Latest(n)]
        PROVE  FALSE
    <3>1. j \in at
      BY <2>1, <2>3, <2>4
    <3>2. QED
      BY <2>1, <2>3, <3>1
  <2>5. QED
    BY <2>3, <2>4 DEF LastAt
<1>3. QED
  BY <1>1, <1>2

\* With the answers, the invariant says what StoreConsistent says.
LEMMA StoreInvSuffices ==
    ASSUME StoreInv, RepliesAreFreshAndSorted
    PROVE  StoreConsistent
<1>1. inserted \in Seq(Names) /\ Len(inserted) \in Nat
  BY DEF StoreInv, TypeOK
<1>2. MapAndOrderAgree
  <2>1. Cardinality(Members(order)) = Len(order)
    BY AgeRises, RisingCount DEF StoreInv, TypeOK
  <2>2. QED
    BY <2>1 DEF StoreInv, MapAndOrderAgree
<1>3. LatestVersionServed
  <2>1. ASSUME NEW n \in DOMAIN byName PROVE byName[n].version = Latest(n)
    <3>1. LastAt(byName[n].version) /\ inserted[byName[n].version] = n
      BY DEF StoreInv, StoredLast
    <3>2. Latest(n) # 0
      <4> DEFINE at == {i \in 1..Len(inserted) : inserted[i] = n}
      <4>1. byName[n].version \in at /\ at \in SUBSET (0..Len(inserted)) /\ at # {}
        BY <1>1, <3>1 DEF LastAt
      <4>2. \E x \in at : \A y \in at : y <= x
        BY <1>1, <4>1, GreatestElement
      <4>3. Latest(n) \in at
        BY <4>1, <4>2 DEF Latest
      <4>4. QED
        BY <1>1, <4>3
    <3>3. QED
      BY <1>1, <3>1, <3>2, LatestIsLast, LastUnique
  <2>2. QED
    BY <2>1 DEF LatestVersionServed
<1>4. KeptWhileRecent
  <2>1. ASSUME NEW n \in Names, Latest(n) # 0
        PROVE  \/ n \in DOMAIN byName
               \/ Latest(n) \in lapsed
               \/ Cardinality(After(Latest(n))) >= MaxEntries
    <3>1. LastAt(Latest(n)) /\ inserted[Latest(n)] = n
      BY <1>1, <2>1, LatestIsLast
    <3>2. QED
      BY <3>1 DEF LastAt, StoreInv, LastKept
  <2>2. QED
    BY <2>1 DEF KeptWhileRecent, After
<1>5. QED
  BY <1>2, <1>3, <1>4 DEF StoreInv, StoreConsistent

\* No answer contains a file that has expired, and a listing is sorted, the
\* newest file first.
LEMMA AnswersHold == Spec => []RepliesAreFreshAndSorted
<1>1. ASSUME StoreInv, Next PROVE RepliesAreFreshAndSorted'
  <2>1. CASE (\E n \in Names, t \in Times : Insert(n, t)) \/ ClockMoves
    <3>1. reply' = <<>>
      BY <2>1 DEF Insert, ClockMoves
    <3>2. QED
      BY <3>1 DEF RepliesAreFreshAndSorted
  <2>2. CASE List \/ (\E n \in Names : Get(n)) \/ Length
    <3>1. EvictExpired
      BY <2>2 DEF List, Get, Length
    <3>2. DOMAIN byName' = Alive /\ \A n \in Alive : byName'[n] = byName[n]
      BY <3>1 DEF EvictExpired
    <3>3. ASSUME NEW n \in Alive PROVE now - byName[n].completedAt <= Ttl
      <4>1. n \in DOMAIN byName /\ Age(byName[n]) <= Ttl
        BY DEF Alive
      <4>2. now \in Int /\ byName[n].completedAt \in Int /\ Ttl \in Nat
        <5>1. now \in Times /\ byName[n].completedAt \in Times
          BY <1>1, <4>1 DEF StoreInv, TypeOK
        <5>2. QED
          BY <5>1, StoreAssumption DEF Times
      <4>3. QED
        BY <4>1, <4>2 DEF Age
    <3>4. now' = now
      BY <3>1 DEF EvictExpired
    <3>5. QED
      BY <1>1, <2>2, <3>1, <3>2, <3>3, <3>4, AnswerAlive DEF RepliesAreFreshAndSorted
  <2>3. QED
    BY <1>1, <2>1, <2>2 DEF Next
<1>2. Init => RepliesAreFreshAndSorted
  BY DEF Init, RepliesAreFreshAndSorted
<1>3. RepliesAreFreshAndSorted /\ UNCHANGED vars => RepliesAreFreshAndSorted'
  BY DEF vars, RepliesAreFreshAndSorted
<1>4. StoreInv /\ RepliesAreFreshAndSorted /\ [Next]_vars => RepliesAreFreshAndSorted'
  BY <1>1, <1>3
<1>5. QED
  BY <1>2, <1>4, StoreInvHolds, PTL DEF Spec

\* The map and the order of the store agree, the order is that of insertion,
\* a name leads to the version stored last, and a file is missing only when
\* it expired or MaxEntries other names came after it; no answer has a file
\* that has expired, and a listing is sorted: for every capacity, time to live
\* and run of the clock.
THEOREM StoreCorrect == Spec => []StoreConsistent
<1>1. StoreInv /\ RepliesAreFreshAndSorted => StoreConsistent
  BY StoreInvSuffices
<1>2. QED
  BY <1>1, StoreInvHolds, AnswersHold, PTL
=============================================================================
