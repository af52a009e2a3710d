---------------------------- MODULE IngestProofs ----------------------------
(***************************************************************************)
(* Proofs about the unified receiver and the file assembler behind it.  Of *)
(* the QBT side: the endpoint queues, the failures, the events and the     *)
(* saved list stay in step.  Of the Weather Wire side: no message and no   *)
(* count of one is lost, and the loop pauses and reports as it should.  Of *)
(* the assembler: it hands out whole files, once, and loses none, for any  *)
(* broadcast that sends one file under a key and any limits of its tables. *)
(***************************************************************************)
EXTENDS IngestReceiver, FileAssembler, DataLemmas

-----------------------------------------------------------------------------
(***************************************************************************)
(* The receivers                                                           *)
(***************************************************************************)

-----------------------------------------------------------------------------
(* What shuffling, rotation and removal do to a queue of endpoints *)

Distinct(q) == \A i, j \in 1..Len(q) : i # j => q[i] # q[j]

\* shuffle_endpoints keeps every endpoint, each once.
LEMMA Shuffled ==
    ASSUME NEW E, NEW l \in Seq(E), NEW q \in Shuffles(Members(l))
    PROVE  q \in Seq(E) /\ Members(q) = Members(l) /\ Distinct(q)
<1> DEFINE M == Members(l)
           n == Cardinality(M)
<1>1. IsFiniteSet(M)
  <2>1. Len(l) \in Int /\ 1 \in Int
    OBVIOUS
  <2>2. QED
    BY <2>1, StretchFinite DEF Members
<1>2. n \in Nat
  BY <1>1, FS_CardinalityType
<1>3. M \subseteq E
  BY DEF Members
<1>4. q \in [1..n -> M] /\ \A i, j \in 1..n : q[i] = q[j] => i = j
  BY DEF Shuffles
<1> HIDE DEF n, M
<1>5. q \in Seq(E) /\ Len(q) = n
  BY <1>2, <1>3, <1>4
<1>6. Distinct(q)
  BY <1>4, <1>5 DEF Distinct
<1>7. Members(q) \subseteq M
  BY <1>4, <1>5 DEF Members
<1>8. Cardinality(Members(q)) = Cardinality(M)
  <2>1. Cardinality({q[i] : i \in 1..Len(q)}) = Len(q)
    BY <1>5, <1>6, DistinctMembers DEF Distinct
  <2>2. QED
    BY <1>5, <2>1 DEF Members, n
<1>9. Members(q) = M
  BY <1>1, <1>7, <1>8, FS_Subset
<1>10. QED
  BY <1>5, <1>6, <1>9 DEF M

\* next_endpoint puts the endpoint it takes back at the end.
LEMMA Rotated ==
    ASSUME NEW E, NEW q \in Seq(E), q # <<>>, Distinct(q)
    PROVE  /\ Head(q) \in E /\ Head(q) \in Members(q)
           /\ Append(Tail(q), Head(q)) \in Seq(E)
           /\ Members(Append(Tail(q), Head(q))) = Members(q)
           /\ Distinct(Append(Tail(q), Head(q)))
<1> DEFINE r == Append(Tail(q), Head(q))
           n == Len(q)
<1>1. n \in Nat /\ n >= 1 /\ Head(q) = q[1] /\ \A i \in 1..n : q[i] \in E
  OBVIOUS
<1>2. Tail(q) \in Seq(E) /\ Len(Tail(q)) = n - 1 /\ \A i \in 1..(n - 1) : Tail(q)[i] = q[i + 1]
  BY <1>1
<1>3. /\ r \in Seq(E) /\ Len(r) = n /\ r[n] = q[1]
      /\ \A i \in 1..(n - 1) : r[i] = q[i + 1]
  BY <1>1, <1>2
<1> HIDE DEF r, n
<1>4. ASSUME NEW x PROVE x \in Members(r) <=> x \in Members(q)
  <2>1. ASSUME x \in Members(r) PROVE x \in Members(q)
    <3>1. PICK i \in 1..n : x = r[i]
      BY <1>3, <2>1 DEF Members
    <3>2. CASE i = n
      BY <1>1, <1>3, <3>1, <3>2 DEF Members, n
    <3>3. CASE i # n
      <4>1. i \in 1..(n - 1) /\ i + 1 \in 1..n
        BY <1>1, <3>3
      <4>2. QED
        BY <1>3, <3>1, <4>1 DEF Members, n
    <3>4. QED
      BY <3>2, <3>3
  <2>2. ASSUME x \in Members(q) PROVE x \in Members(r)
    <3>1. PICK i \in 1..n : x = q[i]
      BY <2>2 DEF Members, n
    <3>2. CASE i = 1
      <4>1. n \in 1..n
        BY <1>1
      <4>2. QED
        BY <1>3, <3>1, <3>2, <4>1 DEF Members
    <3>3. CASE i # 1
      <4>1. i - 1 \in 1..(n - 1) /\ i - 1 \in 1..n /\ (i - 1) + 1 = i
        BY <1>1, <3>3
      <4>2. x = r[i - 1]
        BY <1>3, <3>1, <4>1
      <4>3. QED
        BY <1>3, <4>1, <4>2 DEF Members
    <3>4. QED
      BY <3>2, <3>3
  <2>3. QED
    BY <2>1, <2>2
<1>5. Distinct(r)
  <2> SUFFICES ASSUME NEW i \in 1..n, NEW j \in 1..n, i # j PROVE r[i] # r[j]
    BY <1>3 DEF Distinct
  <2> DEFINE from(k) == IF k = n THEN 1 ELSE k + 1
  <2>1. \A k \in 1..n : r[k] = q[from(k)] /\ from(k) \in 1..n
    <3>1. ASSUME NEW k \in 1..n, k # n PROVE k \in 1..(n - 1)
      BY <1>1, <3>1
    <3>2. QED
      BY <1>1, <1>3, <3>1
  <2>2. from(i) # from(j)
    BY <1>1
  <2> HIDE DEF from
  <2>3. QED
    BY <2>1, <2>2 DEF Distinct, n
<1>6. Members(r) = Members(q)
  BY <1>4
<1>7. Head(q) \in E /\ Head(q) \in Members(q)
  BY <1>1 DEF Members, n
<1>8. QED
  BY <1>3, <1>5, <1>6, <1>7 DEF r

\* mark_bad_endpoint takes out one endpoint and nothing else.
LEMMA Struck ==
    ASSUME NEW q \in Seq(Endpoints), Distinct(q), NEW e
    PROVE  /\ Without(q, e) \in Seq(Endpoints)
           /\ Members(Without(q, e)) = Members(q) \ {e}
           /\ Distinct(Without(q, e))
<1> DEFINE r == Without(q, e)
<1>1. /\ r \in Seq(Endpoints)
      /\ Members(r) = Members(q) \cap (Endpoints \ {e})
      /\ Thinned(r, q)
  BY RetainKeeps DEF Without
<1> HIDE DEF r
<1>2. Members(q) \subseteq Endpoints
  BY DEF Members
<1>3. PICK g \in [1..Len(r) -> 1..Len(q)] :
        /\ \A i \in 1..Len(r) : r[i] = q[g[i]]
        /\ \A i, j \in 1..Len(r) : i < j => g[i] < g[j]
  BY <1>1 DEF Thinned
<1>4. Distinct(r)
  <2> SUFFICES ASSUME NEW i \in 1..Len(r), NEW j \in 1..Len(r), i # j PROVE r[i] # r[j]
    BY DEF Distinct
  <2>1. g[i] \in 1..Len(q) /\ g[j] \in 1..Len(q)
    BY <1>3
  <2>2. i < j \/ j < i
    BY <1>1
  <2>3. g[i] # g[j]
    BY <1>3, <2>1, <2>2
  <2>4. QED
    BY <1>3, <2>1, <2>3 DEF Distinct
<1>5. QED
  BY <1>1, <1>2, <1>4 DEF r

-----------------------------------------------------------------------------
(* The QBT side *)

\* A queue offers the endpoints of a list without those that failed, each
\* once.
Offer(q, l, f) == q \in Seq(Endpoints) /\ Distinct(q) /\ Members(q) = Members(l) \ f

Offers(p, s, c, f) == Offer(p, c.servers, f) /\ Offer(s, c.sat, f)

Dialled == {"connecting", "auth", "session", "saving", "renaming"}

\* What EndpointsConsistent and FileIsWhole need to be inductive: the queues
\* stay duplicate-free, an endpoint is in use wherever one can fail, and
\* what is being saved is the list in use, written whole before the rename.
QbtInv ==
    /\ TypeOK
    /\ pc # "ended" => Offers(primary, satellite, current, failed)
    /\ FailedNotRetried /\ PrimariesFirst /\ EventsFollowConnection
    /\ FileIsWhole
    /\ pc \in Dialled => host \in Endpoints
    /\ pc \in {"saving", "renaming"} => current \in Lists
    /\ pc = "renaming" => tmp = current

\* The two parts of every list the manager may be given.
LEMMA ListParts ==
    ASSUME TypeOK, NEW l \in Lists \cup {Defaults}
    PROVE  l.servers \in Seq(Endpoints) /\ l.sat \in Seq(Endpoints)
<1>1. CASE l \in Lists
  BY <1>1, QbtAssumption
<1>2. CASE l = Defaults
  <2>1. config.servers \in Seq(Endpoints)
    BY QbtAssumption DEF TypeOK
  <2>2. QED
    BY <1>2, <2>1 DEF Defaults, Servers
<1>3. QED
  BY <1>1, <1>2

\* rebuild_available offers all of the new list.
LEMMA Rebuilt ==
    ASSUME TypeOK, NEW l \in Lists \cup {Defaults}, RebuildAvailable(l)
    PROVE  /\ current' = l /\ failed' = {}
           /\ primary' \in Seq(Endpoints) /\ satellite' \in Seq(Endpoints)
           /\ Offers(primary', satellite', current', failed')
<1>1. l.servers \in Seq(Endpoints) /\ l.sat \in Seq(Endpoints)
  BY ListParts
<1>2. /\ current' = l /\ failed' = {}
      /\ primary' \in Shuffles(Members(l.servers))
      /\ satellite' \in Shuffles(Members(l.sat))
  BY DEF RebuildAvailable
<1>3. Offer(primary', l.servers, {})
  BY <1>1, <1>2, Shuffled DEF Offer
<1>4. Offer(satellite', l.sat, {})
  BY <1>1, <1>2, Shuffled DEF Offer
<1>5. QED
  BY <1>2, <1>3, <1>4 DEF Offers, Offer

\* mark_bad_endpoint keeps both queues in step with the failures.
LEMMA MarkedBad ==
    ASSUME NEW e \in Endpoints, failed \subseteq Endpoints,
           Offers(primary, satellite, current, failed), MarkBadEndpoint(e)
    PROVE  /\ current' = current /\ failed' = failed \cup {e} /\ failed' \subseteq Endpoints
           /\ primary' \in Seq(Endpoints) /\ satellite' \in Seq(Endpoints)
           /\ Offers(primary', satellite', current', failed')
<1>1. /\ primary \in Seq(Endpoints) /\ Distinct(primary)
      /\ satellite \in Seq(Endpoints) /\ Distinct(satellite)
      /\ Members(primary) = Members(current.servers) \ failed
      /\ Members(satellite) = Members(current.sat) \ failed
  BY DEF Offers, Offer
<1>2. /\ primary' = Without(primary, e) /\ satellite' = Without(satellite, e)
      /\ failed' = failed \cup {e} /\ current' = current
  BY DEF MarkBadEndpoint
<1>3. Offer(primary', current.servers, failed')
  <2>1. /\ primary' \in Seq(Endpoints) /\ Distinct(primary')
        /\ Members(primary') = Members(primary) \ {e}
    BY <1>1, <1>2, Struck
  <2>2. QED
    BY <1>1, <1>2, <2>1 DEF Offer
<1>4. Offer(satellite', current.sat, failed')
  <2>1. /\ satellite' \in Seq(Endpoints) /\ Distinct(satellite')
        /\ Members(satellite') = Members(satellite) \ {e}
    BY <1>1, <1>2, Struck
  <2>2. QED
    BY <1>1, <1>2, <2>1 DEF Offer
<1>5. QED
  BY <1>2, <1>3, <1>4 DEF Offers, Offer

Linked == {"auth", "session", "saving", "renaming"}

\* A step that leaves the lists and the files alone, comes upon no endpoint
\* to connect to and no list to save, and tells of the connection as it is.
Quiet ==
    /\ UNCHANGED <<config, manager, disk, failed>>
    /\ pc' \in Pcs /\ pc # "ended"
    /\ shutdown' \in BOOLEAN /\ silence' \in 0..WatchdogTimeout /\ told' \in BOOLEAN
    /\ host' \in {host, NoEndpoint}
    /\ pc' \in Dialled => pc \in Dialled /\ host' = host
    /\ pc' # "ended" => (told' <=> pc' \in Linked)
    /\ pc' = "connecting" => pc = "connecting"
    /\ pc' \in {"saving", "renaming"} => pc' = pc

\* Quiet steps keep the invariant.
LEMMA QuietKeeps ==
    ASSUME QbtInv, Quiet
    PROVE  QbtInv'
<1>1. /\ config' = config /\ current' = current /\ primary' = primary
      /\ satellite' = satellite /\ file' = file /\ tmp' = tmp /\ failed' = failed
  BY DEF Quiet, manager, disk
<1>2. TypeOK'
  <2>1. Defaults' = Defaults
    BY <1>1 DEF Defaults, Servers
  <2>2. QED
    BY <1>1, <2>1 DEF QbtInv, TypeOK, Quiet
<1>3. pc' # "ended" => Offers(primary', satellite', current', failed')
  BY <1>1 DEF QbtInv, Quiet
<1>4. FailedNotRetried' /\ PrimariesFirst'
  BY <1>1 DEF QbtInv, Quiet, FailedNotRetried, PrimariesFirst, Follow, Dialled
<1>5. EventsFollowConnection' /\ FileIsWhole'
  BY <1>1 DEF QbtInv, Quiet, EventsFollowConnection, FileIsWhole, Linked
<1>6. pc' \in Dialled => host' \in Endpoints
  BY DEF QbtInv, Quiet
<1>7. /\ pc' \in {"saving", "renaming"} => current' \in Lists
      /\ pc' = "renaming" => tmp' = current'
  BY <1>1 DEF QbtInv, Quiet
<1>8. QED
  BY <1>2, <1>3, <1>4, <1>5, <1>6, <1>7 DEF QbtInv

\* A step to the top of the loop that has the endpoint in use marked bad.
LEMMA MarkBadKeeps ==
    ASSUME QbtInv, pc \in Dialled, pc' = "next", MarkBadEndpoint(host), told' = FALSE,
           UNCHANGED <<config, shutdown, host, silence, disk>>
    PROVE  QbtInv'
<1>1. host \in Endpoints /\ failed \subseteq Endpoints
      /\ Offers(primary, satellite, current, failed)
  BY DEF QbtInv, TypeOK, Dialled
<1>2. /\ current' = current /\ failed' \subseteq Endpoints
      /\ primary' \in Seq(Endpoints) /\ satellite' \in Seq(Endpoints)
      /\ Offers(primary', satellite', current', failed')
  BY <1>1, MarkedBad
<1>3. TypeOK'
  <2>1. Defaults' = Defaults
    BY DEF Defaults, Servers
  <2>2. QED
    BY <1>2, <2>1 DEF QbtInv, TypeOK, Pcs, disk
<1>4. FailedNotRetried' /\ PrimariesFirst' /\ EventsFollowConnection'
  BY DEF FailedNotRetried, PrimariesFirst, EventsFollowConnection
<1>5. FileIsWhole'
  BY DEF QbtInv, FileIsWhole, disk
<1>6. QED
  BY <1>2, <1>3, <1>4, <1>5 DEF QbtInv, Dialled

\* What follows a session, whatever ended it.
LEMMA DisconnectKeeps ==
    ASSUME QbtInv, pc \in Linked, Disconnect, UNCHANGED <<config, shutdown, host, silence, disk>>
    PROVE  QbtInv'
<1>1. CASE Follow /\ ~shutdown
  <2>1. pc \in Dialled /\ pc' = "next" /\ MarkBadEndpoint(host) /\ told' = FALSE
    BY <1>1 DEF Disconnect, Linked, Dialled
  <2>2. QED
    BY <2>1, MarkBadKeeps
<1>2. CASE ~(Follow /\ ~shutdown)
  <2>1. Quiet
    BY <1>2 DEF Quiet, Disconnect, QbtInv, TypeOK, Linked, Dialled, Pcs, manager, disk
  <2>2. QED
    BY <2>1, QuietKeeps
<1>3. QED
  BY <1>1, <1>2

\* A new list, from the configuration, the file or the stream, is offered
\* whole.
LEMMA RebuildKeeps ==
    ASSUME QbtInv, NEW l \in Lists \cup {Defaults}, RebuildAvailable(l),
           pc' \in Pcs \ {"ended", "connecting", "renaming"},
           pc' = "saving" => l \in Lists,
           pc' \in Dialled => pc \in Dialled /\ host' = host,
           host' \in {host, NoEndpoint}, told' \in BOOLEAN, told' <=> pc' \in Linked,
           silence' \in 0..WatchdogTimeout, shutdown' \in BOOLEAN,
           config' = config, file' = file, tmp' \in {tmp, Torn}
    PROVE  QbtInv'
<1>1. /\ current' = l /\ failed' = {}
      /\ primary' \in Seq(Endpoints) /\ satellite' \in Seq(Endpoints)
      /\ Offers(primary', satellite', current', failed')
  BY Rebuilt DEF QbtInv
<1>2. TypeOK'
  <2>1. Defaults' = Defaults
    BY DEF Defaults, Servers
  <2>2. QED
    BY <1>1, <2>1 DEF QbtInv, TypeOK
<1>3. FailedNotRetried' /\ PrimariesFirst'
  BY DEF FailedNotRetried, PrimariesFirst
<1>4. EventsFollowConnection' /\ FileIsWhole'
  BY DEF QbtInv, FileIsWhole, EventsFollowConnection, Linked
<1>5. pc' \in Dialled => host' \in Endpoints
  BY DEF QbtInv
<1>6. QED
  BY <1>1, <1>2, <1>3, <1>4, <1>5 DEF QbtInv

\* next_endpoint offers what has not failed, a primary server first.
LEMMA PickKeeps ==
    ASSUME QbtInv, PickEndpoint, config' = config
    PROVE  QbtInv'
<1>1. /\ pc = "next" /\ pc' = "connecting" /\ file' = file /\ tmp' = tmp
      /\ shutdown' = shutdown /\ silence' = silence /\ told' = told /\ failed' = failed
  BY DEF PickEndpoint, disk
<1>2. /\ Offer(primary, current.servers, failed) /\ Offer(satellite, current.sat, failed)
      /\ told = FALSE
  BY <1>1 DEF QbtInv, TypeOK, Offers, EventsFollowConnection
<1>3. Defaults' = Defaults
  BY DEF Defaults, Servers
<1>4. /\ current' = current /\ host' \in Endpoints /\ host' \notin failed
      /\ Offer(primary', current.servers, failed) /\ Offer(satellite', current.sat, failed)
      /\ host' \notin Members(primary') => Members(current.servers) \subseteq failed
  <2>1. CASE NextPrimary
    <3>1. /\ primary # <<>> /\ host' = Head(primary) /\ current' = current
          /\ primary' = Append(Tail(primary), Head(primary)) /\ satellite' = satellite
      BY <2>1 DEF NextPrimary
    <3>2. /\ primary \in Seq(Endpoints) /\ Distinct(primary)
          /\ Members(primary) = Members(current.servers) \ failed
      BY <1>2 DEF Offer
    <3>3. /\ host' \in Endpoints /\ host' \in Members(primary)
          /\ primary' \in Seq(Endpoints) /\ Members(primary') = Members(primary)
          /\ Distinct(primary')
      BY <3>1, <3>2, Rotated
    <3>4. QED
      BY <1>2, <3>1, <3>2, <3>3 DEF Offer
  <2>2. CASE NextSatellite
    <3>1. /\ primary = <<>> /\ satellite # <<>> /\ host' = Head(satellite)
          /\ satellite' = Append(Tail(satellite), Head(satellite))
          /\ primary' = primary /\ current' = current
      BY <2>2 DEF NextSatellite
    <3>2. /\ satellite \in Seq(Endpoints) /\ Distinct(satellite)
          /\ Members(satellite) = Members(current.sat) \ failed
      BY <1>2 DEF Offer
    <3>3. /\ host' \in Endpoints /\ host' \in Members(satellite)
          /\ satellite' \in Seq(Endpoints) /\ Members(satellite') = Members(satellite)
          /\ Distinct(satellite')
      BY <3>1, <3>2, Rotated
    <3>4. Members(primary) = {}
      BY <3>1 DEF Members
    <3>5. QED
      BY <1>2, <3>1, <3>2, <3>3, <3>4 DEF Offer
  <2>3. QED
    BY <2>1, <2>2 DEF PickEndpoint
<1>5. TypeOK'
  <2>1. primary' \in Seq(Endpoints) /\ satellite' \in Seq(Endpoints)
    BY <1>4 DEF Offer
  <2>2. QED
    BY <1>1, <1>3, <1>4, <2>1 DEF QbtInv, TypeOK, Pcs
<1>6. FailedNotRetried' /\ PrimariesFirst'
  BY <1>1, <1>4 DEF FailedNotRetried, PrimariesFirst
<1>7. EventsFollowConnection' /\ FileIsWhole'
  BY <1>1, <1>2 DEF QbtInv, EventsFollowConnection, FileIsWhole
<1>8. QED
  BY <1>1, <1>4, <1>5, <1>6, <1>7 DEF QbtInv, Offers

\* save_atomic: only a list written whole reaches the path.
LEMMA SaveKeeps ==
    ASSUME QbtInv, SaveWrites \/ SaveRenames, config' = config
    PROVE  QbtInv'
<1>1. /\ current' = current /\ primary' = primary /\ satellite' = satellite
      /\ failed' = failed /\ host' = host /\ told' = told /\ shutdown' = shutdown
      /\ silence' = silence /\ pc \in {"saving", "renaming"}
      /\ pc' \in {"renaming", "session"} /\ current \in Lists
  BY DEF SaveWrites, SaveRenames, manager, QbtInv
<1>2. /\ file' \in {file, tmp} /\ tmp' \in Lists \cup {NoFile}
      /\ pc' = "renaming" => tmp' = current' /\ file' = file
      /\ pc' = "session" => file' = current
  BY <1>1 DEF SaveWrites, SaveRenames, manager, QbtInv
<1>3. file' # Torn
  BY <1>1, <1>2, QbtAssumption DEF QbtInv, FileIsWhole
<1>4. TypeOK'
  <2>1. Defaults' = Defaults
    BY DEF Defaults, Servers
  <2>2. QED
    BY <1>1, <1>2, <2>1 DEF QbtInv, TypeOK, Pcs
<1>5. FailedNotRetried' /\ PrimariesFirst' /\ EventsFollowConnection'
  BY <1>1 DEF QbtInv, FailedNotRetried, PrimariesFirst, EventsFollowConnection
<1>6. QED
  BY <1>1, <1>2, <1>3, <1>4, <1>5 DEF QbtInv, FileIsWhole, Dialled

\* Every step of the QBT receiver keeps its invariant.
LEMMA QbtStep ==
    ASSUME QbtInv, Next
    PROVE  QbtInv'
<1> USE DEF Dialled, Linked, Pcs
<1>c. config' = config /\ TypeOK
  BY DEF Next, QbtInv
<1>w. WatchdogTimeout \in Nat /\ 0 \in 0..WatchdogTimeout
  BY QbtAssumption
<1>1. CASE Start
  <2>1. /\ pc' \in {"boot", "next"} /\ RebuildAvailable(Defaults) /\ shutdown' = FALSE
        /\ host' = NoEndpoint /\ silence' = 0 /\ told' = FALSE /\ file' = file /\ tmp' = tmp
    BY <1>1 DEF Start, disk
  <2>2. PICK l \in Lists \cup {Defaults} : l = Defaults
    OBVIOUS
  <2>3. /\ RebuildAvailable(l) /\ pc' \in Pcs \ {"ended", "connecting", "renaming"}
        /\ pc' # "saving" /\ pc' \notin Dialled /\ pc' \notin Linked
        /\ host' \in {host, NoEndpoint} /\ tmp' \in {tmp, Torn}
    BY <2>1, <2>2
  <2>4. silence' \in 0..WatchdogTimeout /\ shutdown' \in BOOLEAN
    BY <1>w, <2>1, Zenon
  <2>5. QED
    BY <1>c, <2>1, <2>3, <2>4, RebuildKeeps
<1>2. CASE Load
  <2>1. /\ pc = "boot" /\ pc' = "next" /\ shutdown' = shutdown /\ host' = host
        /\ silence' = silence /\ told' = told /\ file' = file /\ tmp' = tmp /\ told = FALSE
    BY <1>2 DEF Load, disk, QbtInv, TypeOK, EventsFollowConnection
  <2>2. CASE file # NoFile /\ ~IsEmpty(file)
    <3>1. RebuildAvailable(file)
      BY <1>2, <2>2 DEF Load
    <3>2. file \in Lists
      BY <2>2 DEF QbtInv, TypeOK, FileIsWhole
    <3>3. silence' \in 0..WatchdogTimeout /\ shutdown' \in BOOLEAN
      BY <2>1 DEF QbtInv, TypeOK
    <3>4. QED
      BY <1>c, <2>1, <3>1, <3>2, <3>3, RebuildKeeps
  <2>3. CASE ~(file # NoFile /\ ~IsEmpty(file))
    <3>1. Quiet
      BY <1>2, <1>c, <2>1, <2>3 DEF Load, Quiet, TypeOK, manager, disk
    <3>2. QED
      BY <3>1, QuietKeeps
  <2>4. QED
    BY <2>2, <2>3
<1>3. CASE Shutdown
  <2>1. Quiet
    BY <1>3, <1>c, <1>w DEF Shutdown, Quiet, QbtInv, TypeOK, EventsFollowConnection, manager, disk
  <2>2. QED
    BY <2>1, QuietKeeps
<1>4. CASE Crash
  <2>1. Quiet
    BY <1>4, <1>c, <1>w DEF Crash, Quiet, QbtInv, TypeOK, EventsFollowConnection, manager, disk
  <2>2. QED
    BY <2>1, QuietKeeps
<1>5. CASE LoadFails
  <2>1. Quiet
    BY <1>5, <1>c, <1>w DEF LoadFails, Quiet, QbtInv, TypeOK, EventsFollowConnection, manager, disk
  <2>2. QED
    BY <2>1, QuietKeeps
<1>6. CASE LoopEnds
  <2>1. Quiet
    BY <1>6, <1>c, <1>w DEF LoopEnds, Quiet, QbtInv, TypeOK, EventsFollowConnection, manager, disk
  <2>2. QED
    BY <2>1, QuietKeeps
<1>7. CASE NoServers
  <2>1. Quiet
    BY <1>7, <1>c, <1>w DEF NoServers, Quiet, QbtInv, TypeOK, EventsFollowConnection, manager, disk
  <2>2. QED
    BY <2>1, QuietKeeps
<1>8. CASE WaitEnds
  <2>1. Quiet
    BY <1>8, <1>c, <1>w DEF WaitEnds, Quiet, QbtInv, TypeOK, EventsFollowConnection, manager, disk
  <2>2. QED
    BY <2>1, QuietKeeps
<1>9. CASE Connects
  <2>1. Quiet
    BY <1>9, <1>c, <1>w DEF Connects, Quiet, QbtInv, TypeOK, EventsFollowConnection, manager, disk
  <2>2. QED
    BY <2>1, QuietKeeps
<1>10. CASE AuthSent
  <2>1. Quiet
    BY <1>10, <1>c, <1>w DEF AuthSent, Quiet, QbtInv, TypeOK, EventsFollowConnection, manager, disk
  <2>2. QED
    BY <2>1, QuietKeeps
<1>11. CASE SaveFails
  <2>1. Quiet
    BY <1>11, <1>c, <1>w DEF SaveFails, Quiet, QbtInv, TypeOK, EventsFollowConnection, manager, disk
  <2>2. QED
    BY <2>1, QuietKeeps
<1>12. CASE ReadData
  <2>1. Quiet
    BY <1>12, <1>c, <1>w DEF ReadData, Quiet, QbtInv, TypeOK, EventsFollowConnection, manager, disk
  <2>2. QED
    BY <2>1, QuietKeeps
<1>13. CASE ReadTimesOut
  <2>1. Quiet
    BY <1>13, <1>c, <1>w DEF ReadTimesOut, ShouldClose, Quiet, QbtInv, TypeOK, EventsFollowConnection, manager, disk
  <2>2. QED
    BY <2>1, QuietKeeps
<1>14. CASE PickEndpoint
  BY <1>c, <1>14, PickKeeps
<1>15. CASE ConnectFails
  <2>1. CASE Follow
    <3>1. /\ pc \in Dialled /\ pc' = "next" /\ MarkBadEndpoint(host) /\ told' = FALSE
          /\ UNCHANGED <<config, shutdown, host, silence, disk>>
      BY <1>c, <1>15, <2>1 DEF ConnectFails, QbtInv, TypeOK, EventsFollowConnection
    <3>2. QED
      BY <3>1, MarkBadKeeps
  <2>2. CASE ~Follow
    <3>1. Quiet
      BY <1>c, <1>15, <2>2 DEF ConnectFails, Quiet, QbtInv, TypeOK, EventsFollowConnection, manager, disk
    <3>2. QED
      BY <3>1, QuietKeeps
  <2>3. QED
    BY <2>1, <2>2
<1>16. CASE AuthFails
  <2>1. pc \in Linked /\ Disconnect /\ UNCHANGED <<config, shutdown, host, silence, disk>>
    BY <1>c, <1>16 DEF AuthFails
  <2>2. QED
    BY <2>1, DisconnectKeeps
<1>17. CASE SessionLost
  <2>1. pc \in Linked /\ Disconnect /\ UNCHANGED <<config, shutdown, host, silence, disk>>
    BY <1>c, <1>17 DEF SessionLost
  <2>2. QED
    BY <2>1, DisconnectKeeps
<1>18. CASE SessionStops
  <2>1. pc \in Linked /\ Disconnect /\ UNCHANGED <<config, shutdown, host, silence, disk>>
    BY <1>c, <1>18 DEF SessionStops
  <2>2. QED
    BY <2>1, DisconnectKeeps
<1>19. CASE WatchdogCloses
  <2>1. pc \in Linked /\ Disconnect /\ UNCHANGED <<config, shutdown, host, silence, disk>>
    BY <1>c, <1>19 DEF WatchdogCloses
  <2>2. QED
    BY <2>1, DisconnectKeeps
<1>20. CASE SaveWrites \/ SaveRenames
  BY <1>c, <1>20, SaveKeeps
<1>21. ASSUME NEW l \in Lists, ReadEmptyList(l)
      PROVE  QbtInv'
  <2>1. Quiet
    BY <1>21, <1>c, <1>w DEF ReadEmptyList, Quiet, QbtInv, TypeOK, EventsFollowConnection, manager, disk
  <2>2. QED
    BY <2>1, QuietKeeps
<1>22. ASSUME NEW l \in Lists, ReadList(l)
      PROVE  QbtInv'
  <2>1. /\ pc = "session" /\ silence' = 0 /\ RebuildAvailable(l) /\ tmp' = Torn
        /\ pc' = "saving" /\ shutdown' = shutdown /\ host' = host /\ told' = told
        /\ file' = file /\ told = TRUE
    BY <1>22 DEF ReadList, QbtInv, TypeOK, EventsFollowConnection
  <2>2. shutdown' \in BOOLEAN
    BY <2>1 DEF QbtInv, TypeOK
  <2>3. QED
    BY <1>c, <1>w, <2>1, <2>2, RebuildKeeps
<1>23. QED
  BY <1>1, <1>2, <1>3, <1>4, <1>5, <1>6, <1>7, <1>8, <1>9, <1>10, <1>11, <1>12, <1>13, <1>14, <1>15, <1>16, <1>17, <1>18, <1>19, <1>20, <1>21, <1>22
  DEF Next, Step, Loop, Read

\* The queues hold no endpoint twice, so that they are as long as their sets.
LEMMA QbtInvMeans ==
    ASSUME QbtInv
    PROVE  EndpointsConsistent /\ FileIsWhole
<1>1. ASSUME pc # "ended" PROVE AvailableIsCurrent
  <2>1. Offer(primary, current.servers, failed) /\ Offer(satellite, current.sat, failed)
    BY <1>1 DEF QbtInv, Offers
  <2>2. \A q \in Seq(Endpoints) : Distinct(q) => Len(q) = Cardinality(Members(q))
    BY DistinctMembers DEF Distinct, Members
  <2>3. QED
    BY <2>1, <2>2 DEF Offer, AvailableIsCurrent
<1>2. QED
  BY <1>1 DEF QbtInv, EndpointsConsistent, AvailableIsCurrent

\* The QBT side of the unified receiver keeps its invariant.
THEOREM QbtInvHolds == IngestSpec => []QbtInv
<1>1. IngestInit => QbtInv
  <2> SUFFICES ASSUME IngestInit PROVE QbtInv
    OBVIOUS
  <2>1. Init
    BY DEF IngestInit
  <2>2. TypeOK
    <3>1. <<>> \in Seq(Endpoints) /\ 0 \in 0..WatchdogTimeout
      BY QbtAssumption
    <3>2. QED
      BY <2>1, <3>1 DEF Init, TypeOK, Pcs
  <2>3. QED
    BY <2>1, <2>2, QbtAssumption DEF Init, QbtInv, FailedNotRetried, PrimariesFirst,
       EventsFollowConnection, FileIsWhole, Dialled
<1>2. QbtInv /\ [IngestNext]_ingestVars => QbtInv'
  <2> SUFFICES ASSUME QbtInv, [IngestNext]_ingestVars PROVE QbtInv'
    OBVIOUS
  <2>1. CASE Next
    BY <2>1, QbtStep
  <2>2. CASE UNCHANGED vars
    <3>1. Defaults' = Defaults /\ Follow' = Follow
      BY <2>2 DEF vars, Defaults, Servers, Follow
    <3>2. TypeOK'
      BY <2>2, <3>1 DEF vars, manager, disk, QbtInv, TypeOK
    <3>3. QED
      BY <2>2, <3>1, <3>2 DEF vars, manager, disk, QbtInv, FailedNotRetried, PrimariesFirst,
         EventsFollowConnection, FileIsWhole
  <2>3. QED
    BY <2>1, <2>2 DEF IngestNext, Qbt, WeatherWire, ingestVars
<1>3. QED
  BY <1>1, <1>2, PTL DEF IngestSpec

\* Through lists, failures, restarts and crashes the endpoints on offer are
\* those of the list in use without the failed ones, each once; none that
\* failed is dialled again, satellites only stand in for failed primaries,
\* and the events match the connection (server_list_manager.rs, client.rs).
THEOREM EndpointsCorrect == IngestSpec => []EndpointsConsistent
<1>1. QbtInv => EndpointsConsistent
  BY QbtInvMeans
<1>2. QED
  BY <1>1, QbtInvHolds, PTL

\* save_atomic never leaves a half-written server list at the path, wherever
\* the process dies.
THEOREM SavedListWhole == IngestSpec => []FileIsWhole
<1>1. QbtInv => FileIsWhole
  BY QbtInvMeans
<1>2. QED
  BY <1>1, QbtInvHolds, PTL

-----------------------------------------------------------------------------
(* The Weather Wire transport *)

Hits(s, S) == {i \in 1..Len(s) : s[i] \in S}

\* Places shifted by m are as many as before.
LEMMA Shifted ==
    ASSUME NEW B \in SUBSET Nat, IsFiniteSet(B), NEW m \in Nat
    PROVE  /\ IsFiniteSet({i + m : i \in B})
           /\ Cardinality({i + m : i \in B}) = Cardinality(B)
<1> DEFINE T == {i + m : i \in B}
           f == [i \in B |-> i + m]
<1>1. f \in Surjection(B, T)
  BY DEF Surjection
<1>2. f \in Injection(B, T)
  BY DEF Injection, IsInjective
<1>3. ExistsBijection(B, T)
  BY <1>1, <1>2 DEF ExistsBijection, Bijection
<1>4. QED
  BY <1>3, FS_Bijection

\* The places of a sequence that hold a member of S are finitely many.
LEMMA HitsCounted ==
    ASSUME NEW E, NEW s \in Seq(E), NEW S
    PROVE  /\ IsFiniteSet(Hits(s, S)) /\ Hits(s, S) \in SUBSET Nat
           /\ WxWire!CountOf(s, S) = Cardinality(Hits(s, S))
           /\ WxWire!CountOf(s, S) \in Nat /\ WxWire!CountOf(s, S) <= Len(s)
<1>1. Len(s) \in Nat /\ Hits(s, S) \subseteq 1..Len(s)
  BY DEF Hits
<1>2. IsFiniteSet(1..Len(s)) /\ Cardinality(1..Len(s)) = Len(s)
  <2>1. IsFiniteSet(1..Len(s)) /\ Cardinality(1..Len(s)) = IF 1 > Len(s) THEN 0 ELSE Len(s) - 1 + 1
    BY <1>1, FS_Interval
  <2>2. QED
    BY <1>1, <2>1
<1>3. IsFiniteSet(Hits(s, S)) /\ Cardinality(Hits(s, S)) <= Len(s)
  BY <1>1, <1>2, FS_Subset
<1>4. WxWire!CountOf(s, S) = Cardinality(Hits(s, S))
  BY DEF WxWire!CountOf, Hits, WxWire!Cardinality, Cardinality, WxWire!IsFiniteSet, IsFiniteSet
<1>5. QED
  BY <1>1, <1>3, <1>4, FS_CardinalityType

\* r is s followed by t.
Joins(r, s, t) ==
    /\ Len(r) = Len(s) + Len(t)
    /\ \A i \in 1..Len(s) : r[i] = s[i]
    /\ \A i \in 1..Len(t) : r[i + Len(s)] = t[i]

\* What the parts of a sequence hold adds up.
LEMMA CountsAdd ==
    ASSUME NEW E, NEW s \in Seq(E), NEW t \in Seq(E), NEW r \in Seq(E), NEW S, Joins(r, s, t)
    PROVE  WxWire!CountOf(r, S) = WxWire!CountOf(s, S) + WxWire!CountOf(t, S)
<1>j. /\ Len(r) = Len(s) + Len(t)
      /\ \A i \in 1..Len(s) : r[i] = s[i]
      /\ \A i \in 1..Len(t) : r[i + Len(s)] = t[i]
  BY DEF Joins
<1> DEFINE m == Len(s)
           A == Hits(s, S)
           B == Hits(t, S)
           C == {i + m : i \in B}
<1>1. /\ m \in Nat /\ Len(t) \in Nat /\ IsFiniteSet(A) /\ IsFiniteSet(B)
      /\ B \in SUBSET Nat /\ A \subseteq 1..m /\ B \subseteq 1..Len(t)
  <2>1. IsFiniteSet(A) /\ IsFiniteSet(B) /\ B \in SUBSET Nat
    BY HitsCounted, Zenon
  <2>2. m \in Nat /\ Len(t) \in Nat /\ A \subseteq 1..m /\ B \subseteq 1..Len(t)
    BY DEF Hits
  <2>3. QED
    BY <2>1, <2>2
<1>2. Hits(r, S) = A \cup C
  <2>1. ASSUME NEW x \in Hits(r, S) PROVE x \in A \cup C
    <3>1. x \in 1..(m + Len(t)) /\ r[x] \in S
      BY <1>j DEF Hits
    <3>2. CASE x <= m
      <4>1. x \in 1..Len(s)
        BY <1>1, <3>1, <3>2
      <4>2. QED
        BY <1>j, <3>1, <4>1 DEF Hits
    <3>3. CASE ~(x <= m)
      <4>1. PICK y \in 1..Len(t) : x = y + m
        <5>1. x - m \in 1..Len(t) /\ x = (x - m) + m
          BY <1>1, <3>1, <3>3
        <5>2. QED
          BY <5>1
      <4>2. t[y] \in S
        BY <1>j, <3>1, <4>1
      <4>3. y \in B
        BY <4>2 DEF Hits
      <4>4. QED
        BY <4>1, <4>3
    <3>4. QED
      BY <3>2, <3>3
  <2>2. ASSUME NEW x \in A PROVE x \in Hits(r, S)
    <3>1. x \in 1..m /\ x \in 1..Len(r) /\ s[x] \in S
      BY <1>1, <1>j DEF Hits
    <3>2. QED
      BY <1>j, <3>1 DEF Hits
  <2>3. ASSUME NEW x \in C PROVE x \in Hits(r, S)
    <3>1. PICK y \in B : x = y + m
      OBVIOUS
    <3>2. y \in 1..Len(t) /\ t[y] \in S
      BY DEF Hits
    <3>3. x \in 1..Len(r)
      BY <1>1, <1>j, <3>1, <3>2
    <3>4. QED
      BY <1>j, <3>1, <3>2, <3>3 DEF Hits
  <2> HIDE DEF A, C
  <2>4. QED
    BY <2>1, <2>2, <2>3
<1>3. IsFiniteSet(C) /\ Cardinality(C) = Cardinality(B)
  BY <1>1, Shifted
<1>4. A \cap C = {}
  BY <1>1
<1> HIDE DEF A, B, C
<1>5. Cardinality(A \cup C) = Cardinality(A) + Cardinality(C) - Cardinality(A \cap C)
  BY <1>1, <1>3, FS_Union
<1>6. Cardinality(A \cap C) = 0
  BY <1>4, FS_EmptySet
<1>7. Cardinality(A) \in Nat /\ Cardinality(B) \in Nat
  BY <1>1, FS_CardinalityType
<1>8. /\ WxWire!CountOf(r, S) = Cardinality(Hits(r, S))
      /\ WxWire!CountOf(s, S) = Cardinality(A) /\ WxWire!CountOf(t, S) = Cardinality(B)
  BY HitsCounted DEF A, B
<1>9. QED
  BY <1>2, <1>3, <1>5, <1>6, <1>7, <1>8

\* Elements read go to the end of the buffer.
LEMMA CountConcat ==
    ASSUME NEW E, NEW s \in Seq(E), NEW t \in Seq(E), NEW S
    PROVE  WxWire!CountOf(s \o t, S) = WxWire!CountOf(s, S) + WxWire!CountOf(t, S)
<1> DEFINE r == s \o t
<1>1. /\ r \in Seq(E) /\ Len(r) = Len(s) + Len(t) /\ Len(s) \in Nat /\ Len(t) \in Nat
      /\ \A i \in 1..(Len(s) + Len(t)) : r[i] = IF i <= Len(s) THEN s[i] ELSE t[i - Len(s)]
  BY ConcatProperties
<1> HIDE DEF r
<1>2. \A i \in 1..Len(s) : r[i] = s[i]
  BY <1>1
<1>3. ASSUME NEW i \in 1..Len(t) PROVE r[i + Len(s)] = t[i]
  <2>1. i + Len(s) \in 1..(Len(s) + Len(t)) /\ ~(i + Len(s) <= Len(s)) /\ (i + Len(s)) - Len(s) = i
    BY <1>1
  <2>2. QED
    BY <1>1, <2>1
<1>4. WxWire!CountOf(r, S) = WxWire!CountOf(s, S) + WxWire!CountOf(t, S)
  <2>1. Joins(r, s, t) /\ r \in Seq(E)
    BY <1>1, <1>2, <1>3 DEF Joins
  <2>2. QED
    BY <2>1, CountsAdd
<1>5. QED
  BY <1>4 DEF r

\* An element taken off the front is no longer counted.
LEMMA CountTail ==
    ASSUME NEW E, NEW s \in Seq(E), s # <<>>, NEW S
    PROVE  /\ Tail(s) \in Seq(E) /\ Head(s) \in E /\ Len(Tail(s)) <= Len(s)
           /\ WxWire!CountOf(s, S) = WxWire!CountOf(Tail(s), S) + (IF Head(s) \in S THEN 1 ELSE 0)
<1> DEFINE h == <<Head(s)>>
           t == Tail(s)
<1>1. /\ Head(s) \in E /\ Head(s) = s[1] /\ t \in Seq(E) /\ Len(t) = Len(s) - 1 /\ Len(s) \in Nat
      /\ \A i \in 1..Len(t) : t[i] = s[i + 1]
  BY HeadTailProperties
<1>2. h \in Seq(E) /\ Len(h) = 1 /\ h[1] = s[1]
  BY <1>1
<1> HIDE DEF t, h
<1>3. WxWire!CountOf(s, S) = WxWire!CountOf(h, S) + WxWire!CountOf(t, S)
  <2>1. Joins(s, h, t)
    BY <1>1, <1>2 DEF Joins
  <2>2. h \in Seq(E) /\ t \in Seq(E)
    BY <1>1, <1>2
  <2>3. QED
    BY <2>1, <2>2, CountsAdd
<1>4. WxWire!CountOf(h, S) = IF Head(s) \in S THEN 1 ELSE 0
  <2>1. Hits(h, S) = IF s[1] \in S THEN {1} ELSE {}
    BY <1>2 DEF Hits
  <2>2. Cardinality({1}) = 1 /\ Cardinality({}) = 0
    BY FS_Singleton, FS_EmptySet
  <2>3. WxWire!CountOf(h, S) = Cardinality(Hits(h, S))
    BY <1>2, HitsCounted, Zenon
  <2>4. QED
    BY <1>1, <2>1, <2>2, <2>3
<1>5. WxWire!CountOf(t, S) \in Nat
  BY <1>1, HitsCounted
<1>6. QED
  BY <1>1, <1>3, <1>4, <1>5 DEF t

RoomsIn(b) == WxWire!CountOf(b, {"room"})
StanzasIn(b) == WxWire!CountOf(b, WxWire!Stanzas)

\* What StanzasKept needs to be inductive: the counts are those of one
\* connection, so that none runs beyond the elements read, and before the
\* room is joined nothing has been read.
LinkInv ==
    /\ stage \in WxWire!Stages /\ sending \in {"none", "ack", "ping"}
    /\ waited \in BOOLEAN /\ sm \in BOOLEAN /\ due \in BOOLEAN /\ stalled \in BOOLEAN
    /\ buf \in Seq(WxWire!Kinds) /\ Len(buf) <= BufferLimit
    /\ acked \in Nat /\ handled \in Nat /\ given \in Nat
    /\ rooms \in Nat /\ stanzas \in Nat /\ elements \in Nat
    /\ given + RoomsIn(buf) = rooms /\ handled + StanzasIn(buf) = stanzas
    /\ acked <= handled
    /\ rooms <= stanzas /\ stanzas <= elements /\ elements <= MaxElements
    /\ stage # "up" => buf = <<>> /\ elements = 0

\* Room messages are messages.
LEMMA CountsOrdered ==
    ASSUME NEW b \in Seq(WxWire!Kinds)
    PROVE  /\ RoomsIn(b) \in Nat /\ StanzasIn(b) \in Nat
           /\ RoomsIn(b) <= StanzasIn(b) /\ StanzasIn(b) <= Len(b)
<1> DEFINE R == Hits(b, {"room"})
           T == Hits(b, WxWire!Stanzas)
<1>1. /\ IsFiniteSet(R) /\ IsFiniteSet(T)
      /\ RoomsIn(b) = Cardinality(R) /\ StanzasIn(b) = Cardinality(T)
      /\ RoomsIn(b) \in Nat /\ StanzasIn(b) \in Nat /\ StanzasIn(b) <= Len(b)
  BY HitsCounted DEF RoomsIn, StanzasIn
<1>2. R \subseteq T
  BY DEF Hits, WxWire!Stanzas
<1> HIDE DEF R, T
<1>3. Cardinality(R) <= Cardinality(T)
  BY <1>1, <1>2, FS_Subset
<1>4. QED
  BY <1>1, <1>3

\* What the invariant says of the properties' bounds.
LEMMA LinkInvMeans ==
    ASSUME LinkInv
    PROVE  StanzasKept
<1>1. RoomsIn(buf) \in Nat /\ StanzasIn(buf) \in Nat
  BY CountsOrdered DEF LinkInv
<1>2. {handled, acked, rooms, given, stanzas, elements} \subseteq 0..MaxElements
  <2>1. MaxElements \in Nat
    BY IngestAssumption
  <2>2. /\ handled <= stanzas /\ given <= rooms /\ acked <= handled /\ rooms <= stanzas
        /\ stanzas <= elements /\ elements <= MaxElements
    BY <1>1 DEF LinkInv
  <2>3. QED
    BY <2>1, <2>2 DEF LinkInv
<1>3. WxWire!TransportTypeOK
  BY <1>2 DEF LinkInv, WxWire!TransportTypeOK
<1>4. QED
  BY <1>3 DEF LinkInv, StanzasKept, WxWire!StanzasKept, RoomsIn, StanzasIn

\* A step that takes nothing from the buffer and puts nothing into it.
Still ==
    /\ buf' = buf /\ handled' = handled /\ given' = given /\ rooms' = rooms
    /\ stanzas' = stanzas /\ elements' = elements
    /\ acked' \in {acked, handled}
    /\ stage' \in WxWire!Stages /\ (stage = "up" <=> stage' = "up")
    /\ waited' \in BOOLEAN
    /\ sm' \in BOOLEAN /\ due' \in BOOLEAN /\ stalled' \in BOOLEAN
    /\ sending' \in {"none", "ack", "ping"}

\* Such a step keeps the invariant of the transport.
LEMMA StillKeeps ==
    ASSUME LinkInv, Still
    PROVE  LinkInv'
<1>1. RoomsIn(buf)' = RoomsIn(buf) /\ StanzasIn(buf)' = StanzasIn(buf)
  BY DEF Still, RoomsIn, StanzasIn
<1>2. QED
  BY <1>1 DEF Still, LinkInv

\* pop_next_top_level_element with the counting that follows it.
LEMMA PopKeeps ==
    ASSUME LinkInv, NEW K, WxWire!Pop(K),
           handled' = handled + (IF Head(buf) \in WxWire!Stanzas THEN 1 ELSE 0),
           given' = given + (IF Head(buf) \in {"room"} THEN 1 ELSE 0),
           UNCHANGED <<stage, waited, sm, acked, due, rooms, stanzas, elements>>,
           stalled' \in BOOLEAN, sending' \in {"none", "ack", "ping"}
    PROVE  LinkInv'
<1>1. stage = "up" /\ buf # <<>> /\ buf' = Tail(buf) /\ buf \in Seq(WxWire!Kinds)
  BY DEF WxWire!Pop, WxWire!Ready, LinkInv
<1>2. /\ Tail(buf) \in Seq(WxWire!Kinds) /\ Len(Tail(buf)) <= Len(buf)
      /\ RoomsIn(buf) = RoomsIn(Tail(buf)) + (IF Head(buf) \in {"room"} THEN 1 ELSE 0)
  BY <1>1, CountTail DEF RoomsIn
<1>3. StanzasIn(buf) = StanzasIn(Tail(buf)) + (IF Head(buf) \in WxWire!Stanzas THEN 1 ELSE 0)
  BY <1>1, CountTail DEF StanzasIn
<1>4. RoomsIn(Tail(buf)) \in Nat /\ StanzasIn(Tail(buf)) \in Nat
  BY <1>2, CountsOrdered
<1>5. RoomsIn(buf)' = RoomsIn(Tail(buf)) /\ StanzasIn(buf)' = StanzasIn(Tail(buf))
  BY <1>1 DEF RoomsIn, StanzasIn
<1>6. given' + RoomsIn(buf)' = rooms' /\ given' \in Nat
  BY <1>2, <1>4, <1>5 DEF LinkInv
<1>7. handled' + StanzasIn(buf)' = stanzas' /\ handled' \in Nat /\ acked' <= handled'
  BY <1>3, <1>4, <1>5 DEF LinkInv
<1>8. Len(buf') <= BufferLimit /\ buf' \in Seq(WxWire!Kinds)
  <2>1. Len(Tail(buf)) \in Nat /\ Len(buf) \in Nat /\ BufferLimit \in Nat
    BY <1>1, <1>2, IngestAssumption
  <2>2. QED
    BY <1>1, <1>2, <2>1 DEF LinkInv
<1>9. QED
  BY <1>1, <1>6, <1>7, <1>8 DEF LinkInv

\* What a read brings goes into the buffer and into the counts.
LEMMA ReceiveKeeps ==
    ASSUME LinkInv, NEW new \in Seq(WxWire!Kinds), WxWire!Receive(new),
           Len(buf) + Len(new) <= BufferLimit, elements + Len(new) <= MaxElements,
           UNCHANGED <<sm, handled, acked, due, sending>>,
           stage' = "up", waited' \in BOOLEAN, stalled' \in BOOLEAN
    PROVE  LinkInv'
<1>1. /\ buf' = buf \o new /\ rooms' = rooms + RoomsIn(new)
      /\ stanzas' = stanzas + StanzasIn(new) /\ elements' = elements + Len(new)
      /\ given' = given /\ buf \in Seq(WxWire!Kinds)
  BY DEF WxWire!Receive, RoomsIn, StanzasIn, LinkInv
<1>2. /\ RoomsIn(buf \o new) = RoomsIn(buf) + RoomsIn(new)
      /\ StanzasIn(buf \o new) = StanzasIn(buf) + StanzasIn(new)
  BY <1>1, CountConcat DEF RoomsIn, StanzasIn
<1>3. /\ RoomsIn(buf) \in Nat /\ StanzasIn(buf) \in Nat /\ RoomsIn(new) \in Nat
      /\ StanzasIn(new) \in Nat /\ RoomsIn(new) <= StanzasIn(new) /\ StanzasIn(new) <= Len(new)
  BY <1>1, CountsOrdered
<1>4. RoomsIn(buf)' = RoomsIn(buf \o new) /\ StanzasIn(buf)' = StanzasIn(buf \o new)
  BY <1>1 DEF RoomsIn, StanzasIn
<1>5. /\ buf \o new \in Seq(WxWire!Kinds) /\ Len(buf \o new) = Len(buf) + Len(new)
      /\ Len(new) \in Nat /\ Len(buf) \in Nat
  BY <1>1, ConcatProperties
<1>6. /\ given' + RoomsIn(buf)' = rooms' /\ handled' + StanzasIn(buf)' = stanzas'
      /\ rooms' \in Nat /\ stanzas' \in Nat /\ elements' \in Nat
      /\ rooms' <= stanzas' /\ stanzas' <= elements' /\ elements' <= MaxElements
  <2>1. /\ given \in Nat /\ handled \in Nat /\ rooms \in Nat /\ stanzas \in Nat /\ elements \in Nat
        /\ given + RoomsIn(buf) = rooms /\ handled + StanzasIn(buf) = stanzas
        /\ rooms <= stanzas /\ stanzas <= elements
    BY DEF LinkInv
  <2>2. PICK r \in Nat, t \in Nat, l \in Nat :
            r = RoomsIn(new) /\ t = StanzasIn(new) /\ l = Len(new)
    BY <1>3, <1>5
  <2>3. /\ RoomsIn(buf)' = RoomsIn(buf) + r /\ StanzasIn(buf)' = StanzasIn(buf) + t
        /\ rooms' = rooms + r /\ stanzas' = stanzas + t /\ elements' = elements + l
        /\ given' = given /\ handled' = handled /\ r <= t /\ t <= l
        /\ elements + l <= MaxElements
    BY <1>1, <1>2, <1>3, <1>4, <2>2
  <2>4. given + (RoomsIn(buf) + r) = rooms + r /\ handled + (StanzasIn(buf) + t) = stanzas + t
    <3>1. PICK a \in Nat, b \in Nat : a = RoomsIn(buf) /\ b = StanzasIn(buf)
      BY <1>3
    <3>2. given + a = rooms /\ handled + b = stanzas
      BY <2>1, <3>1
    <3>3. given + (a + r) = rooms + r /\ handled + (b + t) = stanzas + t
      BY <2>1, <3>2
    <3>4. QED
      BY <3>1, <3>3
  <2>5. /\ rooms + r \in Nat /\ stanzas + t \in Nat /\ elements + l \in Nat
        /\ rooms + r <= stanzas + t /\ stanzas + t <= elements + l
    BY <2>1, <2>3
  <2>6. QED
    BY <2>3, <2>4, <2>5, Zenon
<1>7. Len(buf') <= BufferLimit /\ buf' \in Seq(WxWire!Kinds)
  BY <1>1, <1>5
<1>8. stage' \in WxWire!Stages
  BY DEF WxWire!Stages
<1>9. QED
  BY <1>1, <1>6, <1>7, <1>8 DEF LinkInv

\* A connection that ends takes its counts with it.
LEMMA HangupKeeps ==
    ASSUME WxWire!Hangup
    PROVE  LinkInv'
<1>1. RoomsIn(<<>>) = 0 /\ StanzasIn(<<>>) = 0
  <2>e. <<>> \in Seq(WxWire!Kinds) /\ Len(<<>>) = 0
    OBVIOUS
  <2>1. PICK e \in Seq(WxWire!Kinds) : e = <<>> /\ Len(e) = 0
    BY <2>e, Zenon
  <2>2. RoomsIn(e) = 0 /\ StanzasIn(e) = 0
    <3>1. /\ RoomsIn(e) \in Nat /\ StanzasIn(e) \in Nat
          /\ RoomsIn(e) <= StanzasIn(e) /\ StanzasIn(e) <= Len(e)
      BY CountsOrdered
    <3>2. QED
      BY <2>1, <3>1
  <2>3. QED
    BY <2>1, <2>2
<1>2. buf' = <<>>
  BY DEF WxWire!Hangup
<1>3. RoomsIn(buf)' = 0 /\ StanzasIn(buf)' = 0
  BY <1>1, <1>2 DEF RoomsIn, StanzasIn
<1>4. BufferLimit \in Nat /\ MaxElements \in Nat
  BY IngestAssumption
<1>5. /\ stage' \in WxWire!Stages /\ sending' \in {"none", "ack", "ping"} /\ stage' = "down"
      /\ waited' = FALSE /\ sm' = FALSE /\ due' = FALSE /\ stalled' = FALSE
      /\ acked' = 0 /\ handled' = 0 /\ given' = 0 /\ rooms' = 0 /\ stanzas' = 0 /\ elements' = 0
  BY DEF WxWire!Hangup, WxWire!Stages
<1>6. <<>> \in Seq(WxWire!Kinds) /\ Len(<<>>) = 0
  OBVIOUS
<1>7. 0 + 0 = 0 /\ 0 <= 0 /\ 0 \in Nat /\ 0 <= BufferLimit /\ 0 <= MaxElements
  BY <1>4
<1>8. waited' \in BOOLEAN /\ sm' \in BOOLEAN /\ due' \in BOOLEAN /\ stalled' \in BOOLEAN
  BY <1>5, Zenon
<1>9. QED
  BY <1>2, <1>3, <1>5, <1>6, <1>7, <1>8 DEF LinkInv

\* One read brings at most two elements.
LEMMA BatchSmall ==
    ASSUME NEW b \in WxWire!Batches
    PROVE  b \in Seq(WxWire!Kinds) /\ Len(b) <= 2 /\ Len(b) \in Nat
<1>1. CASE b = <<>>
  BY <1>1
<1>2. CASE \E k \in WxWire!Kinds : b = <<k>>
  BY <1>2
<1>3. CASE \E k \in WxWire!Kinds : b = <<k, "room">>
  <2>1. PICK k \in WxWire!Kinds : b = <<k, "room">>
    BY <1>3
  <2>2. "room" \in WxWire!Kinds
    BY DEF WxWire!Kinds
  <2>3. QED
    BY <2>1, <2>2
<1>4. QED
  BY <1>1, <1>2, <1>3 DEF WxWire!Batches

\* What a step of the receiver does to its transport.
TransportMoves ==
    \/ WxWire!Dial \/ WxWire!Answered \/ WxWire!Bound \/ WxWire!Managed
    \/ WxWire!Waits \/ WxWire!OtherElement
    \/ \E b \in WxWire!Batches : WxWire!Joined(b) \/ WxWire!ReadMore(b)
    \/ WxWire!Dropped \/ WxWire!TakeRoom \/ WxWire!NextStanzaFails
    \/ WxWire!Inside \/ WxWire!Hangup \/ WxWire!HeartbeatDue
    \/ UNCHANGED WxWire!transportVars

\* Each step of the composed receiver moves the transport in one of these
\* ways.
LEMMA LinkMovesTransport ==
    ASSUME WxWire!LinkNext
    PROVE  TransportMoves
  BY DEF TransportMoves, WxWire!LinkNext, WxWire!LinkLoop, WxWire!Application, WxWire!Heartbeat,
     WxWire!LoopAlone, WxWire!Dials, WxWire!Handshake, WxWire!LinkUp, WxWire!LinkRefused,
     WxWire!TurnEnds, WxWire!OtherBranch, WxWire!SecondOver, WxWire!StanzaTaken, WxWire!LinkFails,
     WxWire!Works, WxWire!Reads, WxWire!Disconnects, WxWire!HandshakeFails

\* Each of them keeps the invariant of the transport.
LEMMA TransportKeeps ==
    ASSUME LinkInv, TransportMoves
    PROVE  LinkInv'
<1> USE DEF WxWire!counts
<1>1. CASE WxWire!Dial \/ WxWire!Answered \/ WxWire!Bound
  <2>1. PICK from \in WxWire!Stages \ {"up"}, to \in WxWire!Stages \ {"up"} : WxWire!Stage(from, to)
    BY <1>1 DEF WxWire!Dial, WxWire!Answered, WxWire!Bound, WxWire!Stages
  <2>2. Still
    BY <2>1 DEF WxWire!Stage, Still, LinkInv
  <2>3. QED
    BY <2>2, StillKeeps
<1>2. CASE WxWire!Managed \/ WxWire!Waits \/ WxWire!OtherElement
  <2>1. Still
    BY <1>2 DEF WxWire!Managed, WxWire!Waits, WxWire!OtherElement, WxWire!Awaited, Still, LinkInv, WxWire!Stages
  <2>2. QED
    BY <2>1, StillKeeps
<1>3. ASSUME NEW b \in WxWire!Batches, WxWire!Joined(b)
      PROVE  LinkInv'
  <2>1. /\ WxWire!Receive(b) /\ UNCHANGED <<sm, handled, acked, due, sending>>
        /\ stage' = "up" /\ waited' \in BOOLEAN /\ stalled' \in BOOLEAN /\ buf = <<>> /\ elements = 0
    BY <1>3 DEF WxWire!Joined, LinkInv
  <2>2. /\ b \in Seq(WxWire!Kinds) /\ Len(b) <= 2 /\ Len(b) \in Nat
        /\ BufferLimit \in Nat /\ BufferLimit >= 2 /\ MaxElements \in Nat /\ MaxElements >= 2
    BY BatchSmall, IngestAssumption
  <2>3. Len(buf) + Len(b) <= BufferLimit /\ elements + Len(b) <= MaxElements
    BY <2>1, <2>2
  <2>4. QED
    BY <2>1, <2>2, <2>3, ReceiveKeeps
<1>4. ASSUME NEW b \in WxWire!Batches, WxWire!ReadMore(b)
      PROVE  LinkInv'
  <2>1. /\ WxWire!Receive(b) /\ UNCHANGED <<sm, handled, acked, due, sending>>
        /\ stage' = "up" /\ waited' \in BOOLEAN /\ stalled' \in BOOLEAN
        /\ Len(buf) + Len(b) <= BufferLimit /\ elements + Len(b) <= MaxElements
    BY <1>4 DEF WxWire!ReadMore, WxWire!Reading, WxWire!AtRead, LinkInv
  <2>2. b \in Seq(WxWire!Kinds)
    BY BatchSmall
  <2>3. QED
    BY <2>1, <2>2, ReceiveKeeps
<1>5. CASE WxWire!Dropped \/ WxWire!NextStanzaFails \/ WxWire!HeartbeatDue
  <2>1. Still
    BY <1>5 DEF WxWire!Dropped, WxWire!NextStanzaFails, WxWire!HeartbeatDue, Still, LinkInv
  <2>2. QED
    BY <2>1, StillKeeps
<1>6. CASE WxWire!TakeRoom
  <2>1. /\ WxWire!Pop({"room"}) /\ Head(buf) = "room" /\ handled' = handled + 1 /\ given' = given + 1
        /\ UNCHANGED <<stage, waited, sm, acked, due, rooms, stanzas, elements>>
        /\ stalled' \in BOOLEAN /\ sending' \in {"none", "ack", "ping"}
    BY <1>6 DEF WxWire!TakeRoom, WxWire!Pop, LinkInv
  <2>2. Head(buf) \in WxWire!Stanzas /\ Head(buf) \in {"room"}
    BY <2>1 DEF WxWire!Stanzas
  <2>3. QED
    BY <2>1, <2>2, PopKeeps
<1>7. CASE WxWire!SkipForeign
  <2>1. /\ WxWire!Pop({"foreign"}) /\ Head(buf) = "foreign"
        /\ handled' = handled + 1 /\ given' = given
        /\ UNCHANGED <<stage, waited, sm, acked, due, rooms, stanzas, elements>>
        /\ stalled' \in BOOLEAN /\ sending' \in {"none", "ack", "ping"}
    BY <1>7 DEF WxWire!SkipForeign, WxWire!Pop, LinkInv
  <2>2. Head(buf) \in WxWire!Stanzas /\ Head(buf) \notin {"room"} /\ given' = given + 0
    BY <2>1 DEF WxWire!Stanzas, LinkInv
  <2>3. QED
    BY <2>1, <2>2, PopKeeps
<1>8. CASE WxWire!Skip \/ WxWire!SkipBroken \/ WxWire!AnswerBegins
  <2>1. PICK K \in SUBSET {"ack", "junk", "broken", "request"} : WxWire!Pop(K)
    BY <1>8 DEF WxWire!Skip, WxWire!SkipBroken, WxWire!AnswerBegins
  <2>2. /\ handled' = handled /\ given' = given
        /\ UNCHANGED <<stage, waited, sm, acked, due, rooms, stanzas, elements>>
        /\ stalled' \in BOOLEAN /\ sending' \in {"none", "ack", "ping"}
    BY <1>8 DEF WxWire!Skip, WxWire!SkipBroken, WxWire!AnswerBegins, LinkInv
  <2>3. Head(buf) \notin WxWire!Stanzas /\ Head(buf) \notin {"room"}
    BY <2>1 DEF WxWire!Pop, WxWire!Stanzas
  <2>4. handled' = handled + 0 /\ given' = given + 0
    BY <2>2 DEF LinkInv
  <2>5. QED
    BY <2>1, <2>2, <2>3, <2>4, PopKeeps
<1>9. CASE WxWire!HeartbeatBegins \/ WxWire!WriteDone
  <2>1. Still
    BY <1>9 DEF WxWire!HeartbeatBegins, WxWire!WriteDone, Still, LinkInv
  <2>2. QED
    BY <2>1, StillKeeps
<1>10. CASE WxWire!Hangup
  BY <1>10, HangupKeeps
<1>11. CASE UNCHANGED WxWire!transportVars
  <2>1. Still
    BY <1>11 DEF WxWire!transportVars, Still, LinkInv
  <2>2. QED
    BY <2>1, StillKeeps
<1>12. QED
  BY <1>1, <1>2, <1>3, <1>4, <1>5, <1>6, <1>7, <1>8, <1>9, <1>10, <1>11
  DEF TransportMoves, WxWire!Inside

\* Whatever branch of the select drops next_stanza, at whichever await, the
\* messages read are those handed out and those in the buffer, and an
\* acknowledgement counts only what was taken (wxwire_receiver/transport.rs).
THEOREM StanzasNeverLost == IngestSpec => []StanzasKept
<1>1. IngestInit => LinkInv
  <2> SUFFICES ASSUME IngestInit PROVE LinkInv
    OBVIOUS
  <2>1. WxWire!TransportInit
    BY DEF IngestInit, WxWire!LinkInit
  <2>2. RoomsIn(buf) = 0 /\ StanzasIn(buf) = 0
    <3>1. buf \in Seq(WxWire!Kinds) /\ Len(buf) = 0
      BY <2>1 DEF WxWire!TransportInit
    <3>2. /\ RoomsIn(buf) \in Nat /\ StanzasIn(buf) \in Nat
          /\ RoomsIn(buf) <= StanzasIn(buf) /\ StanzasIn(buf) <= Len(buf)
      BY <3>1, CountsOrdered
    <3>3. QED
      BY <3>1, <3>2
  <2>3. BufferLimit \in Nat /\ MaxElements \in Nat
    BY IngestAssumption
  <2>4. /\ stage \in WxWire!Stages /\ sending \in {"none", "ack", "ping"} /\ buf = <<>>
        /\ waited \in BOOLEAN /\ sm \in BOOLEAN /\ due \in BOOLEAN /\ stalled \in BOOLEAN
        /\ acked = 0 /\ handled = 0 /\ given = 0 /\ rooms = 0 /\ stanzas = 0 /\ elements = 0
    BY <2>1 DEF WxWire!TransportInit, WxWire!Stages
  <2>5. QED
    BY <2>2, <2>3, <2>4 DEF LinkInv
<1>2. LinkInv /\ [IngestNext]_ingestVars => LinkInv'
  <2> SUFFICES ASSUME LinkInv, [IngestNext]_ingestVars PROVE LinkInv'
    OBVIOUS
  <2>1. CASE WxWire!LinkNext
    BY <2>1, LinkMovesTransport, TransportKeeps
  <2>2. CASE UNCHANGED wxWireVars
    <3>1. UNCHANGED WxWire!transportVars
      BY <2>2 DEF wxWireVars, WxWire!transportVars, WxWire!counts
    <3>2. QED
      BY <3>1, TransportKeeps DEF TransportMoves
  <2>3. QED
    BY <2>1, <2>2 DEF IngestNext, Qbt, WeatherWire, ingestVars
<1>3. LinkInv => StanzasKept
  BY LinkInvMeans
<1>4. QED
  BY <1>1, <1>2, <1>3, PTL DEF IngestSpec

-----------------------------------------------------------------------------
(* The Weather Wire loop *)

\* f is the table of the pauses after up to n pauses without the limit.
Pauses(f, n) == f = [i \in 0..n |-> IF i = 0 THEN InitialBackoff ELSE 2 * f[i - 1]]

\* The table that defines Doubling exists.
LEMMA PausesExist ==
    ASSUME NEW n \in Nat
    PROVE  \E f : Pauses(f, n)
<1> DEFINE P == {k \in Nat : \E f : Pauses(f, k)}
<1>1. 0 \in P
  <2>1. Pauses([i \in 0..0 |-> InitialBackoff], 0)
    BY DEF Pauses
  <2>2. QED
    BY <2>1
<1>2. ASSUME NEW k \in 0..(n - 1), k \in P PROVE k + 1 \in P
  <2>1. PICK f : Pauses(f, k)
    BY <1>2
  <2> DEFINE last == 2 * f[k]
             g == [i \in 0..(k + 1) |-> IF i = k + 1 THEN last ELSE f[i]]
             h == [i \in 0..(k + 1) |-> IF i = 0 THEN InitialBackoff ELSE 2 * g[i - 1]]
  <2>2. \A i \in 0..k : f[i] = IF i = 0 THEN InitialBackoff ELSE 2 * f[i - 1]
    BY <2>1 DEF Pauses
  <2>3. ASSUME NEW i \in 0..(k + 1) PROVE g[i] = h[i]
    <3>1. CASE i = 0
      BY <2>2, <3>1
    <3>2. CASE i = k + 1
      <4>1. g[i] = last /\ g[i - 1] = f[k]
        BY <3>2
      <4>2. QED
        BY <3>2, <4>1
    <3>3. CASE i # 0 /\ i # k + 1
      <4>1. i \in 0..k /\ i - 1 \in 0..k /\ g[i] = f[i] /\ g[i - 1] = f[i - 1]
        BY <3>3
      <4>2. QED
        BY <2>2, <3>3, <4>1
    <3>4. QED
      BY <3>1, <3>2, <3>3
  <2> HIDE DEF last
  <2>4. g = h
    BY <2>3, Zenon
  <2>5. Pauses(g, k + 1)
    BY <2>4, Zenon DEF Pauses
  <2>6. QED
    BY <2>5
<1> HIDE DEF P
<1>3. \A k \in 0..n : k \in P
  BY <1>1, <1>2, UpTo
<1>4. QED
  BY <1>3 DEF P

\* The limits of the Weather Wire receiver.
LEMMA WxLimits ==
    /\ InitialBackoff \in Nat /\ MaxBackoff \in Nat /\ InitialBackoff <= MaxBackoff
    /\ IdleTimeout \in Nat \ {0} /\ IngressCapacity \in Nat \ {0} /\ MaxFailures \in Nat
    /\ WxWire!Doubling[MaxFailures] >= MaxBackoff
  BY IngestAssumption DEF WxWire!WxWireLimits

\* Each pause without the limit is twice the one before.
LEMMA PausesDouble ==
    /\ WxWire!Doubling[0] = InitialBackoff
    /\ \A n \in 0..MaxFailures : WxWire!Doubling[n] \in Nat
    /\ \A n \in 1..MaxFailures : WxWire!Doubling[n] = 2 * WxWire!Doubling[n - 1]
<1> DEFINE D == CHOOSE f : Pauses(f, MaxFailures)
<1>1. MaxFailures \in Nat /\ InitialBackoff \in Nat
  BY WxLimits
<1>2. Pauses(D, MaxFailures)
  BY <1>1, PausesExist
<1>3. WxWire!Doubling = D
  BY DEF WxWire!Doubling, Pauses
<1> HIDE DEF D
<1>4. \A i \in 0..MaxFailures : D[i] = IF i = 0 THEN InitialBackoff ELSE 2 * D[i - 1]
  BY <1>2, Zenon DEF Pauses
<1>5. D[0] = InitialBackoff /\ \A i \in 1..MaxFailures : D[i] = 2 * D[i - 1]
  <2>1. 0 \in 0..MaxFailures /\ \A i \in 1..MaxFailures : i \in 0..MaxFailures /\ i # 0
    BY <1>1
  <2>2. QED
    BY <1>4, <2>1, Zenon
<1> DEFINE P == {i \in Nat : D[i] \in Nat}
<1>6. 0 \in P
  BY <1>1, <1>5
<1>7. ASSUME NEW i \in 0..(MaxFailures - 1), i \in P PROVE i + 1 \in P
  <2>1. i + 1 \in 1..MaxFailures /\ (i + 1) - 1 = i
    BY <1>1
  <2>2. D[i + 1] = 2 * D[i] /\ D[i] \in Nat
    BY <1>5, <1>7, <2>1
  <2>3. QED
    BY <2>2
<1> HIDE DEF P
<1>8. \A i \in 0..MaxFailures : i \in P
  BY <1>1, <1>6, <1>7, UpTo
<1>9. QED
  BY <1>3, <1>5, <1>8 DEF P

\* What PacedAndReported needs to be inductive: a loop that comes to its top
\* without a pause has been told to stop.
PaceInv ==
    /\ PacedAndReported
    /\ wxPc = "boot" => rest
    /\ wxPc = "top" => rest \/ wxShutdown

\* The composed receiver moves the loop by the loop's own steps.
LEMMA LinkMovesLoop ==
    ASSUME WxWire!LinkNext
    PROVE  WxWire!Next \/ UNCHANGED WxWire!vars
  BY DEF WxWire!Next, WxWire!Loop, WxWire!Select, WxWire!LinkNext, WxWire!LinkLoop,
     WxWire!Application, WxWire!Heartbeat, WxWire!LoopAlone, WxWire!Dials, WxWire!Handshake,
     WxWire!LinkUp, WxWire!LinkRefused, WxWire!TurnEnds, WxWire!OtherBranch, WxWire!SecondOver,
     WxWire!StanzaTaken, WxWire!LinkFails, WxWire!Works, WxWire!Reads, WxWire!Disconnects

\* Every step of the loop keeps its invariant.
LEMMA PaceStep ==
    ASSUME PaceInv, WxWire!Next \/ UNCHANGED WxWire!vars
    PROVE  PaceInv'
<1> USE DEF PaceInv, PacedAndReported, WxWire!PacedAndReported, WxWire!TypeOK,
        WxWire!PausesBetweenAttempts, WxWire!EventsFollowConnection, WxWire!BackoffMatchesFailures,
        WxWire!Pcs
<1>l. /\ InitialBackoff \in Nat /\ MaxBackoff \in Nat /\ InitialBackoff <= MaxBackoff
      /\ IdleTimeout \in Nat \ {0} /\ IngressCapacity \in Nat \ {0} /\ MaxFailures \in Nat
  BY WxLimits
<1>b. InitialBackoff = WxWire!AtMost(WxWire!Doubling[0], MaxBackoff) /\ 0 \in 0..MaxFailures
  BY <1>l, PausesDouble DEF WxWire!AtMost
<1>1. CASE WxWire!Start
  <2>1. /\ wxPc = "ended" /\ wxPc' = "boot" /\ wxShutdown' = FALSE /\ wxTold' = wxTold
        /\ backoff' = InitialBackoff /\ idle' = 0 /\ ingress' = 0 /\ failures' = 0 /\ rest' = TRUE
    BY <1>1 DEF WxWire!Start
  <2>2. /\ backoff' \in InitialBackoff..MaxBackoff /\ idle' \in 0..IdleTimeout - 1
        /\ ingress' \in 0..IngressCapacity /\ failures' \in 0..MaxFailures
    BY <1>l, <2>1
  <2>3. WxWire!TypeOK'
    BY <2>1, <2>2
  <2>4. WxWire!BackoffMatchesFailures'
    BY <1>b, <2>1
  <2>5. QED
    BY <2>1, <2>3, <2>4
<1>2. CASE WxWire!Shutdown
  BY <1>2 DEF WxWire!Shutdown
<1>3. CASE WxWire!Submit
  BY <1>3, <1>l DEF WxWire!Submit
<1>4. CASE WxWire!Boot
  BY <1>4 DEF WxWire!Boot
<1>5. CASE WxWire!TopStops
  BY <1>5 DEF WxWire!TopStops
<1>6. CASE WxWire!TopConnects
  BY <1>6 DEF WxWire!TopConnects
<1>7. CASE WxWire!TopReads
  BY <1>7 DEF WxWire!TopReads
<1>8. CASE WxWire!Connects
  BY <1>8, <1>l, <1>b DEF WxWire!Connects
<1>9. CASE WxWire!ConnectFails
  BY <1>9 DEF WxWire!ConnectFails
<1>10. CASE WxWire!BackoffElapses
  <2>1. /\ wxPc = "backoff" /\ wxPc' = "top" /\ rest' = TRUE
        /\ backoff' = WxWire!AtMost(backoff * 2, MaxBackoff)
        /\ failures' = WxWire!AtMost(failures + 1, MaxFailures)
        /\ wxShutdown' = wxShutdown /\ idle' = idle /\ ingress' = ingress /\ wxTold' = wxTold
    BY <1>10 DEF WxWire!BackoffElapses
  <2>2. PICK b \in Nat, n \in 0..MaxFailures, d \in Nat :
            b = backoff /\ n = failures /\ d = WxWire!Doubling[n]
    BY <1>l, PausesDouble
  <2>3. InitialBackoff <= b /\ b <= MaxBackoff /\ b = WxWire!AtMost(d, MaxBackoff)
    BY <1>l, <2>2
  <2>4. backoff' \in InitialBackoff..MaxBackoff /\ failures' \in 0..MaxFailures
    BY <1>l, <2>1, <2>2, <2>3 DEF WxWire!AtMost
  <2>5. backoff' = WxWire!AtMost(WxWire!Doubling[failures'], MaxBackoff)
    <3>1. CASE n < MaxFailures
      <4>1. failures' = n + 1 /\ n + 1 \in 1..MaxFailures /\ (n + 1) - 1 = n
        BY <1>l, <2>1, <2>2, <3>1 DEF WxWire!AtMost
      <4>2. WxWire!Doubling[failures'] = 2 * d
        BY <2>2, <4>1, PausesDouble
      <4>3. WxWire!AtMost(b * 2, MaxBackoff) = WxWire!AtMost(2 * d, MaxBackoff)
        BY <1>l, <2>3 DEF WxWire!AtMost
      <4>4. QED
        BY <2>1, <2>2, <4>2, <4>3
    <3>2. CASE n = MaxFailures
      <4>1. failures' = n /\ d >= MaxBackoff
        BY <1>l, <2>1, <2>2, <3>2, WxLimits DEF WxWire!AtMost
      <4>2. WxWire!AtMost(b * 2, MaxBackoff) = WxWire!AtMost(d, MaxBackoff)
        BY <1>l, <2>3, <4>1 DEF WxWire!AtMost
      <4>3. QED
        BY <2>1, <2>2, <4>1, <4>2
    <3>3. QED
      BY <1>l, <3>1, <3>2
  <2>6. QED
    BY <2>1, <2>4, <2>5
<1>11. CASE WxWire!BackoffInterrupted
  BY <1>11 DEF WxWire!BackoffInterrupted
<1>12. CASE WxWire!SessionStops \/ WxWire!Tick
  BY <1>12 DEF WxWire!SessionStops, WxWire!Tick
<1>13. CASE WxWire!TakeIngress
  BY <1>13, <1>l DEF WxWire!TakeIngress
<1>14. CASE WxWire!TakeStanza
  BY <1>14, <1>l DEF WxWire!TakeStanza
<1>15. CASE WxWire!IdleSecond
  BY <1>15, <1>l DEF WxWire!IdleSecond
<1>16. CASE WxWire!TransportFails
  BY <1>16 DEF WxWire!TransportFails
<1>17. CASE WxWire!Reclosed \/ WxWire!Closed
  BY <1>17 DEF WxWire!Reclosed, WxWire!Closed
<1>18. CASE UNCHANGED WxWire!vars
  BY <1>18 DEF WxWire!vars
<1>19. QED
  BY <1>1, <1>2, <1>3, <1>4, <1>5, <1>6, <1>7, <1>8, <1>9, <1>10, <1>11, <1>12, <1>13, <1>14,
     <1>15, <1>16, <1>17, <1>18
  DEF WxWire!Next, WxWire!Loop, WxWire!Select

\* The loop pauses after every lost connection and every failed attempt, as
\* long as the number of failures in a row asks for, and the events tell of
\* each connection and of its end (wxwire_receiver/client.rs).
THEOREM PacedCorrect == IngestSpec => []PacedAndReported
<1>1. IngestInit => PaceInv
  <2> SUFFICES ASSUME IngestInit PROVE PaceInv
    OBVIOUS
  <2>1. /\ wxPc = "ended" /\ wxShutdown = TRUE /\ backoff = InitialBackoff /\ idle = 0
        /\ ingress = 0 /\ wxTold = FALSE /\ failures = 0 /\ rest = TRUE
    BY DEF IngestInit, WxWire!LinkInit, WxWire!Init
  <2>2. /\ InitialBackoff = WxWire!AtMost(WxWire!Doubling[0], MaxBackoff)
        /\ backoff \in InitialBackoff..MaxBackoff /\ idle \in 0..IdleTimeout - 1
        /\ ingress \in 0..IngressCapacity /\ failures \in 0..MaxFailures
    BY <2>1, WxLimits, PausesDouble DEF WxWire!AtMost
  <2>3. WxWire!TypeOK
    BY <2>1, <2>2 DEF WxWire!TypeOK, WxWire!Pcs
  <2>4. WxWire!BackoffMatchesFailures
    BY <2>1, <2>2 DEF WxWire!BackoffMatchesFailures
  <2>5. QED
    BY <2>1, <2>3, <2>4 DEF PaceInv, PacedAndReported, WxWire!PacedAndReported,
       WxWire!PausesBetweenAttempts, WxWire!EventsFollowConnection
<1>2. PaceInv /\ [IngestNext]_ingestVars => PaceInv'
  <2> SUFFICES ASSUME PaceInv, [IngestNext]_ingestVars PROVE PaceInv'
    OBVIOUS
  <2>1. CASE WxWire!LinkNext
    BY <2>1, LinkMovesLoop, PaceStep
  <2>2. CASE UNCHANGED wxWireVars
    <3>1. UNCHANGED WxWire!vars
      BY <2>2 DEF wxWireVars, WxWire!vars
    <3>2. QED
      BY <3>1, PaceStep
  <2>3. QED
    BY <2>1, <2>2 DEF IngestNext, Qbt, WeatherWire, ingestVars
<1>3. PaceInv => PacedAndReported
  BY DEF PaceInv
<1>4. QED
  BY <1>1, <1>2, <1>3, PTL DEF IngestSpec

-----------------------------------------------------------------------------
(***************************************************************************)
(* The file assembler                                                      *)
(***************************************************************************)

\* The segment s is block b of the file k, with the content c.
Backs(s, k, b, c) == Numbered(s) /\ s.key = k /\ s.block = b /\ s.content = c

\* Every part of an entry was sent for its file, under the file's total.
EntriesSound ==
    \A k \in DOMAIN byKey :
        /\ \E s \in Segments : Numbered(s) /\ s.key = k /\ s.total = byKey[k].total
        /\ \A b \in DOMAIN byKey[k].parts :
               \E s \in Segments : Backs(s, k, b, byKey[k].parts[b])
        /\ DOMAIN byKey[k].parts # {}
        /\ ~Complete(byKey[k])

\* What is emitted, and so what the history of it contains.
SourceFile(k) == [key |-> k, parts |-> Source(k)]

WasEmitted(k) == \E i \in 1..Len(emitted) : emitted[i].key = k

\* The queue of completed keys is the tail of what was emitted.
RecentIsTail ==
    /\ Len(completedRecent) = IF Len(emitted) < CacheSize THEN Len(emitted) ELSE CacheSize
    /\ \A i \in 1..Len(completedRecent) :
           completedRecent[i] = emitted[Len(emitted) - Len(completedRecent) + i].key

IndexIsRecent == completedIndex = {completedRecent[i] : i \in 1..Len(completedRecent)}

\* A file that was neither emitted nor evicted holds every block that arrived.
Tracked ==
    \A k \in Keys \ forgotten :
        \/ WasEmitted(k)
        \/ arrived[k] = IF k \in DOMAIN byKey THEN DOMAIN byKey[k].parts ELSE {}

AssemblerInv ==
    /\ AssemblerTypeOK
    /\ EntriesSound
    /\ IsFiniteSet(DOMAIN byKey) /\ Cardinality(DOMAIN byKey) <= MaxInflight
    /\ emitted \in Seq({SourceFile(k) : k \in Keys})
    /\ RecentIsTail /\ IndexIsRecent
    /\ NoDuplicateWithinCache
    /\ DOMAIN byKey \cap completedIndex = {}
    /\ arrived \in [Keys -> SUBSET Nat]
    /\ Tracked

-----------------------------------------------------------------------------
(* The broadcast *)

\* A numbered segment is the broadcast's block of its number.
LEMMA SourceHasBlock ==
    ASSUME NEW s \in Segments, Numbered(s)
    PROVE  s.block \in DOMAIN Source(s.key) /\ Source(s.key)[s.block] = s.content
<1> DEFINE mine == {u \in Segments : u.key = s.key /\ Numbered(u)}
           c == CHOOSE u \in mine : u.block = s.block
<1>1. s \in mine
  OBVIOUS
<1>2. c \in mine /\ c.block = s.block
  BY <1>1
<1>3. c.content = s.content
  BY <1>2, BroadcastAssumption
<1> HIDE DEF c
<1>4. Source(s.key) = [b \in {u.block : u \in mine} |-> (CHOOSE u \in mine : u.block = b).content]
  BY DEF Source
<1>5. s.block \in {u.block : u \in mine}
  BY <1>1
<1>6. QED
  BY <1>3, <1>4, <1>5 DEF c

\* The broadcast's blocks of a file lie within the file's total.
LEMMA SourceWithin ==
    ASSUME NEW s \in Segments, Numbered(s)
    PROVE  DOMAIN Source(s.key) \subseteq 1..s.total
<1>1. ASSUME NEW b \in DOMAIN Source(s.key) PROVE b \in 1..s.total
  <2>1. PICK u \in Segments : u.key = s.key /\ Numbered(u) /\ u.block = b
    BY DEF Source
  <2>2. u.total = s.total
    BY <2>1, BroadcastAssumption
  <2>3. QED
    BY <2>1, <2>2 DEF Numbered
<1>2. QED
  BY <1>1

\* Segments that push does not ignore are numbered within their file.
LEMMA PushedNumbered ==
    ASSUME NEW s \in Segments, ~Ignored(s)
    PROVE  Numbered(s) /\ s.key \in Keys /\ s.key \notin completedIndex
BY BroadcastAssumption DEF Ignored, BadNumbering, Numbered, Keys

-----------------------------------------------------------------------------
(* The entry of the pushed segment, and the entries that survive the push *)

\* The blocks an entry has before the push.
Before(k) == IF k \in Fresh THEN DOMAIN byKey[k].parts ELSE {}

\* The entry that push leaves for the segment's file: the blocks it had and
\* the new one, each from a segment of that file.
LEMMA InsertedEntry ==
    ASSUME AssemblerInv, NEW s \in Segments, ~Ignored(s)
    PROVE  /\ Inserted(s).total = s.total
           /\ Inserted(s).lastSeen = instant
           /\ DOMAIN Inserted(s).parts = Before(s.key) \cup {s.block}
           /\ \A b \in DOMAIN Inserted(s).parts :
                  \E u \in Segments : Backs(u, s.key, b, Inserted(s).parts[b])
           /\ Inserted(s).parts = [b \in DOMAIN Inserted(s).parts |-> Inserted(s).parts[b]]
<1> DEFINE old == IF s.key \in Fresh THEN byKey[s.key].parts ELSE [b \in {} |-> 0]
           new == [b \in DOMAIN old \cup {s.block} |->
                      IF b = s.block THEN s.content ELSE old[b]]
<1>1. Inserted(s) = [total |-> s.total, lastSeen |-> instant, parts |-> new]
  BY DEF Inserted
<1>2. DOMAIN old = Before(s.key)
  BY DEF Before
<1>3. ASSUME NEW b \in Before(s.key)
      PROVE  \E u \in Segments : Backs(u, s.key, b, old[b])
  <2>1. s.key \in Fresh /\ s.key \in DOMAIN byKey /\ old = byKey[s.key].parts
    BY DEF Before, Fresh
  <2>2. QED
    BY <1>2, <2>1 DEF AssemblerInv, EntriesSound
<1> HIDE DEF old
<1>4. DOMAIN new = Before(s.key) \cup {s.block}
  BY <1>2
<1>5. ASSUME NEW b \in DOMAIN new PROVE \E u \in Segments : Backs(u, s.key, b, new[b])
  <2>1. CASE b = s.block
    <3>1. Backs(s, s.key, b, new[b])
      BY <2>1, PushedNumbered DEF Backs
    <3>2. QED
      BY <3>1
  <2>2. CASE b # s.block
    BY <1>2, <1>3, <2>2
  <2>3. QED
    BY <2>1, <2>2
<1>6. new = [b \in DOMAIN new |-> new[b]]
  OBVIOUS
<1> HIDE DEF new
<1>7. QED
  BY <1>1, <1>4, <1>5, <1>6

\* A block that is backed lies in the file and in the broadcast.
LEMMA BackedBlock ==
    ASSUME NEW s \in Segments, Numbered(s), NEW u \in Segments, NEW b, NEW c, Backs(u, s.key, b, c)
    PROVE  b \in 1..s.total /\ b \in DOMAIN Source(s.key) /\ Source(s.key)[b] = c
<1>1. Numbered(u) /\ u.key = s.key /\ u.block = b /\ u.content = c
  BY DEF Backs
<1>2. u.total = s.total
  BY <1>1, BroadcastAssumption
<1>3. QED
  BY <1>1, <1>2, SourceHasBlock DEF Numbered

\* As many backed blocks as the total are the whole file.
LEMMA CompleteIsWhole ==
    ASSUME AssemblerInv, NEW s \in Segments, ~Ignored(s), Complete(Inserted(s))
    PROVE  Inserted(s).parts = Source(s.key)
<1> DEFINE p == Inserted(s).parts
<1>1. Numbered(s) /\ s.total \in Nat
  BY PushedNumbered, BroadcastAssumption
<1>2. ASSUME NEW b \in DOMAIN p
      PROVE  b \in 1..s.total /\ b \in DOMAIN Source(s.key) /\ Source(s.key)[b] = p[b]
  <2>1. PICK u \in Segments : Backs(u, s.key, b, p[b])
    BY InsertedEntry
  <2>2. QED
    BY <1>1, <2>1, BackedBlock
<1>3. Cardinality(DOMAIN p) = s.total
  BY InsertedEntry DEF Complete
<1>4. IsFiniteSet(1..s.total) /\ Cardinality(1..s.total) = s.total
  <2>1. /\ IsFiniteSet(1..s.total)
        /\ Cardinality(1..s.total) = IF 1 > s.total THEN 0 ELSE s.total - 1 + 1
    BY <1>1, FS_Interval
  <2>2. QED
    BY <1>1, <2>1
<1>5. DOMAIN p = 1..s.total
  BY <1>2, <1>3, <1>4, FS_Subset
<1>6. DOMAIN Source(s.key) = DOMAIN p
  BY <1>1, <1>2, <1>5, SourceWithin
<1>7. Source(s.key) = [b \in DOMAIN Source(s.key) |-> Source(s.key)[b]]
  BY DEF Source
<1>8. p = [b \in DOMAIN p |-> p[b]]
  BY InsertedEntry
<1> HIDE DEF p
<1>9. QED
  BY <1>2, <1>6, <1>7, <1>8 DEF p

\* The survivors of an eviction, with room for the key of the segment.
LEMMA SurvivorsFit ==
    ASSUME AssemblerInv, NEW k, NEW kept \in Survivors(k)
    PROVE  /\ kept \subseteq Fresh /\ kept \subseteq DOMAIN byKey
           /\ IsFiniteSet(kept \cup {k}) /\ Cardinality(kept \cup {k}) <= MaxInflight
           /\ k \in Fresh => k \in kept
<1>1. Fresh \subseteq DOMAIN byKey
  BY DEF Fresh
<1>2. IsFiniteSet(Fresh) /\ Cardinality(Fresh) <= Cardinality(DOMAIN byKey)
  BY <1>1, FS_Subset DEF AssemblerInv
<1>3. MaxInflight \in Nat /\ Cardinality(Fresh) \in Nat /\ Cardinality(DOMAIN byKey) \in Nat
  BY <1>2, LimitsAssumption, FS_CardinalityType DEF AssemblerInv
<1>4. CASE k \in Fresh
  <2>1. kept = Fresh /\ kept \cup {k} = Fresh
    BY <1>4 DEF Survivors
  <2>2. QED
    <3>1. Cardinality(DOMAIN byKey) <= MaxInflight
      BY DEF AssemblerInv
    <3>2. Cardinality(Fresh) <= MaxInflight
      BY <1>2, <1>3, <3>1
    <3>3. QED
      BY <1>1, <1>2, <1>4, <2>1, <3>2, Zenon
<1>5. CASE k \notin Fresh
  <2>1. kept \subseteq Fresh /\ IsFiniteSet(kept) /\ Cardinality(kept) \in Nat
    BY <1>2, FS_Subset, FS_CardinalityType DEF Survivors
  <2>2. Cardinality(kept) < MaxInflight
    BY <1>3, <1>5, <2>1 DEF Survivors
  <2>3. /\ IsFiniteSet(kept \cup {k})
        /\ Cardinality(kept \cup {k}) = Cardinality(kept) + 1
    BY <1>5, <2>1, FS_AddElement
  <2>4. QED
    BY <1>1, <1>3, <1>5, <2>1, <2>2, <2>3
<1>6. QED
  BY <1>4, <1>5

-----------------------------------------------------------------------------
(* The actions *)

\* What a push that inserted its segment notes for the files that it neither
\* completes nor evicts: Tracked survives it.
LEMMA TrackedStep ==
    ASSUME AssemblerInv, NEW s \in Segments, ~Ignored(s), NEW kept \in Survivors(s.key),
           Note(s, kept), NEW k \in Keys \ forgotten', k # s.key, ~WasEmitted(k)
    PROVE  arrived'[k] = IF k \in kept THEN DOMAIN byKey[k].parts ELSE {}
<1>1. k \notin forgotten /\ (k \in DOMAIN byKey => k \in kept)
  BY DEF Note
<1>2. arrived'[k] = arrived[k]
  BY DEF Note, AssemblerInv
<1>3. kept \subseteq DOMAIN byKey
  BY SurvivorsFit
<1>4. QED
  BY <1>1, <1>2, <1>3 DEF AssemblerInv, Tracked

\* ... and for the pushed file itself, which holds what arrived.
LEMMA TrackedOwn ==
    ASSUME AssemblerInv, NEW s \in Segments, ~Ignored(s), NEW kept \in Survivors(s.key),
           Note(s, kept), s.key \notin forgotten', ~WasEmitted(s.key)
    PROVE  arrived'[s.key] = DOMAIN Inserted(s).parts
<1>1. s.key \in Keys \ forgotten /\ (s.key \in DOMAIN byKey => s.key \in kept)
  BY PushedNumbered DEF Note
<1>2. arrived'[s.key] = arrived[s.key] \cup {s.block}
  BY <1>1 DEF Note, AssemblerInv
<1>3. arrived[s.key] = IF s.key \in DOMAIN byKey THEN DOMAIN byKey[s.key].parts ELSE {}
  BY <1>1 DEF AssemblerInv, Tracked
<1>4. s.key \in DOMAIN byKey <=> s.key \in Fresh
  BY <1>1, SurvivorsFit DEF Fresh
<1>5. arrived[s.key] = Before(s.key)
  BY <1>3, <1>4 DEF Before
<1>6. QED
  BY <1>2, <1>5, InsertedEntry

\* The history of arrivals keeps its type.
LEMMA ArrivedType ==
    ASSUME AssemblerInv, NEW s \in Segments, NEW kept, Note(s, kept)
    PROVE  arrived' \in [Keys -> SUBSET Nat]
BY BroadcastAssumption DEF AssemblerInv, Note

\* A push that leaves its file incomplete.
LEMMA PartialKeeps ==
    ASSUME AssemblerInv, NEW s \in Segments, PushPartial(s)
    PROVE  AssemblerInv'
<1> DEFINE e == Inserted(s)
<1>1. ~Ignored(s) /\ ~Complete(e)
  BY DEF PushPartial
<1>2. PICK kept \in Survivors(s.key) :
        /\ byKey' = [k \in kept \cup {s.key} |-> IF k = s.key THEN e ELSE byKey[k]]
        /\ Note(s, kept)
  BY DEF PushPartial
<1>3. /\ completedRecent' = completedRecent /\ completedIndex' = completedIndex
      /\ instant' = instant /\ emitted' = emitted
  BY DEF PushPartial
<1>4. Numbered(s) /\ s.key \in Keys /\ s.key \notin completedIndex
  BY <1>1, PushedNumbered
<1>5. /\ e.total = s.total /\ e.lastSeen = instant
      /\ DOMAIN e.parts = Before(s.key) \cup {s.block}
      /\ \A b \in DOMAIN e.parts : \E u \in Segments : Backs(u, s.key, b, e.parts[b])
  BY <1>1, InsertedEntry
<1>6. /\ kept \subseteq DOMAIN byKey
      /\ IsFiniteSet(kept \cup {s.key}) /\ Cardinality(kept \cup {s.key}) <= MaxInflight
  BY SurvivorsFit
<1> HIDE DEF e
<1>7. /\ DOMAIN byKey' = kept \cup {s.key} /\ byKey'[s.key] = e
      /\ \A k \in kept \ {s.key} : byKey'[k] = byKey[k]
  BY <1>2
<1>8. AssemblerTypeOK'
  <2>1. instant \in Nat /\ s.total \in Nat
    BY BroadcastAssumption, LimitsAssumption DEF AssemblerInv, AssemblerTypeOK
  <2>2. \A b \in DOMAIN e.parts : b \in Blocks /\ e.parts[b] \in Contents
    BY <1>5 DEF Backs, Blocks, Contents
  <2>3. \A k \in DOMAIN byKey' : byKey'[k] = e \/ (k \in DOMAIN byKey /\ byKey'[k] = byKey[k])
    BY <1>6, <1>7
  <2>4. ASSUME NEW k \in DOMAIN byKey'
        PROVE  /\ byKey'[k].total \in Nat /\ byKey'[k].lastSeen \in 0..instant'
               /\ DOMAIN byKey'[k].parts \subseteq Blocks
               /\ \A b \in DOMAIN byKey'[k].parts : byKey'[k].parts[b] \in Contents
    <3>1. CASE byKey'[k] = e
      BY <1>3, <1>5, <2>1, <2>2, <3>1
    <3>2. CASE k \in DOMAIN byKey /\ byKey'[k] = byKey[k]
      BY <1>3, <3>2 DEF AssemblerInv, AssemblerTypeOK
    <3>3. QED
      BY <2>3, <3>1, <3>2
  <2>5. DOMAIN byKey' \subseteq Keys
    BY <1>4, <1>6, <1>7 DEF AssemblerInv, AssemblerTypeOK
  <2>6. QED
    BY <1>3, <2>4, <2>5 DEF AssemblerInv, AssemblerTypeOK
<1>9. EntriesSound'
  <2>1. ASSUME NEW k \in DOMAIN byKey'
        PROVE  /\ \E u \in Segments : Numbered(u) /\ u.key = k /\ u.total = byKey'[k].total
               /\ \A b \in DOMAIN byKey'[k].parts :
                      \E u \in Segments : Backs(u, k, b, byKey'[k].parts[b])
               /\ DOMAIN byKey'[k].parts # {}
               /\ ~Complete(byKey'[k])
    <3>1. CASE k = s.key
      BY <1>1, <1>4, <1>5, <1>7, <3>1 DEF e
    <3>2. CASE k # s.key
      <4>1. k \in DOMAIN byKey /\ byKey'[k] = byKey[k]
        BY <1>6, <1>7, <3>2
      <4>2. QED
        BY <4>1 DEF AssemblerInv, EntriesSound
    <3>3. QED
      BY <3>1, <3>2
  <2>2. QED
    BY <2>1 DEF EntriesSound, Complete
<1>10. IsFiniteSet(DOMAIN byKey') /\ Cardinality(DOMAIN byKey') <= MaxInflight
  BY <1>6, <1>7
<1>11. (DOMAIN byKey \cap completedIndex = {})'
  BY <1>3, <1>4, <1>6, <1>7 DEF AssemblerInv
<1>12. Tracked'
  <2>1. ASSUME NEW k \in Keys \ forgotten', ~WasEmitted(k)'
        PROVE  arrived'[k] = IF k \in DOMAIN byKey' THEN DOMAIN byKey'[k].parts ELSE {}
    <3>1. ~WasEmitted(k)
      BY <1>3, <2>1 DEF WasEmitted
    <3>2. CASE k = s.key
      <4>1. arrived'[s.key] = DOMAIN e.parts
        BY <1>1, <1>2, <2>1, <3>1, <3>2, TrackedOwn DEF e
      <4>2. QED
        BY <1>7, <3>2, <4>1
    <3>3. CASE k # s.key
      <4>1. arrived'[k] = IF k \in kept THEN DOMAIN byKey[k].parts ELSE {}
        BY <1>1, <1>2, <3>1, <3>3, TrackedStep
      <4>2. QED
        BY <1>7, <3>3, <4>1
    <3>4. QED
      BY <3>2, <3>3
  <2>2. QED
    BY <2>1 DEF Tracked
<1>13. arrived' \in [Keys -> SUBSET Nat]
  BY <1>2, ArrivedType
<1>14. RecentIsTail' /\ IndexIsRecent' /\ NoDuplicateWithinCache'
  BY <1>3 DEF AssemblerInv, RecentIsTail, IndexIsRecent, NoDuplicateWithinCache
<1>15. QED
  BY <1>3, <1>8, <1>9, <1>10, <1>11, <1>12, <1>13, <1>14 DEF AssemblerInv

\* The keys remembered are distinct: files with one key are further apart.
LEMMA RecentDistinct ==
    ASSUME AssemblerInv
    PROVE  \A i, j \in 1..Len(completedRecent) : i # j => completedRecent[i] # completedRecent[j]
<1> DEFINE L == Len(emitted)
           R == Len(completedRecent)
<1>1. L \in Nat /\ R \in Nat /\ R <= L /\ R <= CacheSize /\ CacheSize \in Nat
  BY LimitsAssumption DEF AssemblerInv, AssemblerTypeOK, RecentIsTail
<1>2. ASSUME NEW i \in 1..R, NEW j \in 1..R, i < j PROVE completedRecent[i] # completedRecent[j]
  <2>1. completedRecent[i] = emitted[L - R + i].key /\ completedRecent[j] = emitted[L - R + j].key
    BY DEF AssemblerInv, RecentIsTail
  <2>2. /\ L - R + i \in 1..L /\ L - R + j \in 1..L /\ L - R + i < L - R + j
        /\ ~ ((L - R + j) - (L - R + i) > CacheSize)
    BY <1>1, <1>2
  <2>3. emitted[L - R + i].key # emitted[L - R + j].key
    BY <2>2 DEF AssemblerInv, NoDuplicateWithinCache
  <2>4. QED
    BY <2>1, <2>3
<1>3. ASSUME NEW i \in 1..R, NEW j \in 1..R, i # j PROVE completedRecent[i] # completedRecent[j]
  <2>1. i < j \/ j < i
    BY <1>1, <1>3
  <2>2. QED
    BY <1>2, <2>1
<1>4. QED
  BY <1>3

\* The duplicate cache after a completion.
LEMMA RememberKeeps ==
    ASSUME AssemblerInv, NEW k \in Keys, k \notin completedIndex,
           completedRecent' = Remember(k), completedIndex' = RememberIndex(k),
           emitted' = Append(emitted, SourceFile(k))
    PROVE  /\ emitted' \in Seq({SourceFile(x) : x \in Keys})
           /\ completedRecent' \in Seq(Keys)
           /\ RecentIsTail' /\ IndexIsRecent' /\ NoDuplicateWithinCache'
           /\ completedIndex' \subseteq completedIndex \cup {k}
<1>c. CacheSize \in Nat /\ CacheSize >= 1
  BY LimitsAssumption
<1>1. PICK L \in Nat : L = Len(emitted)
  BY DEF AssemblerInv
<1>2. PICK R \in Nat : R = Len(completedRecent)
  BY DEF AssemblerInv, AssemblerTypeOK
<1>3. /\ R = (IF L < CacheSize THEN L ELSE CacheSize)
      /\ \A i \in 1..R : completedRecent[i] = emitted[L - R + i].key
  BY <1>1, <1>2 DEF AssemblerInv, RecentIsTail
<1>4. /\ emitted' \in Seq({SourceFile(x) : x \in Keys}) /\ Len(emitted') = L + 1
      /\ emitted'[L + 1].key = k
      /\ \A i \in 1..L : emitted'[i] = emitted[i]
  <2>1. SourceFile(k).key = k
    BY DEF SourceFile
  <2>2. emitted \in Seq({SourceFile(x) : x \in Keys})
    BY DEF AssemblerInv
  <2> DEFINE f == SourceFile(k)
             F == {SourceFile(x) : x \in Keys}
  <2>3. f \in F
    OBVIOUS
  <2> HIDE DEF f, F
  <2>4. Append(emitted, f) \in Seq(F) /\ Len(Append(emitted, f)) = L + 1
        /\ Append(emitted, f)[L + 1] = f /\ \A i \in 1..L : Append(emitted, f)[i] = emitted[i]
    BY <1>1, <2>2, <2>3 DEF F
  <2>5. QED
    BY <2>1, <2>4 DEF f, F
<1> DEFINE grown == Append(completedRecent, k)
<1>5. /\ grown \in Seq(Keys) /\ Len(grown) = R + 1 /\ grown[R + 1] = k
      /\ \A i \in 1..R : grown[i] = completedRecent[i]
      /\ completedRecent \in Seq(Keys)
  BY <1>2 DEF AssemblerInv, AssemblerTypeOK
<1>6. completedIndex = {completedRecent[i] : i \in 1..R}
  BY <1>2 DEF AssemblerInv, IndexIsRecent
<1>7. \A i, j \in 1..R : i # j => completedRecent[i] # completedRecent[j]
  BY <1>2, RecentDistinct
<1>8. completedRecent' = IF R + 1 > CacheSize THEN Tail(grown) ELSE grown
  BY <1>5 DEF Remember
<1>9. completedIndex' = (completedIndex \cup {k})
                           \ (IF R + 1 > CacheSize THEN {Head(grown)} ELSE {})
  BY <1>2 DEF RememberIndex
<1> HIDE DEF grown
<1>10. NoDuplicateWithinCache'
  <2>1. ASSUME NEW i \in 1..(L + 1), NEW j \in 1..(L + 1), i < j, emitted'[i].key = emitted'[j].key
        PROVE  j - i > CacheSize
    <3>1. i \in 1..L /\ emitted'[i] = emitted[i]
      BY <1>4, <2>1
    <3>2. CASE j # L + 1
      <4>1. j \in 1..L /\ emitted'[j] = emitted[j]
        BY <1>4, <3>2
      <4>2. QED
        BY <1>1, <2>1, <3>1, <4>1 DEF AssemblerInv, NoDuplicateWithinCache
    <3>3. CASE j = L + 1
      <4>1. emitted[i].key = k
        BY <1>4, <2>1, <3>1, <3>3
      <4>2. i <= L - R
        <5>1. SUFFICES ASSUME i > L - R PROVE FALSE
          BY <1>1, <1>2
        <5>2. i - (L - R) \in 1..R /\ L - R + (i - (L - R)) = i
          BY <1>1, <1>2, <3>1, <5>1
        <5>3. completedRecent[i - (L - R)] = k
          BY <1>3, <4>1, <5>2
        <5>4. QED
          BY <1>6, <5>2, <5>3
      <4>3. R = CacheSize
        BY <1>3, <3>1, <4>2
      <4>4. QED
        BY <1>c, <3>1, <3>3, <4>2, <4>3
    <3>4. QED
      BY <3>2, <3>3
  <2>2. QED
    BY <1>4, <2>1 DEF NoDuplicateWithinCache
<1>11. CASE R < CacheSize
  <2>1. R = L /\ completedRecent' = grown /\ completedIndex' = completedIndex \cup {k}
    BY <1>3, <1>8, <1>9, <1>11, <1>c
  <2>2. RecentIsTail'
    <3>1. Len(completedRecent') = IF L + 1 < CacheSize THEN L + 1 ELSE CacheSize
      BY <1>5, <1>11, <1>c, <2>1
    <3>2. ASSUME NEW i \in 1..(R + 1) PROVE grown[i] = emitted'[i].key
      <4>1. CASE i = R + 1
        BY <1>4, <1>5, <2>1, <4>1
      <4>2. CASE i # R + 1
        <5>1. i \in 1..R /\ L - R + i = i
          BY <2>1, <4>2
        <5>2. grown[i] = emitted[i].key
          BY <1>3, <1>5, <5>1
        <5>3. QED
          BY <1>4, <2>1, <5>1, <5>2
      <4>3. QED
        BY <4>1, <4>2
    <3>3. Len(completedRecent') = R + 1 /\ Len(emitted') = R + 1
      BY <1>4, <1>5, <2>1
    <3>4. ASSUME NEW i \in 1..(R + 1) PROVE (R + 1) - (R + 1) + i = i
      OBVIOUS
    <3>5. QED
      BY <1>4, <2>1, <3>1, <3>2, <3>3, <3>4 DEF RecentIsTail
  <2>3. IndexIsRecent'
    <3>1. {grown[i] : i \in 1..(R + 1)} = {completedRecent[i] : i \in 1..R} \cup {k}
      <4>1. ASSUME NEW i \in 1..(R + 1)
            PROVE  grown[i] \in {completedRecent[j] : j \in 1..R} \cup {k}
        <5>1. i = R + 1 \/ i \in 1..R
          OBVIOUS
        <5>2. QED
          BY <1>5, <5>1
      <4>2. ASSUME NEW i \in 1..R PROVE i \in 1..(R + 1) /\ grown[i] = completedRecent[i]
        BY <1>5
      <4>3. R + 1 \in 1..(R + 1) /\ grown[R + 1] = k
        BY <1>5
      <4>4. QED
        BY <4>1, <4>2, <4>3
    <3>2. QED
      BY <1>5, <1>6, <2>1, <3>1 DEF IndexIsRecent
  <2>4. QED
    BY <1>4, <1>5, <1>10, <2>1, <2>2, <2>3
<1>12. CASE R >= CacheSize
  <2>1. R = CacheSize /\ L >= R
    BY <1>3, <1>12, <1>c
  <2>2. completedRecent' = Tail(grown) /\ completedIndex' = (completedIndex \cup {k}) \ {Head(grown)}
    BY <1>8, <1>9, <2>1
  <2> DEFINE t == Tail(grown)
  <2>3. /\ Head(grown) = completedRecent[1]
        /\ t \in Seq(Keys) /\ Len(t) = R
        /\ \A i \in 1..R : t[i] = grown[i + 1]
    <3>1. grown # <<>>
      BY <1>5
    <3>2. /\ Tail(grown) \in Seq(Keys) /\ Len(Tail(grown)) = Len(grown) - 1
          /\ \A i \in 1..Len(Tail(grown)) : Tail(grown)[i] = grown[i + 1]
      BY <1>5, <3>1, HeadTailProperties
    <3>3. Head(grown) = grown[1] /\ 1 \in 1..R
      BY <1>5, <1>c, <2>1, <3>1
    <3>4. QED
      BY <1>5, <3>2, <3>3
  <2> HIDE DEF t
  <2>4. \A i \in 1..(R - 1) : t[i] = completedRecent[i + 1] /\ i + 1 \in 1..R
    BY <1>5, <2>3
  <2>5. t[R] = k /\ R \in 1..R
    BY <1>5, <1>c, <2>1, <2>3
  <2>6. RecentIsTail'
    <3>1. ASSUME NEW i \in 1..R PROVE t[i] = emitted'[(L + 1) - R + i].key
      <4>1. CASE i = R
        <5>1. (L + 1) - R + i = L + 1
          BY <4>1
        <5>2. QED
          BY <1>4, <2>5, <4>1, <5>1
      <4>2. CASE i # R
        <5>1. i \in 1..(R - 1)
          BY <4>2
        <5>2. (L + 1) - R + i = L - R + (i + 1) /\ L - R + (i + 1) \in 1..L
          BY <2>1, <5>1
        <5>3. t[i] = emitted[L - R + (i + 1)].key
          BY <1>3, <2>4, <5>1
        <5>4. QED
          BY <1>4, <5>2, <5>3
      <4>3. QED
        BY <4>1, <4>2
    <3>2. completedRecent' = t
      BY <2>2 DEF t
    <3>3. Len(t) = IF L + 1 < CacheSize THEN L + 1 ELSE CacheSize
      BY <2>1, <2>3, <1>c
    <3>4. QED
      BY <1>4, <2>3, <3>1, <3>2, <3>3 DEF RecentIsTail
  <2>7. IndexIsRecent'
    <3>1. ASSUME NEW x \in (completedIndex \cup {k}) \ {completedRecent[1]}
          PROVE  \E i \in 1..R : x = t[i]
      <4>1. CASE x = k
        BY <2>5, <4>1
      <4>2. CASE x # k
        <5>1. PICK j \in 1..R : x = completedRecent[j]
          BY <1>6, <4>2
        <5>2. j - 1 \in 1..(R - 1) /\ (j - 1) + 1 = j
          BY <5>1
        <5>3. t[j - 1] = x /\ j - 1 \in 1..R
          BY <2>4, <5>1, <5>2
        <5>4. QED
          BY <5>3
      <4>3. QED
        BY <4>1, <4>2
    <3>2. ASSUME NEW i \in 1..R PROVE t[i] \in (completedIndex \cup {k}) \ {completedRecent[1]}
      <4>1. 1 \in 1..R
        BY <1>c, <2>1
      <4>2. CASE i = R
        BY <1>6, <2>5, <4>1, <4>2
      <4>3. CASE i # R
        <5>1. i \in 1..(R - 1) /\ i + 1 \in 1..R /\ i + 1 # 1
          BY <4>3
        <5>2. t[i] = completedRecent[i + 1] /\ t[i] # completedRecent[1]
          BY <1>7, <2>4, <4>1, <5>1
        <5>3. QED
          BY <1>6, <5>1, <5>2
      <4>4. QED
        BY <4>2, <4>3
    <3>3. completedRecent' = t /\ completedIndex' = (completedIndex \cup {k}) \ {completedRecent[1]}
      BY <2>2, <2>3 DEF t
    <3>4. completedIndex' = {t[i] : i \in 1..R}
      BY <3>1, <3>2, <3>3
    <3>5. {completedRecent'[i] : i \in 1..Len(completedRecent')} = {t[i] : i \in 1..R}
      BY <2>3, <3>3, Zenon
    <3>6. QED
      BY <3>4, <3>5, Zenon DEF IndexIsRecent
  <2>8. completedRecent' \in Seq(Keys) /\ completedIndex' \subseteq completedIndex \cup {k}
    BY <2>2, <2>3 DEF t
  <2>9. QED
    BY <1>4, <1>10, <2>6, <2>7, <2>8
<1>13. QED
  BY <1>c, <1>11, <1>12

\* The push of the last missing block.
LEMMA CompletingKeeps ==
    ASSUME AssemblerInv, NEW s \in Segments, PushCompleting(s)
    PROVE  AssemblerInv'
<1>1. ~Ignored(s) /\ Complete(Inserted(s))
  BY DEF PushCompleting
<1>2. PICK kept \in Survivors(s.key) :
        /\ byKey' = [k \in kept \ {s.key} |-> byKey[k]]
        /\ Note(s, kept)
  BY DEF PushCompleting
<1>3. /\ completedRecent' = Remember(s.key) /\ completedIndex' = RememberIndex(s.key)
      /\ instant' = instant
      /\ emitted' = Append(emitted, SourceFile(s.key))
  BY <1>1, CompleteIsWhole DEF PushCompleting, SourceFile
<1>4. s.key \in Keys /\ s.key \notin completedIndex
  BY <1>1, PushedNumbered
<1>5. /\ emitted' \in Seq({SourceFile(x) : x \in Keys})
      /\ completedRecent' \in Seq(Keys)
      /\ RecentIsTail' /\ IndexIsRecent' /\ NoDuplicateWithinCache'
      /\ completedIndex' \subseteq completedIndex \cup {s.key}
  BY <1>3, <1>4, RememberKeeps
<1>6. kept \subseteq DOMAIN byKey
  BY SurvivorsFit
<1>7. /\ DOMAIN byKey' = kept \ {s.key} /\ DOMAIN byKey' \subseteq DOMAIN byKey
      /\ \A k \in DOMAIN byKey' : byKey'[k] = byKey[k]
  BY <1>2, <1>6
<1>8. AssemblerTypeOK'
  <2>1. completedIndex' \subseteq Keys /\ instant' \in 0..MaxClock
    BY <1>3, <1>4, <1>5 DEF AssemblerInv, AssemblerTypeOK
  <2>2. QED
    BY <1>3, <1>5, <1>7, <2>1 DEF AssemblerInv, AssemblerTypeOK
<1>9. EntriesSound'
  BY <1>7 DEF AssemblerInv, EntriesSound, Complete
<1>10. IsFiniteSet(DOMAIN byKey') /\ Cardinality(DOMAIN byKey') <= MaxInflight
  <2>1. /\ IsFiniteSet(DOMAIN byKey') /\ Cardinality(DOMAIN byKey') <= Cardinality(DOMAIN byKey)
        /\ IsFiniteSet(DOMAIN byKey)
    BY <1>7, FS_Subset DEF AssemblerInv
  <2>2. /\ Cardinality(DOMAIN byKey') \in Nat /\ Cardinality(DOMAIN byKey) \in Nat
        /\ Cardinality(DOMAIN byKey) <= MaxInflight
    BY <2>1, FS_CardinalityType DEF AssemblerInv
  <2>3. QED
    BY <2>1, <2>2, LimitsAssumption
<1>11. (DOMAIN byKey \cap completedIndex = {})'
  BY <1>5, <1>7 DEF AssemblerInv
<1>12. PICK L \in Nat : L = Len(emitted)
  BY DEF AssemblerInv
<1>13. /\ Len(emitted') = L + 1 /\ emitted'[L + 1] = SourceFile(s.key)
       /\ \A i \in 1..L : emitted'[i] = emitted[i]
  <2> DEFINE f == SourceFile(s.key)
             F == {SourceFile(x) : x \in Keys}
  <2>1. f \in F /\ emitted \in Seq(F) /\ emitted' = Append(emitted, f)
    BY <1>3, <1>4 DEF AssemblerInv
  <2> HIDE DEF f, F
  <2>2. /\ Len(emitted') = L + 1 /\ emitted'[L + 1] = f
        /\ \A i \in 1..L : emitted'[i] = emitted[i]
    BY <1>12, <2>1
  <2>3. QED
    BY <2>2 DEF f
<1>14. Tracked'
  <2>1. ASSUME NEW k \in Keys \ forgotten', ~WasEmitted(k)'
        PROVE  arrived'[k] = IF k \in DOMAIN byKey' THEN DOMAIN byKey'[k].parts ELSE {}
    <3>1. k # s.key
      <4>1. L + 1 \in 1..Len(emitted') /\ emitted'[L + 1].key = s.key
        BY <1>13 DEF SourceFile
      <4>2. QED
        BY <2>1, <4>1 DEF WasEmitted
    <3>2. ~WasEmitted(k)
      BY <1>12, <1>13, <2>1 DEF WasEmitted
    <3>3. arrived'[k] = IF k \in kept THEN DOMAIN byKey[k].parts ELSE {}
      BY <1>1, <1>2, <3>1, <3>2, TrackedStep
    <3>4. QED
      BY <1>7, <3>1, <3>3
  <2>2. QED
    BY <2>1 DEF Tracked
<1>15. arrived' \in [Keys -> SUBSET Nat]
  BY <1>2, ArrivedType
<1>16. QED
  BY <1>5, <1>8, <1>9, <1>10, <1>11, <1>14, <1>15 DEF AssemblerInv

\* An assembler that holds nothing: at the start, and after clear.
HoldsNothing ==
    /\ DOMAIN byKey = {} /\ completedRecent = <<>> /\ completedIndex = {} /\ emitted = <<>>
    /\ arrived = [k \in Keys |-> {}] /\ instant \in 0..MaxClock

\* Such an assembler satisfies the invariant.
LEMMA EmptyHolds == HoldsNothing => AssemblerInv
<1> SUFFICES ASSUME HoldsNothing PROVE AssemblerInv
  OBVIOUS
<1> USE DEF HoldsNothing
<1>1. Len(completedRecent) = 0 /\ Len(emitted) = 0 /\ 1..0 = {}
  OBVIOUS
<1>2. AssemblerTypeOK /\ EntriesSound /\ Tracked
  BY DEF AssemblerTypeOK, EntriesSound, Tracked
<1>3. IsFiniteSet({}) /\ Cardinality({}) <= MaxInflight
  BY FS_EmptySet, LimitsAssumption
<1>4. RecentIsTail /\ IndexIsRecent /\ NoDuplicateWithinCache
  BY <1>1, LimitsAssumption DEF RecentIsTail, IndexIsRecent, NoDuplicateWithinCache
<1>5. <<>> \in Seq({SourceFile(k) : k \in Keys})
  <2> DEFINE F == {SourceFile(k) : k \in Keys}
  <2> HIDE DEF F
  <2>1. <<>> \in Seq(F)
    OBVIOUS
  <2>2. QED
    BY <2>1 DEF F
<1>6. arrived \in [Keys -> SUBSET Nat]
  OBVIOUS
<1>7. QED
  BY <1>2, <1>3, <1>4, <1>5, <1>6 DEF AssemblerInv

\* The invariant holds throughout.
LEMMA AssemblerInvHolds == AssemblerSpec => []AssemblerInv
<1>1. AssemblerInit => AssemblerInv
  BY EmptyHolds, LimitsAssumption DEF AssemblerInit, HoldsNothing
<1>2. AssemblerInv /\ [AssemblerNext]_assemblerVars => AssemblerInv'
  <2> SUFFICES ASSUME AssemblerInv, [AssemblerNext]_assemblerVars PROVE AssemblerInv'
    OBVIOUS
  <2>1. ASSUME NEW s \in Segments, PushPartial(s) PROVE AssemblerInv'
    BY <2>1, PartialKeeps
  <2>2. ASSUME NEW s \in Segments, PushCompleting(s) PROVE AssemblerInv'
    BY <2>2, CompletingKeeps
  <2>3. CASE (\E s \in Segments : PushIgnored(s)) \/ UNCHANGED assemblerVars
    <3>1. UNCHANGED assemblerVars
      BY <2>3 DEF PushIgnored
    <3>2. /\ byKey' = byKey /\ completedRecent' = completedRecent
          /\ completedIndex' = completedIndex /\ instant' = instant /\ emitted' = emitted
          /\ arrived' = arrived /\ forgotten' = forgotten
      BY <3>1 DEF assemblerVars, tables, history
    <3>3. QED
      BY <3>2 DEF AssemblerInv, AssemblerTypeOK, EntriesSound, Complete, RecentIsTail, IndexIsRecent,
                  NoDuplicateWithinCache, Tracked, WasEmitted
  <2>4. CASE Clear
    <3>1. AssemblerInv => instant \in 0..MaxClock
      BY DEF AssemblerInv, AssemblerTypeOK
    <3>2. HoldsNothing'
      BY <2>4, <3>1 DEF Clear, HoldsNothing
    <3>3. (HoldsNothing => AssemblerInv)'
      BY EmptyHolds, PTL
    <3>4. QED
      BY <3>2, <3>3
  <2>5. CASE Tick
    <3>1. /\ byKey' = byKey /\ completedRecent' = completedRecent
          /\ completedIndex' = completedIndex /\ emitted' = emitted
          /\ arrived' = arrived /\ forgotten' = forgotten
          /\ instant' = instant + 1 /\ instant < MaxClock
      BY <2>5 DEF Tick, tables, history
    <3>2. instant \in Nat /\ instant' \in 0..MaxClock /\ \A n \in 0..instant : n \in 0..instant'
      BY <3>1, LimitsAssumption DEF AssemblerInv, AssemblerTypeOK
    <3>3. AssemblerTypeOK'
      BY <3>1, <3>2 DEF AssemblerInv, AssemblerTypeOK
    <3>4. EntriesSound' /\ Tracked'
      BY <3>1 DEF AssemblerInv, EntriesSound, Complete, Tracked, WasEmitted
    <3>5. RecentIsTail' /\ IndexIsRecent' /\ NoDuplicateWithinCache'
      BY <3>1 DEF AssemblerInv, RecentIsTail, IndexIsRecent, NoDuplicateWithinCache
    <3>6. QED
      BY <3>1, <3>3, <3>4, <3>5 DEF AssemblerInv
  <2>6. QED
    BY <2>1, <2>2, <2>3, <2>4, <2>5 DEF AssemblerNext
<1>3. QED
  BY <1>1, <1>2, PTL DEF AssemblerSpec

-----------------------------------------------------------------------------
(* The theorems *)

\* The invariant says what FilesDelivered says.
LEMMA AssemblerInvSuffices ==
    ASSUME AssemblerInv
    PROVE  FilesDelivered
<1>1. EmittedFilesAreWhole
  <2>1. ASSUME NEW i \in 1..Len(emitted) PROVE emitted[i].parts = Source(emitted[i].key)
    <3>1. emitted[i] \in {SourceFile(k) : k \in Keys}
      <4> DEFINE F == {SourceFile(k) : k \in Keys}
      <4>1. emitted \in Seq(F)
        BY DEF AssemblerInv
      <4> HIDE DEF F
      <4>2. emitted[i] \in F
        BY <4>1
      <4>3. QED
        BY <4>2 DEF F
    <3>2. PICK k \in Keys : emitted[i] = SourceFile(k)
      BY <3>1
    <3>3. QED
      BY <3>2 DEF SourceFile
  <2>2. QED
    BY <2>1 DEF EmittedFilesAreWhole
<1>2. CompletedCacheAgrees
  <2>1. completedRecent \in Seq(Keys) /\ Len(completedRecent) <= CacheSize
    BY LimitsAssumption DEF AssemblerInv, AssemblerTypeOK, RecentIsTail
  <2>2. Cardinality({completedRecent[i] : i \in 1..Len(completedRecent)}) = Len(completedRecent)
    BY <2>1, RecentDistinct, DistinctMembers
  <2>3. QED
    BY <2>1, <2>2 DEF AssemblerInv, IndexIsRecent, CompletedCacheAgrees
<1>3. InflightBounded
  BY DEF AssemblerInv, EntriesSound, InflightBounded
<1>4. NothingLost
  <2>1. ASSUME NEW s \in Segments, Numbered(s), s.key \notin forgotten,
               1..s.total \subseteq arrived[s.key], ~WasEmitted(s.key)
        PROVE  FALSE
    <3>1. s.total \in Nat /\ 1..s.total # {} /\ s.key \in Keys
      BY <2>1, BroadcastAssumption DEF Numbered, Keys
    <3>2. s.key \in DOMAIN byKey /\ arrived[s.key] = DOMAIN byKey[s.key].parts
      BY <2>1, <3>1 DEF AssemblerInv, Tracked
    <3> DEFINE p == byKey[s.key].parts
    <3>3. byKey[s.key].total = s.total
      BY <2>1, <3>2, BroadcastAssumption DEF AssemblerInv, EntriesSound
    <3>4. ASSUME NEW b \in DOMAIN p PROVE b \in 1..s.total
      <4>1. PICK u \in Segments : Backs(u, s.key, b, p[b])
        BY <3>2 DEF AssemblerInv, EntriesSound
      <4>2. QED
        BY <2>1, <4>1, BackedBlock
    <3>5. DOMAIN p = 1..s.total
      BY <2>1, <3>2, <3>4
    <3>6. Cardinality(1..s.total) = s.total
      <4>1. Cardinality(1..s.total) = IF 1 > s.total THEN 0 ELSE s.total - 1 + 1
        BY <3>1, FS_Interval, SMTT(40)
      <4>2. QED
        BY <3>1, <4>1
    <3>7. Complete(byKey[s.key])
      BY <3>3, <3>5, <3>6 DEF Complete
    <3>8. QED
      BY <3>2, <3>7 DEF AssemblerInv, EntriesSound
  <2>2. QED
    BY <2>1 DEF NothingLost, WasEmitted
<1>5. QED
  BY <1>1, <1>2, <1>3, <1>4 DEF AssemblerInv, FilesDelivered, EmittedWholeAndOnce, TablesConsistent

\* However blocks of any number of files are mixed, repeated and numbered, and
\* though the tables evict, expire and forget: what push hands out is a file
\* of the broadcast, whole, and once per length of the duplicate cache, and a
\* file of which every block was pushed was handed out or had been evicted.
THEOREM AssemblerCorrect == AssemblerSpec => []FilesDelivered
<1>1. AssemblerInv => FilesDelivered
  BY AssemblerInvSuffices
<1>2. QED
  BY <1>1, AssemblerInvHolds, PTL

\* A push that completes a file whose entry has expired starts from nothing,
\* so that no block from before the silence is in the file.
THEOREM ExpiredStartsAnew == AssemblerSpec => NoStaleCompletion
<1> DEFINE Anew ==
      \A k \in DOMAIN byKey :
          (emitted' # emitted /\ Len(emitted') > Len(emitted)
             /\ emitted'[Len(emitted')].key = k
             /\ instant - byKey[k].lastSeen > InflightTtl)
          => Cardinality(DOMAIN emitted'[Len(emitted')].parts) = 1
<1>1. ASSUME AssemblerInv, AssemblerNext PROVE Anew
  <2>1. SUFFICES ASSUME NEW k \in DOMAIN byKey, Len(emitted') > Len(emitted),
                        emitted'[Len(emitted')].key = k, instant - byKey[k].lastSeen > InflightTtl
                 PROVE  Cardinality(DOMAIN emitted'[Len(emitted')].parts) = 1
    OBVIOUS
  <2>2. PICK L \in Nat : L = Len(emitted)
    BY <1>1 DEF AssemblerInv
  <2>3. PICK s \in Segments : PushCompleting(s)
    <3>1. \A s \in Segments : ~PushIgnored(s) /\ ~PushPartial(s)
      BY <2>1, <2>2 DEF PushIgnored, PushPartial, assemblerVars, history
    <3>2. ~Tick
      BY <2>1, <2>2 DEF Tick, history
    <3>3. ~Clear
      BY <2>1, <2>2 DEF Clear
    <3>4. QED
      BY <1>1, <3>1, <3>2, <3>3 DEF AssemblerNext
  <2> DEFINE f == [key |-> s.key, parts |-> Inserted(s).parts]
  <2>4. ~Ignored(s) /\ emitted' = Append(emitted, f)
    BY <2>3 DEF PushCompleting
  <2>5. emitted'[Len(emitted')] = f
    <3> DEFINE F == {SourceFile(x) : x \in Keys} \cup {f}
    <3>1. emitted \in Seq(F) /\ f \in F
      <4> DEFINE G == {SourceFile(x) : x \in Keys}
      <4>1. emitted \in Seq(G) /\ G \subseteq F
        BY <1>1 DEF AssemblerInv
      <4> HIDE DEF F, G
      <4>2. emitted \in Seq(F)
        BY <4>1
      <4>3. QED
        BY <4>2 DEF F
    <3> HIDE DEF F, f
    <3>2. QED
      BY <2>4, <3>1
  <2>6. s.key = k /\ k \notin Fresh
    <3>1. instant \in Int /\ byKey[k].lastSeen \in Int /\ InflightTtl \in Int
      BY <1>1, <2>1, LimitsAssumption DEF AssemblerInv, AssemblerTypeOK
    <3>2. f.key = s.key
      OBVIOUS
    <3>3. QED
      BY <2>1, <2>5, <3>1, <3>2 DEF Fresh
  <2>7. DOMAIN Inserted(s).parts = {s.block}
    BY <1>1, <2>4, <2>6, InsertedEntry DEF Before
  <2>8. QED
    <3>1. DOMAIN emitted'[Len(emitted')].parts = {s.block}
      BY <2>5, <2>7
    <3>2. Cardinality({s.block}) = 1
      BY FS_Singleton
    <3>3. QED
      BY <3>1, <3>2, Zenon
<1>2. AssemblerInv /\ [AssemblerNext]_assemblerVars => [Anew]_assemblerVars
  BY <1>1
<1>3. QED
  BY <1>2, AssemblerInvHolds, PTL DEF AssemblerSpec, NoStaleCompletion
=============================================================================
