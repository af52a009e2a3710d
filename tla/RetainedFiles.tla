---------------------------- MODULE RetainedFiles ---------------------------
(***************************************************************************)
(* RetainedFiles (emwin-cli live/server_support.rs): the bounded, expiring *)
(* store of completed files behind GET /files.  Every operation runs under *)
(* one mutex and first drops what has expired.                             *)
(*                                                                         *)
(* Time is SystemTime, which may be set forwards and backwards; the time a *)
(* file was completed is read before the mutex is taken, so it need not be *)
(* the time of the insertion.  The version of a file is the number of the  *)
(* insertion that stored it.                                               *)
(***************************************************************************)
EXTENDS Integers, Sequences, FiniteSets, Retaining

CONSTANTS
    Names,       \* filenames of delivered products
    MaxEntries,  \* max_entries
    Ttl,         \* ttl, in ticks
    MaxTime,     \* bound: the wall clock stays in 0..MaxTime
    MaxInserts   \* bound: how many files are stored

ASSUME StoreAssumption == /\ MaxEntries \in Nat \ {0} /\ Ttl \in Nat \ {0}
                          /\ MaxTime \in Nat /\ MaxInserts \in Nat

VARIABLES
    byName,    \* the files, a function on the names retained
    order,     \* the names, oldest insertion first
    now,       \* what SystemTime::now returns
    inserted,  \* history: the names stored, in order
    lapsed,    \* history: versions dropped because they expired
    reply      \* history: what the last list or get returned, as versions

vars == <<byName, order, now, inserted, lapsed, reply>>

Times == 0..MaxTime

TypeOK ==
    /\ DOMAIN byName \subseteq Names
    /\ \A n \in DOMAIN byName : /\ byName[n].version \in 1..Len(inserted)
                                /\ byName[n].completedAt \in Times
    /\ order \in Seq(Names)
    /\ now \in Times
    /\ inserted \in Seq(Names)
    /\ lapsed \subseteq 1..Len(inserted)
    /\ reply \in Seq(1..Len(inserted))

Init ==
    /\ byName = [n \in {} |-> 0]
    /\ order = <<>>
    /\ now \in Times
    /\ inserted = <<>>
    /\ lapsed = {}
    /\ reply = <<>>

-----------------------------------------------------------------------------
\* A completion time in the future gives age zero.
Age(file) == IF now >= file.completedAt THEN now - file.completedAt ELSE 0

\* evict_expired: the names it keeps, the order it leaves.
Alive == {n \in DOMAIN byName : Age(byName[n]) <= Ttl}
AliveOrder == Retain(order, Alive)

\* The versions evict_expired drops, for the history.
Lapsing == {byName[n].version : n \in DOMAIN byName \ Alive}

\* Seeded fault: a name that is stored again keeps its old place.
ReorderedInPlace(name) ==
    IF name \in Alive THEN AliveOrder ELSE Append(AliveOrder, name)

\* insert, after the eviction: the name moves to the back of the order, and
\* names leave the front while there are too many.
Reordered(name) == Append(Retain(AliveOrder, Names \ {name}), name)
Trimmed(name) ==
    LET all    == Reordered(name)
        excess == Len(all) - MaxEntries
    IN  IF excess > 0 THEN SubSeq(all, excess + 1, Len(all)) ELSE all

Insert(name, completedAt) ==
    /\ Len(inserted) < MaxInserts
    /\ order' = Trimmed(name)
    /\ byName' = [n \in Members(Trimmed(name)) |->
                     IF n = name
                     THEN [version |-> Len(inserted) + 1, completedAt |-> completedAt]
                     ELSE byName[n]]
    /\ inserted' = Append(inserted, name)
    /\ lapsed' = lapsed \cup Lapsing
    /\ reply' = <<>>
    /\ UNCHANGED now

\* evict_expired as every reader runs it.
EvictExpired ==
    /\ byName' = [n \in Alive |-> byName[n]]
    /\ order' = AliveOrder
    /\ lapsed' = lapsed \cup Lapsing
    /\ UNCHANGED <<now, inserted>>

\* list: newest first.
List ==
    /\ EvictExpired
    /\ reply' = [i \in 1..Len(AliveOrder) |->
                    byName[AliveOrder[Len(AliveOrder) + 1 - i]].version]

Get(name) ==
    /\ EvictExpired
    /\ reply' = IF name \in Alive THEN <<byName[name].version>> ELSE <<>>

\* len reads the store for /health and the statistics.
Length ==
    /\ EvictExpired
    /\ reply' = <<>>

ClockMoves ==
    /\ now' \in Times \ {now}
    /\ reply' = <<>>
    /\ UNCHANGED <<byName, order, inserted, lapsed>>

Next ==
    \/ \E n \in Names, t \in Times : Insert(n, t)
    \/ List
    \/ \E n \in Names : Get(n)
    \/ Length
    \/ ClockMoves

Spec == Init /\ [][Next]_vars

-----------------------------------------------------------------------------
(* Correctness *)

Latest(name) ==
    LET at == {i \in 1..Len(inserted) : inserted[i] = name}
    IN  IF at = {} THEN 0 ELSE CHOOSE i \in at : \A j \in at : j <= i

\* The map and the order hold the same names, each once, within the limit:
\* otherwise a file could be listed and not served, or never be evicted.
MapAndOrderAgree ==
    /\ Members(order) = DOMAIN byName
    /\ Len(order) = Cardinality(DOMAIN byName)
    /\ Len(order) <= MaxEntries

\* The order is the order of insertion, so that trimming takes the oldest.
OrderIsAge ==
    \A i, j \in 1..Len(order) :
        i < j => byName[order[i]].version < byName[order[j]].version

\* A name leads to the version stored last under it; a file replaced by a
\* newer one is never served again.
LatestVersionServed ==
    \A n \in DOMAIN byName : byName[n].version = Latest(n)

\* A file is missing only because it expired, or because files of MaxEntries
\* other names were stored after it.
KeptWhileRecent ==
    \A n \in Names :
        LET v == Latest(n)
        IN  \/ v = 0
            \/ n \in DOMAIN byName
            \/ v \in lapsed
            \/ Cardinality({inserted[i] : i \in (v + 1)..Len(inserted)}) >= MaxEntries

\* An answer contains no file older than Ttl at the time of the answer, and
\* lists the newest file first.
RepliesAreFreshAndSorted ==
    /\ \A i \in 1..Len(reply) :
           \E n \in DOMAIN byName :
               byName[n].version = reply[i] /\ now - byName[n].completedAt <= Ttl
    /\ \A i, j \in 1..Len(reply) : i < j => reply[i] > reply[j]

\* The two structures of the store agree with each other, with the order of
\* insertion and with the latest version of every name, nothing is evicted
\* before its time, and no answer has anything that has expired.
StoreConsistent ==
    /\ TypeOK /\ MapAndOrderAgree /\ OrderIsAge
    /\ LatestVersionServed /\ KeptWhileRecent /\ RepliesAreFreshAndSorted
=============================================================================
