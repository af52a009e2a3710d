---------------------------- MODULE FileAssembler ---------------------------
(***************************************************************************)
(* QbtFileAssembler (qbt_receiver/file/assembler.rs): blocks of many files *)
(* arrive interleaved, out of order and more than once; a file is emitted  *)
(* when as many distinct blocks as its total are present, and its key is   *)
(* remembered for a while so that a retransmission is not emitted again.   *)
(*                                                                         *)
(* A segment is a record [key, block, total, content]; the key stands for  *)
(* the lower-cased filename with its timestamp.  Time is a clock that only *)
(* the environment advances; two calls of Instant::now may see the same    *)
(* tick.                                                                   *)
(***************************************************************************)
EXTENDS Integers, Sequences, FiniteSets

CONSTANTS
    Segments,     \* the segments a broadcast can deliver
    FillKey,      \* the key of FILLFILE.TXT
    CacheSize,    \* duplicate_cache_size
    MaxInflight,  \* max_inflight_files
    InflightTtl,  \* inflight_ttl, in ticks
    MaxClock,     \* bound: how far the clock runs
    MaxEmitted    \* bound: how many files a behaviour completes

Keys == {s.key : s \in Segments}

ASSUME LimitsAssumption == /\ CacheSize \in Nat \ {0}
                           /\ MaxInflight \in Nat \ {0}
                           /\ InflightTtl \in Nat \ {0}
                           /\ MaxClock \in Nat

\* A segment whose block number lies within its file.
Numbered(s) == s.block \in 1..s.total

\* Numbers are unsigned, and the broadcast sends one file under a key: one
\* total, and one content for each block.
ASSUME BroadcastAssumption ==
    /\ \A s \in Segments : s.block \in Nat /\ s.total \in Nat
    /\ \A s, t \in {u \in Segments : Numbered(u)} :
           s.key = t.key => /\ s.total = t.total
                            /\ s.block = t.block => s.content = t.content

VARIABLES
    byKey,            \* inflight files: a function on the keys in flight
    completedRecent,  \* keys of completed files, oldest first
    completedIndex,   \* the same keys as a set
    instant,          \* the time Instant::now returns
    emitted,          \* history: the files handed out since the last clear
    arrived,          \* history: blocks pushed per key since the last clear
    forgotten         \* history: keys evicted while in flight, since then

tables == <<byKey, completedRecent, completedIndex>>
history == <<emitted, arrived, forgotten>>
assemblerVars == <<tables, instant, history>>

Blocks   == {s.block : s \in Segments}
Contents == {s.content : s \in Segments}

AssemblerTypeOK ==
    /\ DOMAIN byKey \subseteq Keys
    /\ \A k \in DOMAIN byKey :
           /\ byKey[k].total \in Nat
           /\ byKey[k].lastSeen \in 0..instant
           /\ DOMAIN byKey[k].parts \subseteq Blocks
           /\ \A b \in DOMAIN byKey[k].parts : byKey[k].parts[b] \in Contents
    /\ completedRecent \in Seq(Keys)
    /\ completedIndex \subseteq Keys
    /\ instant \in 0..MaxClock

AssemblerInit ==
    /\ byKey = [k \in {} |-> 0]
    /\ completedRecent = <<>>
    /\ completedIndex = {}
    /\ instant = 0
    /\ emitted = <<>>
    /\ arrived = [k \in Keys |-> {}]
    /\ forgotten = {}

-----------------------------------------------------------------------------
\* Seeded fault: the block number is not compared with the total.
BadNumberingUnbounded(s) == s.total = 0 \/ s.block = 0

\* A block number outside 1..total, or an empty total.
BadNumbering(s) == s.total = 0 \/ s.block = 0 \/ s.block > s.total

\* Segments that push drops before it touches any state.
Ignored(s) ==
    \/ s.key = FillKey
    \/ BadNumbering(s)
    \/ s.key \in completedIndex

\* Seeded fault: stale entries are never evicted.
FreshForever == DOMAIN byKey

\* evict_stale_inflight: the keys that survive it.
Fresh == {k \in DOMAIN byKey : instant - byKey[k].lastSeen <= InflightTtl}

\* evict_overflow_inflight makes room for a key that is not in flight by
\* removing entries with the smallest last_seen; a tie is broken arbitrarily.
Survivors(key) ==
    IF key \in Fresh \/ Cardinality(Fresh) < MaxInflight
    THEN {Fresh}
    ELSE {S \in SUBSET Fresh :
             /\ Cardinality(S) = MaxInflight - 1
             /\ \A gone \in Fresh \ S, kept \in S :
                    byKey[gone].lastSeen <= byKey[kept].lastSeen}

\* The entry of the segment's file after the segment is inserted: the new
\* block replaces an old one, and the new total the old total.
Inserted(s) ==
    LET parts == IF s.key \in Fresh THEN byKey[s.key].parts ELSE [b \in {} |-> 0]
    IN  [total    |-> s.total,
         lastSeen |-> instant,
         parts    |-> [b \in DOMAIN parts \cup {s.block} |->
                          IF b = s.block THEN s.content ELSE parts[b]]]

Complete(entry) == Cardinality(DOMAIN entry.parts) = entry.total

\* remember_completed: the new queue of completed keys.
Remember(key) ==
    LET grown == Append(completedRecent, key)
    IN  IF Len(grown) > CacheSize THEN Tail(grown) ELSE grown

\* ... and the new index, from which the key pushed out of the queue goes.
RememberIndex(key) ==
    (completedIndex \cup {key})
        \ (IF Len(completedRecent) + 1 > CacheSize
           THEN {Head(Append(completedRecent, key))} ELSE {})

-----------------------------------------------------------------------------
PushIgnored(s) ==
    /\ Ignored(s)
    /\ UNCHANGED assemblerVars

\* The bookkeeping of the history variables for a segment that was inserted.
Note(s, kept) ==
    /\ arrived' = [arrived EXCEPT ![s.key] = @ \cup {s.block}]
    /\ forgotten' = forgotten \cup (DOMAIN byKey \ kept)

\* The file is still short of blocks (or, with a changed total, over it).
PushPartial(s) ==
    /\ ~Ignored(s)
    /\ ~Complete(Inserted(s))
    /\ \E kept \in Survivors(s.key) :
          /\ byKey' = [k \in kept \cup {s.key} |->
                          IF k = s.key THEN Inserted(s) ELSE byKey[k]]
          /\ Note(s, kept)
    /\ UNCHANGED <<completedRecent, completedIndex, instant, emitted>>

\* The last missing block: the file leaves the inflight table.
PushCompleting(s) ==
    /\ ~Ignored(s)
    /\ Complete(Inserted(s))
    /\ Len(emitted) < MaxEmitted
    /\ \E kept \in Survivors(s.key) :
          /\ byKey' = [k \in kept \ {s.key} |-> byKey[k]]
          /\ Note(s, kept)
    /\ completedRecent' = Remember(s.key)
    /\ completedIndex' = RememberIndex(s.key)
    /\ emitted' = Append(emitted, [key |-> s.key, parts |-> Inserted(s).parts])
    /\ UNCHANGED instant

Clear ==
    /\ byKey' = [k \in {} |-> 0]
    /\ completedRecent' = <<>>
    /\ completedIndex' = {}
    /\ emitted' = <<>>
    /\ arrived' = [k \in Keys |-> {}]
    /\ forgotten' = {}
    /\ UNCHANGED instant

Tick ==
    /\ instant < MaxClock
    /\ instant' = instant + 1
    /\ UNCHANGED <<tables, history>>

AssemblerNext ==
    \/ \E s \in Segments : PushIgnored(s) \/ PushPartial(s) \/ PushCompleting(s)
    \/ Clear
    \/ Tick

AssemblerSpec == AssemblerInit /\ [][AssemblerNext]_assemblerVars

-----------------------------------------------------------------------------
(* Correctness *)

\* What the broadcast sends for a key.
Source(key) ==
    LET mine == {s \in Segments : s.key = key /\ Numbered(s)}
    IN  [b \in {s.block : s \in mine} |-> (CHOOSE s \in mine : s.block = b).content]

\* Every emitted file is the broadcast's file: all its blocks, each with the
\* content sent for it, and nothing else, however blocks of several files,
\* duplicates, evictions and badly numbered blocks were mixed.
EmittedFilesAreWhole ==
    \A i \in 1..Len(emitted) : emitted[i].parts = Source(emitted[i].key)

\* A file is emitted a second time only after CacheSize other files were.
NoDuplicateWithinCache ==
    \A i, j \in 1..Len(emitted) :
        i < j /\ emitted[i].key = emitted[j].key => j - i > CacheSize

\* The queue and the index of completed keys are the same bounded set, and a
\* completed key is never in flight at the same time.
CompletedCacheAgrees ==
    /\ Len(completedRecent) <= CacheSize
    /\ completedIndex = {completedRecent[i] : i \in 1..Len(completedRecent)}
    /\ Cardinality(completedIndex) = Len(completedRecent)
    /\ DOMAIN byKey \cap completedIndex = {}

\* The inflight table respects its limit, and no entry in it is complete: a
\* complete entry would be stuck, because completion is only tested on push.
InflightBounded ==
    /\ Cardinality(DOMAIN byKey) <= MaxInflight
    /\ \A k \in DOMAIN byKey : DOMAIN byKey[k].parts # {} /\ ~Complete(byKey[k])

\* Nothing is lost: once every block of a file was pushed, in any order and
\* however interleaved, the file was emitted, unless its entry was evicted.
NothingLost ==
    \A s \in Segments :
        (Numbered(s) /\ s.key \notin forgotten /\ 1..s.total \subseteq arrived[s.key]) =>
            \E i \in 1..Len(emitted) : emitted[i].key = s.key

\* A file is never finished with blocks from before a silence of more than
\* InflightTtl: what completes was heard of within the last InflightTtl ticks.
NoStaleCompletion ==
    [][\A k \in DOMAIN byKey :
          (emitted' # emitted /\ Len(emitted') > Len(emitted)
             /\ emitted'[Len(emitted')].key = k
             /\ instant - byKey[k].lastSeen > InflightTtl)
          => Cardinality(DOMAIN emitted'[Len(emitted')].parts) = 1]_assemblerVars

\* The consumer gets each file whole, and once per cache length.
EmittedWholeAndOnce == EmittedFilesAreWhole /\ NoDuplicateWithinCache

\* The three tables stay consistent and within their limits, and no complete
\* set of blocks is ever held back or lost in them.
TablesConsistent == AssemblerTypeOK /\ CompletedCacheAgrees /\ InflightBounded /\ NothingLost

\* Whatever the order and the repetition of blocks, and though the tables
\* evict, expire and forget: a file whose blocks are all there is delivered,
\* whole and once.
FilesDelivered == EmittedWholeAndOnce /\ TablesConsistent
=============================================================================
