---------------------------- MODULE PersistQueue ----------------------------
(***************************************************************************)
(* The asynchronous persistence runtime of emwin-db (src/runtime.rs): a    *)
(* bounded queue shared by producers and one worker task through a mutex   *)
(* (pending, closed, stats) and a semaphore (available).  The worker       *)
(* writes every blob of a request, then its metadata row, and retries      *)
(* transient failures until they clear or the runtime is closed.           *)
(*                                                                         *)
(* Requests are numbered 1, 2, ... in the order the enqueue calls take the *)
(* mutex, so a number is an instance of PersistRequest; BlobsOf gives the  *)
(* locations its blobs are written to, in writing order, and RowOf the     *)
(* key of its metadata row.                                                *)
(***************************************************************************)
EXTENDS Integers, Sequences, FiniteSets

CONSTANTS
    Capacity,     \* SharedQueue::capacity
    MaxRequests,  \* bound: how many enqueue calls a behaviour makes
    Locations,    \* blob locations
    BlobsOf,      \* request -> sequence of locations
    RowKeys,      \* (filename, source_timestamp_utc) pairs
    RowOf,        \* request -> row key
    RetryInitial, \* PersistenceConfig::retry_initial_delay
    RetryMax      \* PersistenceConfig::retry_max_delay

Requests == 1..MaxRequests

ASSUME CapacityAssumption == Capacity \in Nat \ {0}
ASSUME RequestsAssumption == MaxRequests \in Nat
ASSUME BlobsAssumption == BlobsOf \in [Requests -> Seq(Locations)]
ASSUME RowsAssumption == RowOf \in [Requests -> RowKeys]
\* with_retry_delays keeps the maximum at or above the initial delay.
ASSUME RetryAssumption == /\ RetryInitial \in Nat
                          /\ RetryMax \in Nat
                          /\ RetryInitial <= RetryMax

NoRequest == 0   \* "no request": an idle worker, an absent blob or row
Torn == -1       \* a blob that a failed write left half written

VARIABLES
    next,      \* number of the next enqueue call
    pending,   \* QueueState::pending
    closed,    \* QueueState::closed
    stats,     \* the counters of QueueState::stats
    permits,   \* permits of SharedQueue::available
    worker,    \* where run_worker stands
    current,   \* the request the worker holds
    written,   \* blobs written by the current pass of write_blobs
    attempt,   \* retry counter of the current phase
    delay,     \* the backoff delay of the last retry
    store,     \* what each blob location holds
    rows,      \* which request each metadata row describes
    backendUp, \* whether the storage backends are reachable
    outcome    \* history: what became of each request

queueVars == <<next, pending, closed, stats, permits, outcome>>
workVars  == <<worker, current, written, attempt, delay>>
backend   == <<store, rows, backendUp>>
vars      == <<queueVars, workVars, backend>>

Outcomes == {"none", "rejected", "evicted", "dropped", "persisted", "failed"}

WorkerStates == {"acquire", "pop", "check", "blobs", "blobSleep", "meta",
                 "metaSleep", "ok", "err", "done"}

\* PersistenceStats, without the queue length and capacity.
Counters == {"enqueued", "evicted", "persisted", "failed"}

\* retry_delay looks at the attempt only up to this shift.
MaxShift == 6

TypeOK ==
    /\ next \in 1..(MaxRequests + 1)
    /\ pending \in Seq(Requests)
    /\ closed \in BOOLEAN
    /\ stats \in [Counters -> Nat]
    /\ permits \in Nat
    /\ worker \in WorkerStates
    /\ current \in Requests \cup {NoRequest}
    /\ written \in Nat
    /\ attempt \in 0..MaxShift
    /\ delay \in Nat
    /\ store \in [Locations -> Requests \cup {NoRequest, Torn}]
    /\ rows \in [RowKeys -> Requests \cup {NoRequest}]
    /\ backendUp \in BOOLEAN
    /\ outcome \in [Requests -> Outcomes]

Init ==
    /\ next = 1
    /\ pending = <<>>
    /\ closed = FALSE
    /\ stats = [c \in Counters |-> 0]
    /\ permits = 0
    /\ worker = "acquire"
    /\ current = NoRequest
    /\ written = 0
    /\ attempt = 0
    /\ delay = 0
    /\ store = [l \in Locations |-> NoRequest]
    /\ rows = [k \in RowKeys |-> NoRequest]
    /\ backendUp \in BOOLEAN
    /\ outcome = [n \in Requests |-> "none"]

-----------------------------------------------------------------------------
(* PersistenceProducer::enqueue, one action per way through it. *)

\* The runtime is closed: the request is turned away.
EnqueueRejected ==
    /\ next <= MaxRequests
    /\ closed
    /\ next' = next + 1
    /\ outcome' = [outcome EXCEPT ![next] = "rejected"]
    /\ UNCHANGED <<pending, closed, stats, permits, workVars, backend>>

\* Seeded fault: an eviction adds a permit as an ordinary admission does.
EvictingWithPermit ==
    /\ next <= MaxRequests /\ ~closed /\ Len(pending) = Capacity
    /\ next' = next + 1
    /\ pending' = Append(Tail(pending), next)
    /\ stats' = [stats EXCEPT !["evicted"] = @ + 1, !["enqueued"] = @ + 1]
    /\ outcome' = [outcome EXCEPT ![Head(pending)] = "evicted"]
    /\ permits' = permits + 1
    /\ UNCHANGED <<closed, workVars, backend>>

\* Seeded fault: only the branch without eviction counts the accepted request.
EvictingUncounted ==
    /\ next <= MaxRequests /\ ~closed /\ Len(pending) = Capacity
    /\ next' = next + 1
    /\ pending' = Append(Tail(pending), next)
    /\ stats' = [stats EXCEPT !["evicted"] = @ + 1]
    /\ outcome' = [outcome EXCEPT ![Head(pending)] = "evicted"]
    /\ UNCHANGED <<closed, permits, workVars, backend>>

\* The queue is full: the oldest request makes room, and the new one
\* inherits its permit.
EnqueueEvicting ==
    /\ next <= MaxRequests
    /\ ~closed
    /\ Len(pending) = Capacity
    /\ next' = next + 1
    /\ pending' = Append(Tail(pending), next)
    /\ stats' = [stats EXCEPT !["evicted"] = @ + 1, !["enqueued"] = @ + 1]
    /\ outcome' = [outcome EXCEPT ![Head(pending)] = "evicted"]
    /\ UNCHANGED <<closed, permits, workVars, backend>>

\* There is room: the request is queued with a permit of its own.
EnqueueAdmitted ==
    /\ next <= MaxRequests
    /\ ~closed
    /\ Len(pending) # Capacity
    /\ next' = next + 1
    /\ pending' = Append(pending, next)
    /\ stats' = [stats EXCEPT !["enqueued"] = @ + 1]
    /\ permits' = permits + 1
    /\ UNCHANGED <<closed, outcome, workVars, backend>>

\* PersistenceRuntime::shutdown calls close: what is queued is dropped and
\* one permit wakes the worker.
Close ==
    /\ ~closed
    /\ closed' = TRUE
    /\ pending' = <<>>
    /\ permits' = permits + 1
    /\ outcome' = [n \in Requests |->
                     IF \E i \in 1..Len(pending) : pending[i] = n
                     THEN "dropped" ELSE outcome[n]]
    /\ UNCHANGED <<next, stats, workVars, backend>>

-----------------------------------------------------------------------------
(* run_worker: take a permit, then (under the mutex) a request. *)

AcquirePermit ==
    /\ worker = "acquire"
    /\ permits > 0
    /\ permits' = permits - 1
    /\ worker' = "pop"
    /\ UNCHANGED <<next, pending, closed, stats, outcome,
                   current, written, attempt, delay, backend>>

\* Seeded fault: the newest request is served first (pop_back).
PopNewest ==
    /\ worker = "pop"
    /\ pending # <<>>
    /\ current' = pending[Len(pending)]
    /\ pending' = SubSeq(pending, 1, Len(pending) - 1)
    /\ worker' = "blobs"
    /\ written' = 0 /\ attempt' = 0 /\ delay' = 0
    /\ UNCHANGED <<next, closed, stats, permits, outcome, backend>>

PopRequest ==
    /\ worker = "pop"
    /\ pending # <<>>
    /\ current' = Head(pending)
    /\ pending' = Tail(pending)
    /\ worker' = "blobs"
    /\ written' = 0
    /\ attempt' = 0
    /\ delay' = 0
    /\ UNCHANGED <<next, closed, stats, permits, outcome, backend>>

PopNothing ==
    /\ worker = "pop"
    /\ pending = <<>>
    /\ worker' = "check"
    /\ UNCHANGED <<queueVars, current, written, attempt, delay, backend>>

\* is_closed takes the mutex a second time.
CheckClosed ==
    /\ worker = "check"
    /\ worker' = IF closed /\ pending = <<>> THEN "done" ELSE "acquire"
    /\ UNCHANGED <<queueVars, current, written, attempt, delay, backend>>

-----------------------------------------------------------------------------
(* persist_request_with_retry *)

\* 1 << n for n up to MaxShift.
Shl == [n \in 0..MaxShift |-> <<1, 2, 4, 8, 16, 32, 64>>[n + 1]]

\* initial * 2^min(attempt, 6), capped; attempt itself saturates at MaxShift.
RetryDelay(a) ==
    LET raw == RetryInitial * Shl[a]
    IN  IF raw < RetryMax THEN raw ELSE RetryMax

\* Seeded fault: a shutdown does not end the retries.
AfterErrorForever(retryable, sleeping) ==
    IF retryable
    THEN worker' = sleeping /\ delay' = RetryDelay(attempt)
    ELSE worker' = "err" /\ UNCHANGED delay

\* What both loops do with an error: sleep and try again if it is transient
\* and the runtime is open, otherwise give the request up.
AfterError(retryable, sleeping) ==
    IF retryable /\ ~closed
    THEN worker' = sleeping /\ delay' = RetryDelay(attempt)
    ELSE worker' = "err" /\ UNCHANGED delay

\* write_blobs writes one blob ...
WriteBlob ==
    /\ worker = "blobs"
    /\ backendUp
    /\ written < Len(BlobsOf[current])
    /\ store' = [store EXCEPT ![BlobsOf[current][written + 1]] = current]
    /\ written' = written + 1
    /\ UNCHANGED <<queueVars, worker, current, attempt, delay, rows, backendUp>>

\* ... or fails at it, having left the location as it was, torn
\* (std::fs::write truncates first) or even complete (a lost reply).  An
\* unreachable backend is a transient error; a reachable one may still refuse
\* the request for good.
WriteBlobFails ==
    /\ worker = "blobs"
    /\ written < Len(BlobsOf[current])
    /\ \E left \in {store[BlobsOf[current][written + 1]], Torn, current} :
           store' = [store EXCEPT ![BlobsOf[current][written + 1]] = left]
    /\ AfterError(~backendUp, "blobSleep")
    /\ UNCHANGED <<queueVars, current, written, attempt, rows, backendUp>>

\* After the sleep the whole pass over the blobs starts again.
RetryBlobs ==
    /\ worker = "blobSleep"
    /\ worker' = "blobs"
    /\ written' = 0
    /\ attempt' = IF attempt < MaxShift THEN attempt + 1 ELSE attempt
    /\ UNCHANGED <<queueVars, current, delay, backend>>

\* Seeded fault: the metadata follows the payload, not the last blob.
BlobsWrittenEarly ==
    /\ worker = "blobs"
    /\ written > 0
    /\ worker' = "meta"
    /\ attempt' = 0 /\ delay' = 0
    /\ UNCHANGED <<queueVars, current, written, backend>>

BlobsWritten ==
    /\ worker = "blobs"
    /\ written = Len(BlobsOf[current])
    /\ worker' = "meta"
    /\ attempt' = 0
    /\ delay' = 0
    /\ UNCHANGED <<queueVars, current, written, backend>>

PersistMetadata ==
    /\ worker = "meta"
    /\ backendUp
    /\ rows' = [rows EXCEPT ![RowOf[current]] = current]
    /\ worker' = "ok"
    /\ UNCHANGED <<queueVars, current, written, attempt, delay, store, backendUp>>

\* The transaction is rolled back, or committed with its reply lost.
PersistMetadataFails ==
    /\ worker = "meta"
    /\ \E left \in {rows[RowOf[current]], current} :
           rows' = [rows EXCEPT ![RowOf[current]] = left]
    /\ AfterError(~backendUp, "metaSleep")
    /\ UNCHANGED <<queueVars, current, written, attempt, store, backendUp>>

RetryMetadata ==
    /\ worker = "metaSleep"
    /\ worker' = "meta"
    /\ attempt' = IF attempt < MaxShift THEN attempt + 1 ELSE attempt
    /\ UNCHANGED <<queueVars, current, written, delay, backend>>

\* Back in run_worker, the outcome is counted under the mutex.
RecordPersisted ==
    /\ worker = "ok"
    /\ stats' = [stats EXCEPT !["persisted"] = @ + 1]
    /\ outcome' = [outcome EXCEPT ![current] = "persisted"]
    /\ worker' = "acquire"
    /\ current' = NoRequest
    /\ UNCHANGED <<next, pending, closed, permits, written, attempt, delay, backend>>

RecordFailed ==
    /\ worker = "err"
    /\ stats' = [stats EXCEPT !["failed"] = @ + 1]
    /\ outcome' = [outcome EXCEPT ![current] = "failed"]
    /\ worker' = "acquire"
    /\ current' = NoRequest
    /\ UNCHANGED <<next, pending, closed, permits, written, attempt, delay, backend>>

-----------------------------------------------------------------------------
(* The environment: storage goes away and comes back. *)
BackendFlips ==
    /\ backendUp' = ~backendUp
    /\ UNCHANGED <<queueVars, workVars, store, rows>>

\* The runtime was shut down and its task joined; nothing is left to call.
Terminated ==
    /\ worker = "done"
    /\ next > MaxRequests
    /\ UNCHANGED vars

Producer == EnqueueRejected \/ EnqueueEvicting \/ EnqueueAdmitted

Worker == \/ AcquirePermit \/ PopRequest \/ PopNothing \/ CheckClosed
          \/ WriteBlob \/ WriteBlobFails \/ RetryBlobs \/ BlobsWritten
          \/ PersistMetadata \/ PersistMetadataFails \/ RetryMetadata
          \/ RecordPersisted \/ RecordFailed

Next == Producer \/ Close \/ Worker \/ BackendFlips \/ Terminated

\* The worker is a task the executor keeps polling, and its sleeps and
\* backend calls end: it never stops while it has a step to take.  Nothing
\* obliges producers, the operator or the backend.
Spec == Init /\ [][Next]_vars /\ WF_vars(Worker)
-----------------------------------------------------------------------------
(* Correctness *)

Queued == {pending[i] : i \in 1..Len(pending)}

InHand(n) == worker \in {"blobs", "blobSleep", "meta", "metaSleep", "ok", "err"}
             /\ current = n

\* 1 while the worker has taken a permit and not yet the request it stands for.
Claimed == IF worker = "pop" THEN 1 ELSE 0

Busy == IF current = NoRequest THEN 0 ELSE 1

\* While the runtime is open every queued request has exactly one wake-up: a
\* permit of the semaphore or the claim of a worker between acquire and
\* pop_request.  One permit too few loses a wake-up; one too many makes the
\* worker find the queue empty.  An eviction must therefore not add a permit.
PermitsMatchQueue == ~closed => permits + Claimed = Len(pending)

\* Eviction at the front and appending at the back leave the queue a window of
\* the most recent requests, in the order of their enqueue calls, never above
\* capacity; the worker holds an older request than any that waits.
QueueIsLatestWindow ==
    /\ Len(pending) <= Capacity
    /\ \A i \in 1..Len(pending) : pending[i] = next - Len(pending) + i - 1
    /\ \A n \in Queued : current < n

Count(o) == Cardinality({n \in Requests : outcome[n] = o})

\* The counters that /metrics and the stats log report agree with what
\* happened: nothing accepted is lost between queue, worker and outcomes, and
\* nothing is counted twice, whatever the interleaving with shutdown.
StatsMatchOutcomes ==
    /\ stats["evicted"] = Count("evicted")
    /\ stats["persisted"] = Count("persisted")
    /\ stats["failed"] = Count("failed")
    /\ stats["enqueued"] = stats["evicted"] + stats["persisted"] + stats["failed"]
                        + Len(pending) + Busy + Count("dropped")

\* "Persists metadata after all referenced blobs have been written": while the
\* metadata of a request is being committed every location it refers to holds
\* that request's bytes, though retries rewrite and failures tear blobs.
BlobsPrecedeMetadata ==
    worker \in {"meta", "metaSleep", "ok"} =>
        \A i \in 1..Len(BlobsOf[current]) : store[BlobsOf[current][i]] = current

\* A row that names a request was written after that request left the queue:
\* neither an evicted, a dropped nor a rejected request is ever visible in the
\* metadata, and a persisted one whose row no later request replaced is.
RowsComeFromServedRequests ==
    /\ \A k \in RowKeys : rows[k] # NoRequest =>
           \/ InHand(rows[k])
           \/ outcome[rows[k]] \in {"persisted", "failed"}
    /\ \A n \in Requests : outcome[n] = "persisted" => rows[RowOf[n]] >= n

\* Locations come from the filename alone, so the blobs a row refers to may be
\* overwritten: by a later product of the same name or by a write that failed
\* half-way, never by an older one, through retries, lost replies and eviction.
RowsNeverOutrunBlobs ==
    \A k \in RowKeys : rows[k] # NoRequest =>
        \A i \in 1..Len(BlobsOf[rows[k]]) :
            \/ store[BlobsOf[rows[k]][i]] = Torn
            \/ store[BlobsOf[rows[k]][i]] >= rows[k]

\* The ledger's view of this state.
Fate == [n \in Requests |->
            CASE n >= next            -> "new"
              [] n \in Queued         -> "queued"
              [] InHand(n)            -> "active"
              [] OTHER                -> outcome[n]]

Ledger == INSTANCE PersistLedger WITH fate <- Fate

\* The runtime implements the ledger: one fate each, oldest first, one at a time.
ImplementsLedger == Ledger!Spec

\* PersistenceRuntime::shutdown returns: after close the worker finishes the
\* request in hand, without retrying it for ever, and its task ends.
ShutdownCompletes == closed ~> (worker = "done")

\* "resumes writing after connectivity returns": if the backends stay reachable
\* from some point on, every queued request leaves the queue and is settled.
ResumesAfterOutage ==
    <>[]backendUp => \A n \in Requests :
        (n < next) ~> (outcome[n] # "none")

\* The queue, its semaphore and the request in hand fit together after every
\* interleaving of enqueue, eviction, close and the worker: the types hold, no
\* wake-up is lost or invented, and the most recent requests wait in order.
QueueConsistent == TypeOK /\ PermitsMatchQueue /\ QueueIsLatestWindow

\* What is reported and what is visible in the metadata is what happened to
\* the requests: the counters agree with the outcomes, rows come from served
\* requests only, and no row is newer than the blobs it refers to.
OutcomesTrue == StatsMatchOutcomes /\ RowsComeFromServedRequests /\ RowsNeverOutrunBlobs

\* Storage that fails delays a request but loses none and holds up nobody:
\* shutdown returns during an outage, and after one every request is settled.
OutagesAreSurvived == ShutdownCompletes /\ ResumesAfterOutage
=============================================================================
