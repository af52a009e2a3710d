-------------------------- MODULE PersistenceProofs -------------------------
(***************************************************************************)
(* Theorems about the persistence runtime, for every capacity, every       *)
(* number of requests and every assignment of blobs and rows; and about    *)
(* the incidents its Postgres sink keeps: they are as new as the newest    *)
(* stored product and are what it said, and change only with a cause, for  *)
(* any number of products and incidents, whatever the products say and     *)
(* whenever errors come.                                                   *)
(***************************************************************************)
EXTENDS PersistQueue, IncidentStore, DataLemmas

-----------------------------------------------------------------------------
(***************************************************************************)
(* The persistence runtime                                                 *)
(***************************************************************************)

-----------------------------------------------------------------------------
(* Type correctness *)

\* The backoff delay lies between its configured bounds at every attempt.
LEMMA RetryDelayBounds ==
    ASSUME NEW a \in 0..MaxShift
    PROVE  RetryDelay(a) \in RetryInitial..RetryMax
<1>1. a \in {0, 1, 2, 3, 4, 5, 6}
  BY DEF MaxShift
<1>2. Shl[a] \in {1, 2, 4, 8, 16, 32, 64}
  BY <1>1 DEF Shl, MaxShift
<1>3. RetryInitial * Shl[a] >= RetryInitial /\ RetryInitial * Shl[a] \in Nat
  BY <1>2, RetryAssumption
<1>4. QED
  BY <1>3, RetryAssumption DEF RetryDelay

\* Both failure actions leave the worker asleep or giving up.
LEMMA AfterErrorType ==
    ASSUME TypeOK, NEW r \in BOOLEAN, NEW sl \in {"blobSleep", "metaSleep"},
           AfterError(r, sl)
    PROVE  /\ worker' \in {sl, "err"}
           /\ delay' \in Nat
<1>1. RetryDelay(attempt) \in Nat
  BY RetryDelayBounds, RetryAssumption DEF TypeOK
<1>2. QED
  BY <1>1 DEF AfterError, TypeOK

\* Whatever a failed write leaves behind is a legal content of the store.
LEMMA WriteBlobFailsStore ==
    ASSUME TypeOK, WriteBlobFails
    PROVE  store' \in [Locations -> Requests \cup {NoRequest, Torn}]
<1> DEFINE loc == BlobsOf[current][written + 1]
<1>1. PICK left \in {store[loc], Torn, current} : store' = [store EXCEPT ![loc] = left]
  BY DEF WriteBlobFails
<1>2. CASE loc \in Locations
  <2>1. left \in Requests \cup {NoRequest, Torn}
    BY <1>1, <1>2 DEF TypeOK
  <2>2. QED
    BY <1>1, <2>1 DEF TypeOK
<1>3. CASE loc \notin Locations
  BY <1>1, <1>3 DEF TypeOK
<1>4. QED
  BY <1>2, <1>3

\* Whatever a failed transaction leaves behind is a legal set of rows.
LEMMA PersistMetadataFailsRows ==
    ASSUME TypeOK, PersistMetadataFails
    PROVE  rows' \in [RowKeys -> Requests \cup {NoRequest}]
<1> DEFINE key == RowOf[current]
<1>1. PICK left \in {rows[key], current} : rows' = [rows EXCEPT ![key] = left]
  BY DEF PersistMetadataFails
<1>2. CASE key \in RowKeys
  <2>1. left \in Requests \cup {NoRequest}
    BY <1>1, <1>2 DEF TypeOK
  <2>2. QED
    BY <1>1, <2>1 DEF TypeOK
<1>3. CASE key \notin RowKeys
  BY <1>1, <1>3 DEF TypeOK
<1>4. QED
  BY <1>2, <1>3

\* Every action keeps every variable in its range.
LEMMA TypeStep == TypeOK /\ [Next]_vars => TypeOK'
<1> SUFFICES ASSUME TypeOK, [Next]_vars PROVE TypeOK'
  OBVIOUS
<1>0. next <= MaxRequests => next \in Requests
  BY RequestsAssumption DEF TypeOK, Requests
<1>1. CASE EnqueueRejected
  <2>1. outcome' \in [Requests -> Outcomes]
    BY <1>1 DEF TypeOK, EnqueueRejected, Outcomes
  <2>2. QED
    BY <1>1, <2>1, RequestsAssumption DEF TypeOK, EnqueueRejected, workVars, backend
<1>2. CASE EnqueueEvicting
  <2>1. Tail(pending) \in Seq(Requests)
    BY <1>2, CapacityAssumption DEF TypeOK, EnqueueEvicting
  <2>2. pending' \in Seq(Requests)
    BY <1>0, <1>2, <2>1 DEF EnqueueEvicting
  <2>3. stats' \in [Counters -> Nat]
    BY <1>2 DEF TypeOK, EnqueueEvicting, Counters
  <2>4. outcome' \in [Requests -> Outcomes]
    BY <1>2 DEF TypeOK, EnqueueEvicting, Outcomes
  <2>5. next' \in 1..(MaxRequests + 1)
    BY <1>2, RequestsAssumption DEF TypeOK, EnqueueEvicting
  <2>6. UNCHANGED <<closed, permits, worker, current, written, attempt, delay,
                    store, rows, backendUp>>
    BY <1>2 DEF EnqueueEvicting, workVars, backend
  <2>7. QED
    BY <2>2, <2>3, <2>4, <2>5, <2>6 DEF TypeOK
<1>3. CASE EnqueueAdmitted
  <2>1. pending' \in Seq(Requests)
    BY <1>0, <1>3 DEF TypeOK, EnqueueAdmitted
  <2>2. stats' \in [Counters -> Nat]
    BY <1>3 DEF TypeOK, EnqueueAdmitted, Counters
  <2>3. QED
    BY <1>3, <2>1, <2>2, RequestsAssumption DEF TypeOK, EnqueueAdmitted, workVars, backend
<1>4. CASE Close
  <2>1. outcome' \in [Requests -> Outcomes]
    BY <1>4 DEF TypeOK, Close, Outcomes
  <2>2. QED
    BY <1>4, <2>1 DEF TypeOK, Close, workVars, backend
<1>5. CASE AcquirePermit
  BY <1>5 DEF TypeOK, AcquirePermit, backend, WorkerStates
<1>6. CASE PopRequest
  <2>1. Head(pending) \in Requests /\ Tail(pending) \in Seq(Requests)
    BY <1>6 DEF TypeOK, PopRequest
  <2>2. QED
    BY <1>6, <2>1 DEF TypeOK, PopRequest, backend, WorkerStates, MaxShift
<1>7. CASE PopNothing
  BY <1>7 DEF TypeOK, PopNothing, queueVars, backend, WorkerStates
<1>8. CASE CheckClosed
  BY <1>8 DEF TypeOK, CheckClosed, queueVars, backend, WorkerStates
<1>9. CASE WriteBlob
  <2>1. store' \in [Locations -> Requests \cup {NoRequest, Torn}]
    BY <1>9 DEF TypeOK, WriteBlob
  <2>2. QED
    BY <1>9, <2>1 DEF TypeOK, WriteBlob, queueVars
<1>10. CASE WriteBlobFails
  <2>1. worker' \in WorkerStates /\ delay' \in Nat
    BY <1>10, AfterErrorType DEF TypeOK, WriteBlobFails, WorkerStates
  <2>2. QED
    BY <1>10, <2>1, WriteBlobFailsStore DEF TypeOK, WriteBlobFails, queueVars
<1>11. CASE RetryBlobs
  BY <1>11 DEF TypeOK, RetryBlobs, queueVars, backend, WorkerStates, MaxShift
<1>12. CASE BlobsWritten
  BY <1>12 DEF TypeOK, BlobsWritten, queueVars, backend, WorkerStates, MaxShift
<1>13. CASE PersistMetadata
  <2>1. rows' \in [RowKeys -> Requests \cup {NoRequest}]
    BY <1>13 DEF TypeOK, PersistMetadata
  <2>2. QED
    BY <1>13, <2>1 DEF TypeOK, PersistMetadata, queueVars, WorkerStates
<1>14. CASE PersistMetadataFails
  <2>1. worker' \in WorkerStates /\ delay' \in Nat
    BY <1>14, AfterErrorType DEF TypeOK, PersistMetadataFails, WorkerStates
  <2>2. QED
    BY <1>14, <2>1, PersistMetadataFailsRows DEF TypeOK, PersistMetadataFails, queueVars
<1>15. CASE RetryMetadata
  BY <1>15 DEF TypeOK, RetryMetadata, queueVars, backend, WorkerStates, MaxShift
<1>16. CASE RecordPersisted
  <2>1. stats' \in [Counters -> Nat]
    BY <1>16 DEF TypeOK, RecordPersisted, Counters
  <2>2. outcome' \in [Requests -> Outcomes]
    BY <1>16 DEF TypeOK, RecordPersisted, Outcomes
  <2>3. QED
    BY <1>16, <2>1, <2>2 DEF TypeOK, RecordPersisted, backend, WorkerStates
<1>17. CASE RecordFailed
  <2>1. stats' \in [Counters -> Nat]
    BY <1>17 DEF TypeOK, RecordFailed, Counters
  <2>2. outcome' \in [Requests -> Outcomes]
    BY <1>17 DEF TypeOK, RecordFailed, Outcomes
  <2>3. QED
    BY <1>17, <2>1, <2>2 DEF TypeOK, RecordFailed, backend, WorkerStates
<1>18. CASE BackendFlips
  BY <1>18 DEF TypeOK, BackendFlips, queueVars, workVars
<1>19. CASE UNCHANGED vars
  BY <1>19 DEF TypeOK, vars, queueVars, workVars, backend
<1>20. QED
  BY <1>1, <1>2, <1>3, <1>4, <1>5, <1>6, <1>7, <1>8, <1>9, <1>10, <1>11, <1>12,
     <1>13, <1>14, <1>15, <1>16, <1>17, <1>18, <1>19
  DEF Next, Producer, Worker, Terminated

\* The runtime's state stays well typed, whatever the capacity, the number of
\* requests and the interleaving.
THEOREM TypeCorrect == Spec => []TypeOK
<1>1. Init => TypeOK
  <2> SUFFICES ASSUME Init PROVE TypeOK
    OBVIOUS
  <2>1. /\ pending \in Seq(Requests)
        /\ store \in [Locations -> Requests \cup {NoRequest, Torn}]
        /\ rows \in [RowKeys -> Requests \cup {NoRequest}]
        /\ outcome \in [Requests -> Outcomes]
    BY DEF Init, Outcomes
  <2>2. next \in 1..(MaxRequests + 1)
    BY RequestsAssumption DEF Init
  <2>3. stats \in [Counters -> Nat]
    BY DEF Init
  <2>4. /\ attempt \in 0..MaxShift
        /\ current \in Requests \cup {NoRequest}
        /\ worker \in WorkerStates
    BY DEF Init, WorkerStates, MaxShift
  <2>5. QED
    BY <2>1, <2>2, <2>3, <2>4 DEF Init, TypeOK
<1>2. QED
  BY <1>1, TypeStep, PTL DEF Spec

-----------------------------------------------------------------------------
(* The queue, its permits and the request in hand *)

Holding == {"blobs", "blobSleep", "meta", "metaSleep", "ok", "err"}

\* The strengthening that makes PermitsMatchQueue and QueueIsLatestWindow
\* inductive: a closed queue is empty, the worker holds a request exactly while
\* it persists one, and that request is older than the window that waits.
QueueShape ==
    /\ closed => pending = <<>>
    /\ worker \in Holding <=> current # NoRequest
    /\ current + Len(pending) < next
    /\ Len(pending) <= Capacity
    /\ \A i \in 1..Len(pending) : pending[i] = next - Len(pending) + i - 1

QueueInv == TypeOK /\ QueueShape /\ PermitsMatchQueue

\* Steps of the worker inside persist_request_with_retry leave the queue, the
\* permits and the request alone.
LEMMA PersistingStep ==
    ASSUME TypeOK, QueueShape, PermitsMatchQueue,
           UNCHANGED queueVars, UNCHANGED current,
           worker \in Holding, worker' \in Holding
    PROVE  QueueShape' /\ PermitsMatchQueue'
BY DEF QueueShape, PermitsMatchQueue, Claimed, queueVars, Holding

\* Every action preserves the invariant of the queue.
LEMMA QueueStep == QueueInv /\ [Next]_vars => QueueShape' /\ PermitsMatchQueue'
<1> SUFFICES ASSUME TypeOK, QueueShape, PermitsMatchQueue, [Next]_vars
             PROVE  QueueShape' /\ PermitsMatchQueue'
  BY DEF QueueInv
<1> USE CapacityAssumption, RequestsAssumption DEF NoRequest
<1>t. /\ pending \in Seq(Requests) /\ next \in Nat /\ permits \in Nat
      /\ current \in Nat /\ closed \in BOOLEAN /\ Len(pending) \in Nat
  BY DEF TypeOK, Requests
<1>1. CASE EnqueueRejected
  BY <1>1, <1>t DEF EnqueueRejected, QueueShape, PermitsMatchQueue, Claimed, workVars
<1>2. CASE EnqueueEvicting
  <2>1. /\ Tail(pending) \in Seq(Requests)
        /\ Len(Tail(pending)) = Len(pending) - 1
        /\ \A i \in 1..(Len(pending) - 1) : Tail(pending)[i] = pending[i + 1]
    BY <1>2, <1>t DEF EnqueueEvicting
  <2>2. /\ Len(pending') = Len(pending)
        /\ \A i \in 1..(Len(pending) - 1) : pending'[i] = pending[i + 1]
        /\ pending'[Len(pending)] = next
    BY <1>2, <1>t, <2>1 DEF EnqueueEvicting
  <2>n. next' = next + 1
    BY <1>2 DEF EnqueueEvicting
  <2>3. ASSUME NEW i \in 1..Len(pending')
        PROVE  pending'[i] = next' - Len(pending') + i - 1
    <3>1. CASE i = Len(pending)
      BY <1>t, <2>2, <2>n, <3>1
    <3>2. CASE i # Len(pending)
      <4>1. i \in 1..(Len(pending) - 1) /\ i + 1 \in 1..Len(pending)
        BY <1>t, <2>2, <3>2
      <4>2. pending[i + 1] = next - Len(pending) + (i + 1) - 1
        BY <4>1 DEF QueueShape
      <4>3. QED
        BY <1>t, <2>2, <2>n, <4>1, <4>2
    <3>3. QED
      BY <3>1, <3>2
  <2>4. UNCHANGED <<closed, permits, worker, current>> /\ next' = next + 1 /\ ~closed
    BY <1>2 DEF EnqueueEvicting, workVars
  <2>5. QED
    BY <1>t, <2>2, <2>3, <2>4 DEF QueueShape, PermitsMatchQueue, Claimed
<1>3. CASE EnqueueAdmitted
  <2>1. /\ Len(pending') = Len(pending) + 1
        /\ \A i \in 1..Len(pending) : pending'[i] = pending[i]
        /\ pending'[Len(pending) + 1] = next
    BY <1>3, <1>t DEF EnqueueAdmitted
  <2>n. next' = next + 1
    BY <1>3 DEF EnqueueAdmitted
  <2>2. ASSUME NEW i \in 1..Len(pending')
        PROVE  pending'[i] = next' - Len(pending') + i - 1
    <3>1. CASE i = Len(pending) + 1
      BY <1>t, <2>1, <2>n, <3>1
    <3>2. CASE i # Len(pending) + 1
      <4>1. i \in 1..Len(pending)
        BY <1>t, <2>1, <3>2
      <4>2. pending[i] = next - Len(pending) + i - 1
        BY <4>1 DEF QueueShape
      <4>3. QED
        BY <1>t, <2>1, <2>n, <4>1, <4>2
    <3>3. QED
      BY <3>1, <3>2
  <2>3. /\ UNCHANGED <<closed, worker, current>>
        /\ next' = next + 1 /\ permits' = permits + 1
        /\ ~closed /\ Len(pending) # Capacity
    BY <1>3 DEF EnqueueAdmitted, workVars
  <2>4. QED
    BY <1>t, <2>1, <2>2, <2>3 DEF QueueShape, PermitsMatchQueue, Claimed
<1>4. CASE Close
  BY <1>4, <1>t DEF Close, QueueShape, PermitsMatchQueue, workVars
<1>5. CASE AcquirePermit
  BY <1>5, <1>t DEF AcquirePermit, QueueShape, PermitsMatchQueue, Claimed, Holding
<1>6. CASE PopRequest
  <2>1. /\ Len(pending') = Len(pending) - 1
        /\ \A i \in 1..(Len(pending) - 1) : pending'[i] = pending[i + 1]
        /\ current' = pending[1]
        /\ 1 \in 1..Len(pending)
    BY <1>6, <1>t DEF PopRequest
  <2>2. \A i \in 1..Len(pending') : pending'[i] = next' - Len(pending') + i - 1
    BY <1>6, <1>t, <2>1 DEF PopRequest, QueueShape
  <2>3. current' = next - Len(pending)
    BY <1>t, <2>1 DEF QueueShape
  <2>4. /\ UNCHANGED <<next, closed, permits>>
        /\ worker = "pop" /\ worker' = "blobs" /\ pending # <<>>
    BY <1>6 DEF PopRequest
  <2>5. current' # NoRequest
    BY <1>6, <1>t DEF PopRequest, Requests, TypeOK
  <2>6. QED
    BY <1>t, <2>1, <2>2, <2>3, <2>4, <2>5
    DEF QueueShape, PermitsMatchQueue, Claimed, Holding
<1>7. CASE PopNothing
  BY <1>7, <1>t DEF PopNothing, QueueShape, PermitsMatchQueue, Claimed, Holding, queueVars
<1>8. CASE CheckClosed
  BY <1>8, <1>t DEF CheckClosed, QueueShape, PermitsMatchQueue, Claimed, Holding, queueVars
<1>9. CASE WriteBlob
  BY <1>9, PersistingStep DEF WriteBlob, Holding
<1>10. CASE WriteBlobFails
  <2>1. worker' \in Holding
    BY <1>10, AfterErrorType DEF WriteBlobFails, Holding, TypeOK
  <2>2. QED
    BY <1>10, <2>1, PersistingStep DEF WriteBlobFails, Holding
<1>11. CASE RetryBlobs
  BY <1>11, PersistingStep DEF RetryBlobs, Holding
<1>12. CASE BlobsWritten
  BY <1>12, PersistingStep DEF BlobsWritten, Holding
<1>13. CASE PersistMetadata
  BY <1>13, PersistingStep DEF PersistMetadata, Holding
<1>14. CASE PersistMetadataFails
  <2>1. worker' \in Holding
    BY <1>14, AfterErrorType DEF PersistMetadataFails, Holding, TypeOK
  <2>2. QED
    BY <1>14, <2>1, PersistingStep DEF PersistMetadataFails, Holding
<1>15. CASE RetryMetadata
  BY <1>15, PersistingStep DEF RetryMetadata, Holding
<1>16. CASE RecordPersisted
  BY <1>16, <1>t DEF RecordPersisted, QueueShape, PermitsMatchQueue, Claimed, Holding
<1>17. CASE RecordFailed
  BY <1>17, <1>t DEF RecordFailed, QueueShape, PermitsMatchQueue, Claimed, Holding
<1>18. CASE BackendFlips
  BY <1>18 DEF BackendFlips, QueueShape, PermitsMatchQueue, Claimed, queueVars, workVars
<1>19. CASE UNCHANGED vars
  BY <1>19 DEF QueueShape, PermitsMatchQueue, Claimed, vars, queueVars, workVars
<1>20. QED
  BY <1>1, <1>2, <1>3, <1>4, <1>5, <1>6, <1>7, <1>8, <1>9, <1>10, <1>11, <1>12,
     <1>13, <1>14, <1>15, <1>16, <1>17, <1>18, <1>19
  DEF Next, Producer, Worker, Terminated

\* The invariant of the queue holds throughout.
THEOREM QueueInvariant == Spec => []QueueInv
<1>1. Init => QueueShape /\ PermitsMatchQueue
  BY CapacityAssumption
  DEF Init, QueueShape, PermitsMatchQueue, Claimed, Holding, NoRequest
<1>2. QED
  BY <1>1, TypeCorrect, QueueStep, PTL DEF Spec, QueueInv

\* No wake-up of the worker is lost or invented while the runtime is open, for
\* every capacity and every interleaving of enqueue, eviction and worker.
THEOREM PermitsCorrect == Spec => []PermitsMatchQueue
BY QueueInvariant, PTL DEF QueueInv

\* The queue is always the window of the latest requests, in order and within
\* capacity, and the worker's request is older than all of them.
THEOREM WindowCorrect == Spec => []QueueIsLatestWindow
<1>1. QueueInv => QueueIsLatestWindow
  <2> SUFFICES ASSUME QueueInv PROVE QueueIsLatestWindow
    OBVIOUS
  <2>1. next \in Nat /\ current \in Nat /\ Len(pending) \in Nat
    BY RequestsAssumption DEF QueueInv, TypeOK, Requests, NoRequest
  <2>2. \A i \in 1..Len(pending) : current < pending[i]
    BY <2>1 DEF QueueInv, QueueShape
  <2>3. QED
    BY <2>2 DEF QueueInv, QueueShape, QueueIsLatestWindow, Queued
<1>2. QED
  BY <1>1, QueueInvariant, PTL

\* Types, wake-ups and window together: the queue, its semaphore and the
\* worker fit together for every capacity and every interleaving.
THEOREM QueueCorrect == Spec => []QueueConsistent
BY TypeCorrect, PermitsCorrect, WindowCorrect, PTL DEF QueueConsistent

-----------------------------------------------------------------------------
(* Blobs before metadata *)

\* The blobs a pass of write_blobs has got through hold the request's bytes,
\* and the metadata phase starts only after the last of them.
BlobsInv ==
    /\ worker \in {"blobs", "meta", "metaSleep", "ok"} =>
           /\ written <= Len(BlobsOf[current])
           /\ \A i \in 1..written : store[BlobsOf[current][i]] = current
    /\ worker \in {"meta", "metaSleep", "ok"} => written = Len(BlobsOf[current])

\* Every action preserves it.
LEMMA BlobsStep == QueueInv /\ BlobsInv /\ [Next]_vars => BlobsInv'
<1> SUFFICES ASSUME QueueInv, BlobsInv, [Next]_vars PROVE BlobsInv'
  OBVIOUS
<1>t. /\ written \in Nat /\ current \in Requests \cup {NoRequest}
      /\ store \in [Locations -> Requests \cup {NoRequest, Torn}]
  BY DEF QueueInv, TypeOK
<1>h. worker = "blobs" => BlobsOf[current] \in Seq(Locations)
  BY BlobsAssumption DEF QueueInv, QueueShape, TypeOK, Holding
<1>1. CASE Producer \/ Close
  BY <1>1 DEF Producer, EnqueueRejected, EnqueueEvicting, EnqueueAdmitted, Close,
              BlobsInv, workVars, backend
<1>2. CASE AcquirePermit \/ PopNothing \/ CheckClosed
  BY <1>2 DEF AcquirePermit, PopNothing, CheckClosed, BlobsInv
<1>3. CASE PopRequest
  <2>1. Head(pending) \in Requests
    BY <1>3 DEF PopRequest, QueueInv, TypeOK
  <2>2. Len(BlobsOf[Head(pending)]) \in Nat
    BY <2>1, BlobsAssumption
  <2>3. QED
    BY <1>3, <2>2 DEF PopRequest, BlobsInv
<1>4. CASE WriteBlob
  <2>1. /\ BlobsOf[current][written + 1] \in Locations
        /\ Len(BlobsOf[current]) \in Nat
    BY <1>4, <1>t, <1>h DEF WriteBlob
  <2>2. ASSUME NEW i \in 1..(written + 1)
        PROVE  store'[BlobsOf[current][i]] = current
    <3>1. BlobsOf[current][i] \in Locations
      BY <1>4, <1>t, <1>h DEF WriteBlob
    <3>2. CASE i = written + 1
      BY <1>4, <1>t, <2>1, <3>2 DEF WriteBlob
    <3>3. CASE i # written + 1
      <4>1. store[BlobsOf[current][i]] = current
        BY <1>4, <1>t, <3>3 DEF WriteBlob, BlobsInv
      <4>2. QED
        BY <1>4, <1>t, <2>1, <3>1, <4>1 DEF WriteBlob
    <3>4. QED
      BY <3>2, <3>3
  <2>3. QED
    BY <1>4, <1>t, <2>1, <2>2 DEF WriteBlob, BlobsInv
<1>5. CASE WriteBlobFails
  <2>1. worker' \in {"blobSleep", "err"}
    BY <1>5, AfterErrorType DEF WriteBlobFails, QueueInv, TypeOK
  <2>2. QED
    BY <2>1 DEF BlobsInv
<1>6. CASE RetryBlobs
  <2>1. Len(BlobsOf[current]) \in Nat
    BY <1>6, BlobsAssumption DEF RetryBlobs, QueueInv, QueueShape, TypeOK, Holding
  <2>2. QED
    BY <1>6, <2>1 DEF RetryBlobs, BlobsInv
<1>7. CASE BlobsWritten \/ RetryMetadata
  BY <1>7 DEF BlobsWritten, RetryMetadata, BlobsInv, backend
<1>8. CASE PersistMetadata
  BY <1>8 DEF PersistMetadata, BlobsInv
<1>9. CASE PersistMetadataFails
  <2>1. worker' \in {"metaSleep", "err"}
    BY <1>9, AfterErrorType DEF PersistMetadataFails, QueueInv, TypeOK
  <2>2. QED
    BY <1>9, <2>1 DEF PersistMetadataFails, BlobsInv
<1>10. CASE RecordPersisted \/ RecordFailed
  BY <1>10 DEF RecordPersisted, RecordFailed, BlobsInv
<1>11. CASE BackendFlips
  BY <1>11 DEF BackendFlips, BlobsInv, workVars
<1>12. CASE UNCHANGED vars
  BY <1>12 DEF BlobsInv, vars, workVars, backend
<1>13. QED
  BY <1>1, <1>2, <1>3, <1>4, <1>5, <1>6, <1>7, <1>8, <1>9, <1>10, <1>11, <1>12
  DEF Next, Worker, Terminated

\* Metadata is only ever committed while every blob it refers to holds the
\* request's own bytes, for any number of blobs and any pattern of failures.
THEOREM BlobsBeforeMetadata == Spec => []BlobsPrecedeMetadata
<1>1. Init => BlobsInv
  BY DEF Init, BlobsInv
<1>2. BlobsInv => BlobsPrecedeMetadata
  BY DEF BlobsInv, BlobsPrecedeMetadata
<1>3. QED
  BY <1>1, <1>2, QueueInvariant, BlobsStep, PTL DEF Spec

-----------------------------------------------------------------------------
(* Outcomes: the counters, the rows and the blobs *)

Served == {"persisted", "failed"}

\* The strengthening for OutcomesTrue.  A request has no outcome before it is
\* settled and has one after; what was served is older than what is in hand,
\* and that is older than what waits; and a reported success has its row.
First == next - Len(pending)   \* the oldest request that waits

OutcomeShape ==
    /\ \A n \in Requests : n >= First \/ n = current => outcome[n] = "none"
    /\ \A n \in Requests : n < First /\ n # current => outcome[n] # "none"
    /\ current # NoRequest => \A n \in Requests : n >= current => outcome[n] \notin Served
    /\ worker = "ok" => rows[RowOf[current]] = current

\* The number of requests with a given outcome is a natural number.
LEMMA CountType ==
    ASSUME NEW o
    PROVE  /\ IsFiniteSet({n \in Requests : outcome[n] = o})
           /\ Count(o) \in Nat
<1>1. IsFiniteSet(Requests)
  BY FS_Interval, RequestsAssumption DEF Requests
<1>2. {n \in Requests : outcome[n] = o} \in SUBSET Requests
  OBVIOUS
<1>3. IsFiniteSet({n \in Requests : outcome[n] = o})
  BY <1>1, <1>2, FS_Subset
<1>4. QED
  BY <1>3, FS_CardinalityType DEF Count

\* Settling one request adds one to the count of its outcome, and to no other.
LEMMA CountSettled ==
    ASSUME TypeOK, NEW n \in Requests, outcome[n] = "none", NEW o \in Outcomes \ {"none"},
           outcome' = [outcome EXCEPT ![n] = o]
    PROVE  /\ Count(o)' = Count(o) + 1
           /\ \A p \in Outcomes \ {"none", o} : Count(p)' = Count(p)
<1> DEFINE S(p) == {m \in Requests : outcome[m] = p}
<1>1. outcome \in [Requests -> Outcomes]
  BY DEF TypeOK
<1>2. S(o)' = S(o) \cup {n} /\ n \notin S(o)
  BY <1>1
<1>3. IsFiniteSet(S(o))
  BY CountType
<1>4. Cardinality(S(o) \cup {n}) = Cardinality(S(o)) + 1
  <2> HIDE DEF S
  <2> QED BY <1>2, <1>3, FS_AddElement
<1>5. Count(o)' = Count(o) + 1
  BY <1>2, <1>4 DEF Count
<1>6. ASSUME NEW p \in Outcomes \ {"none", o} PROVE Count(p)' = Count(p)
  <2>1. S(p)' = S(p)
    BY <1>1
  <2>2. QED
    BY <2>1 DEF Count
<1>7. QED
  BY <1>5, <1>6

\* What waits is exactly the interval of the last Len(pending) numbers.
LEMMA QueuedIsWindow ==
    ASSUME QueueInv
    PROVE  /\ Queued = (next - Len(pending))..(next - 1)
           /\ Queued \subseteq Requests
           /\ pending # <<>> => Head(pending) = next - Len(pending)
<1>1. /\ pending \in Seq(Requests) /\ next \in Nat /\ Len(pending) \in Nat
      /\ \A i \in 1..Len(pending) : pending[i] = next - Len(pending) + i - 1
  BY DEF QueueInv, QueueShape, TypeOK, Requests
<1>2. ASSUME NEW n \in (next - Len(pending))..(next - 1) PROVE n \in Queued
  <2>1. n - (next - Len(pending)) + 1 \in 1..Len(pending)
    BY <1>1
  <2>2. pending[n - (next - Len(pending)) + 1] = n
    BY <1>1, <2>1
  <2>3. QED
    BY <2>1, <2>2 DEF Queued
<1>3. Queued \subseteq (next - Len(pending))..(next - 1)
  BY <1>1 DEF Queued
<1>4. Queued = (next - Len(pending))..(next - 1)
  BY <1>2, <1>3
<1>5. Queued \subseteq Requests
  BY <1>1 DEF Queued
<1>6. pending # <<>> => Head(pending) = next - Len(pending)
  BY <1>1
<1>7. QED
  BY <1>4, <1>5, <1>6

\* Every action preserves the shape of the outcomes.
LEMMA OutcomeShapeStep ==
    ASSUME QueueInv, QueueInv', OutcomeShape, [Next]_vars
    PROVE  OutcomeShape'
<1> USE RequestsAssumption DEF NoRequest, Served
<1>t. /\ pending \in Seq(Requests) /\ Len(pending) \in Nat /\ next \in 1..(MaxRequests + 1)
      /\ current \in Requests \cup {0} /\ current < First /\ First <= next /\ First \in Nat
      /\ outcome \in [Requests -> Outcomes]
  <2>1. /\ pending \in Seq(Requests) /\ next \in 1..(MaxRequests + 1)
        /\ current \in Requests \cup {0}
        /\ outcome \in [Requests -> Outcomes]
        /\ current + Len(pending) < next
    BY DEF QueueInv, QueueShape, TypeOK
  <2>2. QED
    BY <2>1 DEF Requests, First
<1>r. Requests = 1..MaxRequests
  BY DEF Requests
<1>1. CASE EnqueueRejected
  <2>1. /\ First = next /\ First' = next + 1 /\ next \in Requests
        /\ UNCHANGED <<current, worker, rows>>
        /\ outcome' = [outcome EXCEPT ![next] = "rejected"]
    BY <1>1, <1>t, <1>r DEF EnqueueRejected, QueueInv, QueueShape, workVars, backend, First
  <2>2. QED
    BY <1>t, <1>r, <2>1 DEF OutcomeShape
<1>2. CASE EnqueueEvicting
  <2>1. /\ next' = next + 1 /\ Len(pending) > 0 /\ pending # <<>>
        /\ UNCHANGED <<current, worker, rows>>
    BY <1>2, <1>t, CapacityAssumption DEF EnqueueEvicting, workVars, backend
  <2>2. First' = First + 1 /\ First \in Requests
    BY <1>2, <1>t, <1>r, <2>1 DEF EnqueueEvicting, First
  <2>3. Head(pending) = First
    BY <2>1, QueuedIsWindow DEF First
  <2>4. outcome' = [outcome EXCEPT ![First] = "evicted"]
    BY <1>2, <2>3 DEF EnqueueEvicting
  <2>5. QED
    BY <1>t, <1>r, <2>1, <2>2, <2>4 DEF OutcomeShape
<1>3. CASE EnqueueAdmitted
  <2>1. First' = First /\ UNCHANGED <<current, worker, rows, outcome>>
    BY <1>3, <1>t DEF EnqueueAdmitted, workVars, backend, First
  <2>2. QED
    BY <2>1 DEF OutcomeShape
<1>4. CASE Close
  <2>1. /\ First' = next /\ UNCHANGED <<current, worker, rows>>
        /\ outcome' = [n \in Requests |-> IF n \in Queued THEN "dropped" ELSE outcome[n]]
    BY <1>4, <1>t DEF Close, workVars, backend, Queued, First
  <2>2. Queued = First..(next - 1)
    BY QueuedIsWindow DEF First
  <2>3. QED
    BY <1>t, <1>r, <2>1, <2>2 DEF OutcomeShape
<1>5. CASE AcquirePermit \/ PopNothing \/ CheckClosed
  BY <1>5 DEF AcquirePermit, PopNothing, CheckClosed, OutcomeShape, First, queueVars, backend
<1>6. CASE PopRequest
  <2>1. /\ UNCHANGED <<outcome, rows>> /\ worker' = "blobs" /\ current = 0
        /\ pending # <<>> /\ current' = First
    BY <1>6, QueuedIsWindow DEF PopRequest, QueueInv, QueueShape, Holding, backend, First
  <2>2. First' = First + 1
    BY <1>6, <1>t DEF PopRequest, First
  <2>3. QED
    BY <1>t, <1>r, <2>1, <2>2 DEF OutcomeShape
<1>7. CASE WriteBlob \/ RetryBlobs \/ BlobsWritten \/ RetryMetadata
  BY <1>7 DEF WriteBlob, RetryBlobs, BlobsWritten, RetryMetadata, OutcomeShape, First,
              queueVars, backend
<1>8. CASE WriteBlobFails
  <2>1. worker' # "ok"
    BY <1>8, AfterErrorType DEF WriteBlobFails, QueueInv, TypeOK
  <2>2. QED
    BY <1>8, <2>1 DEF WriteBlobFails, OutcomeShape, First, queueVars
<1>9. CASE PersistMetadata
  <2>1. RowOf[current] \in RowKeys
    BY <1>9, <1>t, RowsAssumption DEF PersistMetadata, QueueInv, QueueShape, Holding
  <2>2. rows'[RowOf[current]] = current
    BY <1>9, <2>1 DEF PersistMetadata, QueueInv, TypeOK
  <2>3. QED
    BY <1>9, <2>2 DEF PersistMetadata, OutcomeShape, First, queueVars
<1>10. CASE PersistMetadataFails
  <2>1. worker' # "ok"
    BY <1>10, AfterErrorType DEF PersistMetadataFails, QueueInv, TypeOK
  <2>2. QED
    BY <1>10, <2>1 DEF PersistMetadataFails, OutcomeShape, First, queueVars
<1>11. CASE RecordPersisted \/ RecordFailed
  <2>1. /\ First' = First /\ UNCHANGED rows /\ current \in Requests
        /\ current' = 0 /\ worker' = "acquire"
        /\ \E o \in Served : outcome' = [outcome EXCEPT ![current] = o]
    BY <1>11, <1>t
    DEF RecordPersisted, RecordFailed, QueueInv, QueueShape, Holding, backend, First
  <2>2. QED
    BY <1>t, <1>r, <2>1 DEF OutcomeShape
<1>12. CASE BackendFlips \/ UNCHANGED vars
  BY <1>12 DEF BackendFlips, OutcomeShape, First, vars, queueVars, workVars, backend
<1>13. QED
  BY <1>1, <1>2, <1>3, <1>4, <1>5, <1>6, <1>7, <1>8, <1>9, <1>10, <1>11, <1>12
  DEF Next, Producer, Worker, Terminated

\* Closing turns exactly the waiting requests into dropped ones.
LEMMA CountDropped ==
    ASSUME QueueInv, OutcomeShape, Close
    PROVE  /\ Count("dropped")' = Count("dropped") + Len(pending)
           /\ \A p \in Outcomes \ {"none", "dropped"} : Count(p)' = Count(p)
<1> DEFINE S(p) == {m \in Requests : outcome[m] = p}
<1>1. /\ outcome \in [Requests -> Outcomes] /\ pending \in Seq(Requests)
      /\ next \in Nat /\ Len(pending) \in Nat
  BY RequestsAssumption DEF QueueInv, TypeOK
<1>2. /\ Queued = First..(next - 1) /\ Queued \subseteq Requests
  BY QueuedIsWindow DEF First
<1>3. \A n \in Queued : outcome[n] = "none"
  BY <1>1, <1>2 DEF OutcomeShape, First
<1>4. outcome' = [n \in Requests |-> IF n \in Queued THEN "dropped" ELSE outcome[n]]
  BY DEF Close, Queued
<1>5. IsFiniteSet(Queued) /\ Cardinality(Queued) = Len(pending)
  <2>1. First \in Int /\ next - 1 \in Int /\ First = next - Len(pending)
    BY <1>1 DEF First
  <2>2. /\ IsFiniteSet(First..(next - 1))
        /\ Cardinality(First..(next - 1)) = IF First > next - 1 THEN 0 ELSE next - 1 - First + 1
    BY <2>1, FS_Interval
  <2>3. QED
    BY <1>1, <1>2, <2>1, <2>2
<1>6. S("dropped")' = S("dropped") \cup Queued /\ S("dropped") \cap Queued = {}
  BY <1>1, <1>2, <1>3, <1>4
<1>7. Cardinality(S("dropped") \cup Queued) = Cardinality(S("dropped")) + Len(pending)
  <2>1. IsFiniteSet(S("dropped")) /\ Cardinality(S("dropped")) \in Nat
    BY CountType DEF Count
  <2> HIDE DEF S
  <2>2. Cardinality(S("dropped") \cup Queued) =
            Cardinality(S("dropped")) + Cardinality(Queued) - Cardinality(S("dropped") \cap Queued)
    BY <1>5, <2>1, FS_Union
  <2>3. Cardinality(S("dropped") \cap Queued) = 0
    BY <1>6, FS_EmptySet
  <2>4. QED
    BY <1>1, <1>5, <2>1, <2>2, <2>3
<1>8. ASSUME NEW p \in Outcomes \ {"none", "dropped"} PROVE Count(p)' = Count(p)
  <2>1. S(p)' = S(p)
    BY <1>1, <1>2, <1>3, <1>4
  <2>2. QED
    BY <2>1 DEF Count
<1>9. QED
  BY <1>6, <1>7, <1>8 DEF Count

\* Every action keeps the counters equal to the outcomes they count.
LEMMA CountersStep ==
    ASSUME QueueInv, OutcomeShape, StatsMatchOutcomes, [Next]_vars
    PROVE  StatsMatchOutcomes'
<1> USE RequestsAssumption DEF NoRequest
<1>t. /\ pending \in Seq(Requests) /\ Len(pending) \in Nat /\ next \in 1..(MaxRequests + 1)
      /\ current \in Requests \cup {0}
      /\ stats \in [Counters -> Nat] /\ outcome \in [Requests -> Outcomes] /\ TypeOK
  BY DEF QueueInv, TypeOK
<1>r. next <= MaxRequests => next \in Requests /\ outcome[next] = "none"
  <2>1. First <= next
    BY <1>t DEF First
  <2>2. QED
    BY <1>t, <2>1 DEF Requests, OutcomeShape, First
<1>c. \A o \in Outcomes : Count(o) \in Nat
  BY CountType
<1>u. UNCHANGED outcome => \A o \in Outcomes : Count(o)' = Count(o)
  BY DEF Count
<1> USE DEF Outcomes
<1>1. CASE EnqueueRejected
  <2>1. \A p \in Outcomes \ {"none", "rejected"} : Count(p)' = Count(p)
    BY <1>1, <1>t, <1>r, CountSettled DEF EnqueueRejected
  <2>2. UNCHANGED <<stats, pending, current>>
    BY <1>1 DEF EnqueueRejected, workVars
  <2>3. QED
    BY <2>1, <2>2 DEF StatsMatchOutcomes, Busy
<1>2. CASE EnqueueEvicting
  <2>1. Len(pending) > 0 /\ pending # <<>>
    BY <1>2, <1>t, CapacityAssumption DEF EnqueueEvicting
  <2>2. Head(pending) = First /\ Head(pending) \in Requests
    BY <1>t, <2>1, QueuedIsWindow DEF First
  <2>3. outcome[Head(pending)] = "none"
    BY <1>t, <2>2 DEF OutcomeShape, First
  <2>4. /\ Count("evicted")' = Count("evicted") + 1
        /\ \A p \in Outcomes \ {"none", "evicted"} : Count(p)' = Count(p)
    BY <1>2, <1>t, <2>2, <2>3, CountSettled DEF EnqueueEvicting
  <2>5. Len(pending') = Len(pending) /\ UNCHANGED current
    BY <1>2, <1>t, <2>1 DEF EnqueueEvicting, workVars
  <2>6. /\ stats'["evicted"] = stats["evicted"] + 1 /\ stats'["enqueued"] = stats["enqueued"] + 1
        /\ stats'["persisted"] = stats["persisted"] /\ stats'["failed"] = stats["failed"]
    BY <1>2, <1>t DEF EnqueueEvicting, Counters
  <2>7. QED
    BY <1>t, <1>c, <2>4, <2>5, <2>6, SMTT(40) DEF StatsMatchOutcomes, Busy, Counters
<1>3. CASE EnqueueAdmitted
  <2>1. /\ Len(pending') = Len(pending) + 1 /\ UNCHANGED <<current, outcome>>
        /\ stats'["enqueued"] = stats["enqueued"] + 1
        /\ stats'["evicted"] = stats["evicted"] /\ stats'["persisted"] = stats["persisted"]
        /\ stats'["failed"] = stats["failed"]
    BY <1>3, <1>t DEF EnqueueAdmitted, workVars, Counters
  <2>2. \A o \in Outcomes : Count(o)' = Count(o)
    BY <1>u, <2>1
  <2>3. QED
    BY <1>t, <1>c, <2>1, <2>2, SMTT(40) DEF StatsMatchOutcomes, Busy, Counters
<1>4. CASE Close
  <2>1. Len(pending') = 0 /\ UNCHANGED <<current, stats>>
    BY <1>4 DEF Close, workVars
  <2>2. QED
    BY <1>t, <1>c, <1>4, <2>1, CountDropped DEF StatsMatchOutcomes, Busy, Counters
<1>5. CASE PopRequest
  <2>1. /\ Len(pending') = Len(pending) - 1 /\ UNCHANGED <<stats, outcome>>
        /\ current = 0 /\ current' \in Requests
    BY <1>5, <1>t DEF PopRequest, QueueInv, QueueShape, Holding
  <2>2. current' # 0
    BY <2>1 DEF Requests
  <2>3. QED
    BY <1>t, <1>c, <1>u, <2>1, <2>2 DEF StatsMatchOutcomes, Busy, Counters
<1>6. CASE RecordPersisted
  <2>1. current \in Requests /\ current # 0 /\ outcome[current] = "none"
    BY <1>6, <1>t DEF RecordPersisted, QueueInv, QueueShape, Holding, OutcomeShape
  <2>2. /\ Count("persisted")' = Count("persisted") + 1
        /\ \A p \in Outcomes \ {"none", "persisted"} : Count(p)' = Count(p)
    BY <1>6, <1>t, <2>1, CountSettled DEF RecordPersisted
  <2>3. UNCHANGED pending /\ current' = 0 /\ stats' = [stats EXCEPT !["persisted"] = @ + 1]
    BY <1>6 DEF RecordPersisted
  <2>4. QED
    BY <1>t, <1>c, <2>1, <2>2, <2>3 DEF StatsMatchOutcomes, Busy, Counters
<1>7. CASE RecordFailed
  <2>1. current \in Requests /\ current # 0 /\ outcome[current] = "none"
    BY <1>7, <1>t DEF RecordFailed, QueueInv, QueueShape, Holding, OutcomeShape
  <2>2. /\ Count("failed")' = Count("failed") + 1
        /\ \A p \in Outcomes \ {"none", "failed"} : Count(p)' = Count(p)
    BY <1>7, <1>t, <2>1, CountSettled DEF RecordFailed
  <2>3. UNCHANGED pending /\ current' = 0 /\ stats' = [stats EXCEPT !["failed"] = @ + 1]
    BY <1>7 DEF RecordFailed
  <2>4. QED
    BY <1>t, <1>c, <2>1, <2>2, <2>3 DEF StatsMatchOutcomes, Busy, Counters
<1>8. CASE UNCHANGED <<stats, outcome, pending, current>>
  BY <1>8, <1>u DEF StatsMatchOutcomes, Busy
<1>9. QED
  BY <1>1, <1>2, <1>3, <1>4, <1>5, <1>6, <1>7, <1>8
  DEF Next, Producer, Worker, Terminated, AcquirePermit, PopNothing, CheckClosed, WriteBlob,
      WriteBlobFails, RetryBlobs, BlobsWritten, PersistMetadata, PersistMetadataFails,
      RetryMetadata, BackendFlips, vars, queueVars, workVars

\* Every action keeps the rows to requests that were served, and lets no older
\* request replace the row or the blobs of a newer one.
LEMMA RowsStep ==
    ASSUME QueueInv, QueueInv', BlobsInv, OutcomeShape, OutcomeShape',
           RowsComeFromServedRequests, RowsNeverOutrunBlobs, [Next]_vars
    PROVE  RowsComeFromServedRequests' /\ RowsNeverOutrunBlobs'
<1> USE RequestsAssumption DEF NoRequest, Served
<1>t. /\ current \in Requests \cup {0} /\ outcome \in [Requests -> Outcomes]
      /\ rows \in [RowKeys -> Requests \cup {0}]
      /\ store \in [Locations -> Requests \cup {0, Torn}]
      /\ worker \in Holding <=> current # 0
  BY DEF QueueInv, QueueShape, TypeOK
<1>r. Requests = 1..MaxRequests
  BY DEF Requests
<1>b. \A n \in Requests : \A i \in 1..Len(BlobsOf[n]) : BlobsOf[n][i] \in Locations
  BY BlobsAssumption
<1>o. \A k \in RowKeys : rows[k] # 0 /\ current # 0 => rows[k] <= current
  BY <1>t, <1>r DEF RowsComeFromServedRequests, InHand, OutcomeShape
<1>1. ASSUME UNCHANGED <<rows, store>>,
             \A n \in Requests : outcome[n] \in Served => outcome'[n] = outcome[n],
             \A n \in Requests : outcome'[n] = "persisted" => outcome[n] = "persisted",
             \A n \in Requests : InHand(n) => InHand(n)'
      PROVE  RowsComeFromServedRequests' /\ RowsNeverOutrunBlobs'
  BY <1>1, <1>t DEF RowsComeFromServedRequests, RowsNeverOutrunBlobs
<1>2. CASE Producer \/ Close
  <2>1. UNCHANGED <<rows, store, worker, current>>
    BY <1>2 DEF Producer, EnqueueRejected, EnqueueEvicting, EnqueueAdmitted, Close,
                workVars, backend
  <2>2. ASSUME NEW n \in Requests
        PROVE  \/ outcome'[n] = outcome[n]
               \/ outcome'[n] \notin Served /\ outcome[n] = "none"
    <3>1. CASE EnqueueRejected
      BY <3>1, <1>t, <1>r DEF EnqueueRejected, OutcomeShape, First, QueueInv, QueueShape
    <3>2. CASE EnqueueEvicting
      <4>1. pending # <<>> /\ next \in Nat /\ Len(pending) \in Nat
        BY <3>2, CapacityAssumption DEF EnqueueEvicting, QueueInv, TypeOK
      <4>2. Head(pending) = First /\ First \in Int
        BY <4>1, QueuedIsWindow DEF First
      <4>3. QED
        BY <3>2, <1>t, <1>r, <4>2 DEF EnqueueEvicting, OutcomeShape
    <3>3. CASE EnqueueAdmitted
      BY <3>3 DEF EnqueueAdmitted
    <3>4. CASE Close
      <4>1. outcome'[n] = IF n \in Queued THEN "dropped" ELSE outcome[n]
        BY <3>4 DEF Close, Queued
      <4>2. n \in Queued => n >= First
        BY QueuedIsWindow DEF First
      <4>3. QED
        BY <4>1, <4>2 DEF OutcomeShape
    <3>5. QED
      BY <1>2, <3>1, <3>2, <3>3, <3>4 DEF Producer
  <2>3. QED
    BY <1>1, <2>1, <2>2 DEF InHand
<1>3. CASE \/ AcquirePermit \/ PopNothing \/ CheckClosed \/ PopRequest \/ RetryBlobs
           \/ BlobsWritten \/ RetryMetadata \/ BackendFlips \/ UNCHANGED vars
  <2>1. UNCHANGED <<rows, store, outcome>>
    BY <1>3 DEF AcquirePermit, PopNothing, CheckClosed, PopRequest, RetryBlobs, BlobsWritten,
                RetryMetadata, BackendFlips, vars, queueVars, backend
  <2>2. \A n \in Requests : InHand(n) => InHand(n)'
    BY <1>3 DEF AcquirePermit, PopNothing, CheckClosed, PopRequest, RetryBlobs, BlobsWritten,
                RetryMetadata, BackendFlips, vars, workVars, InHand
  <2>3. QED
    BY <1>1, <2>1, <2>2
<1>4. CASE WriteBlob \/ WriteBlobFails
  <2> DEFINE loc == BlobsOf[current][written + 1]
  <2>1. /\ UNCHANGED <<rows, outcome, current>> /\ worker \in Holding /\ worker' \in Holding
        /\ \E left \in {store[loc], Torn, current} : store' = [store EXCEPT ![loc] = left]
    <3>1. CASE WriteBlob
      BY <3>1 DEF WriteBlob, Holding, queueVars
    <3>2. CASE WriteBlobFails
      <4>1. worker' \in Holding
        BY <3>2, AfterErrorType DEF WriteBlobFails, QueueInv, TypeOK, Holding
      <4>2. QED
        BY <3>2, <4>1 DEF WriteBlobFails, Holding, queueVars
    <3>3. QED
      BY <1>4, <3>1, <3>2
  <2> HIDE DEF loc
  <2>2. RowsComeFromServedRequests'
    BY <2>1 DEF RowsComeFromServedRequests, InHand, Holding
  <2>3. ASSUME NEW k \in RowKeys, rows[k] # 0, NEW i \in 1..Len(BlobsOf[rows[k]])
        PROVE  store'[BlobsOf[rows[k]][i]] = Torn \/ store'[BlobsOf[rows[k]][i]] >= rows[k]
    <3>1. BlobsOf[rows[k]][i] \in Locations /\ rows[k] \in Requests
      BY <1>t, <1>b, <2>3
    <3>2. rows[k] <= current /\ current \in Nat
      BY <1>t, <1>o, <1>r, <2>1, <2>3
    <3>3. \/ store[BlobsOf[rows[k]][i]] = Torn
          \/ store[BlobsOf[rows[k]][i]] >= rows[k]
      BY <2>3 DEF RowsNeverOutrunBlobs
    <3>4. QED
      BY <1>t, <2>1, <3>1, <3>2, <3>3
  <2>4. QED
    BY <2>1, <2>2, <2>3 DEF RowsNeverOutrunBlobs
<1>5. CASE PersistMetadata \/ PersistMetadataFails
  <2> DEFINE key == RowOf[current]
  <2>1. /\ UNCHANGED <<store, outcome, current>> /\ worker = "meta" /\ worker' \in Holding
        /\ \E left \in {rows[key], current} : rows' = [rows EXCEPT ![key] = left]
    <3>1. CASE PersistMetadata
      BY <3>1 DEF PersistMetadata, Holding, queueVars
    <3>2. CASE PersistMetadataFails
      <4>1. worker' \in Holding
        BY <3>2, AfterErrorType DEF PersistMetadataFails, QueueInv, TypeOK, Holding
      <4>2. QED
        BY <3>2, <4>1 DEF PersistMetadataFails, queueVars
    <3>3. QED
      BY <1>5, <3>1, <3>2
  <2>2. current \in Requests /\ current # 0 /\ key \in RowKeys
    BY <1>t, <2>1, RowsAssumption DEF Holding
  <2>3. \A k \in RowKeys : rows'[k] = rows[k] \/ rows'[k] = current
    BY <1>t, <2>1, <2>2
  <2>4. \A n \in Requests : InHand(n) => InHand(n)'
    BY <2>1 DEF InHand, Holding
  <2>5. InHand(current)'
    BY <2>1 DEF InHand, Holding
  <2>6. \A k \in RowKeys : rows'[k] >= rows[k]
    BY <1>t, <1>o, <1>r, <2>2, <2>3
  <2>7. RowsComeFromServedRequests'
    <3>1. ASSUME NEW k \in RowKeys, rows'[k] # 0
          PROVE  InHand(rows[k])' \/ outcome'[rows'[k]] \in Served
      BY <1>t, <2>1, <2>2, <2>3, <2>4, <2>5, <3>1 DEF RowsComeFromServedRequests, InHand
    <3>2. ASSUME NEW n \in Requests, outcome'[n] = "persisted"
          PROVE  rows'[RowOf[n]] >= n
      <4>1. rows[RowOf[n]] >= n /\ RowOf[n] \in RowKeys
        BY <2>1, <3>2, RowsAssumption DEF RowsComeFromServedRequests
      <4>2. rows'[RowOf[n]] \in Requests \cup {0} /\ rows[RowOf[n]] \in Requests \cup {0}
        BY <1>t, <2>2, <2>3, <4>1
      <4>3. QED
        BY <1>r, <2>6, <4>1, <4>2
    <3>3. QED
      BY <3>1, <3>2 DEF RowsComeFromServedRequests
  <2>8. RowsNeverOutrunBlobs'
    <3>1. \A i \in 1..Len(BlobsOf[current]) : store[BlobsOf[current][i]] = current
      BY <2>1 DEF BlobsInv
    <3>2. QED
      BY <1>r, <2>1, <2>2, <2>3, <3>1 DEF RowsNeverOutrunBlobs
  <2>9. QED
    BY <2>7, <2>8
<1>6. CASE RecordPersisted \/ RecordFailed
  <2>1. /\ UNCHANGED <<rows, store>> /\ current \in Requests /\ worker' = "acquire"
        /\ \/ worker = "ok" /\ outcome' = [outcome EXCEPT ![current] = "persisted"]
           \/ outcome' = [outcome EXCEPT ![current] = "failed"]
    BY <1>6, <1>t DEF RecordPersisted, RecordFailed, Holding, backend
  <2>2. ASSUME NEW k \in RowKeys, rows[k] # 0 PROVE outcome'[rows[k]] \in Served
    BY <1>t, <2>1, <2>2 DEF RowsComeFromServedRequests, InHand
  <2>3. ASSUME NEW n \in Requests, outcome'[n] = "persisted" PROVE rows[RowOf[n]] >= n
    <3>1. CASE n = current
      BY <1>t, <1>r, <2>1, <2>3, <3>1 DEF OutcomeShape
    <3>2. CASE n # current
      BY <1>t, <2>1, <2>3, <3>2 DEF RowsComeFromServedRequests
    <3>3. QED
      BY <3>1, <3>2
  <2>4. QED
    BY <2>1, <2>2, <2>3 DEF RowsComeFromServedRequests, RowsNeverOutrunBlobs
<1>7. QED
  BY <1>2, <1>3, <1>4, <1>5, <1>6 DEF Next, Worker, Terminated

\* What is counted, what the rows name and what the blobs hold is what became
\* of the requests, for every capacity, number of requests and assignment of
\* blobs and rows, and through any pattern of failures.
THEOREM OutcomesCorrect == Spec => []OutcomesTrue
<1>1. Init => BlobsInv /\ OutcomeShape /\ OutcomesTrue
  <2> SUFFICES ASSUME Init PROVE BlobsInv /\ OutcomeShape /\ OutcomesTrue
    OBVIOUS
  <2>1. \A o \in Outcomes \ {"none"} : {n \in Requests : outcome[n] = o} = {}
    BY DEF Init
  <2>2. \A o \in Outcomes \ {"none"} : Count(o) = 0
    BY <2>1, FS_EmptySet DEF Count
  <2>3. StatsMatchOutcomes
    BY <2>2 DEF Init, StatsMatchOutcomes, Counters, Outcomes, Busy
  <2>4. RowsComeFromServedRequests /\ RowsNeverOutrunBlobs
    BY DEF Init, RowsComeFromServedRequests, RowsNeverOutrunBlobs
  <2>5. BlobsInv /\ OutcomeShape
    BY RequestsAssumption
    DEF Init, BlobsInv, OutcomeShape, First, Served, Requests, NoRequest
  <2>6. QED
    BY <2>3, <2>4, <2>5 DEF OutcomesTrue
<1>2. ASSUME QueueInv, QueueInv', BlobsInv, OutcomeShape, OutcomesTrue, [Next]_vars
      PROVE  BlobsInv' /\ OutcomeShape' /\ OutcomesTrue'
  BY <1>2, BlobsStep, OutcomeShapeStep, CountersStep, RowsStep DEF OutcomesTrue
<1>3. QED
  BY <1>1, <1>2, QueueInvariant, PTL DEF Spec

-----------------------------------------------------------------------------
(* The runtime implements the ledger *)

\* What the ledger sees of a request, read off the window, the request in hand
\* and the outcomes.
FateView ==
    /\ Fate = [n \in Requests |-> IF n >= next THEN "new"
                                  ELSE IF n >= First THEN "queued"
                                  ELSE IF n = current THEN "active"
                                  ELSE outcome[n]]
    /\ Ledger!With("new") = next..MaxRequests
    /\ Ledger!With("queued") = First..(next - 1)
    /\ Ledger!With("active") = {current} \ {NoRequest}
    /\ Cardinality(Ledger!With("queued")) = Len(pending)

\* Two functions on a set that differ at one place only.
LEMMA FunUpdate ==
    ASSUME NEW S, NEW g, NEW h, g = [n \in S |-> g[n]], h = [n \in S |-> h[n]],
           NEW m \in S, NEW v, \A n \in S : h[n] = IF n = m THEN v ELSE g[n]
    PROVE  h = [g EXCEPT ![m] = v]
OBVIOUS

\* The view holds wherever the queue has its shape.
LEMMA FateViewHolds == QueueInv => FateView
<1> SUFFICES ASSUME QueueInv PROVE FateView
  OBVIOUS
<1> USE RequestsAssumption DEF NoRequest
<1>t. /\ Len(pending) \in Nat /\ next \in 1..(MaxRequests + 1)
      /\ current \in Requests \cup {0} /\ current < First
      /\ First <= next /\ First \in Int
      /\ outcome \in [Requests -> Outcomes]
      /\ worker \in Holding <=> current # 0
  <2>1. /\ pending \in Seq(Requests) /\ next \in 1..(MaxRequests + 1)
        /\ current \in Requests \cup {0}
        /\ outcome \in [Requests -> Outcomes]
        /\ current + Len(pending) < next
        /\ worker \in Holding <=> current # 0
    BY DEF QueueInv, QueueShape, TypeOK
  <2>2. QED
    BY <2>1 DEF Requests, First
<1>q. Queued = First..(next - 1)
  BY QueuedIsWindow DEF First
<1>1. ASSUME NEW n \in Requests
      PROVE  Fate[n] = IF n >= next THEN "new" ELSE IF n >= First THEN "queued"
                       ELSE IF n = current THEN "active" ELSE outcome[n]
  <2>1. n \in Int
    BY DEF Requests
  <2>2. n \in Queued <=> n >= First /\ n < next
    BY <1>t, <1>q, <2>1
  <2>3. InHand(n) <=> n = current
    BY <1>t DEF InHand, Holding, Requests
  <2>4. QED
    BY <1>t, <2>1, <2>2, <2>3 DEF Fate
<1>2. Fate = [n \in Requests |-> IF n >= next THEN "new" ELSE IF n >= First THEN "queued"
                                 ELSE IF n = current THEN "active" ELSE outcome[n]]
  BY <1>1 DEF Fate
<1>3. /\ Ledger!With("new") = next..MaxRequests
      /\ Ledger!With("queued") = First..(next - 1)
      /\ Ledger!With("active") = {current} \ {0}
  <2>1. \A n \in Requests : outcome[n] \notin {"new", "queued", "active"}
    BY <1>t DEF Outcomes
  <2>2. /\ Ledger!With("new") = {n \in Requests : Fate[n] = "new"}
        /\ Ledger!With("queued") = {n \in Requests : Fate[n] = "queued"}
        /\ Ledger!With("active") = {n \in Requests : Fate[n] = "active"}
    BY DEF Ledger!With, Requests
  <2>3. First >= 1
    BY <1>t DEF Requests
  <2>4. Ledger!With("new") = next..MaxRequests
    <3>1. \A n \in Requests : Fate[n] = "new" <=> n >= next
      BY <1>t, <1>1, <2>1
    <3>2. {n \in Requests : Fate[n] = "new"} = {n \in Requests : n >= next}
      BY <3>1
    <3>3. {n \in Requests : n >= next} = next..MaxRequests
      BY <1>t DEF Requests
    <3>4. QED
      BY <2>2, <3>2, <3>3
  <2>5. Ledger!With("queued") = First..(next - 1)
    <3>1. \A n \in Requests : Fate[n] = "queued" <=> n >= First /\ ~(n >= next)
      BY <1>t, <1>1, <2>1
    <3>2. {n \in Requests : Fate[n] = "queued"} = {n \in Requests : n >= First /\ ~(n >= next)}
      BY <3>1
    <3>3. {n \in Requests : n >= First /\ ~(n >= next)} = First..(next - 1)
      BY <1>t, <2>3 DEF Requests
    <3>4. QED
      BY <2>2, <3>2, <3>3
  <2>6. Ledger!With("active") = {current} \ {0}
    BY <1>t, <1>1, <2>1, <2>2 DEF Requests
  <2>7. QED
    BY <2>4, <2>5, <2>6
<1>4. Cardinality(First..(next - 1)) = Len(pending)
  <2>1. First = next - Len(pending) /\ next - 1 \in Int
    BY <1>t DEF First
  <2>2. Cardinality(First..(next - 1)) = IF First > next - 1 THEN 0 ELSE next - 1 - First + 1
    BY <1>t, <2>1, FS_Interval
  <2>3. QED
    BY <1>t, <2>1, <2>2
<1>5. QED
  BY <1>2, <1>3, <1>4 DEF FateView

\* Every step of the runtime is a step of the ledger or leaves it as it is.
LEMMA LedgerStep ==
    ASSUME QueueInv, QueueInv', FateView, FateView', [Next]_vars
    PROVE  [Ledger!Next]_(Ledger!ledger)
<1> USE RequestsAssumption DEF NoRequest
<1>t. /\ pending \in Seq(Requests) /\ Len(pending) \in Nat /\ next \in 1..(MaxRequests + 1)
      /\ current \in Requests \cup {0} /\ current < First /\ First \in Nat /\ First >= 1
      /\ First <= next
      /\ worker \in Holding <=> current # 0
  <2>1. /\ pending \in Seq(Requests) /\ next \in 1..(MaxRequests + 1)
        /\ current \in Requests \cup {0} /\ current + Len(pending) < next
        /\ worker \in Holding <=> current # 0
    BY DEF QueueInv, QueueShape, TypeOK
  <2>2. QED
    BY <2>1 DEF Requests, First
<1>r. Requests = 1..MaxRequests
  BY DEF Requests
<1>f. /\ Fate = [n \in Requests |-> Fate[n]] /\ Fate' = [n \in Requests |-> Fate'[n]]
      /\ \A n \in Requests : Fate[n] = IF n >= next THEN "new" ELSE IF n >= First THEN "queued"
                                       ELSE IF n = current THEN "active" ELSE outcome[n]
      /\ \A n \in Requests : Fate'[n] = IF n >= next' THEN "new"
                                        ELSE IF n >= First' THEN "queued"
                                        ELSE IF n = current' THEN "active" ELSE outcome'[n]
  BY DEF FateView
<1>o. outcome \in [Requests -> Outcomes]
  BY DEF QueueInv, TypeOK
<1>w. Ledger!Cardinality(Ledger!With("queued")) = Len(pending) /\ Capacity \in Nat
  <2>1. \A S : Ledger!Cardinality(S) = Cardinality(S)
    BY DEF Ledger!Cardinality, Cardinality
  <2>2. QED
    BY <2>1, CapacityAssumption DEF FateView
<1>n. next <= MaxRequests => next \in Requests /\ Ledger!Oldest(next, "new")
  BY <1>t, <1>r DEF Ledger!Oldest, FateView
<1>q. pending # <<>> => /\ First \in Requests /\ Head(pending) = First
                        /\ Ledger!Oldest(First, "queued")
  <2>1. pending # <<>> => Head(pending) = First /\ First < next
    BY <1>t, QueuedIsWindow DEF First
  <2>2. QED
    BY <1>t, <1>r, <2>1 DEF Ledger!Oldest, FateView
<1>1. CASE EnqueueRejected
  <2>1. /\ First = next /\ First' = next + 1 /\ next' = next + 1 /\ next <= MaxRequests
        /\ UNCHANGED <<closed, current>> /\ closed
        /\ outcome' = [outcome EXCEPT ![next] = "rejected"]
    BY <1>1, <1>t DEF EnqueueRejected, QueueInv, QueueShape, workVars, First
  <2>2. Fate' = [Fate EXCEPT ![next] = "rejected"]
    <3>1. \A n \in Requests : Fate'[n] = IF n = next THEN "rejected" ELSE Fate[n]
      BY <1>t, <1>n, <1>r, <2>1, <1>f, <1>o
    <3>2. QED
      BY <1>t, <1>n, <1>r, <2>1, <1>f, <3>1, FunUpdate
  <2>3. Ledger!Reject(next)
    BY <1>n, <2>1, <2>2 DEF Ledger!Reject
  <2>4. QED
    BY <1>n, <1>r, <2>1, <2>3 DEF Ledger!Next
<1>2. CASE EnqueueEvicting
  <2>1. /\ Len(pending) = Capacity /\ pending # <<>> /\ next' = next + 1
        /\ next <= MaxRequests /\ UNCHANGED <<closed, current>> /\ ~closed
    BY <1>2, <1>t, CapacityAssumption DEF EnqueueEvicting, workVars
  <2>2. First' = First + 1 /\ First < next
    BY <1>2, <1>t, <2>1 DEF EnqueueEvicting, First
  <2>3. outcome' = [outcome EXCEPT ![First] = "evicted"]
    BY <1>2, <1>q, <2>1 DEF EnqueueEvicting
  <2>4. Fate' = [Fate EXCEPT ![next] = "queued", ![First] = "evicted"]
    <3>1. \A n \in Requests : Fate'[n] = IF n = next THEN "queued"
                                         ELSE IF n = First THEN "evicted" ELSE Fate[n]
      BY <1>t, <1>n, <1>q, <1>r, <1>f, <1>o, <2>1, <2>2, <2>3
    <3>2. QED
      BY <1>n, <1>q, <1>f, <2>1, <2>2, <3>1
  <2>5. Ledger!Displace(next, First)
    BY <1>n, <1>q, <1>w, <2>1, <2>4 DEF Ledger!Displace
  <2>6. QED
    BY <1>n, <1>q, <1>r, <2>1, <2>5 DEF Ledger!Next
<1>3. CASE EnqueueAdmitted
  <2>1. /\ next' = next + 1 /\ next <= MaxRequests /\ First' = First
        /\ UNCHANGED <<closed, current, outcome>> /\ ~closed /\ Len(pending) < Capacity
    BY <1>3, <1>t, CapacityAssumption
    DEF EnqueueAdmitted, workVars, First, QueueInv, QueueShape
  <2>2. Fate' = [Fate EXCEPT ![next] = "queued"]
    <3>1. ASSUME NEW n \in Requests PROVE Fate'[n] = IF n = next THEN "queued" ELSE Fate[n]
      <4>1. n \in Int
        BY <1>r
      <4>2. Fate'[n] = IF n >= next + 1 THEN "new" ELSE IF n >= First THEN "queued"
                       ELSE IF n = current THEN "active" ELSE outcome[n]
        BY <1>f, <2>1
      <4>3. next \in Int /\ First \in Int /\ First <= next
        BY <1>t
      <4>4. n >= next + 1 <=> n >= next /\ n # next
        BY <4>1, <4>3
      <4>5. QED
        BY <1>f, <4>2, <4>3, <4>4
    <3>2. QED
      BY <1>t, <1>n, <1>r, <2>1, <1>f, <3>1, FunUpdate
  <2>3. Ledger!Admit(next)
    BY <1>n, <1>w, <2>1, <2>2 DEF Ledger!Admit
  <2>4. QED
    BY <1>n, <1>r, <2>1, <2>3 DEF Ledger!Next
<1>4. CASE Close
  <2>1. /\ First' = next /\ UNCHANGED <<next, current>> /\ ~closed /\ closed'
        /\ outcome' = [n \in Requests |-> IF n \in Queued THEN "dropped" ELSE outcome[n]]
    BY <1>4, <1>t DEF Close, workVars, Queued, First
  <2>2. Queued = First..(next - 1)
    BY QueuedIsWindow DEF First
  <2>3. \A n \in Requests : outcome[n] # "queued"
    BY DEF QueueInv, TypeOK, Outcomes
  <2>4. Fate' = [n \in Requests |-> IF Fate[n] = "queued" THEN "dropped" ELSE Fate[n]]
    BY <1>t, <1>r, <2>1, <2>2, <2>3 DEF FateView
  <2>5. Ledger!Shut
    BY <1>4, <1>r, <2>1, <2>4 DEF Ledger!Shut, Close
  <2>6. QED
    BY <2>5 DEF Ledger!Next
<1>5. CASE PopRequest
  <2>1. /\ pending # <<>> /\ current = 0 /\ current' = First
        /\ UNCHANGED <<next, closed, outcome>>
    BY <1>5, <1>t, <1>q DEF PopRequest, Holding
  <2>2. First' = First + 1
    BY <1>5, <1>t DEF PopRequest, First
  <2>3. Fate' = [Fate EXCEPT ![First] = "active"]
    <3>1. ASSUME NEW n \in Requests PROVE Fate'[n] = IF n = First THEN "active" ELSE Fate[n]
      <4>1. n \in Int /\ n # 0
        BY <1>r
      <4>2. Fate[n] = IF n >= next THEN "new" ELSE IF n >= First THEN "queued" ELSE outcome[n]
        BY <1>f, <2>1, <4>1
      <4>3. Fate'[n] = IF n >= next THEN "new" ELSE IF n >= First + 1 THEN "queued"
                       ELSE IF n = First THEN "active" ELSE outcome[n]
        BY <1>f, <2>1, <2>2
      <4>4. n >= First + 1 <=> n >= First /\ n # First
        BY <1>t, <4>1
      <4>5. First < next /\ First \in Int /\ next \in Int
        BY <1>t, <2>1 DEF First
      <4>6. QED
        BY <4>2, <4>3, <4>4, <4>5
    <3>2. QED
      BY <1>t, <1>q, <1>r, <2>1, <2>2, <1>f, <3>1, FunUpdate
  <2>4. Ledger!Serve(First)
    BY <1>q, <2>1, <2>3 DEF Ledger!Serve, FateView
  <2>5. QED
    BY <1>q, <1>r, <2>1, <2>4 DEF Ledger!Next
<1>6. CASE RecordPersisted \/ RecordFailed
  <2>1. PICK o \in {"persisted", "failed"} : outcome' = [outcome EXCEPT ![current] = o]
    BY <1>6 DEF RecordPersisted, RecordFailed
  <2>2. /\ First' = First /\ UNCHANGED <<next, closed>> /\ current' = 0
        /\ current \in Requests
    BY <1>6, <1>t DEF RecordPersisted, RecordFailed, First, Holding
  <2>3. Fate' = [Fate EXCEPT ![current] = o]
    <3>1. \A n \in Requests : Fate'[n] = IF n = current THEN o ELSE Fate[n]
      BY <1>t, <1>r, <2>1, <2>2, <1>f, <1>o
    <3>2. QED
      BY <1>t, <1>r, <2>1, <2>2, <1>f, <3>1, FunUpdate
  <2>4. Ledger!Settle(current, o)
    BY <1>t, <2>2, <2>3, <1>r DEF Ledger!Settle, FateView
  <2>5. QED
    BY <1>r, <2>1, <2>2, <2>4 DEF Ledger!Next
<1>7. CASE UNCHANGED <<next, pending, current, outcome, closed>>
  <2>1. First' = First
    BY <1>7 DEF First
  <2>2. Fate' = Fate
    BY <1>7, <2>1 DEF FateView
  <2>3. QED
    BY <1>7, <2>2 DEF Ledger!ledger
<1>8. QED
  BY <1>1, <1>2, <1>3, <1>4, <1>5, <1>6, <1>7
  DEF Next, Producer, Worker, Terminated, AcquirePermit, PopNothing, CheckClosed, WriteBlob,
      WriteBlobFails, RetryBlobs, BlobsWritten, PersistMetadata, PersistMetadataFails,
      RetryMetadata, BackendFlips, vars, queueVars, workVars

\* The runtime, with its queue, semaphore, retries and storage, implements the
\* ledger: each request has one fate, requests are served one at a time and
\* oldest first, and only a full queue gives up its oldest request.
THEOREM LedgerImplemented == Spec => ImplementsLedger
<1>1. ASSUME Init PROVE Ledger!Init
  <2>1. Queued = {}
    BY <1>1 DEF Init, Queued
  <2>2. \A n \in Requests : Fate[n] = "new"
    BY <1>1, <2>1, RequestsAssumption DEF Init, Fate, Requests, InHand
  <2>3. Fate = [n \in 1..MaxRequests |-> "new"]
    BY <2>2 DEF Fate, Requests
  <2>4. QED
    BY <1>1, <2>3 DEF Init, Ledger!Init
<1>2. QueueInv /\ QueueInv' /\ FateView /\ FateView' /\ [Next]_vars =>
          [Ledger!Next]_(Ledger!ledger)
  BY LedgerStep
<1>3. QED
  BY <1>1, <1>2, FateViewHolds, QueueInvariant, PTL DEF Spec, ImplementsLedger, Ledger!Spec

-----------------------------------------------------------------------------
(***************************************************************************)
(* The incidents                                                           *)
(***************************************************************************)

-----------------------------------------------------------------------------
(* What a product says *)

MaybeTimes    == Times \cup {None}
MaybeStatuses == Statuses \cup {NoStatus}
UpdateSet     == [status : MaybeStatuses, action : Actions, end : MaybeTimes]

\* The constants, in the form the proofs use.
LEMMA Constants ==
    /\ Products \subseteq Nat /\ None \notin Products /\ Malformed \subseteq Products
    /\ Keys \subseteq Nat /\ IsFiniteSet(Keys)
    /\ MaxTime \in Nat /\ 1 \in Times /\ MaxFaults \in Nat
    /\ MaybeTimes = 0..MaxTime /\ Times \subseteq Nat
    /\ \A p \in Products : Stamp[p] \in Times
    /\ \A p \in Products : Vtec[p] \in Seq(VtecLines)
  BY ProductAssumption DEF Times, None, MaybeTimes

\* A set of numbers up to a bound contains its maximum.
LEMMA MaxOf ==
    ASSUME NEW n \in Nat, NEW T \in SUBSET (0..n), T # {}
    PROVE  Max(T) \in T /\ \A y \in T : y <= Max(T)
<1>1. PICK x \in T : \A y \in T : y <= x
  BY GreatestElement
<1>2. \A y \in T : x >= y
  BY <1>1
<1>3. Max(T) \in T /\ \A y \in T : Max(T) >= y
  BY <1>2, Zenon DEF Max
<1>4. QED
  BY <1>3

LEMMA StatusMapped == \A a : MapIncidentStatus(a) \in MaybeStatuses
  BY DEF MapIncidentStatus, MaybeStatuses, Statuses, NoStatus

\* An update has a status or none, an action, and an end or none.
LEMMA UpdateType ==
    ASSUME NEW p \in Products, NEW k \in Touched(p)
    PROVE  k \in Keys /\ Updates[p][k] \in UpdateSet
<1> DEFINE at == Lines(p, k)
           n  == Len(Vtec[p])
<1>1. k \in Keys /\ at # {} /\ Updates[p][k] = Update(p, k)
  BY DEF Touched, Updates
<1>2. Vtec[p] \in Seq(VtecLines) /\ n \in Nat
  BY Constants
<1>3. at \in SUBSET (1..n) /\ at \in SUBSET (0..n)
  BY <1>2 DEF Lines
<1>4. \A i \in 1..n : Vtec[p][i].action \in Actions /\ Vtec[p][i].end \in MaybeTimes
  <2>1. \A i \in 1..n : Vtec[p][i] \in VtecLines
    BY <1>2
  <2>2. QED
    BY <2>1 DEF VtecLines, MaybeTimes
<1>5. Max(at) \in at
  BY <1>1, <1>2, <1>3, MaxOf
<1>6. LatestEnd(p, at) \in MaybeTimes
  <2> DEFINE ends == {Vtec[p][i].end : i \in at}
  <2>1. ends \in SUBSET (0..MaxTime) /\ ends # {} /\ MaxTime \in Nat
    BY <1>1, <1>3, <1>4, Constants
  <2>2. Max(ends) \in ends
    BY <2>1, MaxOf
  <2>3. QED
    BY <2>1, <2>2, Constants DEF LatestEnd
<1>7. Update(p, k).status \in MaybeStatuses
  BY StatusMapped DEF Update, MaybeStatuses
<1>8. QED
  BY <1>1, <1>3, <1>4, <1>5, <1>6, StatusMapped DEF Update, UpdateSet, MaybeStatuses

\* How many of the keys are smaller.
Rank(ks, k) == Cardinality({j \in ks : j < k})

LEMMA RankRises ==
    ASSUME NEW ks \in SUBSET Nat, IsFiniteSet(ks), NEW k \in ks
    PROVE  /\ Rank(ks, k) \in 0..(Cardinality(ks) - 1)
           /\ \A l \in ks : k < l => Rank(ks, k) < Rank(ks, l)
<1> DEFINE below(x) == {j \in ks : j < x}
<1>1. ASSUME NEW S \in SUBSET ks, S \cup {k} \subseteq ks, below(k) \subseteq S, k \in S
      PROVE  /\ Cardinality(below(k)) \in Nat /\ Cardinality(S) \in Nat
             /\ Cardinality(below(k)) < Cardinality(S)
  <2>1. IsFiniteSet(S)
    BY FS_Subset
  <2>2. below(k) \in SUBSET S /\ k \notin below(k)
    BY <1>1
  <2>3. /\ IsFiniteSet(below(k)) /\ Cardinality(below(k)) <= Cardinality(S)
        /\ Cardinality(S) = Cardinality(below(k)) => S = below(k)
    BY <2>1, <2>2, FS_Subset
  <2>4. Cardinality(S) \in Nat /\ Cardinality(below(k)) \in Nat
    BY <2>1, <2>3, FS_CardinalityType
  <2>5. S # below(k)
    BY <1>1, <2>2
  <2>6. QED
    BY <2>3, <2>4, <2>5
<1>2. Cardinality(below(k)) \in Nat /\ Cardinality(ks) \in Nat /\ Cardinality(below(k)) < Cardinality(ks)
  BY <1>1
<1>3. ASSUME NEW l \in ks, k < l PROVE Cardinality(below(k)) < Cardinality(below(l))
  <2>1. below(l) \in SUBSET ks /\ below(k) \subseteq below(l) /\ k \in below(l)
    <3>1. \A j \in ks : j \in Nat
      OBVIOUS
    <3>2. \A j \in ks : j < k => j < l
      BY <1>3, <3>1
    <3>3. QED
      BY <1>3, <3>2, Zenon
  <2>2. below(l) \cup {k} \subseteq ks
    BY <2>1
  <2> HIDE DEF below
  <2>3. QED
    BY <1>1, <2>1, <2>2
<1>4. QED
  BY <1>2, <1>3 DEF Rank

\* InOrder lists the keys it is given, all of them.
LEMMA InOrderLists ==
    ASSUME NEW ks \in SUBSET Keys
    PROVE  InOrder(ks) \in Seq(ks) /\ Members(InOrder(ks)) = ks
<1> DEFINE n == Cardinality(ks)
           f == [k \in ks |-> Rank(ks, k)]
<1>1. ks \in SUBSET Nat /\ IsFiniteSet(ks) /\ n \in Nat
  <2>1. IsFiniteSet(ks)
    BY Constants, FS_Subset
  <2>2. QED
    BY <2>1, Constants, FS_CardinalityType
<1>2. \A k \in ks : Rank(ks, k) \in 0..(n - 1)
  BY <1>1, RankRises
<1>3. \A k, l \in ks : Rank(ks, k) = Rank(ks, l) => k = l
  <2> SUFFICES ASSUME NEW k \in ks, NEW l \in ks, k # l PROVE Rank(ks, k) # Rank(ks, l)
    OBVIOUS
  <2>1. k \in Nat /\ l \in Nat
    BY <1>1
  <2>2. k < l => Rank(ks, k) < Rank(ks, l)
    BY <1>1, RankRises
  <2>3. l < k => Rank(ks, l) < Rank(ks, k)
    BY <1>1, RankRises
  <2>4. Rank(ks, k) \in Int /\ Rank(ks, l) \in Int
    BY <1>2
  <2>5. QED
    BY <2>1, <2>2, <2>3, <2>4
<1>4. \A i \in 1..n : \E k \in ks : Rank(ks, k) = i - 1
  <2>1. f \in Injection(ks, 0..(n - 1))
    BY <1>2, <1>3 DEF Injection, IsInjective
  <2>2. IsFiniteSet(0..(n - 1)) /\ Cardinality(0..(n - 1)) = n
    <3>1. 0 \in Int /\ n - 1 \in Int
      BY <1>1
    <3>2. /\ IsFiniteSet(0..(n - 1))
          /\ Cardinality(0..(n - 1)) = IF 0 > n - 1 THEN 0 ELSE n - 1 - 0 + 1
      BY <3>1, FS_Interval
    <3>3. QED
      BY <1>1, <3>2
  <2>3. f \in Surjection(ks, 0..(n - 1))
    BY <2>1, <2>2, FS_Injection
  <2>4. \A t \in 0..(n - 1) : \E k \in ks : f[k] = t
    BY <2>3, Zenon DEF Surjection
  <2>5. \A i \in 1..n : i - 1 \in 0..(n - 1)
    BY <1>1
  <2>6. QED
    BY <2>4, <2>5
<1>5. \A i \in 1..n : InOrder(ks)[i] \in ks /\ Rank(ks, InOrder(ks)[i]) = i - 1
  <2> SUFFICES ASSUME NEW i \in 1..n
               PROVE  InOrder(ks)[i] \in ks /\ Rank(ks, InOrder(ks)[i]) = i - 1
    OBVIOUS
  <2>1. InOrder(ks)[i] = CHOOSE k \in ks : Rank(ks, k) = i - 1
    BY DEF InOrder, Rank
  <2>2. \E k \in ks : Rank(ks, k) = i - 1
    BY <1>4
  <2>3. QED
    BY <2>1, <2>2
<1>6. InOrder(ks) \in Seq(ks) /\ Len(InOrder(ks)) = n
  <2>1. InOrder(ks) = [i \in 1..n |-> CHOOSE k \in ks : Rank(ks, k) = i - 1]
    BY DEF InOrder, Rank
  <2>2. InOrder(ks) \in [1..n -> ks]
    BY <1>5, <2>1, Zenon
  <2>3. QED
    BY <1>1, <2>2
<1>7. ASSUME NEW k \in ks PROVE k \in Members(InOrder(ks))
  <2> DEFINE i == Rank(ks, k) + 1
  <2>1. i \in 1..n /\ i - 1 = Rank(ks, k)
    BY <1>1, <1>2
  <2>2. InOrder(ks)[i] = k
    BY <1>3, <1>5, <2>1
  <2>3. QED
    BY <1>6, <2>1, <2>2 DEF Members
<1>8. QED
  BY <1>5, <1>6, <1>7 DEF Members

-----------------------------------------------------------------------------
(* The inductive invariant *)

Row == [status : MaybeStatuses, action : Actions \cup {"none"}, end : MaybeTimes,
        stamp : MaybeTimes, first : Products \cup {None}, latest : Products \cup {None}]

StateTyped == /\ SinkTypeOK
              /\ incidents \in [Keys -> Row]
              /\ writes \in [DOMAIN writes -> Row]

\* A pool is made only after an error dropped the one before.
PoolsCounted == pools <= faults + (IF pool = None THEN 0 ELSE 1)

\* Who waits for a connection or has one knows its pool, and a pool has one.
ConnectionsApart ==
    /\ \A c \in Clients : pc[c] \in {"waiting", "open"} => using[c] # None
    /\ InTx /\ InSweep => using["worker"] # using["sweep"]

\* Transactions and statements leave nothing behind.
Scoped ==
    /\ pc["worker"] # "idle" => request \in Products \ Malformed
    /\ ~InTx => todo = <<>> /\ existing = "unread" /\ DOMAIN writes = {}
    /\ existing # "unread" => todo # <<>>
    /\ ~InSweep => expiring = {}

\* The worker holds the rows it wrote, the sweep those it expires.
Locked ==
    /\ \A k \in Keys : holder[k] = "worker" <=> k \in DOMAIN writes
    /\ \A k \in expiring : holder[k] = "sweep"

\* What the sweep holds is still due.
ExpiringPast == sweepTime <= now /\ \A k \in expiring : Past(incidents[k], sweepTime)

\* Every incident the request gives a status is written or yet to be.
TodoCovers ==
    InTx => /\ Members(todo) \subseteq Touched(request)
            /\ \A k \in Touched(request) :
                   \/ k \in Members(todo) \/ k \in DOMAIN writes
                   \/ Updates[request][k].status = NoStatus

\* The row k is what one of the products says.
RowTrue(row, k, products) ==
    /\ row.first \in products /\ row.latest \in products
    /\ k \in Touched(row.latest)
    /\ row.stamp = Stamp[row.latest]
    /\ row.action = Updates[row.latest][k].action
    /\ row.end = Updates[row.latest][k].end
    /\ Updates[row.latest][k].status # NoStatus =>
           row.status \in {Updates[row.latest][k].status, "expired"}

RowsTrue == \A k \in Keys : incidents[k] # NoRow => RowTrue(incidents[k], k, stored)

\* What the worker read is still there, unless a sweep with a connection of
\* its own has expired the incident.
ReadTrue ==
    existing # "unread" =>
        \/ existing = incidents[Head(todo)].status
        \/ pools # 1 /\ incidents[Head(todo)].status = "expired"

\* The row w may take the place of the row r in the incident k.
Succeeds(k, r, w, one) ==
    /\ KeepsOrigin(r, w)
    /\ r.status = "active" /\ w.status = "expired" => w.latest # r.latest
    /\ one /\ w.latest # r.latest /\ ~Speaks(w.latest, k) => w.status = r.status

WritesTrue ==
    \A k \in DOMAIN writes :
        /\ RowTrue(writes[k], k, stored \cup {request})
        /\ writes[k].stamp >= Stamp[request]
        /\ incidents[k] # NoRow => Succeeds(k, incidents[k], writes[k], pools = 1)

SinkInv ==
    /\ StateTyped /\ PoolsCounted /\ ConnectionsApart /\ Scoped /\ Locked
    /\ ExpiringPast /\ TodoCovers /\ RowsTrue /\ ReadTrue /\ WritesTrue
    /\ StaleRejected

-----------------------------------------------------------------------------
(* Types *)

LEMMA Others == Other("worker") = "sweep" /\ Other("sweep") = "worker" /\ Clients = {"worker", "sweep"}
  BY DEF Other, Clients

\* A row of the table has the fields TypeOK asks for.
LEMMA RowFields ==
    ASSUME NEW r \in Row
    PROVE  /\ r.status \in MaybeStatuses /\ r.end \in MaybeTimes /\ r.stamp \in MaybeTimes
           /\ r.first \in Products \cup {None} /\ r.latest \in Products \cup {None}
           /\ r.stamp \in Nat
<1>1. r.stamp \in MaybeTimes
  BY DEF Row
<1>2. r.stamp \in Nat
  BY <1>1, Constants
<1>3. QED
  BY <1>1, <1>2 DEF Row

LEMMA NoRowTyped == NoRow \in Row /\ NoRow.stamp = 0
  BY DEF NoRow, Row, MaybeStatuses, MaybeTimes, None

\* The row the upsert leaves.
LEMMA UpsertedTyped ==
    ASSUME incidents \in [Keys -> Row], request \in Products, existing \in MaybeStatuses,
           NEW k \in Touched(request)
    PROVE  Upserted(k) \in Row
<1> DEFINE u   == Updates[request][k]
           row == [status |-> Excluded(u), action |-> u.action, end |-> u.end,
                   stamp |-> Stamp[request], latest |-> request,
                   first |-> IF incidents[k] = NoRow THEN request ELSE incidents[k].first]
<1>1. k \in Keys /\ u \in UpdateSet
  BY UpdateType
<1>2. u.status \in MaybeStatuses /\ u.action \in Actions /\ u.end \in MaybeTimes
  BY <1>1 DEF UpdateSet
<1>3. incidents[k] \in Row
  BY <1>1
<1>4. incidents[k].first \in Products \cup {None}
  BY <1>3, RowFields
<1>5. Stamp[request] \in MaybeTimes
  BY Constants DEF MaybeTimes
<1>6. Excluded(u) \in MaybeStatuses
  BY <1>2 DEF Excluded
<1> HIDE DEF u
<1>7. row \in Row
  BY <1>2, <1>4, <1>5, <1>6 DEF Row
<1>8. Upserted(k) \in {row, incidents[k]}
  BY DEF Upserted, u
<1>9. QED
  BY <1>3, <1>7, <1>8

LEMMA TouchedKeys == ASSUME NEW p \in Products PROVE Touched(p) \in SUBSET Keys
  BY DEF Touched, Updates

\* The end of a transaction, of a statement and of a request.
LEMMA OverTyped ==
    ASSUME SinkTypeOK
    PROVE  /\ TxOver => /\ todo' \in Seq(Keys) /\ existing' = "unread"
                        /\ DOMAIN writes' = {} /\ writes' \in [DOMAIN writes' -> Row]
                        /\ holder' \in [Keys -> Clients \cup {"free"}]
           /\ SweepOver => /\ due' = {} /\ expiring' = {}
                           /\ holder' \in [Keys -> Clients \cup {"free"}]
           /\ \A r \in {"persisted", "failed"} : request \in Products /\ Settled(r) =>
                  /\ fate' \in [Products -> {"queued", "persisted", "failed"}]
                  /\ request' \in Products \cup {None}
           /\ Fault => faults' \in 0..MaxFaults
           /\ \A c \in Clients : Leave(c) =>
                  /\ pc' \in [Clients -> {"idle", "connecting", "waiting", "open"}]
                  /\ using' \in [Clients -> 0..pools]
<1>1. \A c \in Clients : Released(c) \in [Keys -> Clients \cup {"free"}]
  BY DEF Released, SinkTypeOK
<1>2. "worker" \in Clients /\ "sweep" \in Clients
  BY DEF Clients
<1>3. DOMAIN NoWrites = {} /\ NoWrites \in [DOMAIN NoWrites -> Row]
  BY DEF NoWrites
<1>4. Fault => faults' \in 0..MaxFaults
  BY Constants DEF Fault, SinkTypeOK
<1>5. \A c \in Clients : Leave(c) =>
         /\ pc' \in [Clients -> {"idle", "connecting", "waiting", "open"}]
         /\ using' \in [Clients -> 0..pools]
  <2>1. None \in 0..pools
    BY Constants DEF SinkTypeOK, None
  <2>2. QED
    BY <2>1 DEF Leave, SinkTypeOK
<1>6. \A r \in {"persisted", "failed"} : request \in Products /\ Settled(r) =>
         /\ fate' \in [Products -> {"queued", "persisted", "failed"}]
         /\ request' \in Products \cup {None}
  BY DEF Settled, SinkTypeOK
<1>7. <<>> \in Seq(Keys)
  OBVIOUS
<1>8. QED
  BY <1>1, <1>2, <1>3, <1>4, <1>5, <1>6, <1>7 DEF TxOver, SweepOver

\* The state variables keep their types.
LEMMA SinkTypeStep == SinkInv /\ [SinkNext]_sinkVars => StateTyped'
<1> SUFFICES ASSUME SinkInv, [SinkNext]_sinkVars PROVE StateTyped'
  OBVIOUS
<1> USE Constants, Others
<1>i. SinkTypeOK /\ incidents \in [Keys -> Row] /\ writes \in [DOMAIN writes -> Row] /\ Scoped /\ PoolsCounted
  BY DEF SinkInv, StateTyped
<1>r. ASSUME incidents' \in [Keys -> Row]
      PROVE  \A k \in Keys : /\ incidents'[k].status \in Statuses \cup {NoStatus}
                              /\ incidents'[k].end \in Times \cup {None}
                              /\ incidents'[k].stamp \in Times \cup {None}
                              /\ incidents'[k].first \in Products \cup {None}
                              /\ incidents'[k].latest \in Products \cup {None}
  BY <1>r, RowFields DEF MaybeStatuses, MaybeTimes
<1>1. ASSUME NEW p \in Products, TakeRequest(p) PROVE StateTyped'
  BY <1>1, <1>i DEF TakeRequest, StateTyped, SinkTypeOK, clientVars, sweepVars
<1>2. CASE PrepareFails
  BY <1>2, <1>i DEF PrepareFails, Settled, StateTyped, SinkTypeOK, clientVars, sweepVars
<1>3. CASE Persist
  BY <1>3, <1>i DEF Persist, EnsurePool, StateTyped, SinkTypeOK, txVars, sweepVars, None
<1>4. ASSUME NEW c \in Clients, PoolMade(c) PROVE StateTyped'
  <2>1. pool = None => pools + 1 \in 0..(MaxFaults + 1) /\ pools + 1 \in 0..(pools + 1)
    BY <1>i DEF SinkTypeOK, PoolsCounted
  <2>2. /\ pool \in 0..pools /\ pools \in 0..(MaxFaults + 1) /\ using \in [Clients -> 0..pools]
        /\ \A x \in 0..pools : x \in 0..(pools + 1)
    BY <1>i DEF SinkTypeOK
  <2>3. /\ pools' \in 0..(MaxFaults + 1) /\ pool' \in 0..pools'
        /\ using' \in [Clients -> 0..pools']
    <3>1. CASE pool # None
      BY <1>4, <2>2, <3>1 DEF PoolMade
    <3>2. CASE pool = None
      BY <1>4, <2>1, <2>2, <3>2 DEF PoolMade
    <3>3. QED
      BY <3>1, <3>2
  <2>4. QED
    BY <1>4, <1>i, <2>3 DEF PoolMade, StateTyped, SinkTypeOK, txVars, sweepVars
<1>5. CASE TxBegins
  <2>1. request \in Products
    BY <1>5, <1>i DEF TxBegins, Open, Scoped
  <2>2. InOrder(Touched(request)) \in Seq(Keys)
    BY <2>1, TouchedKeys, InOrderLists
  <2>3. QED
    BY <1>5, <1>i, <2>2 DEF TxBegins, Open, StateTyped, SinkTypeOK, sweepVars
<1>6. CASE UpsertReads
  BY <1>6, <1>i, SMTT(40) DEF UpsertReads, StateTyped, SinkTypeOK, clientVars, sweepVars
<1>7. CASE UpsertSkips
  <2>1. todo # <<>>
    BY <1>7, <1>i DEF UpsertSkips, Scoped, NoStatus
  <2>2. Tail(todo) \in Seq(Keys)
    BY <1>i, <2>1 DEF SinkTypeOK
  <2>3. QED
    BY <1>7, <1>i, <2>2 DEF UpsertSkips, StateTyped, SinkTypeOK, clientVars, sweepVars
<1>8. CASE UpsertWrites
  <2> DEFINE k == Head(todo)
  <2>1. todo # <<>> /\ todo \in Seq(Keys) /\ request \in Products /\ existing \in MaybeStatuses
    BY <1>8, <1>i DEF UpsertWrites, Scoped, InTx, SinkTypeOK, MaybeStatuses
  <2>2. Tail(todo) \in Seq(Keys) /\ k \in Keys /\ k \in Members(todo)
    BY <2>1 DEF Members
  <2>3. k \in Touched(request)
    BY <1>8, <2>2 DEF SinkInv, TodoCovers, UpsertWrites
  <2>4. Upserted(k) \in Row
    BY <1>i, <2>1, <2>3, UpsertedTyped
  <2>5. DOMAIN writes' = DOMAIN writes \cup {k} /\ writes' \in [DOMAIN writes' -> Row]
    BY <1>8, <1>i, <2>4 DEF UpsertWrites
  <2>6. holder' \in [Keys -> Clients \cup {"free"}]
    BY <1>8, <1>i DEF UpsertWrites, SinkTypeOK
  <2>7. QED
    BY <1>8, <1>i, <2>2, <2>5, <2>6 DEF UpsertWrites, StateTyped, SinkTypeOK, clientVars, sweepVars
<1>9. CASE Commit
  <2>1. Committed /\ InTx
    BY <1>9 DEF Commit, Committed
  <2>2. request \in Products
    BY <1>i, <2>1 DEF Scoped, InTx
  <2>3. incidents' \in [Keys -> Row]
    BY <1>i, <2>1 DEF Committed
  <2>4. TxOver
    BY <2>1 DEF Committed
  <2>5. stored' \subseteq Products
    BY <1>i, <2>1, <2>2 DEF Committed, SinkTypeOK
  <2>6. QED
    BY <1>9, <1>i, <1>r, <2>2, <2>3, <2>4, <2>5, OverTyped DEF Commit, StateTyped, SinkTypeOK, sweepVars
<1>10. CASE SweepStarts
  BY <1>10, <1>i DEF SweepStarts, EnsurePool, StateTyped, SinkTypeOK, txVars, None
<1>11. CASE SweepFinds
  BY <1>11, <1>i DEF SweepFinds, Open, StateTyped, SinkTypeOK, txVars
<1>12. ASSUME NEW k \in Keys, SweepLocks(k) PROVE StateTyped'
  BY <1>12, <1>i DEF SweepLocks, StateTyped, SinkTypeOK, clientVars, txVars
<1>13. CASE SweepCommits
  <2>1. \A k \in expiring : [incidents[k] EXCEPT !.status = "expired"] \in Row
    <3> SUFFICES ASSUME NEW k \in expiring PROVE [incidents[k] EXCEPT !.status = "expired"] \in Row
      OBVIOUS
    <3>1. incidents[k] \in Row
      BY <1>i DEF SinkTypeOK
    <3>2. "expired" \in MaybeStatuses
      BY DEF MaybeStatuses, Statuses
    <3>3. QED
      BY <3>1, <3>2 DEF Row
  <2>2. incidents' \in [Keys -> Row]
    BY <1>13, <1>i, <2>1 DEF SweepCommits
  <2>3. QED
    BY <1>13, <1>i, <1>r, <2>2, OverTyped DEF SweepCommits, StateTyped, SinkTypeOK, txVars
<1>14. ASSUME NEW c \in Clients, ConnectFails(c) PROVE StateTyped'
  BY <1>14, <1>i, SMTT(40) DEF ConnectFails, Fault, Leave, StateTyped, SinkTypeOK, txVars, sweepVars, None
<1>15. ASSUME NEW c \in Clients, AcquireTimesOut(c) PROVE StateTyped'
  BY <1>15, <1>i DEF AcquireTimesOut, HandleRuntimeError, Fault, Leave, StateTyped, SinkTypeOK, txVars, sweepVars, None
<1>16. CASE CommitReplyLost
  <2>1. Committed /\ InTx
    BY <1>16 DEF CommitReplyLost, Committed
  <2>2. request \in Products
    BY <1>i, <2>1 DEF Scoped, InTx
  <2>3. incidents' \in [Keys -> Row]
    BY <1>i, <2>1 DEF Committed
  <2>4. TxOver
    BY <2>1 DEF Committed
  <2>5. stored' \subseteq Products
    BY <1>i, <2>1, <2>2 DEF Committed, SinkTypeOK
  <2>6. /\ Fault /\ Leave("worker") /\ pool' = None /\ pools' = pools
        /\ UNCHANGED <<fate, request, now, sweepVars>>
    BY <1>16 DEF CommitReplyLost, HandleRuntimeError
  <2>7. pool' \in 0..pools'
    BY <1>i, <2>6 DEF SinkTypeOK, None
  <2>8. QED
    BY <1>i, <1>r, <2>3, <2>4, <2>5, <2>6, <2>7, OverTyped DEF StateTyped, SinkTypeOK, sweepVars
<1>17. CASE TxBreaks
  <2>1. pool' \in 0..pools'
    BY <1>17, <1>i DEF TxBreaks, HandleRuntimeError, SinkTypeOK, None
  <2>2. QED
    BY <1>17, <1>i, <2>1, OverTyped DEF TxBreaks, HandleRuntimeError, StateTyped, SinkTypeOK, sweepVars
<1>18. CASE TxTerminated
  <2>1. request \in Products
    BY <1>18, <1>i DEF TxTerminated, InTx, Scoped
  <2>2. QED
    BY <1>18, <1>i, <2>1, OverTyped DEF TxTerminated, TxRefused, StateTyped, SinkTypeOK, sweepVars
<1>19. CASE SweepBreaks
  BY <1>19, <1>i, SMTT(40) DEF SweepBreaks, SweepOver, Released, HandleRuntimeError, Fault, Leave, StateTyped, SinkTypeOK, txVars, None
<1>20. CASE DeadlockAborts
  <2>1. request \in Products
    BY <1>20, <1>i DEF DeadlockAborts, Deadlocked, InTx, Scoped
  <2>2. CASE TxRefused
    BY <1>20, <1>i, <2>1, <2>2, OverTyped DEF DeadlockAborts, TxRefused, StateTyped, SinkTypeOK, sweepVars
  <2>3. CASE SweepOver /\ Leave("sweep")
             /\ UNCHANGED <<incidents, stored, fate, now, pool, pools, txVars, sweepTime>>
    BY <1>20, <1>i, <2>3, OverTyped DEF DeadlockAborts, StateTyped, SinkTypeOK, txVars
  <2>4. QED
    BY <1>20, <2>2, <2>3 DEF DeadlockAborts
<1>21. CASE Tick
  BY <1>21, <1>i DEF Tick, StateTyped, SinkTypeOK, clientVars, txVars, sweepVars, Times
<1>22. CASE UNCHANGED sinkVars
  BY <1>22, <1>i DEF sinkVars, StateTyped, SinkTypeOK, clientVars, txVars, sweepVars
<1>23. CASE ConnectRefused
  <2>1. request \in Products
    BY <1>23, <1>i DEF ConnectRefused, Scoped
  <2>2. QED
    BY <1>23, <1>i, <2>1, OverTyped DEF ConnectRefused, StateTyped, SinkTypeOK, sweepVars
<1>24. QED
  BY <1>1, <1>2, <1>3, <1>4, <1>5, <1>6, <1>7, <1>8, <1>9, <1>10, <1>11, <1>12, <1>13, <1>14,
     <1>15, <1>16, <1>17, <1>18, <1>19, <1>20, <1>21, <1>22, <1>23 DEF SinkNext, WorkerSteps, Sweep

-----------------------------------------------------------------------------
(* Pools and connections *)

\* A call lets go of its pool, and after an error the cached pool is dropped.
LetsGo(c) == /\ Leave(c) /\ UNCHANGED pools
             /\ \/ UNCHANGED pool /\ (UNCHANGED faults \/ Fault)
                \/ pool' = None /\ Fault

ClientMoves(c) == \/ (EnsurePool(c) \/ Open(c)) /\ UNCHANGED faults
                  \/ PoolMade(c)
                  \/ LetsGo(c)

\* What a step does to the pools and to whoever uses them.
LEMMA ClientStep ==
    ASSUME [SinkNext]_sinkVars
    PROVE  (\E c \in Clients : ClientMoves(c)) \/ UNCHANGED <<clientVars, faults>>
<1> USE Others
<1>1. CASE \E p \in Products : TakeRequest(p)
  BY <1>1 DEF TakeRequest
<1>2. CASE PrepareFails \/ UpsertReads \/ UpsertSkips \/ UpsertWrites
  BY <1>2 DEF PrepareFails, UpsertReads, UpsertSkips, UpsertWrites
<1>3. CASE Persist \/ SweepStarts
  BY <1>3 DEF Persist, SweepStarts, ClientMoves
<1>4. CASE PoolMade("worker") \/ PoolMade("sweep")
  BY <1>4 DEF ClientMoves
<1>5. CASE TxBegins \/ SweepFinds
  BY <1>5 DEF TxBegins, SweepFinds, ClientMoves
<1>6. CASE Commit \/ SweepCommits
  BY <1>6 DEF Commit, SweepCommits, ClientMoves, LetsGo
<1>7. CASE \E k \in Keys : SweepLocks(k)
  BY <1>7 DEF SweepLocks
<1>8. CASE (\E c \in Clients : ConnectFails(c) \/ AcquireTimesOut(c)) \/ ConnectRefused
  BY <1>8 DEF ConnectFails, ConnectRefused, AcquireTimesOut, HandleRuntimeError, ClientMoves, LetsGo
<1>9. CASE CommitReplyLost \/ TxBreaks \/ SweepBreaks
  BY <1>9 DEF CommitReplyLost, TxBreaks, SweepBreaks, HandleRuntimeError, ClientMoves, LetsGo
<1>10. CASE TxTerminated \/ DeadlockAborts
  BY <1>10 DEF TxTerminated, DeadlockAborts, TxRefused, ClientMoves, LetsGo
<1>11. CASE Tick
  BY <1>11 DEF Tick
<1>12. CASE UNCHANGED sinkVars
  BY <1>12 DEF sinkVars
<1>13. QED
  BY <1>1, <1>2, <1>3, <1>4, <1>5, <1>6, <1>7, <1>8, <1>9, <1>10, <1>11, <1>12 DEF SinkNext, WorkerSteps, Sweep

\* There are never more pools than errors and one, and two that share a pool
\* never have a connection at once.
LEMMA PoolStep == SinkInv /\ [SinkNext]_sinkVars => PoolsCounted' /\ ConnectionsApart'
<1> SUFFICES ASSUME SinkInv, [SinkNext]_sinkVars PROVE PoolsCounted' /\ ConnectionsApart'
  OBVIOUS
<1> USE Others
<1>i. PoolsCounted /\ ConnectionsApart
  BY DEF SinkInv
<1>t. /\ pools \in Nat /\ pool \in Nat /\ faults \in Nat
      /\ pc \in [Clients -> {"idle", "connecting", "waiting", "open"}]
      /\ using \in [Clients -> 0..pools]
  BY Constants DEF SinkInv, StateTyped, SinkTypeOK
<1>1. CASE UNCHANGED <<clientVars, faults>>
  BY <1>1, <1>i DEF clientVars, PoolsCounted, ConnectionsApart, InTx, InSweep
<1>2. ASSUME NEW c \in Clients, ClientMoves(c) PROVE PoolsCounted' /\ ConnectionsApart'
  <2>1. CASE EnsurePool(c) /\ UNCHANGED faults
    BY <2>1, <1>i, <1>t DEF EnsurePool, PoolsCounted, ConnectionsApart, InTx, InSweep, None
  <2>2. CASE Open(c) /\ UNCHANGED faults
    <3>1. PoolsCounted'
      BY <2>2, <1>i DEF Open, PoolsCounted
    <3>2. \A d \in Clients : pc'[d] \in {"waiting", "open"} => using'[d] # None
      BY <2>2, <1>i, <1>t DEF Open, ConnectionsApart
    <3>3. InTx' /\ InSweep' => using'["worker"] # using'["sweep"]
      BY <2>2, <1>i, <1>t DEF Open, ConnectionFree, ConnectionsApart, InTx, InSweep
    <3>4. QED
      BY <3>1, <3>2, <3>3 DEF ConnectionsApart
  <2>3. CASE PoolMade(c)
    <3>1. PoolsCounted'
      BY <2>3, <1>i, <1>t DEF PoolMade, PoolsCounted, None
    <3>2. \A d \in Clients : pc'[d] \in {"waiting", "open"} => using'[d] # None
      BY <2>3, <1>i, <1>t DEF PoolMade, ConnectionsApart, None
    <3>3. InTx' /\ InSweep' => using'["worker"] # using'["sweep"]
      BY <2>3, <1>i, <1>t DEF PoolMade, ConnectionsApart, InTx, InSweep
    <3>4. QED
      BY <3>1, <3>2, <3>3 DEF ConnectionsApart
  <2>4. CASE LetsGo(c)
    <3>1. PoolsCounted'
      BY <2>4, <1>i, <1>t DEF LetsGo, Fault, PoolsCounted, None
    <3>2. ConnectionsApart'
      BY <2>4, <1>i, <1>t DEF LetsGo, Leave, ConnectionsApart, InTx, InSweep
    <3>3. QED
      BY <3>1, <3>2
  <2>5. QED
    BY <1>2, <2>1, <2>2, <2>3, <2>4 DEF ClientMoves
<1>3. QED
  BY <1>1, <1>2, ClientStep

-----------------------------------------------------------------------------
(* Locks *)

\* Nothing outlives its transaction, and rows are written under their lock.
LEMMA ScopeStep == SinkInv /\ [SinkNext]_sinkVars => Scoped' /\ Locked'
<1> SUFFICES ASSUME SinkInv, [SinkNext]_sinkVars PROVE Scoped' /\ Locked'
  OBVIOUS
<1> USE Others
<1>i. SinkTypeOK /\ Scoped /\ Locked
  BY DEF SinkInv, StateTyped
<1>1. ASSUME NEW p \in Products, TakeRequest(p) PROVE Scoped' /\ Locked'
  BY <1>1, <1>i, Constants DEF TakeRequest, clientVars, sweepVars, SinkTypeOK, Scoped, Locked, InTx, InSweep
<1>2. CASE PrepareFails
  BY <1>2, <1>i DEF PrepareFails, Settled, clientVars, sweepVars, SinkTypeOK, Scoped, Locked, InTx, InSweep
<1>3. CASE Persist
  BY <1>3, <1>i DEF Persist, EnsurePool, txVars, sweepVars, SinkTypeOK, Scoped, Locked, InTx, InSweep
<1>4. ASSUME NEW c \in Clients, PoolMade(c) PROVE Scoped' /\ Locked'
  BY <1>4, <1>i DEF PoolMade, txVars, sweepVars, SinkTypeOK, Scoped, Locked, InTx, InSweep
<1>5. CASE TxBegins
  BY <1>5, <1>i DEF TxBegins, Open, sweepVars, SinkTypeOK, Scoped, Locked, InTx, InSweep
<1>6. CASE UpsertReads
  BY <1>6, <1>i DEF UpsertReads, clientVars, sweepVars, SinkTypeOK, Scoped, Locked, InTx, InSweep
<1>7. CASE UpsertSkips
  BY <1>7, <1>i DEF UpsertSkips, clientVars, sweepVars, SinkTypeOK, Scoped, Locked, InTx, InSweep
<1>8. CASE UpsertWrites
  BY <1>8, <1>i DEF UpsertWrites, clientVars, sweepVars, SinkTypeOK, Scoped, Locked, InTx, InSweep
<1>9. CASE Commit
  BY <1>9, <1>i DEF Commit, Committed, TxOver, Settled, Leave, Released, NoWrites, sweepVars, SinkTypeOK, Scoped, Locked, InTx, InSweep
<1>10. CASE SweepStarts
  BY <1>10, <1>i DEF SweepStarts, EnsurePool, txVars, SinkTypeOK, Scoped, Locked, InTx, InSweep
<1>11. CASE SweepFinds
  BY <1>11, <1>i DEF SweepFinds, Open, txVars, SinkTypeOK, Scoped, Locked, InTx, InSweep
<1>12. ASSUME NEW k \in Keys, SweepLocks(k) PROVE Scoped' /\ Locked'
  BY <1>12, <1>i DEF SweepLocks, clientVars, txVars, SinkTypeOK, Scoped, Locked, InTx, InSweep
<1>13. CASE SweepCommits
  BY <1>13, <1>i DEF SweepCommits, SweepOver, Leave, Released, txVars, SinkTypeOK, Scoped, Locked, InTx, InSweep
<1>14. ASSUME NEW c \in Clients, ConnectFails(c) PROVE Scoped' /\ Locked'
  BY <1>14, <1>i DEF ConnectFails, Leave, txVars, sweepVars, SinkTypeOK, Scoped, Locked, InTx, InSweep
<1>15. ASSUME NEW c \in Clients, AcquireTimesOut(c) PROVE Scoped' /\ Locked'
  BY <1>15, <1>i DEF AcquireTimesOut, HandleRuntimeError, Leave, txVars, sweepVars, SinkTypeOK, Scoped, Locked, InTx, InSweep
<1>16. CASE CommitReplyLost
  BY <1>16, <1>i DEF CommitReplyLost, Committed, TxOver, HandleRuntimeError, Leave, Released, NoWrites, sweepVars, SinkTypeOK, Scoped, Locked, InTx, InSweep
<1>17. CASE TxBreaks
  BY <1>17, <1>i DEF TxBreaks, TxOver, HandleRuntimeError, Leave, Released, NoWrites, sweepVars, SinkTypeOK, Scoped, Locked, InTx, InSweep
<1>18. CASE TxTerminated
  BY <1>18, <1>i DEF TxTerminated, TxRefused, TxOver, Settled, Leave, Released, NoWrites, sweepVars, SinkTypeOK, Scoped, Locked, InTx, InSweep
<1>19. CASE SweepBreaks
  BY <1>19, <1>i DEF SweepBreaks, SweepOver, HandleRuntimeError, Leave, Released, txVars, SinkTypeOK, Scoped, Locked, InTx, InSweep
<1>20. CASE DeadlockAborts
  BY <1>20, <1>i DEF DeadlockAborts, Deadlocked, TxRefused, TxOver, SweepOver, Settled, Leave, Released, NoWrites, txVars, sweepVars, SinkTypeOK, Scoped, Locked, InTx, InSweep
<1>21. CASE Tick
  BY <1>21, <1>i DEF Tick, clientVars, txVars, sweepVars, SinkTypeOK, Scoped, Locked, InTx, InSweep
<1>22. CASE UNCHANGED sinkVars
  BY <1>22, <1>i DEF sinkVars, clientVars, txVars, sweepVars, SinkTypeOK, Scoped, Locked, InTx, InSweep
<1>23. CASE ConnectRefused
  BY <1>23, <1>i DEF ConnectRefused, Settled, Leave, sweepVars, SinkTypeOK, Scoped, Locked, InTx, InSweep
<1>24. QED
  BY <1>1, <1>2, <1>3, <1>4, <1>5, <1>6, <1>7, <1>8, <1>9, <1>10, <1>11, <1>12, <1>13, <1>14,
     <1>15, <1>16, <1>17, <1>18, <1>19, <1>20, <1>21, <1>22, <1>23 DEF SinkNext, WorkerSteps, Sweep

\* The incidents the sweep expires stay due until it commits.
LEMMA ExpiringStep == SinkInv /\ [SinkNext]_sinkVars => ExpiringPast'
<1> SUFFICES ASSUME SinkInv, [SinkNext]_sinkVars PROVE ExpiringPast'
  OBVIOUS
<1> USE Others
<1>i. ExpiringPast /\ Scoped /\ Locked /\ now \in Nat /\ sweepTime \in Nat /\ expiring \subseteq Keys
  BY Constants DEF SinkInv, StateTyped, SinkTypeOK
<1>1. CASE UNCHANGED <<incidents, sweepVars>> /\ now' \in {now, now + 1}
  BY <1>1, <1>i DEF sweepVars, ExpiringPast
<1>2. CASE Committed /\ UNCHANGED <<sweepVars, now>>
  BY <1>2, <1>i DEF Committed, sweepVars, ExpiringPast, Locked
<1>3. CASE SweepStarts
  BY <1>3, <1>i DEF SweepStarts, EnsurePool, Scoped, InSweep, ExpiringPast
<1>4. CASE SweepFinds
  BY <1>4, <1>i DEF SweepFinds, ExpiringPast
<1>5. ASSUME NEW k \in Keys, SweepLocks(k) PROVE ExpiringPast'
  BY <1>5, <1>i DEF SweepLocks, ExpiringPast
<1>6. CASE SweepOver /\ UNCHANGED <<sweepTime, now>>
  BY <1>6, <1>i DEF SweepOver, ExpiringPast
<1>7. CASE (\E p \in Products : TakeRequest(p)) \/ PrepareFails \/ Persist \/ ConnectRefused
  BY <1>1, <1>7 DEF TakeRequest, PrepareFails, Persist, ConnectRefused
<1>8. CASE \E c \in Clients : PoolMade(c) \/ ConnectFails(c) \/ AcquireTimesOut(c)
  BY <1>1, <1>8 DEF PoolMade, ConnectFails, AcquireTimesOut
<1>9. CASE TxBegins \/ UpsertReads \/ UpsertSkips \/ UpsertWrites
  BY <1>1, <1>9 DEF TxBegins, UpsertReads, UpsertSkips, UpsertWrites
<1>10. CASE Commit \/ CommitReplyLost
  BY <1>2, <1>10 DEF Commit, CommitReplyLost
<1>11. CASE TxBreaks \/ TxTerminated
  BY <1>1, <1>11 DEF TxBreaks, TxTerminated, TxRefused
<1>12. CASE SweepCommits \/ SweepBreaks
  BY <1>6, <1>12 DEF SweepCommits, SweepBreaks
<1>13. CASE DeadlockAborts
  BY <1>1, <1>6, <1>13 DEF DeadlockAborts, TxRefused
<1>14. CASE Tick
  BY <1>1, <1>14 DEF Tick
<1>15. CASE UNCHANGED sinkVars
  BY <1>1, <1>15 DEF sinkVars
<1>16. QED
  BY <1>3, <1>4, <1>5, <1>7, <1>8, <1>9, <1>10, <1>11, <1>12, <1>13, <1>14, <1>15 DEF SinkNext, WorkerSteps, Sweep

-----------------------------------------------------------------------------
(* What a step does to rows and transaction *)

\* Nothing of them changes, but a pool may be made.
OtherMoves == /\ UNCHANGED <<incidents, stored, txVars>>
              /\ InTx' <=> InTx
              /\ UNCHANGED pools \/ pools' = pools + 1

\* The worker turns to a product or is done with it.
BetweenCalls == /\ UNCHANGED <<incidents, stored, todo, existing, writes, pools>>
                /\ ~InTx /\ ~InTx'

Aborts == /\ TxOver
          /\ UNCHANGED <<incidents, stored, pools>>
          /\ ~InTx'

Commits == Committed /\ UNCHANGED pools /\ ~InTx'

LEMMA DataStep ==
    ASSUME SinkInv, [SinkNext]_sinkVars
    PROVE  \/ OtherMoves \/ BetweenCalls \/ Aborts \/ Commits
           \/ TxBegins \/ UpsertReads \/ UpsertSkips \/ UpsertWrites \/ SweepCommits
<1> USE Others
<1>i. Scoped /\ pc \in [Clients -> {"idle", "connecting", "waiting", "open"}]
  BY DEF SinkInv, StateTyped, SinkTypeOK
<1>1. CASE (\E p \in Products : TakeRequest(p)) \/ PrepareFails \/ ConnectRefused
  BY <1>1, <1>i, Constants
  DEF TakeRequest, PrepareFails, ConnectRefused, Leave, BetweenCalls, clientVars, Scoped, InTx
<1>2. CASE Persist \/ SweepStarts
  BY <1>2, <1>i DEF Persist, SweepStarts, EnsurePool, OtherMoves, InTx
<1>3. ASSUME NEW c \in Clients, PoolMade(c) PROVE OtherMoves
  BY <1>3, <1>i DEF PoolMade, OtherMoves, InTx
<1>4. ASSUME NEW c \in Clients, ConnectFails(c) \/ AcquireTimesOut(c) PROVE OtherMoves
  BY <1>4, <1>i DEF ConnectFails, AcquireTimesOut, HandleRuntimeError, Leave, OtherMoves, InTx
<1>5. CASE SweepFinds \/ SweepBreaks
  BY <1>5, <1>i DEF SweepFinds, Open, SweepBreaks, HandleRuntimeError, Leave, OtherMoves, InTx
<1>6. CASE \E k \in Keys : SweepLocks(k)
  BY <1>6, <1>i DEF SweepLocks, clientVars, OtherMoves, InTx
<1>7. CASE Commit \/ CommitReplyLost
  BY <1>7, <1>i DEF Commit, CommitReplyLost, HandleRuntimeError, Leave, Commits, InTx
<1>8. CASE TxBreaks \/ TxTerminated
  BY <1>8, <1>i DEF TxBreaks, TxTerminated, TxRefused, HandleRuntimeError, Leave, Aborts, InTx
<1>9. CASE DeadlockAborts
  BY <1>9, <1>i DEF DeadlockAborts, TxRefused, Leave, Aborts, OtherMoves, InTx
<1>10. CASE Tick \/ UNCHANGED sinkVars
  BY <1>10 DEF Tick, sinkVars, clientVars, OtherMoves, InTx
<1>11. QED
  BY <1>1, <1>2, <1>3, <1>4, <1>5, <1>6, <1>7, <1>8, <1>9, <1>10 DEF SinkNext, WorkerSteps, Sweep

-----------------------------------------------------------------------------
(* The rows *)

\* The row an upsert leaves is true of the product or of one stored before,
\* is as new as the product, and may take the place of the row it found.
LEMMA UpsertSound ==
    ASSUME incidents \in [Keys -> Row], request \in Products, existing \in MaybeStatuses,
           NEW k \in Touched(request),
           incidents[k] # NoRow => RowTrue(incidents[k], k, stored),
           existing = incidents[k].status \/ (pools # 1 /\ incidents[k].status = "expired")
    PROVE  /\ RowTrue(Upserted(k), k, stored \cup {request})
           /\ Upserted(k).stamp >= Stamp[request]
           /\ incidents[k] # NoRow => Succeeds(k, incidents[k], Upserted(k), pools = 1)
<1> DEFINE u   == Updates[request][k]
           row == [status |-> Excluded(u), action |-> u.action, end |-> u.end,
                   stamp |-> Stamp[request], latest |-> request,
                   first |-> IF incidents[k] = NoRow THEN request ELSE incidents[k].first]
<1>1. k \in Keys /\ incidents[k] \in Row
  BY UpdateType
<1>2. incidents[k].stamp \in Nat /\ Stamp[request] \in Nat
  BY <1>1, RowFields, Constants
<1>3. CASE incidents[k] = NoRow \/ Stamp[request] >= incidents[k].stamp
  <2>1. Upserted(k) = row
    BY <1>3 DEF Upserted
  <2>2. /\ row.status = Excluded(u) /\ row.action = u.action /\ row.end = u.end
        /\ row.stamp = Stamp[request] /\ row.latest = request
        /\ row.first = IF incidents[k] = NoRow THEN request ELSE incidents[k].first
    OBVIOUS
  <2> HIDE DEF row
  <2>3. RowTrue(row, k, stored \cup {request})
    BY <2>2 DEF RowTrue, Excluded
  <2>4. ASSUME incidents[k] # NoRow PROVE Succeeds(k, incidents[k], row, pools = 1)
    <3>1. KeepsOrigin(incidents[k], row)
      BY <1>3, <2>2, <2>4 DEF KeepsOrigin
    <3>2. incidents[k].status = "active" /\ row.status = "expired" => row.latest # incidents[k].latest
      BY <2>2, <2>4 DEF RowTrue, Excluded
    <3>3. pools = 1 /\ row.latest # incidents[k].latest /\ ~Speaks(row.latest, k)
            => row.status = incidents[k].status
      BY <2>2 DEF Speaks, Excluded
    <3>4. QED
      BY <3>1, <3>2, <3>3 DEF Succeeds
  <2>5. QED
    BY <1>2, <2>1, <2>2, <2>3, <2>4
<1>4. CASE ~(incidents[k] = NoRow \/ Stamp[request] >= incidents[k].stamp)
  <2>1. Upserted(k) = incidents[k]
    BY <1>4 DEF Upserted
  <2>2. RowTrue(incidents[k], k, stored \cup {request})
    BY <1>4 DEF RowTrue
  <2>3. Succeeds(k, incidents[k], incidents[k], pools = 1)
    BY <1>2 DEF Succeeds, KeepsOrigin
  <2>4. QED
    BY <1>2, <1>4, <2>1, <2>2, <2>3
<1>5. QED
  BY <1>3, <1>4

\* A sweep and a transaction that are open at once use two pools.
LEMMA TwoPools == SinkInv /\ InTx /\ InSweep => pools # 1
<1> SUFFICES ASSUME SinkInv, InTx, InSweep PROVE pools # 1
  OBVIOUS
<1>1. /\ using["worker"] \in 0..pools /\ using["sweep"] \in 0..pools
      /\ using["worker"] # None /\ using["sweep"] # None /\ using["worker"] # using["sweep"]
  BY Others DEF SinkInv, StateTyped, SinkTypeOK, ConnectionsApart, InTx, InSweep
<1>2. QED
  BY <1>1 DEF None

\* A transaction has a pool.
LEMMA TxHasPool == SinkInv /\ InTx => pools \in Nat /\ pools >= 1 /\ request \in Products
<1> SUFFICES ASSUME SinkInv, InTx PROVE pools \in Nat /\ pools >= 1 /\ request \in Products
  OBVIOUS
<1>1. using["worker"] \in 0..pools /\ using["worker"] # None /\ pools \in Nat
  BY Others, Constants DEF SinkInv, StateTyped, SinkTypeOK, ConnectionsApart, InTx
<1>2. request \in Products
  BY DEF SinkInv, Scoped, InTx
<1>3. QED
  BY <1>1, <1>2 DEF None

\* No incident the request gives a status is passed over.
LEMMA TodoStep == SinkInv /\ [SinkNext]_sinkVars => TodoCovers'
<1> SUFFICES ASSUME SinkInv, [SinkNext]_sinkVars PROVE TodoCovers'
  OBVIOUS
<1>i. TodoCovers /\ Scoped /\ todo \in Seq(Keys)
  BY DEF SinkInv, StateTyped, SinkTypeOK
<1>1. CASE OtherMoves
  BY <1>1, <1>i DEF OtherMoves, txVars, TodoCovers
<1>2. CASE BetweenCalls \/ Aborts \/ Commits
  BY <1>2 DEF BetweenCalls, Aborts, Commits, TodoCovers
<1>3. CASE TxBegins
  <2>1. request \in Products
    BY <1>3, <1>i DEF TxBegins, Open, Scoped
  <2>2. Members(todo') = Touched(request) /\ request' = request
    BY <1>3, <2>1, TouchedKeys, InOrderLists DEF TxBegins
  <2>3. QED
    BY <2>2 DEF TodoCovers
<1>4. CASE UpsertReads
  BY <1>4, <1>i DEF UpsertReads, clientVars, TodoCovers, InTx
<1>t. ASSUME todo # <<>>, todo' = Tail(todo)
      PROVE  /\ Members(todo') \subseteq Members(todo)
             /\ Members(todo) \subseteq Members(todo') \cup {Head(todo)}
  <2>1. /\ Len(todo) \in Nat /\ Len(todo) >= 1 /\ Len(todo') = Len(todo) - 1
        /\ \A i \in 1..(Len(todo) - 1) : todo'[i] = todo[i + 1]
    BY <1>t, <1>i
  <2>2. \A i \in 1..Len(todo') : todo'[i] = todo[i + 1] /\ i + 1 \in 1..Len(todo)
    BY <2>1
  <2>3. ASSUME NEW i \in 1..Len(todo), todo[i] # Head(todo) PROVE todo[i] \in Members(todo')
    <3>1. i # 1
      BY <2>3, <1>t, <1>i
    <3>2. i - 1 \in 1..Len(todo') /\ todo'[i - 1] = todo[i]
      BY <2>1, <3>1
    <3>3. QED
      BY <3>2, Zenon DEF Members
  <2>4. QED
    BY <2>2, <2>3 DEF Members
<1>5. CASE UpsertSkips
  <2>1. todo # <<>>
    BY <1>5, <1>i DEF UpsertSkips, Scoped, NoStatus
  <2>2. QED
    BY <1>5, <1>i, <1>t, <2>1 DEF UpsertSkips, clientVars, TodoCovers, InTx
<1>6. CASE UpsertWrites
  <2>1. todo # <<>>
    BY <1>6, <1>i DEF UpsertWrites, Scoped
  <2>2. DOMAIN writes' = DOMAIN writes \cup {Head(todo)}
    BY <1>6 DEF UpsertWrites
  <2>3. QED
    BY <1>6, <1>i, <1>t, <2>1, <2>2 DEF UpsertWrites, clientVars, TodoCovers, InTx
<1>7. CASE SweepCommits
  BY <1>7, <1>i, Others DEF SweepCommits, Leave, txVars, TodoCovers, InTx, SinkInv, StateTyped, SinkTypeOK
<1>8. QED
  BY <1>1, <1>2, <1>3, <1>4, <1>5, <1>6, <1>7, DataStep

\* What the sweep leaves of the rows.
LEMMA SweptRows ==
    ASSUME SinkInv, SweepCommits, NEW k \in Keys
    PROVE  \/ k \notin expiring /\ incidents'[k] = incidents[k]
           \/ /\ k \in expiring /\ incidents[k] # NoRow /\ Past(incidents[k], sweepTime)
              /\ incidents'[k].status = "expired" /\ incidents'[k].action = incidents[k].action
              /\ incidents'[k].end = incidents[k].end /\ incidents'[k].stamp = incidents[k].stamp
              /\ incidents'[k].first = incidents[k].first /\ incidents'[k].latest = incidents[k].latest
<1>1. incidents[k] \in Row
  BY DEF SinkInv, StateTyped
<1>2. incidents'[k] = IF k \in expiring THEN [incidents[k] EXCEPT !.status = "expired"] ELSE incidents[k]
  BY DEF SweepCommits
<1>3. CASE k \in expiring
  <2>1. Past(incidents[k], sweepTime)
    BY <1>3 DEF SinkInv, ExpiringPast
  <2>2. incidents[k] # NoRow
    BY <2>1 DEF Past, NoRow, NoStatus
  <2>3. QED
    BY <1>1, <1>2, <1>3, <2>1, <2>2 DEF Row
<1>4. QED
  BY <1>2, <1>3

\* What the worker has read stays true of the row until it is written.
LEMMA ReadStep == SinkInv /\ [SinkNext]_sinkVars => ReadTrue'
<1> SUFFICES ASSUME SinkInv, [SinkNext]_sinkVars PROVE ReadTrue'
  OBVIOUS
<1>i. ReadTrue /\ Scoped /\ todo \in Seq(Keys)
  BY DEF SinkInv, StateTyped, SinkTypeOK
<1>1. CASE OtherMoves
  <2>1. existing # "unread" => pools \in Nat /\ pools >= 1
    BY <1>i, TxHasPool DEF Scoped
  <2>2. existing # "unread" /\ pools # 1 => pools' # 1
    BY <1>1, <2>1 DEF OtherMoves
  <2>3. QED
    BY <1>1, <1>i, <2>2 DEF OtherMoves, txVars, ReadTrue
<1>2. CASE BetweenCalls \/ TxBegins
  BY <1>2, <1>i DEF BetweenCalls, TxBegins, Open, Scoped, InTx, ReadTrue
<1>3. CASE Aborts \/ Commits \/ UpsertSkips \/ UpsertWrites
  BY <1>3 DEF Aborts, Commits, Committed, TxOver, UpsertSkips, UpsertWrites, ReadTrue
<1>4. CASE UpsertReads
  BY <1>4 DEF UpsertReads, ReadTrue
<1>5. CASE SweepCommits
  <2> SUFFICES ASSUME existing' # "unread"
               PROVE  \/ existing' = incidents'[Head(todo')].status
                      \/ pools' # 1 /\ incidents'[Head(todo')].status = "expired"
    BY DEF ReadTrue
  <2>1. UNCHANGED <<existing, todo, pools>> /\ InSweep
    BY <1>5 DEF SweepCommits, txVars
  <2>2. InTx /\ Head(todo) \in Keys
    BY <1>i, <2>1 DEF Scoped
  <2>3. pools # 1
    BY <2>1, <2>2, TwoPools
  <2>4. incidents'[Head(todo)].status \in {incidents[Head(todo)].status, "expired"}
    BY <1>5, <2>2, SweptRows
  <2>5. QED
    BY <1>i, <2>1, <2>3, <2>4 DEF ReadTrue
<1>6. QED
  BY <1>1, <1>2, <1>3, <1>4, <1>5, DataStep

\* Every row the transaction wrote is true, new enough and fit to be committed.
LEMMA WritesStep == SinkInv /\ [SinkNext]_sinkVars => WritesTrue'
<1> SUFFICES ASSUME SinkInv, [SinkNext]_sinkVars PROVE WritesTrue'
  OBVIOUS
<1>i. /\ WritesTrue /\ Scoped /\ Locked /\ TodoCovers /\ RowsTrue /\ ReadTrue
      /\ todo \in Seq(Keys) /\ incidents \in [Keys -> Row]
      /\ existing \in MaybeStatuses \cup {"unread"}
      /\ DOMAIN writes \subseteq Keys
  BY DEF SinkInv, StateTyped, SinkTypeOK, MaybeStatuses
<1>1. CASE OtherMoves
  <2> SUFFICES ASSUME NEW k \in DOMAIN writes
               PROVE  /\ RowTrue(writes[k], k, stored \cup {request})
                      /\ writes[k].stamp >= Stamp[request]
                      /\ incidents[k] # NoRow => Succeeds(k, incidents[k], writes[k], pools' = 1)
    BY <1>1 DEF OtherMoves, txVars, WritesTrue
  <2>1. pools \in Nat /\ pools >= 1
    BY <1>i, TxHasPool DEF Scoped
  <2>2. pools' = 1 => pools = 1
    BY <1>1, <2>1 DEF OtherMoves
  <2>3. QED
    BY <1>i, <2>2 DEF WritesTrue, Succeeds
<1>2. CASE BetweenCalls
  BY <1>2, <1>i DEF BetweenCalls, Scoped, WritesTrue
<1>3. CASE Aborts \/ Commits
  BY <1>3 DEF Aborts, Commits, Committed, TxOver, NoWrites, WritesTrue
<1>4. CASE TxBegins
  BY <1>4, <1>i DEF TxBegins, Open, Scoped, InTx, WritesTrue
<1>5. CASE UpsertReads \/ UpsertSkips
  BY <1>5, <1>i DEF UpsertReads, UpsertSkips, clientVars, WritesTrue
<1>6. CASE UpsertWrites
  <2> DEFINE h == Head(todo)
  <2>1. todo # <<>> /\ existing \in MaybeStatuses
    BY <1>6, <1>i DEF UpsertWrites, Scoped
  <2>2. h \in Keys /\ h \in Members(todo)
    BY <1>i, <2>1 DEF Members
  <2>3. h \in Touched(request) /\ request \in Products
    BY <1>6, <1>i, <2>2, TxHasPool DEF TodoCovers, UpsertWrites
  <2>4. existing = incidents[h].status \/ (pools # 1 /\ incidents[h].status = "expired")
    BY <1>6, <1>i DEF ReadTrue, UpsertWrites
  <2>5. incidents[h] # NoRow => RowTrue(incidents[h], h, stored)
    BY <1>i, <2>2 DEF RowsTrue
  <2> HIDE DEF h
  <2>6. /\ RowTrue(Upserted(h), h, stored \cup {request})
        /\ Upserted(h).stamp >= Stamp[request]
        /\ incidents[h] # NoRow => Succeeds(h, incidents[h], Upserted(h), pools = 1)
    BY <1>i, <2>1, <2>3, <2>4, <2>5, UpsertSound
  <2>7. /\ UNCHANGED <<incidents, stored, request, pools>>
        /\ writes' = [j \in DOMAIN writes \cup {h} |-> IF j = h THEN Upserted(h) ELSE writes[j]]
    BY <1>6 DEF UpsertWrites, clientVars, h
  <2>8. DOMAIN writes' = DOMAIN writes \cup {h}
    BY <2>7
  <2>9. ASSUME NEW k \in DOMAIN writes'
        PROVE  /\ RowTrue(writes'[k], k, stored \cup {request})
               /\ writes'[k].stamp >= Stamp[request]
               /\ incidents[k] # NoRow => Succeeds(k, incidents[k], writes'[k], pools = 1)
    <3>1. CASE k = h
      BY <2>6, <2>7, <3>1
    <3>2. CASE k # h
      <4>1. k \in DOMAIN writes /\ writes'[k] = writes[k]
        BY <2>7, <2>8, <3>2
      <4>2. QED
        BY <1>i, <4>1 DEF WritesTrue
    <3>3. QED
      BY <3>1, <3>2
  <2>10. QED
    BY <2>7, <2>9 DEF WritesTrue
<1>7. CASE SweepCommits
  <2>1. UNCHANGED <<stored, request, writes, pools>>
    BY <1>7 DEF SweepCommits, txVars
  <2>2. ASSUME NEW k \in DOMAIN writes PROVE incidents'[k] = incidents[k]
    BY <1>7, <1>i, SweptRows DEF Locked
  <2>3. QED
    BY <1>i, <2>1, <2>2 DEF WritesTrue
<1>8. QED
  BY <1>1, <1>2, <1>3, <1>4, <1>5, <1>6, <1>7, DataStep

\* What a commit leaves of a row: the row it wrote, or the row there was.
LEMMA CommittedRows ==
    ASSUME SinkInv, Committed, NEW k \in Keys
    PROVE  /\ request \in Products /\ stored' = stored \cup {request}
           /\ \/ k \notin DOMAIN writes /\ incidents'[k] = incidents[k]
              \/ /\ k \in DOMAIN writes /\ incidents'[k] = writes[k]
                 /\ RowTrue(writes[k], k, stored')
                 /\ writes[k].stamp >= Stamp[request]
                 /\ incidents[k] # NoRow => Succeeds(k, incidents[k], writes[k], pools = 1)
<1>1. request \in Products /\ stored' = stored \cup {request}
  BY TxHasPool DEF Committed
<1>2. QED
  BY <1>1 DEF Committed, SinkInv, WritesTrue

\* Rows are what a stored product says, and no older than any that speaks.
LEMMA IncidentsStep == SinkInv /\ [SinkNext]_sinkVars => RowsTrue' /\ StaleRejected'
<1> SUFFICES ASSUME SinkInv, [SinkNext]_sinkVars PROVE RowsTrue' /\ StaleRejected'
  OBVIOUS
<1>i. /\ RowsTrue /\ StaleRejected /\ incidents \in [Keys -> Row]
      /\ stored \subseteq Products /\ DOMAIN writes \subseteq Keys
  BY DEF SinkInv, StateTyped, SinkTypeOK
<1>1. CASE UNCHANGED <<incidents, stored>>
  BY <1>1, <1>i DEF RowsTrue, StaleRejected
<1>2. CASE Committed
  <2>1. RowsTrue'
    <3> SUFFICES ASSUME NEW k \in Keys, incidents'[k] # NoRow PROVE RowTrue(incidents'[k], k, stored')
      BY DEF RowsTrue
    <3>1. CASE k \notin DOMAIN writes /\ incidents'[k] = incidents[k]
      BY <1>2, <1>i, <3>1, CommittedRows DEF RowsTrue, RowTrue
    <3>2. CASE incidents'[k] = writes[k] /\ RowTrue(writes[k], k, stored')
      BY <3>2
    <3>3. QED
      BY <1>2, <3>1, <3>2, CommittedRows
  <2>2. StaleRejected'
    <3> SUFFICES ASSUME NEW p \in stored', NEW k \in Keys, Speaks(p, k)
                 PROVE  incidents'[k].stamp >= Stamp[p]
      BY DEF StaleRejected
    <3>1. /\ request \in Products /\ stored' = stored \cup {request}
          /\ \/ k \notin DOMAIN writes /\ incidents'[k] = incidents[k]
             \/ /\ k \in DOMAIN writes /\ incidents'[k] = writes[k]
                /\ writes[k].stamp >= Stamp[request]
                /\ incidents[k] # NoRow => Succeeds(k, incidents[k], writes[k], pools = 1)
      BY <1>2, CommittedRows
    <3>2. CASE p = request
      <4>1. todo = <<>> /\ Members(todo) = {} /\ InTx
        BY <1>2 DEF Committed, Members
      <4>2. k \in DOMAIN writes
        BY <3>2, <4>1 DEF SinkInv, TodoCovers, Speaks
      <4>3. QED
        BY <3>1, <3>2, <4>2
    <3>3. CASE p \in stored
      <4>1. incidents[k].stamp >= Stamp[p] /\ Stamp[p] \in Nat /\ Stamp[p] >= 1
        BY <1>i, <3>3, Constants DEF StaleRejected, Times
      <4>2. incidents[k] \in Row /\ incidents[k].stamp \in Nat
        BY <1>i, RowFields
      <4>3. incidents[k] # NoRow
        BY <4>1, NoRowTyped
      <4>4. k \in DOMAIN writes => writes[k] \in Row /\ writes[k].stamp \in Nat
        BY RowFields DEF SinkInv, StateTyped
      <4>5. k \in DOMAIN writes => writes[k].stamp >= incidents[k].stamp
        BY <3>1, <4>3 DEF Succeeds, KeepsOrigin
      <4>6. QED
        BY <3>1, <4>1, <4>2, <4>4, <4>5
    <3>4. QED
      BY <3>1, <3>2, <3>3
  <2>3. QED
    BY <2>1, <2>2
<1>3. CASE SweepCommits
  <2>1. stored' = stored
    BY <1>3 DEF SweepCommits
  <2>2. ASSUME NEW k \in Keys, incidents'[k] # NoRow PROVE RowTrue(incidents'[k], k, stored)
    BY <1>3, <1>i, <2>2, SweptRows DEF RowsTrue, RowTrue
  <2>3. \A k \in Keys : incidents'[k].stamp = incidents[k].stamp
    BY <1>3, SweptRows
  <2>4. QED
    BY <1>i, <2>1, <2>2, <2>3 DEF RowsTrue, StaleRejected
<1>4. QED
  BY <1>1, <1>2, <1>3, DataStep
     DEF OtherMoves, BetweenCalls, Aborts, Commits, TxBegins, UpsertReads, UpsertSkips, UpsertWrites

-----------------------------------------------------------------------------
(* The theorems *)

LEMMA SinkInvInit == SinkInit => SinkInv
<1> SUFFICES ASSUME SinkInit PROVE SinkInv
  OBVIOUS
<1> USE Constants, Others
<1>1. incidents \in [Keys -> Row] /\ \A k \in Keys : incidents[k] = NoRow
  BY NoRowTyped DEF SinkInit
<1>2. DOMAIN writes = {} /\ writes \in [DOMAIN writes -> Row]
  BY DEF SinkInit, NoWrites
<1>3. SinkTypeOK
  <2>1. \A k \in Keys : /\ incidents[k].status \in Statuses \cup {NoStatus}
                         /\ incidents[k].end \in Times \cup {None}
                         /\ incidents[k].stamp \in Times \cup {None}
                         /\ incidents[k].first \in Products \cup {None}
                         /\ incidents[k].latest \in Products \cup {None}
    BY <1>1, RowFields DEF MaybeStatuses, MaybeTimes
  <2>2. QED
    BY <2>1, <1>2 DEF SinkInit, SinkTypeOK, None
<1>4. PoolsCounted /\ ConnectionsApart /\ Scoped /\ Locked /\ ExpiringPast
  BY <1>2 DEF SinkInit, PoolsCounted, ConnectionsApart, Scoped, Locked, ExpiringPast, InTx, InSweep, None
<1>5. TodoCovers /\ RowsTrue /\ ReadTrue /\ WritesTrue /\ StaleRejected
  BY <1>1, <1>2 DEF SinkInit, TodoCovers, RowsTrue, ReadTrue, WritesTrue, StaleRejected, InTx
<1>6. QED
  BY <1>1, <1>2, <1>3, <1>4, <1>5 DEF SinkInv, StateTyped

\* Incidents, transactions and locks stay in step (the inductive invariant).
THEOREM SinkInvariant == SinkSpec => []SinkInv
<1>1. SinkInv /\ [SinkNext]_sinkVars => SinkInv'
  BY SinkTypeStep, PoolStep, ScopeStep, ExpiringStep, TodoStep, ReadStep, WritesStep, IncidentsStep DEF SinkInv
<1>2. QED
  BY <1>1, SinkInvInit, PTL DEF SinkSpec

\* Whatever the order of products, retries, lost replies, deadlocks and
\* clean-ups, an incident is no older than any stored product that gives it a
\* status, and is what its latest product said (PostgresMetadataSink).
THEOREM IncidentsCorrect == SinkSpec => []IncidentsTrue
<1>1. SinkInv => IncidentsTrue
  BY DEF SinkInv, StateTyped, RowsTrue, RowTrue, IncidentsTrue, LineageHolds, Speaks
<1>2. QED
  BY <1>1, SinkInvariant, PTL

\* An incident keeps the product that opened it, never goes back in time,
\* expires only with a cause, and with one pool a correction leaves its status
\* as it is.
THEOREM CausesCorrect == SinkSpec => RowsChangeWithCause
<1> DEFINE Change(k) == incidents[k] # NoRow => /\ KeepsOrigin(incidents[k], incidents'[k])
                                                /\ ExpiresWithCause(incidents[k], incidents'[k])
                                                /\ CorrectionKeepsStatus(k, incidents[k], incidents'[k])
<1>1. ASSUME SinkInv, [SinkNext]_sinkVars PROVE [\A k \in Keys : Change(k)]_sinkVars
  <2> SUFFICES ASSUME NEW k \in Keys, incidents[k] # NoRow
               PROVE  /\ KeepsOrigin(incidents[k], incidents'[k])
                      /\ ExpiresWithCause(incidents[k], incidents'[k])
                      /\ CorrectionKeepsStatus(k, incidents[k], incidents'[k])
    OBVIOUS
  <2>1. incidents[k] \in Row /\ incidents[k].stamp \in Nat
    BY <1>1, RowFields DEF SinkInv, StateTyped
  <2>2. CASE incidents'[k] = incidents[k]
    BY <2>1, <2>2 DEF KeepsOrigin, ExpiresWithCause, CorrectionKeepsStatus
  <2>3. CASE Committed
    <3>1. incidents'[k] # incidents[k] => incidents'[k] = writes[k] /\ Succeeds(k, incidents[k], writes[k], pools = 1)
      BY <1>1, <2>3, CommittedRows
    <3>2. QED
      BY <2>2, <3>1 DEF Succeeds, ExpiresWithCause, CorrectionKeepsStatus
  <2>4. CASE SweepCommits
    <3>1. \/ incidents'[k] = incidents[k]
          \/ /\ Past(incidents[k], sweepTime) /\ incidents'[k].stamp = incidents[k].stamp
             /\ incidents'[k].first = incidents[k].first /\ incidents'[k].latest = incidents[k].latest
      BY <1>1, <2>4, SweptRows
    <3>2. sweepTime <= now /\ sweepTime \in Nat /\ now \in Nat
      BY <1>1, Constants DEF SinkInv, ExpiringPast, StateTyped, SinkTypeOK
    <3>3. incidents[k].end \in Nat
      BY <2>1, RowFields, Constants
    <3>4. QED
      BY <2>1, <2>2, <3>1, <3>2, <3>3
         DEF Past, KeepsOrigin, ExpiresWithCause, CorrectionKeepsStatus
  <2>5. QED
    BY <1>1, <2>2, <2>3, <2>4, DataStep
       DEF OtherMoves, BetweenCalls, Aborts, Commits, TxBegins, UpsertReads, UpsertSkips, UpsertWrites
<1>2. QED
  BY <1>1, SinkInvariant, PTL DEF SinkSpec, RowsChangeWithCause
=============================================================================
