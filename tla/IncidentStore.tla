---------------------------- MODULE IncidentStore ---------------------------
(***************************************************************************)
(* The incidents table of the Postgres sink (emwin-db postgres.rs): every  *)
(* product updates, in one transaction, the incidents its VTEC lines name, *)
(* and the cleanup task expires active incidents whose end has passed.     *)
(*                                                                         *)
(* Both go through one cached pool of one connection, which is dropped and *)
(* made anew after errors, so that for a while two pools, and with them    *)
(* two connections, may be in use.  Postgres is external: statements run   *)
(* at READ COMMITTED, a statement reads a snapshot taken at its start,     *)
(* waits for row locks, and applies its condition to the row as it is when *)
(* the lock is granted.                                                    *)
(***************************************************************************)
EXTENDS Integers, Sequences, FiniteSets, FiniteSetsExt

CONSTANTS
    Products,   \* product numbers
    Keys,       \* incident keys, numbered in their order
    Vtec,       \* product -> its VTEC lines
    Malformed,  \* products whose metadata cannot be prepared
    Stamp,      \* product -> source_timestamp_utc
    MaxTime,    \* bound: the clock stays in 1..MaxTime
    MaxFaults   \* bound: errors met

None == 0

Actions == {"NEW", "CON", "EXT", "EXA", "EXB", "CAN", "EXP", "UPG", "COR", "ROU"}
Times == 1..MaxTime
Statuses == {"active", "cancelled", "expired", "upgraded"}
NoStatus == "none"

VtecLines == [key : Keys, operational : BOOLEAN, action : Actions, end : Times \cup {None}]

ASSUME ProductAssumption ==
    /\ Products \subseteq Nat \ {None} /\ Malformed \subseteq Products
    /\ Keys \subseteq Nat /\ IsFiniteSet(Keys)
    /\ MaxTime \in Nat \ {0} /\ MaxFaults \in Nat
    /\ Stamp \in [Products -> Times]
    /\ Vtec \in [Products -> Seq(VtecLines)]

VARIABLES
    incidents, \* committed incident rows
    stored,    \* products whose row is committed
    fate,      \* "queued", "persisted" or "failed", per product
    now,       \* Utc::now
    faults,    \* errors met so far
    pool,      \* the cached pool, None if there is none
    pools,     \* pools made so far
    pc,        \* worker and sweep: "idle", "connecting", "waiting" or "open"
    using,     \* the pool each of them works with
    request,   \* the product the worker persists
    todo,      \* keys its transaction has yet to update
    existing,  \* what the current statement read, or "unread"
    writes,    \* rows its transaction wrote
    holder,    \* who holds the lock of a row
    due,       \* keys the sweep's statement has yet to lock
    expiring,  \* keys it has expired
    sweepTime  \* the time bound to it

clientVars == <<pool, pools, pc, using>>
txVars     == <<request, todo, existing, writes>>
sweepVars  == <<due, expiring, sweepTime>>
sinkVars == <<incidents, stored, fate, now, faults, clientVars, txVars, holder, sweepVars>>

Clients == {"worker", "sweep"}
Other(c) == CHOOSE d \in Clients : d # c
NoRow == [status |-> NoStatus, action |-> "none", end |-> None, stamp |-> None,
          first |-> None, latest |-> None]
NoWrites == [k \in {} |-> NoRow]

SinkTypeOK ==
    /\ \A k \in Keys : /\ incidents[k].status \in Statuses \cup {NoStatus}
                       /\ incidents[k].end \in Times \cup {None}
                       /\ incidents[k].stamp \in Times \cup {None}
                       /\ incidents[k].first \in Products \cup {None}
                       /\ incidents[k].latest \in Products \cup {None}
    /\ stored \subseteq Products
    /\ fate \in [Products -> {"queued", "persisted", "failed"}]
    /\ now \in Times /\ faults \in 0..MaxFaults
    /\ pools \in 0..(MaxFaults + 1) /\ pool \in 0..pools
    /\ pc \in [Clients -> {"idle", "connecting", "waiting", "open"}]
    /\ using \in [Clients -> 0..pools]
    /\ request \in Products \cup {None}
    /\ todo \in Seq(Keys)
    /\ existing \in Statuses \cup {NoStatus, "unread"}
    /\ DOMAIN writes \subseteq Keys
    /\ holder \in [Keys -> Clients \cup {"free"}]
    /\ due \subseteq Keys /\ expiring \subseteq Keys
    /\ sweepTime \in Times

SinkInit ==
    /\ incidents = [k \in Keys |-> NoRow]
    /\ stored = {}
    /\ fate = [p \in Products |-> "queued"]
    /\ now = 1 /\ faults = 0
    /\ pool = None /\ pools = 0
    /\ pc = [c \in Clients |-> "idle"] /\ using = [c \in Clients |-> None]
    /\ request = None /\ todo = <<>> /\ existing = "unread" /\ writes = NoWrites
    /\ holder = [k \in Keys |-> "free"]
    /\ due = {} /\ expiring = {} /\ sweepTime = 1

-----------------------------------------------------------------------------
(* prepare_incident_updates *)

\* map_incident_status: corrections and routine updates have no status.
MapIncidentStatus(action) ==
    CASE action \in {"NEW", "CON", "EXT", "EXA", "EXB"} -> "active"
      [] action = "CAN" -> "cancelled"
      [] action = "EXP" -> "expired"
      [] action = "UPG" -> "upgraded"
      [] OTHER -> NoStatus

\* The places of the operational lines of a product about one incident.
Lines(p, k) == {i \in 1..Len(Vtec[p]) : Vtec[p][i].operational /\ Vtec[p][i].key = k}

\* max_option_datetime over the lines.
LatestEnd(p, at) == Max({Vtec[p][i].end : i \in at})

\* What a product says of an incident: the last status its lines give, the
\* last action, the latest end.
Update(p, k) ==
    LET at     == Lines(p, k)
        saying == {i \in at : MapIncidentStatus(Vtec[p][i].action) # NoStatus}
    IN  [status |-> IF saying = {} THEN NoStatus
                    ELSE MapIncidentStatus(Vtec[p][Max(saying)].action),
         action |-> Vtec[p][Max(at)].action,
         end    |-> LatestEnd(p, at)]

\* The updates a product makes, by incident, ...
Updates == [p \in Products |-> [k \in {j \in Keys : Lines(p, j) # {}} |-> Update(p, k)]]
Touched(p) == DOMAIN Updates[p]

\* ... and the order of the keys, in which they are made.
InOrder(ks) == [i \in 1..Cardinality(ks) |->
                   CHOOSE k \in ks : Cardinality({j \in ks : j < k}) = i - 1]

-----------------------------------------------------------------------------
(* The cached pool: ensure_pool and handle_runtime_error. *)

\* ensure_pool finds a pool, or starts to make one.
EnsurePool(c) ==
    /\ pc[c] = "idle"
    /\ pc' = [pc EXCEPT ![c] = IF pool = None THEN "connecting" ELSE "waiting"]
    /\ using' = [using EXCEPT ![c] = pool]
    /\ UNCHANGED <<pool, pools>>

\* connect_pool succeeded: the pool is cached unless there is one by now.
PoolMade(c) ==
    /\ pc[c] = "connecting"
    /\ pc' = [pc EXCEPT ![c] = "waiting"]
    /\ IF pool # None
       THEN using' = [using EXCEPT ![c] = pool] /\ UNCHANGED <<pool, pools>>
       ELSE /\ pools' = pools + 1
            /\ pool' = pools + 1
            /\ using' = [using EXCEPT ![c] = pools + 1]
    /\ UNCHANGED <<incidents, stored, fate, now, faults, txVars, holder, sweepVars>>

\* The call ends and lets go of its pool.
Leave(c) == /\ pc' = [pc EXCEPT ![c] = "idle"]
            /\ using' = [using EXCEPT ![c] = None]

Fault == faults < MaxFaults /\ faults' = faults + 1

\* connect_pool failed; for the worker, with an error that may pass.
ConnectFails(c) ==
    /\ pc[c] = "connecting" /\ Fault /\ Leave(c)
    /\ UNCHANGED <<incidents, stored, fate, now, pool, pools, txVars, holder, sweepVars>>

ConnectionFree(c) == pc[Other(c)] # "open" \/ using[Other(c)] # using[c]

\* The error drops whatever pool is cached.
HandleRuntimeError(c) ==
    /\ Fault /\ Leave(c)
    /\ pool' = None
    /\ UNCHANGED pools

\* PoolTimedOut: the one connection of the pool is busy for too long.
AcquireTimesOut(c) ==
    /\ pc[c] = "waiting" /\ ~ConnectionFree(c)
    /\ HandleRuntimeError(c)
    /\ UNCHANGED <<incidents, stored, fate, now, txVars, holder, sweepVars>>

Open(c) == /\ pc[c] = "waiting" /\ ConnectionFree(c)
           /\ pc' = [pc EXCEPT ![c] = "open"]
           /\ UNCHANGED <<pool, pools, using>>

Released(c) == [k \in Keys |-> IF holder[k] = c THEN "free" ELSE holder[k]]

-----------------------------------------------------------------------------
(* The worker: PostgresMetadataSink::persist. *)

\* The persistence worker turns to a product; products complete in any order.
TakeRequest(p) ==
    /\ request = None /\ fate[p] = "queued"
    /\ request' = p
    /\ UNCHANGED <<incidents, stored, fate, now, faults, clientVars, todo, existing, writes, holder, sweepVars>>

\* The call of persist is over for good.
Settled(result) == /\ fate' = [fate EXCEPT ![request] = result]
                   /\ request' = None

\* The transaction is over; the worker's variables start afresh.
TxOver == /\ todo' = <<>> /\ existing' = "unread" /\ writes' = NoWrites
          /\ holder' = Released("worker")

\* connect_pool failed with an error that is not retried: a migration, the
\* check for PostGIS or a login that Postgres refuses.
ConnectRefused ==
    /\ pc["worker"] = "connecting" /\ Fault /\ Leave("worker")
    /\ Settled("failed")
    /\ UNCHANGED <<incidents, stored, now, pool, pools, todo, existing, writes, holder, sweepVars>>

PrepareFails ==
    /\ request \in Malformed
    /\ Settled("failed")
    /\ UNCHANGED <<incidents, stored, now, faults, clientVars, todo, existing, writes, holder, sweepVars>>

\* persist is called, and called again after an error that may pass.
Persist ==
    /\ request # None /\ request \notin Malformed
    /\ EnsurePool("worker")
    /\ UNCHANGED <<incidents, stored, fate, now, faults, txVars, holder, sweepVars>>

\* pool.begin and upsert_product.
TxBegins ==
    /\ Open("worker")
    /\ todo' = InOrder(Touched(request))
    /\ UNCHANGED <<incidents, stored, fate, now, faults, request, existing, writes, holder, sweepVars>>

InTx == pc["worker"] = "open"

\* upsert_incidents, one statement per incident: the subquery is read, ...
UpsertReads ==
    /\ InTx /\ todo # <<>> /\ existing = "unread"
    /\ existing' = incidents[Head(todo)].status
    /\ UNCHANGED <<incidents, stored, fate, now, faults, clientVars, request, todo, writes, holder, sweepVars>>

\* ... nothing is inserted for an update without status of an unknown
\* incident, ...
UpsertSkips ==
    /\ InTx /\ existing = NoStatus
    /\ Updates[request][Head(todo)].status = NoStatus
    /\ todo' = Tail(todo) /\ existing' = "unread"
    /\ UNCHANGED <<incidents, stored, fate, now, faults, clientVars, request, writes, holder, sweepVars>>

\* The status the statement inserts.
Excluded(u) == IF u.status # NoStatus THEN u.status ELSE existing

\* Seeded fault: the timestamps are not compared.
UpsertedAlways(k) ==
    LET u   == Updates[request][k]
        row == [status |-> Excluded(u), action |-> u.action, end |-> u.end,
                stamp |-> Stamp[request], latest |-> request,
                first |-> IF incidents[k] = NoRow THEN request ELSE incidents[k].first]
    IN  row

\* The row it leaves: a conflict updates the row unless that is newer.
Upserted(k) ==
    LET u   == Updates[request][k]
        row == [status |-> Excluded(u), action |-> u.action, end |-> u.end,
                stamp |-> Stamp[request], latest |-> request,
                first |-> IF incidents[k] = NoRow THEN request ELSE incidents[k].first]
    IN  IF incidents[k] = NoRow \/ Stamp[request] >= incidents[k].stamp THEN row ELSE incidents[k]

\* ... and otherwise the row is locked and written.
UpsertWrites ==
    /\ InTx /\ existing # "unread"
    /\ LET k == Head(todo)
       IN  /\ Updates[request][k].status # NoStatus \/ existing # NoStatus
           /\ holder[k] = "free"
           /\ holder' = [holder EXCEPT ![k] = "worker"]
           /\ writes' = [j \in DOMAIN writes \cup {k} |->
                            IF j = k THEN Upserted(k) ELSE writes[j]]
    /\ todo' = Tail(todo) /\ existing' = "unread"
    /\ UNCHANGED <<incidents, stored, fate, now, faults, clientVars, request, sweepVars>>

Committed == /\ InTx /\ todo = <<>>
             /\ incidents' = [k \in Keys |-> IF k \in DOMAIN writes THEN writes[k] ELSE incidents[k]]
             /\ stored' = stored \cup {request}
             /\ TxOver

Commit ==
    /\ Committed
    /\ Settled("persisted")
    /\ Leave("worker")
    /\ UNCHANGED <<now, faults, pool, pools, sweepVars>>

\* The commit took place and the connection broke before the reply.
CommitReplyLost ==
    /\ Committed
    /\ HandleRuntimeError("worker")
    /\ UNCHANGED <<fate, request, now, sweepVars>>

\* The connection breaks: rolled back, and to be tried again.
TxBreaks ==
    /\ InTx
    /\ TxOver
    /\ HandleRuntimeError("worker")
    /\ UNCHANGED <<incidents, stored, fate, request, now, sweepVars>>

\* An error that Postgres reports is neither retried nor a reason to drop the
\* pool.
TxRefused ==
    /\ TxOver /\ Settled("failed") /\ Leave("worker")
    /\ UNCHANGED <<incidents, stored, now, pool, pools, sweepVars>>

\* Postgres is being stopped and tells its sessions so.
TxTerminated == InTx /\ Fault /\ TxRefused

-----------------------------------------------------------------------------
(* The cleanup task: expire_active_incidents. *)

SweepStarts ==
    /\ EnsurePool("sweep")
    /\ sweepTime' = now
    /\ UNCHANGED <<incidents, stored, fate, now, faults, txVars, holder, due, expiring>>

\* Seeded fault: the end is compared the wrong way round.
PastReversed(row, t) == row.status = "active" /\ row.end # None /\ row.end > t

Past(row, t) == row.status = "active" /\ row.end # None /\ row.end < t

\* The statement starts and finds the rows to expire, ...
SweepFinds ==
    /\ Open("sweep")
    /\ due' = {k \in Keys : Past(incidents[k], sweepTime)}
    /\ UNCHANGED <<incidents, stored, fate, now, faults, txVars, holder, expiring, sweepTime>>

InSweep == pc["sweep"] = "open"

\* Seeded fault: the rows found are expired without another look.
SweepLocksBlindly(k) ==
    /\ InSweep /\ k \in due /\ holder[k] = "free"
    /\ due' = due \ {k}
    /\ holder' = [holder EXCEPT ![k] = "sweep"]
    /\ expiring' = expiring \cup {k}
    /\ UNCHANGED <<incidents, stored, fate, now, faults, clientVars, txVars, sweepTime>>

\* ... locks them in any order, looks again, ...
SweepLocks(k) ==
    /\ InSweep /\ k \in due /\ holder[k] = "free"
    /\ due' = due \ {k}
    /\ holder' = [holder EXCEPT ![k] = "sweep"]
    /\ expiring' = IF Past(incidents[k], sweepTime) THEN expiring \cup {k} ELSE expiring
    /\ UNCHANGED <<incidents, stored, fate, now, faults, clientVars, txVars, sweepTime>>

SweepOver == due' = {} /\ expiring' = {} /\ holder' = Released("sweep")

\* ... and commits.
SweepCommits ==
    /\ InSweep /\ due = {}
    /\ incidents' = [k \in Keys |-> IF k \in expiring THEN [incidents[k] EXCEPT !.status = "expired"]
                                    ELSE incidents[k]]
    /\ SweepOver /\ Leave("sweep")
    /\ UNCHANGED <<stored, fate, now, faults, pool, pools, txVars, sweepTime>>

SweepBreaks ==
    /\ InSweep
    /\ SweepOver
    /\ HandleRuntimeError("sweep")
    /\ UNCHANGED <<incidents, stored, fate, now, txVars, sweepTime>>

\* Worker and sweep hold a row each and want the other's: Postgres aborts one.
Deadlocked ==
    /\ InTx /\ InSweep
    /\ existing # "unread" /\ holder[Head(todo)] = "sweep"
    /\ \E k \in due : holder[k] = "worker"

DeadlockAborts ==
    /\ Deadlocked
    /\ \/ TxRefused
       \/ /\ SweepOver /\ Leave("sweep")
          /\ UNCHANGED <<incidents, stored, fate, now, pool, pools, txVars, sweepTime>>
    /\ UNCHANGED faults

Tick == /\ now < MaxTime /\ now' = now + 1
        /\ UNCHANGED <<incidents, stored, fate, faults, clientVars, txVars, holder, sweepVars>>

WorkerSteps == \/ PrepareFails \/ Persist \/ PoolMade("worker") \/ TxBegins
               \/ UpsertReads \/ UpsertSkips \/ UpsertWrites \/ Commit

Sweep == SweepStarts \/ PoolMade("sweep") \/ SweepFinds
         \/ (\E k \in Keys : SweepLocks(k)) \/ SweepCommits

SinkNext ==
    \/ (\E p \in Products : TakeRequest(p)) \/ WorkerSteps \/ Sweep
    \/ (\E c \in Clients : ConnectFails(c) \/ AcquireTimesOut(c)) \/ ConnectRefused
    \/ CommitReplyLost \/ TxBreaks \/ TxTerminated \/ SweepBreaks \/ DeadlockAborts
    \/ Tick

SinkSpec == SinkInit /\ [][SinkNext]_sinkVars

\* Both tasks are scheduled and the clean-up comes round again and again.
\* Postgres resolves deadlocks, and hands a lock that is released to the
\* transaction waiting for it, so the worker is not passed over for ever.
\* Errors are not fair.
SinkFairness ==
    /\ WF_sinkVars(\E p \in Products : TakeRequest(p)) /\ SF_sinkVars(WorkerSteps)
    /\ WF_sinkVars(Sweep) /\ WF_sinkVars(DeadlockAborts)

SinkFairSpec == SinkSpec /\ SinkFairness

-----------------------------------------------------------------------------
(* Correctness *)

Speaks(p, k) == k \in Touched(p) /\ Updates[p][k].status # NoStatus

\* Whatever the order in which products arrive and are retried, no incident is
\* left in a state older than a stored product that gives it a status.
StaleRejected ==
    \A p \in stored, k \in Keys : Speaks(p, k) => incidents[k].stamp >= Stamp[p]

\* A row is what its latest product said, its status too unless it is expired
\* since, both products it points to are stored, and a transaction shows all
\* of its rows or none.
LineageHolds ==
    /\ SinkTypeOK
    /\ \A k \in Keys :
        LET row == incidents[k]
        IN  row # NoRow =>
                /\ row.first \in stored /\ row.latest \in stored
                /\ row.stamp = Stamp[row.latest]
                /\ row.action = Updates[row.latest][k].action
                /\ row.end = Updates[row.latest][k].end
                /\ Speaks(row.latest, k) =>
                      row.status \in {Updates[row.latest][k].status, "expired"}

Overdue(k) == incidents[k].status = "active" /\ incidents[k].end # None /\ incidents[k].end < now

\* "mark active incidents expired after their end_utc passes": none stays
\* active for ever.
OverdueExpires == \A k \in Keys : Overdue(k) ~> ~Overdue(k)

\* An incident keeps the product that opened it, through updates, retries of
\* a commit whose reply was lost, and clean-up, and its time never goes back.
KeepsOrigin(old, new) == new.first = old.first /\ new.stamp >= old.stamp

\* An incident is marked expired because a product says so, or because its
\* end, as it is in the table at that moment, has passed.
ExpiresWithCause(old, new) ==
    (old.status = "active" /\ new.status = "expired") =>
        \/ new.latest # old.latest
        \/ old.end # None /\ old.end < now

\* A product without a status of its own, a correction or a routine update,
\* leaves the status of an incident as it finds it, as long as one pool of one
\* connection keeps transactions and clean-up apart.  With a second pool the
\* status it read may be out of date by the time it writes it.
CorrectionKeepsStatus(k, old, new) ==
    (pools = 1 /\ new.latest # old.latest /\ ~Speaks(new.latest, k))
        => new.status = old.status

\* An incident once stored changes only with a cause, whatever the order of
\* products, retries and clean-ups.
RowsChangeWithCause ==
    [][\A k \in Keys :
          incidents[k] # NoRow => /\ KeepsOrigin(incidents[k], incidents'[k])
                                  /\ ExpiresWithCause(incidents[k], incidents'[k])
                                  /\ CorrectionKeepsStatus(k, incidents[k], incidents'[k])]_sinkVars

\* Whatever the order of arrival, the retries and the lost replies: incidents
\* are as new as the newest stored product, and are what that product said.
IncidentsTrue == StaleRejected /\ LineageHolds
=============================================================================
