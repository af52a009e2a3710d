------------------------------ MODULE LiveServer ----------------------------
(***************************************************************************)
(* Live server mode (emwin-cli live/server.rs and server/server_ingest.rs):*)
(* how the receiver's event channel, the ingest task, the retained files,  *)
(* the event streams, the persistence runtime, the statistics and cleanup  *)
(* tasks and the main task work together, from start to return.            *)
(*                                                                         *)
(* The parts with modules of their own are used as they are there: the     *)
(* event streams (EventStream), the retained files (RetainedFiles, here    *)
(* with a clock that stands still and one name per product) and the        *)
(* persistence runtime by its abstract specification (PersistLedger, which *)
(* PersistQueue implements).  The n-th product retained is the number n.   *)
(***************************************************************************)
EXTENDS Integers, Sequences, FiniteSets

CONSTANTS
    Clients, MaxClients, HubCapacity,  \* of EventStream
    MaxEntries,                        \* of RetainedFiles
    QueueCapacity,                     \* of PersistLedger
    FeedCapacity,                      \* capacity of the receiver's channel
    MaxProducts,                       \* bound: products retained
    MaxFeed                            \* bound: events the receiver sends

ASSUME ServerAssumption ==
    /\ {MaxClients, HubCapacity, MaxEntries, QueueCapacity, FeedCapacity} \subseteq Nat \ {0}
    /\ MaxProducts \in Nat /\ MaxFeed \in Nat
    /\ IsFiniteSet(Clients)

VARIABLES
    main,       \* where run stands
    persisting, \* --output-dir was given
    cleaning,   \* --persist-database-url was given
    link,       \* the receiver has a connection
    receiver,   \* the receiver task: "off", "running", "ended", "detached"
    feed,       \* the receiver's event channel
    sent,       \* how many events the receiver tried to send
    missed,     \* history: one of them did not fit into the channel
    ingest,     \* where the ingest task stands
    upstream,   \* upstream_endpoint is Some
    stats,      \* the statistics task
    cleanup,    \* the incident cleanup task
    announced   \* history: products published as FileComplete

VARIABLES connected, nextEventId, channel, stage, stream, shutdown, log
VARIABLES byName, order, now, inserted, lapsed, reply
VARIABLES fate, closed

serverVars  == <<main, persisting, cleaning>>
linkVars    == <<link, receiver, sent, missed>>
ingestVars  == <<ingest, upstream, announced>>
tasks       == <<stats, cleanup>>
hubVars     == <<connected, nextEventId, channel, stage, stream, shutdown, log>>
fileVars    == <<byName, order, now, inserted, lapsed, reply>>
ledgerVars  == <<fate, closed>>
vars == <<serverVars, linkVars, feed, ingestVars, tasks, hubVars, fileVars, ledgerVars>>

Products == 1..MaxProducts

\* The one client asks for everything, so that the content does not matter.
NoContent == [name |-> "any"]

Hub == INSTANCE EventStream WITH
           Capacity <- HubCapacity,
           EventOf <- [file |-> NoContent, status |-> NoContent],
           QueryOf <- [all |-> <<>>, bad |-> [lat |-> 0]], LastIds <- {0}, MaxEvents <- MaxFeed

Files == INSTANCE RetainedFiles WITH
           Names <- Products, Ttl <- 1, MaxTime <- 0, MaxInserts <- MaxProducts

Ledger == INSTANCE PersistLedger WITH
           MaxRequests <- MaxProducts, Capacity <- QueueCapacity

FeedKinds == {"connected", "disconnected", "product", "corrupt", "other"}

Mains == {"starting", "serving", "draining", "joinIngest", "joinStats", "joinCleanup",
          "closing", "settling", "returned", "failed"}

TypeOK ==
    /\ main \in Mains
    /\ persisting \in BOOLEAN /\ cleaning \in BOOLEAN
    /\ link \in BOOLEAN /\ upstream \in BOOLEAN
    /\ receiver \in {"off", "running", "ended", "detached"}
    /\ feed \in Seq(FeedKinds) /\ Len(feed) <= FeedCapacity
    /\ sent \in 0..MaxFeed /\ missed \in BOOLEAN
    /\ ingest \in {"off", "starting", "running", "retained", "offered", "stopping",
                   "ok", "failed"}
    /\ stats \in {"off", "running", "ended"}
    /\ cleanup \in {"off", "running", "busy", "ended"}
    /\ announced \subseteq Products
    /\ fate \in [Products -> Ledger!Fates]
    /\ connected \in 0..MaxClients

Init ==
    /\ main = "starting"
    /\ persisting \in BOOLEAN
    /\ cleaning \in {FALSE, persisting}   \* a database needs an output directory
    /\ link = FALSE /\ receiver = "off" /\ feed = <<>> /\ sent = 0 /\ missed = FALSE
    /\ ingest = "off" /\ upstream = FALSE /\ announced = {}
    /\ stats = "off" /\ cleanup = "off"
    /\ Hub!Init /\ Files!Init /\ Ledger!Init

-----------------------------------------------------------------------------
(* The main task. *)

\* run up to the select: the persistence runtime, the listener, the tasks.
Start ==
    /\ main = "starting"
    /\ main' = "serving"
    /\ ingest' = "starting"
    /\ stats' = "running"
    /\ cleanup' = IF cleaning THEN "running" ELSE "off"
    /\ UNCHANGED <<persisting, cleaning, linkVars, feed, upstream, announced, hubVars, fileVars, ledgerVars>>

\* An address that cannot be bound, or a bad option: nothing was spawned but
\* an idle persistence runtime.
StartFails ==
    /\ main = "starting"
    /\ main' = "failed"
    /\ UNCHANGED <<persisting, cleaning, linkVars, feed, ingestVars, tasks, hubVars, fileVars, ledgerVars>>

\* Seeded fault: the watch is not set before serve is awaited.
CtrlCSilent ==
    /\ main = "serving"
    /\ main' = "draining"
    /\ UNCHANGED <<persisting, cleaning, linkVars, feed, ingestVars, tasks, hubVars, fileVars, ledgerVars>>

\* ctrl_c: the watch is set and the main task goes on to wait for serve.
CtrlC ==
    /\ main = "serving"
    /\ main' = "draining"
    /\ Hub!Shutdown
    /\ UNCHANGED <<persisting, cleaning, linkVars, feed, ingestVars, tasks, fileVars, ledgerVars>>

Connections == {c \in Clients : stage[c] \in {"admitted", "streaming"}}

Advance(from, to) == main = from /\ main' = to /\ UNCHANGED <<persisting, cleaning>>

Elsewhere == UNCHANGED <<linkVars, feed, ingestVars, tasks, hubVars, fileVars>>

\* serve returns when the last connection is done.
ServeReturns == Advance("draining", "joinIngest") /\ Connections = {}
                /\ Elsewhere /\ UNCHANGED ledgerVars

\* Seeded fault: the ingest task is not awaited.
JoinIngestUnawaited == Advance("joinIngest", "joinStats")
                       /\ Elsewhere /\ UNCHANGED ledgerVars

JoinIngest == Advance("joinIngest", "joinStats") /\ ingest \in {"ok", "failed"}
              /\ Elsewhere /\ UNCHANGED ledgerVars

JoinStats == Advance("joinStats", "joinCleanup") /\ stats = "ended"
             /\ Elsewhere /\ UNCHANGED ledgerVars

JoinCleanup == Advance("joinCleanup", IF persisting THEN "closing" ELSE "returned")
               /\ cleanup \in {"off", "ended"}
               /\ Elsewhere /\ UNCHANGED ledgerVars

\* shutdown_runtime: close the queue, wait for the worker.
ClosePersistence == Advance("closing", "settling") /\ Ledger!Shut /\ Elsewhere

PersistenceSettles == Advance("settling", "returned") /\ Ledger!With("active") = {}
                      /\ Elsewhere /\ UNCHANGED ledgerVars

Joins == ServeReturns \/ JoinIngest \/ JoinStats \/ JoinCleanup
         \/ ClosePersistence \/ PersistenceSettles

-----------------------------------------------------------------------------
(* The receiver, as its event channel shows it. *)

Alive == main \notin {"starting", "returned", "failed"}

\* try_send: an event that does not fit is dropped.
Send(kind) == /\ sent < MaxFeed
              /\ sent' = sent + 1
              /\ IF Len(feed) < FeedCapacity
                 THEN feed' = Append(feed, kind) /\ UNCHANGED missed
                 ELSE missed' = TRUE /\ UNCHANGED feed

ReceiverSends(kind) ==
    /\ Alive /\ receiver = "running"
    /\ Send(kind)
    /\ \/ kind = "connected" /\ ~link /\ link' = TRUE
       \/ kind = "disconnected" /\ link /\ link' = FALSE
       \/ kind \in {"product", "corrupt"} /\ link /\ UNCHANGED link
       \/ kind = "other" /\ UNCHANGED link
    /\ UNCHANGED <<serverVars, receiver, ingestVars, tasks, hubVars, fileVars, ledgerVars>>

\* The receiver task panics and its end of the channel closes.
ReceiverDies ==
    /\ Alive /\ receiver = "running"
    /\ receiver' = "ended" /\ link' = FALSE
    /\ UNCHANGED <<serverVars, sent, missed, feed, ingestVars, tasks, hubVars, fileVars, ledgerVars>>

-----------------------------------------------------------------------------
(* The ingest task: run_qbt_ingest_loop and run_wxwire_ingest_loop. *)

IngestBegins ==
    /\ Alive /\ ingest = "starting"
    /\ ingest' = "running" /\ receiver' = "running"
    /\ UNCHANGED <<serverVars, link, sent, missed, feed, upstream, announced, tasks, hubVars, fileVars, ledgerVars>>

\* build or start refuses the configuration.
IngestCannotBegin ==
    /\ Alive /\ ingest = "starting"
    /\ ingest' = "failed"
    /\ UNCHANGED <<serverVars, linkVars, feed, upstream, announced, tasks, hubVars, fileVars, ledgerVars>>

Take(kind) == /\ Alive /\ ingest = "running"
              /\ feed # <<>> /\ Head(feed) = kind
              /\ feed' = Tail(feed)

\* Seeded fault: a Disconnected event leaves the endpoint in place.
HandleStatusSticky(kind) ==
    /\ kind \in {"connected", "disconnected", "other"}
    /\ Take(kind)
    /\ upstream' = (upstream \/ kind = "connected")
    /\ Hub!Publish("status")
    /\ UNCHANGED <<serverVars, linkVars, ingest, announced, tasks, fileVars, ledgerVars>>

\* Connected, Disconnected, Telemetry, Warning and errors.
HandleStatus(kind) ==
    /\ kind \in {"connected", "disconnected", "other"}
    /\ Take(kind)
    /\ upstream' = CASE kind = "connected" -> TRUE
                     [] kind = "disconnected" -> FALSE
                     [] OTHER -> upstream
    /\ Hub!Publish("status")
    /\ UNCHANGED <<serverVars, linkVars, ingest, announced, tasks, fileVars, ledgerVars>>

\* A product whose archive cannot be opened is dropped.
HandleCorrupt ==
    /\ Take("corrupt")
    /\ UNCHANGED <<serverVars, linkVars, ingestVars, tasks, hubVars, fileVars, ledgerVars>>

\* Any other product: it is retained, ...
HandleProduct ==
    /\ Take("product")
    /\ Files!Insert(Len(inserted) + 1, now)
    /\ ingest' = "retained"
    /\ UNCHANGED <<serverVars, linkVars, upstream, announced, tasks, hubVars, ledgerVars>>

\* ... offered to the persistence runtime, ...
Enqueue(n) == IF closed THEN Ledger!Reject(n)
              ELSE Ledger!Admit(n) \/ \E m \in Products : Ledger!Displace(n, m)

\* Seeded fault: a product that finds the queue full is passed over.
OfferIfRoom ==
    /\ Alive /\ ingest = "retained"
    /\ ingest' = "offered"
    /\ IF persisting /\ Cardinality(Ledger!With("queued")) < QueueCapacity
       THEN Enqueue(Len(inserted)) ELSE UNCHANGED ledgerVars
    /\ UNCHANGED <<serverVars, linkVars, feed, upstream, announced, tasks, hubVars, fileVars>>

OfferProduct ==
    /\ Alive /\ ingest = "retained"
    /\ ingest' = "offered"
    /\ IF persisting THEN Enqueue(Len(inserted)) ELSE UNCHANGED ledgerVars
    /\ UNCHANGED <<serverVars, linkVars, feed, upstream, announced, tasks, hubVars, fileVars>>

\* (or the request cannot be built: the error ends the task, and the receiver
\* is dropped and not stopped)
OfferFails ==
    /\ Alive /\ ingest = "retained" /\ persisting
    /\ ingest' = "failed" /\ receiver' = IF receiver = "running" THEN "detached" ELSE receiver
    /\ feed' = <<>>
    /\ UNCHANGED <<serverVars, link, sent, missed, upstream, announced, tasks, hubVars, fileVars, ledgerVars>>

\* ... and published.
PublishProduct ==
    /\ Alive /\ ingest = "offered"
    /\ ingest' = "running"
    /\ announced' = announced \cup {Len(inserted)}
    /\ Hub!Publish("file")
    /\ UNCHANGED <<serverVars, linkVars, feed, upstream, tasks, fileVars, ledgerVars>>

\* The watch fired, or the channel is closed and empty: the stream is dropped.
IngestLeaves ==
    /\ Alive /\ ingest = "running"
    /\ shutdown \/ (receiver = "ended" /\ feed = <<>>)
    /\ ingest' = "stopping" /\ feed' = <<>>
    /\ UNCHANGED <<serverVars, linkVars, upstream, announced, tasks, hubVars, fileVars, ledgerVars>>

\* ingest.stop() has ended the receiver task.
ReceiverStopped ==
    /\ Alive /\ ingest = "stopping"
    /\ ingest' = "ok" /\ receiver' = "ended" /\ link' = FALSE
    /\ UNCHANGED <<serverVars, sent, missed, feed, upstream, announced, tasks, hubVars, fileVars, ledgerVars>>

HandleEvent == \/ \E kind \in FeedKinds : HandleStatus(kind)
               \/ HandleCorrupt \/ HandleProduct
               \/ OfferProduct \/ OfferFails \/ PublishProduct

Ingest == IngestBegins \/ IngestCannotBegin \/ HandleEvent \/ IngestLeaves \/ ReceiverStopped

-----------------------------------------------------------------------------
(* The other tasks. *)

Aside == UNCHANGED <<serverVars, linkVars, feed, ingestVars>>

\* run_stats_loop: a snapshot reads (and trims) the retained files.
StatsTick ==
    /\ Alive /\ stats = "running"
    /\ Files!Length
    /\ Aside /\ UNCHANGED <<tasks, hubVars, ledgerVars>>

StatsEnds ==
    /\ Alive /\ stats = "running" /\ shutdown
    /\ stats' = "ended"
    /\ Aside /\ UNCHANGED <<cleanup, hubVars, fileVars, ledgerVars>>

\* run_incident_cleanup_loop: a pass over the database is not interrupted.
CleanupPass ==
    /\ Alive
    /\ \/ cleanup = "running" /\ cleanup' = "busy"
       \/ cleanup = "busy" /\ cleanup' = "running"
    /\ Aside /\ UNCHANGED <<stats, hubVars, fileVars, ledgerVars>>

CleanupEnds ==
    /\ Alive /\ cleanup = "running" /\ shutdown
    /\ cleanup' = "ended"
    /\ Aside /\ UNCHANGED <<stats, hubVars, fileVars, ledgerVars>>

\* The persistence worker.
Work ==
    /\ Alive /\ persisting
    /\ \E n \in Products : \/ Ledger!Serve(n)
                          \/ \E r \in {"persisted", "failed"} : Ledger!Settle(n, r)
    /\ Aside /\ UNCHANGED <<tasks, hubVars, fileVars>>

\* The HTTP handlers.  Once the watch fired no connection is accepted.
HandleEvents(c) ==
    /\ Alive
    /\ stage[c] = "away" => main = "serving"
    /\ Hub!Handle(c) \/ Hub!Poll(c) \/ Hub!Disconnect(c) \/ Hub!Retry(c)
    /\ Aside /\ UNCHANGED <<tasks, fileVars, ledgerVars>>

Returned == main \in {"returned", "failed"} /\ UNCHANGED vars

Next ==
    \/ Start \/ StartFails \/ CtrlC \/ Joins
    \/ (\E kind \in FeedKinds : ReceiverSends(kind)) \/ ReceiverDies
    \/ Ingest
    \/ StatsTick \/ StatsEnds \/ CleanupPass \/ CleanupEnds \/ Work
    \/ (\E c \in Clients : HandleEvents(c))
    \/ Returned

Spec == Init /\ [][Next]_vars

\* Every task is scheduled; it is enough that some task that can get on does.
\* A select with several branches ready picks one at random, so the watch is
\* not passed over for ever; storage calls and a pass over the database
\* return; clients read what they are sent.
Progress ==
    \/ Joins \/ Ingest \/ StatsEnds \/ Work
    \/ \E c \in Clients : stage[c] # "away" /\ HandleEvents(c)

Fairness ==
    /\ WF_vars(Progress) /\ SF_vars(IngestLeaves)
    /\ WF_vars(CleanupPass) /\ SF_vars(CleanupEnds)

FairSpec == Spec /\ Fairness

-----------------------------------------------------------------------------
(* Correctness *)

\* Persistence is closed after the last producer is gone: no product that the
\* ingest task holds meets a closed queue, whenever the shutdown comes.
NothingRefused == \A n \in Products : fate[n] # "rejected"

\* A product a client was told of can be downloaded until MaxEntries others
\* have replaced it, and was offered to the persistence runtime.
AnnouncedIsServed ==
    \A n \in announced :
        /\ n \in DOMAIN byName \/ Len(inserted) - n >= MaxEntries
        /\ persisting => fate[n] # "new"

\* Shutdown and the end of the receiver find the ingest task between two
\* events: what was retained was announced.  A task that failed leaves at most
\* the product it failed on retained and unannounced.
NothingHalfHandled ==
    /\ ingest \in {"running", "stopping", "ok"} => announced = 1..Len(inserted)
    /\ 1..Len(inserted) - 1 \subseteq announced

\* When run returns nobody is connected, no request waits or is in hand, and its
\* tasks are over but for one: a receiver whose ingest task failed was dropped
\* and not stopped, and lives on for as long as the process does.
CleanReturn ==
    main = "returned" =>
        /\ ingest \in {"ok", "failed"}
        /\ receiver \in {"off", "ended"} \/ (receiver = "detached" /\ ingest = "failed")
        /\ stats = "ended" /\ cleanup \in {"off", "ended"}
        /\ Connections = {}
        /\ Ledger!With("queued") = {} /\ Ledger!With("active") = {}

\* Everyone waits on everyone in a fixed order, and run does return.
ShutdownCompletes == (main = "draining") ~> (main = "returned")

\* "connected upstream endpoint, if connected": once the events of a running
\* receiver have been handled, /health names an endpoint exactly if there is a
\* connection, unless an event was lost to a full channel.  After such a loss
\* it may name one for as long as an outage lasts.
HealthTellsConnection ==
    (ingest = "running" /\ receiver = "running" /\ feed = <<>> /\ ~missed)
        => (upstream <=> link)

\* A product is retained, queued and announced as one, as far as a client, the
\* persistence runtime or a shutdown can tell.
HandledCompletely == TypeOK /\ AnnouncedIsServed /\ NothingHalfHandled

\* The order of the joins: nothing meets a closed queue, nothing is left but a
\* receiver that a failed ingest task dropped.
CleanShutdown == NothingRefused /\ CleanReturn
=============================================================================
