# A TLA+ verification of the EMWIN / Weather Wire ingest system

The repository is a Rust workspace that receives weather products over two networks
(EMWIN QBT over TCP, NWWS-OI "Weather Wire" over XMPP), reassembles them into files, parses
them, serves them over HTTP and SSE, relays the raw QBT stream to downstream clients, and
persists completed products to blob storage and Postgres.  This directory models the parts
in which tasks, queues, failures and limits interact, checks them with TLC on small
instances, and proves the central invariants with TLAPS for every instance.

Paths below are relative to the repository (`src/` in `PROJECT.json`).  `PROJECT.json` maps
every definition to the lines it translates and lists, per hazard, the property that would
catch it.

## 1. The system and its parts

| Part | Source | State it keeps | Operations | Module |
|---|---|---|---|---|
| Persistence runtime | `emwin-db/src/runtime.rs` | queue, `closed`, counters under a mutex; a semaphore; one worker task | `enqueue`, `close`/`shutdown`, `run_worker`, `persist_request_with_retry` | PersistQueue, PersistLedger |
| Postgres sink, incidents | `emwin-db/src/postgres.rs`, `error.rs` | cached pool; product and incident rows | `persist`, `expire_active_incidents` | IncidentStore |
| QBT file assembler | `emwin-protocol/.../file/assembler.rs` | inflight table, queue and index of completed keys | `push`, `clear` | FileAssembler |
| QBT frame decoder | `emwin-protocol/.../protocol/codec.rs` | buffer, state, block in progress | `feed`, `reset` | FrameDecoder |
| QBT receiver | `emwin-protocol/.../client/*.rs` | endpoint queues, server-list file, watchdog | connection loop, session, list updates | QbtReceiver |
| Weather Wire receiver | `emwin-protocol/.../wxwire_receiver/client.rs` | backoff, idle clock, ingress queue | reconnect loop, session select | WxWireReceiver |
| Weather Wire transport | `emwin-protocol/.../wxwire_receiver/transport.rs` | read buffer, stream-management counts, heartbeat clock | `connect`, `next_stanza` (a future), `disconnect` | WxWireTransport, WxWireLink |
| Unified receiver | `emwin-protocol/src/ingest/receiver.rs` | which receiver was built | `build`, `start`, `events`, `stop` | IngestReceiver |
| Receiver lifecycle | `emwin-protocol/src/runtime_support.rs` | `running`, channel, watch, join handle | `start`, `stop` (a future), `events` | ReceiverLifecycle |
| Receiver event channel | same file | bounded mpsc, drop counters | `try_send_with_backpressure_warning` | EventChannel, ReceiverRuntime |
| Retained files | `emwin-cli/src/live/server_support.rs` | map and order of files | `insert`, `list`, `get`, `len` | RetainedFiles |
| SSE event stream | `emwin-cli/src/live/server/server_http.rs`, `types.rs` | client counter, broadcast ring, stream per client | `events_handler`, stream polling, guard drop | EventStream |
| Live server mode | `emwin-cli/src/live/server.rs`, `server_ingest.rs`, `persistence.rs` | the tasks and the watch | startup, ingest loop, shutdown and joins | LiveServer |
| Event filters | `emwin-cli/src/live/filter.rs`, `server/types.rs` | none (pure) | `try_from_input`, `matches`, `wildcard_match` | FileFilter |
| QBT relay | `emwin-protocol/.../relay/*.rs` | slots, sessions, permits, queues, quality window, pause | upstream loop, accept loop, session, writer, monitor | Relay |
| Product parser | `emwin-parser/src` (`pipeline`, `body`, `header`, `time.rs`) | none (pure) | envelope, strategies, body extraction, time resolution | ProductPipeline, VtecBody, ProductTime |
| Specialised product formats | `emwin-parser/src/specialized` | none (pure) | twenty text grammars | not modelled |
| Command line, configuration, generated tables | `emwin-cli/src/main.rs`, `emwin-parser/src/data` | none | | not modelled |

How they interact.  A receiver task reads its network and puts events into a bounded
channel with `try_send`: it never waits, and what does not fit is dropped and counted.  The
QBT adapter feeds blocks to the assembler and passes on completed files.  The ingest task of
the live server takes events one at a time; a product is stored in the retained files,
offered to the persistence runtime (which evicts its oldest request when full) and published
on the broadcast ring that the SSE streams read.  The persistence worker writes blobs, then
metadata, with retries.  Ctrl-C sets one watch that every task looks at; the main task then
waits for the HTTP server, the ingest, statistics and clean-up tasks, and the persistence
worker, in this order.  The relay is a program of its own: what it reads upstream goes into a
broadcast ring, each client's session takes it from there and hands it to its writer within a
byte budget, and a monitor pauses forwarding to everybody when too little gets through.

What is hard here: two synchronisation primitives that must agree (semaphore and queue; map
and order; queue and index), futures dropped at an await, retries of work that may have been
done, products that complete in another order than they were issued, bounded queues that
lose their oldest or newest element, chunks that TCP cuts anywhere, partial
times around the ends of months, and a shutdown that meets every task in every state.
`PROJECT.json` lists 40 such hazards with their lines.

What makes each part correct:

- persistence: no wake-up lost, newest requests kept in order, truthful counters, blobs before
  metadata, one fate per request, shutdown and recovery from outages;
- incidents: no older product undoes a newer one, rows point to stored products, changes have
  a cause, overdue incidents expire;
- assembler: files whole and once, nothing lost without eviction, nothing glued to stale blocks;
- decoder: chunking does not matter, a cut frame costs the frames its length reaches into and no
  others, other damage costs nothing but itself, `feed` returns;
- receivers: endpoints and events in step, pauses between attempts, stop ends them, they keep
  trying; no task is lost by start and stop; losses of events are announced;
- transport: a dropped future loses no message and no count, and what was read is handed out;
- relay: slots exact, the stream without holes and every byte accounted for, nobody cut off and
  nothing paused without a cause, pauses end and ctrl-c gets through;
- parser: partial times come back as the instant meant, every event of a text is published once,
  with the areas and polygons printed for it or an issue that says what stood in the way;
- filters: a client gets exactly what its query asks for;
- server: what is announced is served and queued, streams stay within the limit and lose
  nothing silently, shutdown completes and refuses nothing.

## 2. The modules

Each component module has its state as variables named after the fields, one action per way
through an operation (or per await in it), and a correctness section.  A definition marked
*Seeded fault* is a deliberately wrong variant of the definition after it; substituting it
must violate a property, which shows that the property depends on the code being right.  No
specification uses these definitions.  The theorems about a component are in a module of
their own, `...Proofs`.  Three of these modules are about several components: PersistenceProofs
about PersistQueue and IncidentStore, IngestProofs about IngestReceiver and FileAssembler,
ReceptionProofs about ReceiverRuntime, FrameDecoder and ProductPipeline, whose specifications
therefore have different names (`SinkSpec`, `AssemblerSpec`, `DecoderSpec`, `PipelineSpec`...).
`DataLemmas` has what several of them need about sets and sequences.

**PersistQueue** (with **PersistLedger**).  Requests are numbered in the order in which the
enqueue calls take the mutex.  `EnqueueRejected`, `EnqueueEvicting` and `EnqueueAdmitted` are
the three ways through `enqueue`; `Close` is `close`.  The worker's steps are the ones between
its lock and await points: `AcquirePermit`, `PopRequest`/`PopNothing`, `CheckClosed` (the second
lock), `WriteBlob`, `BlobsWritten`, `PersistMetadata`, the sleeps, and `RecordPersisted` or
`RecordFailed`.  A failed write may leave the location as it was, torn, or complete; a failed
commit may have committed.  `backendUp` is the environment.  `PersistLedger` is the abstract
specification: a fate per request, oldest first, one at a time; `Fate` in PersistQueue is
the refinement mapping and `ImplementsLedger` the claim.

**IncidentStore.**  The worker's transaction and the clean-up as two clients of a cached pool
of one connection.  `MapIncidentStatus`, `Lines` and `Update` translate
`prepare_incident_updates`, and `Updates` is what it returns for each product; `UpsertReads` and `UpsertWrites` are the two halves of the upsert
statement (snapshot, then row lock).  `HandleRuntimeError` drops whatever pool is cached, so
that two pools may be in use.  A connect that fails is tried again (`ConnectFails`) or settles the
product as failed (`ConnectRefused`: a migration, the check for PostGIS, a refused login).  Postgres itself (READ COMMITTED, row locks, deadlock abort) is
external and modelled from how the statements rely on it.

**FileAssembler.**  `push` is `PushIgnored`, `PushPartial` or `PushCompleting`, each with the
evictions the code does first.  `emitted`, `arrived` and `forgotten` are histories: what was
completed, the blocks that came for each file, and the files whose entries were evicted.
`BroadcastAssumption` says what a broadcast is: block numbers and totals are unsigned, and the
well-numbered segments of one key agree on the total and on the content of a block.

**FrameDecoder.**  The decoder over scaled-down frames: three sync bytes, one-symbol headers,
bodies of two, four and nine symbols, the last longer than other whole frames, so that a frame cut
short in such a body swallows several; what the header regex, checksum and zlib accept is a table.
`Feed` appends a chunk, `ProcessBuffer` is one turn of the loop.  A behaviour feeds a stream in
chunks, resets, and feeds it at once, so that both results can be compared.

**QbtReceiver.**  The connection loop and `ServerListManager`.  A step ends at an await or
where a crash would leave different files behind.  `RebuildAvailable`, `MarkBadEndpoint`,
`NextPrimary` and `NextSatellite` are the manager; shuffles are every permutation.  Connects
and reads have any outcome; a crash may come at any step and `Start` begins again with the file
as it is.

**WxWireReceiver, WxWireTransport, WxWireLink.**  The reconnect loop with its five ways out of
the select; the XMPP transport, with one stage per answer that `connect` waits for and
`next_stanza` as the steps between its awaits; and the two together.  In a stage the handshake
`Waits` for a read, which has a timeout, and an `OtherElement` sends it back to wait with the whole
timeout again: there is no deadline for a stage, let alone for the handshake.  An element of the stream
is one of six kinds (a message of the room, another stanza, a request for an acknowledgement, an
acknowledgement, junk, broken text).  `Dropped` is what the loop does in every turn in which
another branch of the select is taken or the second is over: the future goes away at its await,
with the write it was at.  Writes are small and go whole or not at all.

**IngestReceiver.**  `build` chooses one of the two receivers; start and stop go to it.  The
Weather Wire side is an instance of WxWireLink with its variables renamed.

**ReceiverLifecycle, EventChannel, ReceiverRuntime.**  `stop` is two actions, up to and after
the await of the join handle, and `StopCancelled` drops the future in between.  One send is two
steps, the warning and the event, because the consumer can act between the two `try_send` calls.
What the consumer was given and what it will be given from the queue is one sequence (`Given`),
and `Absent` the events it lacks.  ReceiverRuntime joins the two: `start` makes a new channel under a consumer that may still hold
the old stream, only a live task sends, and the stream ends when its task is gone.

**Relay.**  The upstream loop, the accept loop, the session and the writer of a client, and the
monitor, each step from one await to the next and shorter where another thread could see the
difference.  A chunk is its number; its bytes go into the total (`RecvChunk`), then into the
window under the lock (`CountAttempt`), and then it is offered to the writer; likewise `WriteDone`
and `WriteCounted`.  The monitor turns and measures the window under the lock (`MonitorMeasures`)
and stores its switch later (`MonitorStores`).  Peers are free: a write may never finish.
`lost` tells in which second of the window bytes were lost.  `vanished` counts what the code does not count: the chunks
still queued when a write fails, and the one offered to a writer that is gone.  Permits are
counted as bytes (`BytesOf` gives the bytes of a set of chunks, `Held` their number), so that
what is on its way to all clients is the size of one set (`InFlight`).

**ProductTime, VtecBody, ProductPipeline.**  ProductTime translates the three resolvers of
`time.rs` over a calendar in ticks.  VtecBody splits a text into segments one line at a time
(`ReadLine`) and reads each segment's areas and polygons; a line is one of twelve kinds.  `AreasTold` and
`PolygonsTold` say what a reader of the text expects of an event: they look at the lines above and
below the code, not at the segments the code makes.
ProductPipeline takes a product from its envelope through the ordered strategies to its body.
What a recogniser or a format parser says of a text is a free choice, so that every fall-back is
taken; what a strategy needs (a time), reports or passes over is the code's.

**FileFilter.**  Pure operators: a query is a record with only the fields given, `Compiled` keeps
what can be read, `RejectsQuery` is what the server answers with BAD_REQUEST, and one operator per
group of constraints follows the code (`MatchesVtec`: all constraints by one and the same code;
`MatchesGeo`: each by any section).  `AskedFor` is the reference definition and shares none of
these operators: a list names a field, the things in a file that have that field have values for
it, and `Together` says which lists one and the same thing has to meet; a pattern is `Glob`.  It
follows the documents also where the code does not (section 6): an event that is no file is asked
for by its name alone.  The queries of `event_stream` name the events they want; SampleEvents has
the events of its runs.

**RetainedFiles.**  Every operation with the expiry it starts with, over a wall clock that can
be set to any time.  `Retain` (module Retaining, which QbtReceiver uses too) is `retain` of
`Vec` and `VecDeque`.

**EventStream.**  Events and queries are real contents, matched by FileFilter.  A request is
admitted, then rejected or subscribed; a stream receives, lags, ends on the watch, or is
dropped.  The ring keeps the last `Capacity` events.  `Due` and `Got` are the places in the
channel of what a client was to be sent and of what it was sent.

**LiveServer** composes EventStream, RetainedFiles and PersistLedger (instances, their actions
used as they are) with the receiver's channel, the ingest task, the statistics and clean-up
tasks and the main task.

## 3. The runs

| Run | Bounds | Shows |
|---|---|---|
| `persist_queue` | capacity 2, three requests with two blobs each (two share a name), retries to the cap | `QueueConsistent`, `OutcomesTrue`, `BlobsPrecedeMetadata`, `ImplementsLedger`, `OutagesAreSurvived` |
| `incidents` | three products on two incidents and a malformed one, three instants, two errors | `IncidentsTrue`, `RowsChangeWithCause`, `OverdueExpires` |
| `files` | decoder: all streams of up to three of fifteen pieces, a cut one that reaches over a whole frame among them, cut in every way; assembler: four files, filler and badly numbered blocks, table and cache of 2, ttl 1, four completions; parser: every quarter of a day from December 2023 to January 2025, the ends of the ranges to recover, every text of up to four lines, every answer of every strategy; store: three names, two entries, ttl 1, four instants, four insertions | `ChunkingIrrelevant`, `FramesSurviveDamage`, `FilesDelivered`, `NoStaleCompletion`, `TimesRecovered`, `EventsPublished`, `SegmentsCorrelated`, `StoreConsistent` |
| `reception` | runtime: three starts, channel of 2, five events; decoder: all streams of up to two pieces | `DropsAccounted`, `LossesVisible`, `NothingLeftBehind`, `StopIsFinal`, `FeedReturns` |
| `ingest` | QBT: two primaries and a satellite, three server lists, following and pinned configurations; Weather Wire: backoff of 1 to 5 s reached after three failures, three elements per connection in batches of up to two, ingress queue of 1 | `EndpointsConsistent`, `FileIsWhole`, `PacedAndReported`, `StanzasKept`, `StopEndsReceiver`, `ReceiverKeepsTrying`, `ReadIsHandedOut` |
| `relay` | one client in one slot, four chunks, the last as large as the budget of 3, queue 2, ring 1, window of two seconds | `SlotsExact`, `StreamAccounted`, `CutsHaveCause` |
| `relay_recovery` | one client in one slot, two chunks, budget 2, queue 1, ring 1, window of two seconds | `RelayRecovers` |
| `relay_slots` | as `relay_recovery` | violated: `ActiveAreConnected` (section 6) |
| `event_stream` | two clients, ring of 1, three events (a warning with two segments, statistics), two queries and three that are refused, Last-Event-ID 0 or 2; filters: every query of up to four constraints out of some forty, a warning with two segments and a bulletin without a body | `StreamsConsistent`, `NoSilentLoss`, `StreamsProgress`, `FiltersExact` |
| `event_stream_slots` | two clients, limit 1 | violated: `RefusedOnlyWhenFull` (section 6) |
| `event_stream_names` | one client with a filename pattern, two events | violated: `OtherEventsDelivered` (section 6) |
| `live_server` | one client, all queues of 1, two products, three receiver events | `HandledCompletely`, `CleanShutdown`, `HealthTellsConnection`, `ShutdownCompletes` |

`files` and `reception` check several parts side by side (MCFiles, MCReception).  The parts share no
variable, and a behaviour is of one part while the others rest in their initial states; in
`reception`, which asks for fairness, nothing fair is enabled in the part that rests.

Why these bounds are enough.  A queue shows its behaviour at the limit with one element more than
fits, and its order with two, so three requests at capacity two give eviction, a request in hand
and a window of two.  The assembler needs one file more than the table and the cache hold.  Two
endpoints can be confused or starve each other; the third is the satellite.  Two event clients
share one counter.  Decoder faults are about the boundary between two frames with something
damaged in between, which is three pieces; a cut frame that reaches over a whole frame into the
one behind it is three as well.  Two incidents are needed for the lock order and the
atomicity of a transaction.  The relay has one client because a second one multiplies the states
beyond reach; the safety properties are proved for any number of clients (section 4), and for
liveness sessions share only the slot counter, the totals, the window and the pause, which a
client that leaves and comes back meets as well.  Four chunks give one in hand, one queued,
one too many, and one behind it that shows the hole; liveness needs two, one that is lost or left unread and one to be
paused for.  The parser's texts need an area line, a
code, a polygon and one line more for each of the ways to cut a segment; both properties of texts
are proved for any length.  That `feed` returns is about one frame and what is behind it.  Every instant of
fourteen months has each kind of month end, a year end and a leap February.  The queries of the
event stream give a constraint of every group, some met by different segments, values that
cannot be read, and each reason for a refusal; the queries of `FiltersExact` combine any four
constraints, two of each of two groups among them.  The bounds on clocks, starts, events and errors
(`MaxClock`, `MaxStarts`, `MaxFeed`, `MaxFaults`, ...) are in guards of the environment only and
are named where they are declared; where a system may stop because its environment has nothing
left to do, an explicit stuttering action says so and deadlock stays checked
in every run.

Most properties are conjunctions of named parts, each with a comment of its own; the first
invariant of a module contains its type invariant.

### Fairness

- Tasks are polled by the executor: weak fairness of the worker, the loops and the joins.
- `tokio::select!` starts at a random branch, so a branch that is ready again and again is
  taken: strong fairness of the shutdown branch (`SessionStops`, `IngestLeaves`,
  `CleanupEnds`).
- A QBT connect, every single read of either receiver and the pauses carry timeouts; storage and
  database calls return, sleeps end.  The Weather Wire handshake has no deadline: each read of it
  has a timeout of its own.  `StopEndsReceiver` says that it ends unless the server goes on sending
  elements that were not asked for, and that stop gets through from everywhere else.
- LiveServer takes the stop of its receiver as given; with a Weather Wire receiver that is held in
  such a handshake `ShutdownCompletes` fails with it.
- Of the relay's clients and of the Weather Wire server nothing is assumed, except that the few
  bytes of a request of the handshake, a goodbye or a server list fit into a socket's buffer.  `RelayRecovers`
  therefore leaves a session whose writer is stuck in a write.
- A stop waits for its task, which looks at the watch; a consumer that holds a stream reads it
  (`StopIsFinal`).
- `StreamsProgress` and the server's `ShutdownCompletes` assume clients that read what
  they are sent; a client that does not can hold up a graceful shutdown without limit.
- LiveServer asks for less than fairness per task: it is enough that some step of `Progress`
  is taken while one is possible.
- Postgres hands a released lock to a waiting transaction and resolves deadlocks
  (`SF_sinkVars(WorkerSteps)`, `WF_sinkVars(DeadlockAborts)`); errors are never fair.

Nothing obliges producers, peers, operators or backends to do anything; `ResumesAfterOutage`
and `EveryServerTried` state such conditions in the formula.

## 4. What is proved

For every value of the constants that satisfies the assumptions named in the component's module:
any number of clients, requests, names, segments, events and starts, and every capacity.  The
runs evaluate the same assumptions.  Each safety property below follows from an inductive
invariant that says more than the property; the step lemmas have one case per action.

**PersistenceProofs**, the queue and its worker:

- `QueueCorrect` (`Spec => []QueueConsistent`).  `PermitsMatchQueue` alone is not inductive: the
  pop takes a request for a permit claimed earlier, and close changes the count.  `QueueInv` adds
  `QueueShape`: the queue is the consecutive run of numbers that ends at `next - 1`, the worker
  holds a request exactly in the persisting states, and that request is older than the queue.
- `BlobsBeforeMetadata` (`Spec => []BlobsPrecedeMetadata`).  `BlobsInv` says which prefix of the
  blobs of the current pass is in place.
- `OutcomesCorrect` (`Spec => []OutcomesTrue`).  `OutcomeShape`: a request has no outcome before
  it is settled and has one after, what was served is older than what is in hand, and a success
  about to be reported has its row.  The counters are cardinalities; each step moves one request
  from one set to another.
- `LedgerImplemented` (`Spec => ImplementsLedger`), the refinement.  `FateView` computes the
  mapping from the window that `QueueInv` describes; each action is then a step of the ledger or
  leaves the fates alone (retries, permits, blobs).

and the incidents behind them:

- `IncidentsCorrect` (`SinkSpec => []IncidentsTrue`) and `CausesCorrect` (`SinkSpec =>
  RowsChangeWithCause`), both from `SinkInv` (`SinkInvariant`).  The properties speak of committed
  rows; what a commit brings is decided many steps earlier, and in between the other client may
  commit.  `SinkInv` therefore says of a transaction in progress that every incident the product
  gives a status is written or yet to be (`TodoCovers`), that a row it wrote may still take the
  place of the one in the table (`WritesTrue`, because the writer holds its lock: `Locked`), that
  what the subquery read is still there or was expired by a clean-up with a pool of its own
  (`ReadTrue`), and that a clean-up expires only what is past its end at the commit
  (`ExpiringPast`).  Two clients hold connections of different pools (`ConnectionsApart`), so with
  one pool only one of them is inside.  `InOrder`, which lists a set by rank, is shown to list it
  once and completely by counting.

**RetainedFilesProofs.**  `StoreCorrect` (`Spec => []StoreConsistent`).  `StoreInv` is the property
itself with each name once in the order; that answers are fresh and sorted (`AnswersHold`) follows
from it and is kept because the clock empties the answer.  Eviction (`Retain`) and the replacement of a name are shown to keep it as an
operation on the pair of map and order; that a name trimmed at the limit has `MaxEntries` other
names behind it follows from counting the order.

**ReceptionProofs**, the receiver that both protocols share:

- The lifecycle: `LifecycleCorrect` (`Spec => []NothingLeftBehind`).  `LifecycleInv` relates the
  watch to `running`, the handle and the waiting stop to the watch, and every live task to the
  watch or to an abandoned stop; without the last part a second stop after an abandoned one could
  not be shown harmless.
- The channel: `DropsAccountedCorrect` (`ChannelSpec => []DropsAccounted`, with `HalfSent`:
  between the two sends there is an event left to send) and `LossesVisibleCorrect` (`ChannelSpec
  => []LossesVisible`, with `GivenInv`: what the consumer was and will be given is in order, its
  last warning is no newer than the counter, and what it lacks is counted).
- The composition: `RuntimeCorrect` (`RuntimeSpec => [](DropsAccounted /\ LossesVisible /\
  NothingLeftBehind)`): every step of the composed receiver is a step of the lifecycle or leaves
  it alone, and likewise for the channel, so the invariants carry over.  `QuietAfterStopCorrect`
  (`RuntimeSpec => QuietAfterStop`), the part of `StopIsFinal` that is not liveness.

the frame decoder:

- `ChunksCorrect` (`DecoderSpec => []ChunkingIrrelevant`), for every stream of symbols, whatever
  it is made of, and every way to cut it.  The property compares two passes over the same bytes,
  so it cannot be kept step by step.  Instead `Moves` describes a reader that has the whole
  stream and a position in it; a step of it has one outcome (`MovesOnce`), so where it comes to
  rest is determined by the stream (`OneEnd`).  `DecoderInv` says that the decoder follows this
  reader: the buffer is the stretch of the stream after what was consumed (`Buffered`), and the
  reader has reached the decoder's state, pending block and events at that place or before it,
  with nothing in between that it could use: no marker while the decoder looks for one, only
  padding while it skips (`Follows`).  When `feed` returns, the decoder waits for something that
  is not in the buffer (`Stalled`); at the end of the stream the reader is then at rest too.
  Both passes end where the reader does.  `DecoderAssumption` asks that the marker and the bodies
  are not empty and that there are finitely many headers.
- `BufferCorrect` (`DecoderSpec => [](DecoderTypeOK /\ BufferBounded)`), from `Stalled`.

and the product parser:

- `SegmentsCorrect` (`PipelineSpec => []SegmentsCorrelated`), for texts of any length.  The
  property speaks of two lines and what lies between them; `SplitInv` says which segments hold
  each line, that the lines of the segment being collected are an unbroken stretch up to the last
  line read, from which its two flags can be told (`CurrentReaches`), and that areas without their
  code and a code without its geography are still in that segment (`CurrentWaits`).
- `EventsCorrect` (`PipelineSpec => []EventsPublished`), for texts of any length.  `SplitInv` also
  says that a segment is an unbroken run of lines (`SegmentsRun`) and where a run can be broken:
  only at `$$`, at areas or at a code, never between a code and the lines that belong to it
  (`LinesFollow`).  The published events are the segments with a code, read by the scanner of
  areas and of polygons (`Published`).  Lemmas about these two readers, by the least line at which
  they could go wrong, say that areas followed by their code come out unless the time is unknown,
  a code stands inside them or nothing ends them, each with the issue it leaves, and that every
  polygon comes out that does not take in a line of areas.
- `TimesCorrect` (`PipelineSpec => []TimesRecovered`), for every run of years and every number of
  ticks in a day.  The days before a month are a table that grows by at least 28 with each entry;
  an instant is in one month only, and the candidates of a partial time are the instants with its
  day and time of day in the month of the reference and its two neighbours.  The instant meant is
  one of them, and any other is at least 28 days away from it (`Apart28`), too far for a header
  less than fourteen days from the parser's clock and for an expiry less than four weeks ahead.
  The candidates of a motion time are a day apart, and it is less than half a day away.
  `TimesAssumption` states these limits.

**RelayProofs.**  `SlotsCounted` (`Spec => []SlotsExact`), `StreamKept` (`Spec =>
[]StreamAccounted`) and `CutsJustified` (`Spec => CutsHaveCause`).  `RelayInv` has a part per
client (`SlotAt`: which phases, writers and queues go together; `Stream`: what the client has,
holds and was skipped is one stretch of chunks; its budget) and three global ones: the counter is
the number of slots taken and not given back, the totals are the bytes in flight, and `WindowInv`:
for every number of seconds, what the youngest of them count as attempted and neither forwarded
nor lost is at most what the window still awaits.  The last is what makes a pause have a cause,
although the two counts of a chunk may fall into different seconds and the totals run ahead of
the window.  It is about the moment at which the monitor measures: by the time it stores its
switch the last bytes may have been forwarded, and no property denies it.  Chunks may exceed the
budget of a client, which the code does not rule out.

**EventStreamProofs.**  `StreamsCorrect` (`Spec => []StreamsConsistent`) and `NoLossUntold`
(`FiltersAgree => (Spec => []NoSilentLoss)`).  `HubInv`: ids rise along the channel and were given
out, the counter covers the holders of slots, and a stream's `lastId` is its Last-Event-ID or the
id of something before its position (`ClientAt`), so that the id test of the stream never skips
an event that is due.  `FiltersAgree` says that the filters let through what the queries mean; it
is about the constants `EventOf` and `QueryOf` alone.  That it holds rests on `WildcardMatch`, a
recursion over the pattern, and stays with the run `event_stream`: `NoSilentLoss` for queries with every
group of constraints, `FiltersExact` for the combinations.  Where a query constrains files and leaves the other
events open it does not hold (`event_stream_names`).

**IngestProofs**, the receivers:

- QBT: `EndpointsCorrect` (`IngestSpec => []EndpointsConsistent`) and `SavedListWhole`
  (`IngestSpec => []FileIsWhole`).  `QbtInv` says that each queue offers its list without the
  failures and nothing twice (`Offers`; a shuffle, a rotation and the removal of an endpoint are
  shown to keep this), that an endpoint is in use wherever one can be marked bad, and that what
  is being renamed is the list in use, written whole.
- Weather Wire: `StanzasNeverLost` (`IngestSpec => []StanzasKept`), with `LinkInv`: the counts
  are those of one connection and of the buffer, and nothing has been read before the room is
  joined.  The assumption is that the buffer and the bound have room for the two elements that may
  come with the end of the handshake.  `PacedCorrect` (`IngestSpec => []PacedAndReported`), with
  `PaceInv`: a loop that comes to its top without a pause has been told to stop.  `Doubling` is the
  pause without the limit, for any initial value.

Both sides are proved of the composed specification, in which a step of one receiver leaves the
other alone.

The assembler, in the same module: `AssemblerCorrect` (`AssemblerSpec => []FilesDelivered`) and
`ExpiredStartsAnew` (`AssemblerSpec => NoStaleCompletion`).  `AssemblerInv` adds where blocks come from: a
block in the table was sent for that key and number (`Backs`), a file that was not evicted has in
the table all that arrived for it, the cache is the tail of what was emitted.  A count of distinct
well-numbered blocks that equals the total is then the whole file (`BroadcastAssumption`).

**LiveServerProofs.**  `PartsAsSpecified` (`Spec => Hub!Spec /\ Files!Spec /\ Ledger!Spec`): the
composition never takes a step that a part does not allow, so that what is proved of the event
stream, of the store and of the queue (through its ledger) holds inside the server.  It needs the
invariant too: a product is offered while the ledger knows it as new and before the queue is
closed.  `HandledCorrect` (`Spec => []HandledCompletely`), `ShutdownCorrect` (`Spec =>
[]CleanShutdown`) and `HealthCorrect` (`Spec => []HealthTellsConnection`) follow from `ServerInv`
(`ServerInvariant`): `Counted` says how far the ingest task got with the product in hand, `Joined`
which tasks have ended at each of the joins and that only a failed ingest task leaves its receiver
detached, `Settled` that the queue is closed last and takes no
more, `Numbered` that the n-th product retained is the n-th, and `Told` that the last event about
the connection is still in the channel or has been handled.  That a file told of is still served
comes from `StoreCorrect` of RetainedFilesProofs, instantiated for the store inside the server.

**DataLemmas.**  Least and greatest elements of sets of numbers, initial segments, sequences
without repetition as sets.  Where an argument goes by induction over a number (what `Retain`
keeps, the sums of the relay's window) it is made through the least counterexample.

Only model-checked: all liveness and the fairness it rests on, outside the prover's reach; what
`WildcardMatch` computes for every pattern (a recursion over data) and with it `FiltersExact`; and two of the four parts of
`FramesSurviveDamage`.  `FramesDelivered` and `CutCostsItsReach` say what becomes of frames among
the pieces a stream is put together from; they depend on which pieces there are (a piece of noise
may be a marker and half a frame) and are checked for those of the run.

## 5. Not modelled

- Text: JSON, HTTP headers, log wording and log throttling, telemetry counters of the receivers,
  and the insides of a line, a code or a number.
- The twenty specialised product formats of the parser and the header grammar: string grammars
  without state or order, for which a model would be a second copy of the program.  The generated
  tables (some ninety thousand of the repository's lines) are constants.  These two are why the
  definitions here stand for a small share of all lines: what is left out has no control to model.
- XML, TLS, zlib, checksums and the server-list grammar: what they accept is a choice or a table.
- Command line, configuration and file paths; the S3 client; unzipping.
- How metadata becomes product and child rows: one fact (`stored`) in IncidentStore.
- An HTTP listener that fails by itself; a runtime that is dropped without shutdown.
- The QBT watchdog's exception limit: `feed` never returns an error, so the branch that counts
  exceptions is unreachable and is not modelled.

## 6. Disagreements between code and documents

Three are exhibited, each by a run that expects its property to be violated:

- `event_stream_slots`: `events_handler` raises `connected_clients` before it validates the query,
  and both BAD_REQUEST returns leave before `ClientGuard` exists, so each rejected request keeps its
  slot for ever (`docs/server-mode.md:27` promises a limit on *concurrent* clients).
- `event_stream_names`: any constraint on files, a filename pattern included, filters out every
  event that is not a file (`EventFilter::matches`, and a test agrees), where
  `docs/server-mode.md:413` says "Non-filename events are never filtered out by filename filter."
  and line 75 that they match by `event=` only.
- `relay_slots`: a panic in the logon parser (`auth.rs:23`, a cut inside a character) skips the end
  of the session (`runtime.rs:475`) and keeps the slot and the user entry for good, where
  `docs/relay-mode.md:53` calls `downstream_active_clients` the "current count".

Others were met while modelling.  The properties are stated so as to describe what the code
does, and their comments say where they stop:

- blob locations come from the filename alone, so a later product of the same name overwrites
  what an earlier row refers to ("Stable references", `emwin-db/src/runtime.rs:68`; conceded in
  `TODO.md:1`);
- a repeated block replaces the earlier one although `file/mod.rs:24` calls duplicates ignored;
- after an abandoned stop the next `stop` returns without waiting for the task
  (`NothingLeftBehind` excepts `abandoned`), where the README of emwin-protocol (line 220) says
  that stop shuts down background tasks before returning;
- with pinned servers the QBT loop reconnects without the delay that `config.rs:71` describes,
  and a receiver that follows server lists never retries endpoints that have all failed once
  (`KeepsTrying` excepts `Exhausted`), where `client/mod.rs:5` promises automatic reconnection;
- the error of one product leaves the ingest loop by `?` (`server_ingest.rs:56`, `:87`), where its
  comment (`:36`) says "until shutdown or receiver termination".  The server goes on without a
  feed, and the receiver is dropped instead of stopped: its watch closes with the value false, so
  that its task goes on reconnecting and outlives `run` (`CleanReturn` says that this is the one
  task that may);
- `/health` may name an endpoint after a Disconnected event was dropped (`HealthTellsConnection`
  excepts `missed`; `docs/server-mode.md:175`);
- with two pools a correction may write back a status that the clean-up has just replaced
  (`CorrectionKeepsStatus` asks for one pool; `postgres.rs:1747`);
- an error that Postgres reports during its own shutdown is not retried, so the product is
  given up (`TxTerminated`), where the top README (line 98) speaks of resuming.
- filters: an unreadable `etn` or `has_*` value is no constraint at all; and a name that contains `*`
  may fail to match a pattern that stands for it (`WildcardMatch` of FileFilter);
- relay: a client let go as too slow keeps its slot until its blocked write ends; a listener that cannot bind or
  accept goes unnoticed until ctrl-c; a first logon that fails is retried without the delay; a
  chunk larger than the budget cuts off every client (`SlowMeansBehind` excepts it); the
  switch may be stored after what it was about has been forwarded; a window of one second never pauses;
- Weather Wire: each read of the handshake has the whole timeout again (`wait_for_any_tag`), so that
  connect, which does not look at the watch, need never end (`OtherElement`), where
  `wxwire_receiver/config.rs:30` speaks of the "Timeout for establishing the XMPP connection and
  session."; an acknowledgement dropped with its future is not sent (`docs/weather-wire.md:91`);
  `sm_handled_stanzas` starts at zero after presences were handled in the handshake; broken text
  delays the element behind it until the next turn; the idle clock only warns, so that a half-open
  connection without stream management, on which nothing is ever written, is not left;
- parser: strategies for CLI, SAW, SEL and MCD step aside without an issue when they cannot parse
  (`StepsAside`); METAR and TAF drop the body request; an unfinished area line is dropped without a
  word and a LAT...LON block takes in an area line right behind it (`ScanUgc`, `Swallows`); with an
  unresolved header time a marine-only segment is reported as missing its polygon, where
  `emwin-parser/README.md:209` keeps the marine exception; a not-before time without a later
  candidate falls back to the past.

## 7. State

The models are complete as far as they add anything to the code, and every safety property of
theirs is proved but for the exceptions at the end of section 4.  When the code changes, the map in
`PROJECT.json` says which definitions to look at, the run of the module comes first, and the
proofs last.
