-------------------------------- MODULE Relay -------------------------------
(***************************************************************************)
(* The QBT relay (emwin-protocol qbt_receiver/relay): an upstream loop, an *)
(* accept loop, a quality monitor and a metrics logger under one run(),    *)
(* and for every downstream client a session task with a writer task.      *)
(*                                                                         *)
(* The n-th chunk read from upstream is the number n.  A step ends at an   *)
(* await, and within a turn wherever another task could see the difference:*)
(* between a total and the quality window, which a lock of its own guards, *)
(* between the window and the queueing of the chunk, and between what the  *)
(* monitor measures under that lock and the switch it stores.              *)
(* Networks are free: a connect, a read or a write may have any outcome,   *)
(* and a peer that neither reads nor closes leaves the write of a chunk    *)
(* unfinished for ever.                                                    *)
(***************************************************************************)
EXTENDS Integers, Sequences, FiniteSets, Functions

CONSTANTS
    Clients,          \* identities of downstream sessions
    MaxClients,       \* max_clients
    BufferBytes,      \* client_buffer_bytes
    ReadBytes,        \* UPSTREAM_READ_BUFFER_BYTES, the size of the largest chunk
    QueueCapacity,    \* CLIENT_WRITER_QUEUE_CAPACITY
    RingCapacity,     \* UPSTREAM_CHANNEL_CAPACITY
    Window,           \* quality_window_secs
    PauseBelow,       \* quality_pause_threshold, in thousandths
    ResumeFrom,       \* QUALITY_RESUME_THRESHOLD, in thousandths
    SizeOf            \* bytes of the n-th chunk; its domain bounds the chunks

MaxChunks == Len(SizeOf)
Chunks    == 1..MaxChunks

ASSUME RelayAssumption ==
    /\ IsFiniteSet(Clients)
    /\ {MaxClients, BufferBytes, ReadBytes, QueueCapacity, RingCapacity, Window} \subseteq Nat \ {0}
    /\ PauseBelow \in 0..1000 /\ ResumeFrom \in 0..1000
    /\ SizeOf \in Seq(1..ReadBytes)

VARIABLES
    shutdown,   \* the shutdown watch
    up,         \* the upstream loop
    accept,     \* the accept loop
    sent,       \* chunks put into the broadcast ring
    active,     \* downstream_active_clients
    users,      \* the clients in QbtRelayState.clients
    phase,      \* where a session is
    authed,     \* is_authenticated
    seen,       \* the last chunk a session took from the ring
    queue,      \* a session's writer queue
    inHand,     \* the chunk a writer is writing, 0 for none
    written,    \* the chunk in hand is written and in the total, not in the window
    writer,     \* "none", "running" or "ended"
    totals,     \* bytes_attempted_total - bytes_forwarded_total, bytes_dropped_total
    window,     \* the quality buckets, the current one first
    monitor,    \* what the quality monitor is about to store, or "waits" for a tick
    paused,     \* forwarding_paused
    vanished,   \* history: bytes attempted that no counter saw end
    lost,       \* history: bytes dropped or vanished, by the buckets of the window
    got,        \* history: the last chunk a client was sent whole, 0 for none
    skipped     \* history: the chunks a session skipped while paused

tasks    == <<shutdown, up, accept>>
session  == <<phase, authed, seen>>
writing  == <<queue, inHand, written, writer>>
ledger   == <<totals, vanished>>
gauge    == <<window, lost>>
switch   == <<monitor, paused>>
quality  == <<ledger, gauge, switch>>
received == <<got, skipped>>
slots    == <<active, users>>
vars     == <<tasks, sent, slots, session, writing, quality, received>>

Phases == {"none", "top", "select", "counting", "offering", "closing", "dead"}

TypeOK ==
    /\ shutdown \in BOOLEAN
    /\ up \in {"idle", "connecting", "session", "ended"}
    /\ accept \in {"listening", "rejecting", "failed", "ended"}
    /\ sent \in 0..MaxChunks
    /\ active \in 0..MaxClients
    /\ users \subseteq Clients
    /\ phase \in [Clients -> Phases]
    /\ authed \in [Clients -> BOOLEAN]
    /\ seen \in [Clients -> 0..MaxChunks]
    /\ queue \in [Clients -> Seq(Chunks)]
    /\ \A c \in Clients : Len(queue[c]) <= QueueCapacity
    /\ inHand \in [Clients -> 0..MaxChunks]
    /\ written \in [Clients -> BOOLEAN]
    /\ writer \in [Clients -> {"none", "running", "ended"}]
    /\ totals \in [unforwarded : Nat, dropped : Nat]
    /\ window \in [1..Window -> [attempted : Nat, forwarded : Nat]]
    /\ monitor \in {"waits", "pauses", "forwards"}
    /\ paused \in BOOLEAN
    /\ vanished \in Nat
    /\ lost \in [1..Window -> Nat]
    /\ got \in [Clients -> 0..MaxChunks]
    /\ skipped \in [Clients -> SUBSET Chunks]

Empty == [attempted |-> 0, forwarded |-> 0]

Init ==
    /\ shutdown = FALSE
    /\ up = "idle"
    /\ accept \in {"listening", "failed"}
    /\ sent = 0
    /\ active = 0 /\ users = {}
    /\ phase = [c \in Clients |-> "none"]
    /\ authed = [c \in Clients |-> FALSE]
    /\ seen = [c \in Clients |-> 0]
    /\ queue = [c \in Clients |-> <<>>]
    /\ inHand = [c \in Clients |-> 0]
    /\ written = [c \in Clients |-> FALSE]
    /\ writer = [c \in Clients |-> "none"]
    /\ totals = [unforwarded |-> 0, dropped |-> 0]
    /\ window = [b \in 1..Window |-> Empty]
    /\ monitor = "waits"
    /\ paused = FALSE
    /\ vanished = 0
    /\ lost = [b \in 1..Window |-> 0]
    /\ got = [c \in Clients |-> 0]
    /\ skipped = [c \in Clients |-> {}]

-----------------------------------------------------------------------------
(* run_upstream_loop *)

UpOnly(next) ==
    /\ up' = next
    /\ UNCHANGED <<shutdown, accept, sent, slots, session,
                   writing, quality, received>>

\* The watch is read at the top; the select arms with changed() return.
UpEnds == up \in {"idle", "session"} /\ shutdown /\ UpOnly("ended")

\* Idle is the top of the loop and the reconnect delay before it.
UpConnects == up = "idle" /\ ~shutdown /\ UpOnly("connecting")
Connected  == up = "connecting" /\ UpOnly("session")

\* The connection fails, and there is a delay; or the first logon cannot be
\* written, and there is none.
ConnectFails == up = "connecting" /\ UpOnly("idle")

\* End of stream, a read error, or a periodic logon that fails.
UpstreamLost == up = "session" /\ UpOnly("idle")

\* A chunk goes into the broadcast ring for all subscribers at once.
ReadChunk ==
    /\ up = "session" /\ sent < MaxChunks
    /\ sent' = sent + 1
    /\ UNCHANGED <<tasks, slots, session, writing, quality, received>>

Upstream == UpEnds \/ UpConnects \/ Connected \/ ConnectFails \/ UpstreamLost \/ ReadChunk

-----------------------------------------------------------------------------
(* run_accept_loop *)

AcceptOnly(next) ==
    /\ accept' = next
    /\ UNCHANGED <<shutdown, up, sent, slots, session,
                   writing, quality, received>>

AcceptEnds == accept = "listening" /\ shutdown /\ AcceptOnly("ended")

\* accept returns an error: the loop is over, and run() is elsewhere.
AcceptFails == accept = "listening" /\ AcceptOnly("failed")

\* Over capacity: the server list is written inside the accept loop.
Reject   == accept = "listening" /\ active >= MaxClients /\ AcceptOnly("rejecting")
Rejected == accept = "rejecting" /\ AcceptOnly("listening")

\* The slot is taken by one compare-and-swap; the session subscribes to the
\* ring before it is authenticated.
Admit(c) ==
    /\ accept = "listening" /\ active < MaxClients
    /\ phase[c] = "none"
    /\ active' = active + 1
    /\ phase' = [phase EXCEPT ![c] = "top"]
    /\ seen' = [seen EXCEPT ![c] = sent]
    /\ writer' = [writer EXCEPT ![c] = "running"]
    /\ UNCHANGED <<tasks, sent, users, authed, queue, inHand, written, quality, received>>

-----------------------------------------------------------------------------
(* run_client_session *)

Goto(c, next) == phase' = [phase EXCEPT ![c] = next]

\* The top of the loop: the watch is set, or a logon deadline has passed (30 s
\* without a first logon, auth_timeout without a further one).  Time is not
\* counted here: the deadline may have passed in any turn of the loop.
TopLeaves(c) ==
    /\ phase[c] = "top"
    /\ Goto(c, "closing")
    /\ UNCHANGED <<tasks, sent, slots, authed, seen, writing, quality, received>>

TopStays(c) ==
    /\ phase[c] = "top" /\ ~shutdown
    /\ Goto(c, "select")
    /\ UNCHANGED <<tasks, sent, slots, authed, seen, writing, quality, received>>

\* The watch fires, the client closes, or reading from it fails.
SessionEnds(c) ==
    /\ phase[c] = "select"
    /\ Goto(c, "closing")
    /\ UNCHANGED <<tasks, sent, slots, authed, seen, writing, quality, received>>

\* A second without data, or data that completes no logon.
ReadNothing(c) ==
    /\ phase[c] = "select"
    /\ Goto(c, "top")
    /\ UNCHANGED <<tasks, sent, slots, authed, seen, writing, quality, received>>

ReadLogon(c) ==
    /\ phase[c] = "select"
    /\ authed' = [authed EXCEPT ![c] = TRUE]
    /\ users' = users \cup {c}
    /\ Goto(c, "top")
    /\ UNCHANGED <<tasks, sent, active, seen, writing, quality, received>>

\* AuthParser::consume cuts its text at 8 KiB without regard to characters:
\* with bytes that are not UTF-8 before it the cut may fall inside one, and
\* the session task panics.  Its slot and its entry among the users stay.
ReadPanics(c) ==
    /\ phase[c] = "select"
    /\ Goto(c, "dead")
    /\ UNCHANGED <<tasks, sent, slots, authed, seen, writing, quality, received>>

Lagged(c) == sent - seen[c] > RingCapacity

\* The oldest chunk is overwritten before the session took it.
RecvLagged(c) ==
    /\ phase[c] = "select" /\ authed[c] /\ Lagged(c)
    /\ Goto(c, "closing")
    /\ UNCHANGED <<tasks, sent, slots, authed, seen, writing, quality, received>>

\* Both senders of the ring are gone and it is drained.
RecvClosed(c) ==
    /\ phase[c] = "select" /\ authed[c]
    /\ up = "ended" /\ accept \in {"ended", "failed"} /\ seen[c] = sent
    /\ Goto(c, "closing")
    /\ UNCHANGED <<tasks, sent, slots, authed, seen, writing, quality, received>>

CanRecv(c) == phase[c] = "select" /\ authed[c] /\ ~Lagged(c) /\ seen[c] < sent

RecvPaused(c) ==
    /\ CanRecv(c) /\ paused
    /\ seen' = [seen EXCEPT ![c] = @ + 1]
    /\ skipped' = [skipped EXCEPT ![c] = @ \cup {seen[c] + 1}]
    /\ Goto(c, "top")
    /\ UNCHANGED <<tasks, sent, slots, authed, writing, quality, got>>

\* add_attempted: the total first, then the window under its lock.
RecvChunk(c) ==
    /\ CanRecv(c) /\ ~paused
    /\ seen' = [seen EXCEPT ![c] = @ + 1]
    /\ totals' = [totals EXCEPT !.unforwarded = @ + SizeOf[seen[c] + 1]]
    /\ Goto(c, "counting")
    /\ UNCHANGED <<tasks, sent, slots, authed, writing, vanished, gauge, switch, received>>

\* The chunk in the session's hand.
Offered(c) == seen[c]

CountAttempt(c) ==
    /\ phase[c] = "counting"
    /\ window' = [window EXCEPT ![1].attempted = @ + SizeOf[Offered(c)]]
    /\ Goto(c, "offering")
    /\ UNCHANGED <<tasks, sent, slots, authed, seen, writing, ledger, lost, switch, received>>

\* The bytes of a set of chunks, and how many they are.  A client never holds
\* a chunk twice.
BytesOf(C) == UNION {{n} \X (1..SizeOf[n]) : n \in C}
Bytes(C)   == Cardinality(BytesOf(C))

\* What a client holds permits for: its queue and what is being written.
Holding(c) == Range(queue[c]) \cup ({inHand[c]} \ {0})
Held(c)    == Bytes(Holding(c))

\* Seeded fault: the last byte of the budget is never given out.
HasPermitsStrict(c) == Held(c) + SizeOf[Offered(c)] < BufferBytes

\* Bytes are lost in the second that the newest bucket stands for.
Lose(bytes) == lost' = [lost EXCEPT ![1] = @ + bytes]

HasPermits(c) == Held(c) + SizeOf[Offered(c)] <= BufferBytes

\* Seeded fault: a client without permits loses the chunk, not the session.
OfferSlips(c) ==
    /\ phase[c] = "offering"
    /\ ~HasPermits(c) \/ (writer[c] = "running" /\ Len(queue[c]) >= QueueCapacity)
    /\ totals' = [totals EXCEPT !.dropped = @ + SizeOf[Offered(c)]]
    /\ Lose(SizeOf[Offered(c)])
    /\ Goto(c, "top")
    /\ UNCHANGED <<tasks, sent, slots, authed, seen, writing, vanished, window, switch, received>>

\* No permits, or a full queue: the client is too slow and is let go.
OfferTooSlow(c) ==
    /\ phase[c] = "offering"
    /\ ~HasPermits(c) \/ (writer[c] = "running" /\ Len(queue[c]) >= QueueCapacity)
    /\ totals' = [totals EXCEPT !.dropped = @ + SizeOf[Offered(c)]]
    /\ Lose(SizeOf[Offered(c)])
    /\ Goto(c, "closing")
    /\ UNCHANGED <<tasks, sent, slots, authed, seen, writing, vanished, window, switch, received>>

\* The writer has failed; nobody counts this chunk.
OfferClosed(c) ==
    /\ phase[c] = "offering" /\ HasPermits(c) /\ writer[c] = "ended"
    /\ vanished' = vanished + SizeOf[Offered(c)]
    /\ Lose(SizeOf[Offered(c)])
    /\ Goto(c, "closing")
    /\ UNCHANGED <<tasks, sent, slots, authed, seen, writing, totals, window, switch, received>>

OfferQueued(c) ==
    /\ phase[c] = "offering" /\ HasPermits(c)
    /\ writer[c] = "running" /\ Len(queue[c]) < QueueCapacity
    /\ queue' = [queue EXCEPT ![c] = Append(@, Offered(c))]
    /\ Goto(c, "top")
    /\ UNCHANGED <<tasks, sent, slots, authed, seen, inHand, written, writer, quality, received>>

\* Seeded fault: the session returns without waiting for its writer.
GoneEarly(c) ==
    /\ phase[c] = "closing"
    /\ active' = active - 1
    /\ users' = users \ {c}
    /\ writer' = [writer EXCEPT ![c] = "none"]
    /\ Goto(c, "none")
    /\ authed' = [authed EXCEPT ![c] = FALSE]
    /\ seen' = [seen EXCEPT ![c] = 0]
    /\ got' = [got EXCEPT ![c] = 0]
    /\ skipped' = [skipped EXCEPT ![c] = {}]
    /\ UNCHANGED <<tasks, sent, queue, inHand, written, quality>>

\* drop(writer_tx) and the await of the writer; then the slot is returned.
Gone(c) ==
    /\ phase[c] = "closing" /\ writer[c] = "ended"
    /\ active' = active - 1
    /\ users' = users \ {c}
    /\ writer' = [writer EXCEPT ![c] = "none"]
    /\ Goto(c, "none")
    /\ authed' = [authed EXCEPT ![c] = FALSE]
    /\ seen' = [seen EXCEPT ![c] = 0]
    /\ got' = [got EXCEPT ![c] = 0]
    /\ skipped' = [skipped EXCEPT ![c] = {}]
    /\ UNCHANGED <<tasks, sent, queue, inHand, written, quality>>

Offer(c) == CountAttempt(c) \/ OfferTooSlow(c) \/ OfferClosed(c) \/ OfferQueued(c)
Select(c) ==
    \/ SessionEnds(c) \/ ReadNothing(c) \/ ReadLogon(c) \/ ReadPanics(c)
    \/ RecvLagged(c) \/ RecvClosed(c) \/ RecvPaused(c) \/ RecvChunk(c)

\* What the session does by itself, without its peer.
Session(c) == TopLeaves(c) \/ TopStays(c) \/ Select(c) \/ Offer(c) \/ Gone(c)

-----------------------------------------------------------------------------
(* run_client_writer *)

WriterTakes(c) ==
    /\ writer[c] = "running" /\ inHand[c] = 0 /\ queue[c] # <<>>
    /\ inHand' = [inHand EXCEPT ![c] = Head(queue[c])]
    /\ queue' = [queue EXCEPT ![c] = Tail(@)]
    /\ UNCHANGED <<tasks, sent, slots, session, written, writer, quality, received>>

\* add_forwarded: again the total first.
WriteDone(c) ==
    /\ writer[c] = "running" /\ inHand[c] # 0 /\ ~written[c]
    /\ written' = [written EXCEPT ![c] = TRUE]
    /\ totals' = [totals EXCEPT !.unforwarded = @ - SizeOf[inHand[c]]]
    /\ UNCHANGED <<tasks, sent, slots, session, queue, inHand, writer,
                   vanished, gauge, switch, received>>

\* Then the window; and with the chunk its permits go back.
WriteCounted(c) ==
    /\ writer[c] = "running" /\ written[c]
    /\ window' = [window EXCEPT ![1].forwarded = @ + SizeOf[inHand[c]]]
    /\ got' = [got EXCEPT ![c] = inHand[c]]
    /\ inHand' = [inHand EXCEPT ![c] = 0]
    /\ written' = [written EXCEPT ![c] = FALSE]
    /\ UNCHANGED <<tasks, sent, slots, session, queue, writer, ledger, lost, switch, skipped>>

\* The chunk in hand is counted, those still queued go uncounted.
WriteFails(c) ==
    /\ writer[c] = "running" /\ inHand[c] # 0 /\ ~written[c]
    /\ totals' = [totals EXCEPT !.dropped = @ + SizeOf[inHand[c]]]
    /\ vanished' = vanished + Bytes(Range(queue[c]))
    /\ Lose(SizeOf[inHand[c]] + Bytes(Range(queue[c])))
    /\ inHand' = [inHand EXCEPT ![c] = 0]
    /\ queue' = [queue EXCEPT ![c] = <<>>]
    /\ writer' = [writer EXCEPT ![c] = "ended"]
    /\ UNCHANGED <<tasks, sent, slots, session, written, window, switch, received>>

\* The session has dropped its end and the queue is drained.
WriterEnds(c) ==
    /\ writer[c] = "running" /\ inHand[c] = 0 /\ queue[c] = <<>>
    /\ phase[c] \in {"closing", "dead"}
    /\ writer' = [writer EXCEPT ![c] = "ended"]
    /\ UNCHANGED <<tasks, sent, slots, session, queue, inHand, written, quality, received>>

Writer(c) == WriterTakes(c) \/ WriteDone(c) \/ WriteCounted(c) \/ WriteFails(c) \/ WriterEnds(c)

-----------------------------------------------------------------------------
(* run_quality_monitor, run_metrics_logger, run *)

\* rotate: the oldest bucket goes, and the newest is empty.
Shifted(buckets, new) == [b \in 1..Window |-> IF b = 1 THEN new ELSE buckets[b - 1]]
Rotated == Shifted(window, Empty)

\* The sums of a count over the newest buckets, from none to all.
Sums(count) ==
    LET sum[b \in 0..Window] == IF b = 0 THEN 0 ELSE sum[b - 1] + count[b] IN sum
WindowAttempted(w) == Sums([b \in 1..Window |-> w[b].attempted])[Window]
WindowForwarded(w) == Sums([b \in 1..Window |-> w[b].forwarded])[Window]

\* ratio(w) < t: an empty window counts as perfect.
RatioBelow(w, t) ==
    WindowAttempted(w) > 0 /\ WindowForwarded(w) * 1000 < t * WindowAttempted(w)

\* Seeded fault: the switch only ever goes on.
NextPauseSticky(w) == paused \/ RatioBelow(w, PauseBelow)

NextPause(w) ==
    IF paused THEN RatioBelow(w, ResumeFrom) ELSE RatioBelow(w, PauseBelow)

\* A tick of the monitor: it turns the window and measures it under the lock,
\* and knows what the switch will be, since nobody else writes it.  After
\* ctrl-c its select may still take a tick that is due, so none is ruled out.
MonitorMeasures ==
    /\ monitor = "waits"
    /\ window' = Rotated
    /\ lost' = Shifted(lost, 0)
    /\ monitor' = IF NextPause(Rotated) THEN "pauses" ELSE "forwards"
    /\ UNCHANGED <<tasks, sent, slots, session, writing, ledger, paused, received>>

\* Without the lock the switch is stored; the window may have moved on.
MonitorStores ==
    /\ monitor # "waits"
    /\ paused' = (monitor = "pauses")
    /\ monitor' = "waits"
    /\ UNCHANGED <<tasks, sent, slots, session, writing, ledger, gauge, received>>

Monitor == MonitorMeasures \/ MonitorStores

\* run() joins its tasks in this order, and returns at once when the accept
\* loop has failed; sessions are not joined, and its return stops nobody.  The
\* monitor and the metrics logger wait for nothing but a timer and the watch:
\* they are over once it is set.
RunResult ==
    CASE up # "ended"        -> "joining"
      [] accept = "failed"   -> "failed"
      [] accept # "ended"    -> "joining"
      [] ~shutdown           -> "joining"
      [] OTHER               -> "ok"

CtrlC ==
    /\ ~shutdown
    /\ shutdown' = TRUE
    /\ UNCHANGED <<up, accept, sent, slots, session,
                   writing, quality, received>>

Accept == AcceptEnds \/ AcceptFails \/ Reject \/ Rejected \/ \E c \in Clients : Admit(c)

Next ==
    \/ Upstream \/ Accept \/ Monitor \/ CtrlC
    \/ \E c \in Clients : Session(c) \/ Writer(c)

\* The executor polls every task, and a timer or a ready branch of a select is
\* taken in the end.  Nothing is assumed of the peers: not that they read, and
\* not that a write of a chunk to them ever finishes.  The server list that a
\* rejected client gets is small and the first thing written to its socket, so
\* that it fits into the empty buffer of the socket.
Fairness ==
    /\ WF_vars(Upstream) /\ SF_vars(UpEnds)
    /\ SF_vars(AcceptEnds) /\ WF_vars(Rejected)
    /\ WF_vars(Monitor)
    /\ \A c \in Clients : /\ WF_vars(Session(c))
                          /\ WF_vars(WriterTakes(c) \/ WriteCounted(c) \/ WriterEnds(c))

Spec == Init /\ [][Next]_vars /\ Fairness

-----------------------------------------------------------------------------
(* Correctness *)

\* Who has taken a slot and not given it back: a session up to the end of its
\* writer, and for ever one that panicked.
SlotHolders == {c \in Clients : phase[c] # "none"}

\* The counter that admits clients counts the slots taken and not given back,
\* and is never beyond the limit; a slot comes back only once the writer is done
\* with the socket, and only clients that logged on are listed as users.
SlotsExact ==
    /\ TypeOK
    /\ active = Cardinality(SlotHolders) /\ active <= MaxClients
    /\ \A c \in users : phase[c] # "none" /\ authed[c]
    /\ \A c \in Clients : phase[c] = "none" =>
           writer[c] = "none" /\ inHand[c] = 0 /\ queue[c] = <<>>

\* "downstream_active_clients (current count)" (docs/relay-mode.md): as many as
\* there are sessions.  A session that panics in AuthParser::consume leaves its
\* slot behind, and the counter is too high from then on.
ActiveAreConnected == active = Cardinality({c \in Clients : phase[c] \notin {"none", "dead"}})

\* What is in the session's hand, counted in the total, and what of it is in
\* the window too.
InSession(c) == IF phase[c] \in {"counting", "offering"} THEN {Offered(c)} ELSE {}
InWindow(c)  == IF phase[c] = "offering" THEN {Offered(c)} ELSE {}
Written(c)   == IF written[c] THEN {inHand[c]} ELSE {}

\* The bytes that a set of chunks for every client has.
FlightOf(P) == UNION {{c} \X BytesOf(P[c]) : c \in Clients}

\* The chunks on their way to a client as the totals see it, and as the window
\* does, and their bytes.
Pending(c) == (Holding(c) \ Written(c)) \cup InSession(c)
Awaited(c) == Holding(c) \cup InWindow(c)
InFlight     == Cardinality(FlightOf([c \in Clients |-> Pending(c)]))
AwaitedBytes == Cardinality(FlightOf([c \in Clients |-> Awaited(c)]))

\* Every attempted byte is forwarded, dropped, on its way, or among those that
\* a failed writer took with it, and no client is over its budget.
BytesAccounted ==
    /\ totals.unforwarded = totals.dropped + InFlight + vanished
    /\ \A c \in Clients : Held(c) <= BufferBytes

\* The last chunk a client was sent whole, and those that are to follow it.
Had(c) == Holding(c) \cup ({got[c]} \ {0})

\* "Passthrough only": a client gets the chunks in order, and between the
\* first and the last of them nothing is missing but what a pause skipped.
NoHoles ==
    \A c \in Clients :
        /\ \A i, j \in 1..Len(queue[c]) : i < j => queue[c][i] < queue[c][j]
        /\ \A n \in Range(queue[c]) : got[c] < n /\ inHand[c] < n
        /\ inHand[c] # 0 => got[c] < inHand[c]
        /\ \A m, n \in Had(c) : (m + 1)..(n - 1) \subseteq Had(c) \cup skipped[c]

\* A client is let go as too slow only while its writer still has bytes for it,
\* or for a chunk beyond its whole budget: one whose queue is drained is never
\* cut off by a burst.
SlowMeansBehind ==
    [][\A c \in Clients :
          (phase[c] = "offering" /\ phase'[c] = "closing" /\ totals' # totals) =>
              Held(c) > 0 \/ SizeOf[Offered(c)] > BufferBytes]_vars

\* Forwarding is about to be paused only when, at the measurement, the window
\* awaited bytes or bytes were lost within its seconds: with every byte of the
\* window delivered, no split of the counts over its seconds, no loss before
\* them and no count between a total and the window pauses it.  By the time
\* the switch is stored the last bytes may have been forwarded.
PauseHasCause ==
    [][(monitor' = "pauses" /\ monitor = "waits" /\ ~paused) =>
          AwaitedBytes > 0 \/ \E b \in 1..Window : lost'[b] > 0]_vars

\* A pause ends: nothing is attempted during it, and the window empties.
PauseEnds == paused ~> (~paused \/ shutdown)

\* After ctrl-c run() returns, and every session ends and gives its slot back,
\* whatever the peers do; all that can remain for ever is a session that
\* panicked before, and one whose writer is stuck in a write to its client.
RunReturns ==
    <>shutdown => <>[](/\ RunResult \in {"ok", "failed"}
                       /\ \A c \in Clients :
                              \/ phase[c] \in {"none", "dead"}
                              \/ inHand[c] # 0 /\ ~written[c])
\* A client gets the stream without holes, and what it does not get is counted.
StreamAccounted == BytesAccounted /\ NoHoles

\* Neither a client nor everybody is cut off without a cause: a client only
\* with bytes at its writer, everybody only with bytes of the window awaited
\* or lost.
CutsHaveCause == SlowMeansBehind /\ PauseHasCause

\* The relay gets out of a pause, and out of everything at ctrl-c.
RelayRecovers == PauseEnds /\ RunReturns
=============================================================================
