--------------------------- MODULE LiveServerProofs -------------------------
(***************************************************************************)
(* The live server: its parts behave as their own modules say, a product   *)
(* is handled completely, the shutdown is clean and the health endpoint    *)
(* tells of the connection, for any number of clients, products and events *)
(* and every limit of the server.                                          *)
(***************************************************************************)
EXTENDS LiveServer, DataLemmas

-----------------------------------------------------------------------------
(* What the invariants rest on *)

\* Every connection holds a slot, and the slots are counted.
Slots ==
    /\ connected \in 0..MaxClients
    /\ stage \in [Clients -> Hub!Stages]
    /\ Cardinality(Connections) <= connected

\* The n-th product retained is the number n, and the clock stands still.
Numbered ==
    /\ now = 0
    /\ inserted \in Seq(Products) /\ Len(inserted) <= MaxProducts
    /\ \A i \in 1..Len(inserted) : inserted[i] = i

\* How far the ingest task got with the last product: retained, offered to the
\* persistence runtime, published.
Counted ==
    /\ ingest \in {"off", "starting"} => inserted = <<>> /\ announced = {}
    /\ ingest \in {"running", "stopping", "ok"} => announced = 1..Len(inserted)
    /\ ingest \in {"retained", "offered"} =>
          Len(inserted) >= 1 /\ announced = 1..(Len(inserted) - 1)
    /\ 1..(Len(inserted) - 1) \subseteq announced /\ announced \subseteq 1..Len(inserted)
    /\ persisting => \A n \in announced : fate[n] # "new"
    /\ persisting /\ ingest = "offered" => fate[Len(inserted)] # "new"

\* The order in which the main task waits for the others.
AfterServe   == {"joinIngest", "joinStats", "joinCleanup", "closing", "settling", "returned"}
AfterIngest  == AfterServe \ {"joinIngest"}
AfterStats   == AfterIngest \ {"joinStats"}
AfterCleanup == AfterStats \ {"joinCleanup"}

Joined ==
    /\ main \in {"starting", "failed"} => ingest = "off"
    /\ main \in AfterServe => Connections = {}
    /\ main \in AfterIngest => ingest \in {"ok", "failed"}
    /\ main \in AfterStats => stats = "ended"
    /\ main \in AfterCleanup => cleanup \in {"off", "ended"}
    /\ ingest \in {"off", "starting"} => receiver = "off"
    /\ ingest \in {"ok", "failed"} => receiver # "running"
    /\ receiver = "detached" => ingest = "failed"

\* The persistence runtime is closed last, and only if there is one.
Settled ==
    /\ main \in {"closing", "settling"} => persisting
    /\ closed <=> persisting /\ main \in {"settling", "returned"}
    /\ closed => Ledger!With("queued") = {}
    /\ main = "returned" => Ledger!With("active") = {}
    /\ \A n \in Products : fate[n] # "new" => persisting /\ fate[n] # "rejected"

\* The event that tells most recently of the connection is still in the
\* channel, or has been handled.
Marks == {"connected", "disconnected"}

LastMark(f, i) == f[i] \in Marks /\ \A j \in (i + 1)..Len(f) : f[j] \notin Marks

Foretold(f, known, up) ==
    \/ (\A i \in 1..Len(f) : f[i] \notin Marks) /\ (known <=> up)
    \/ \E i \in 1..Len(f) : LastMark(f, i) /\ (up <=> f[i] = "connected")

Told ==
    /\ ingest \in {"off", "starting"} => feed = <<>> /\ ~link /\ ~upstream
    /\ (receiver = "running" /\ ~missed /\ ingest \in {"running", "retained", "offered"})
          => Foretold(feed, upstream, link)


LEMMA Constants ==
    /\ MaxClients \in Nat /\ MaxEntries \in Nat \ {0} /\ QueueCapacity \in Nat /\ FeedCapacity \in Nat
    /\ MaxProducts \in Nat /\ MaxFeed \in Nat /\ IsFiniteSet(Clients)
  BY ServerAssumption

-----------------------------------------------------------------------------
(* The parts of the server *)

\* What a step does to the event streams.
LEMMA HubStep == ASSUME [Next]_vars PROVE [Hub!Next]_hubVars
<1> USE DEF hubVars
<1>k. Hub!Kinds = {"file", "status"}
  BY DEF Hub!Kinds
<1>1. CASE CtrlC
  BY <1>1 DEF CtrlC, Hub!Next
<1>2. CASE Start \/ StartFails
  BY <1>2 DEF Start, StartFails
<1>3. CASE Joins
  BY <1>3 DEF Joins, ServeReturns, JoinIngest, JoinStats, JoinCleanup, ClosePersistence,
              PersistenceSettles, Elsewhere
<1>4. CASE (\E kind \in FeedKinds : ReceiverSends(kind)) \/ ReceiverDies
  BY <1>4 DEF ReceiverSends, ReceiverDies
<1>5. CASE Ingest
  <2>1. CASE IngestBegins \/ IngestCannotBegin \/ IngestLeaves \/ ReceiverStopped
    BY <2>1 DEF IngestBegins, IngestCannotBegin, IngestLeaves, ReceiverStopped
  <2>2. CASE \E kind \in FeedKinds : HandleStatus(kind)
    BY <1>k, <2>2 DEF HandleStatus, Hub!Next
  <2>3. CASE HandleCorrupt \/ HandleProduct \/ OfferProduct \/ OfferFails
    BY <2>3 DEF HandleCorrupt, HandleProduct, OfferProduct, OfferFails
  <2>4. CASE PublishProduct
    BY <1>k, <2>4 DEF PublishProduct, Hub!Next
  <2>5. QED
    BY <1>5, <2>1, <2>2, <2>3, <2>4 DEF Ingest, HandleEvent
<1>6. CASE StatsTick \/ StatsEnds \/ CleanupPass \/ CleanupEnds \/ Work
  BY <1>6 DEF StatsTick, StatsEnds, CleanupPass, CleanupEnds, Work
<1>7. CASE \E c \in Clients : HandleEvents(c)
  BY <1>7 DEF HandleEvents, Hub!Next
<1>8. CASE Returned \/ UNCHANGED vars
  BY <1>8 DEF Returned, vars
<1>9. QED
  BY <1>1, <1>2, <1>3, <1>4, <1>5, <1>6, <1>7, <1>8 DEF Next

-----------------------------------------------------------------------------
(* The persistence runtime *)

\* What an offer, the worker and the close do to the fates of the requests.
LEMMA OfferFates ==
    ASSUME OfferProduct, persisting, ~closed, fate \in [Products -> Ledger!Fates]
    PROVE  /\ fate' \in [Products -> Ledger!Fates] /\ closed' = closed
           /\ Len(inserted) \in Products /\ fate'[Len(inserted)] = "queued"
           /\ \A n \in Products : fate'[n] # "rejected" \/ fate[n] = "rejected"
           /\ \A n \in Products : fate[n] # "new" => fate'[n] # "new"
<1> DEFINE k == Len(inserted)
<1>1. Ledger!Admit(k) \/ \E m \in Products : Ledger!Displace(k, m)
  BY DEF OfferProduct, Enqueue
<1>2. CASE Ledger!Admit(k)
  BY <1>2 DEF Ledger!Admit, Ledger!Oldest, Ledger!With, Ledger!Fates, Products
<1>3. ASSUME NEW m \in Products, Ledger!Displace(k, m)
      PROVE  /\ fate' = [fate EXCEPT ![k] = "queued", ![m] = "evicted"] /\ closed' = closed
             /\ k \in Products /\ fate[k] = "new" /\ fate[m] = "queued"
  BY <1>3 DEF Ledger!Displace, Ledger!Oldest, Ledger!With, Products
<1>4. CASE \E m \in Products : Ledger!Displace(k, m)
  BY <1>3, <1>4 DEF Ledger!Fates
<1>5. QED
  BY <1>1, <1>2, <1>4

LEMMA WorkFates ==
    ASSUME Work, fate \in [Products -> Ledger!Fates]
    PROVE  /\ fate' \in [Products -> Ledger!Fates] /\ closed' = closed
           /\ \A n \in Products : fate'[n] # "rejected" \/ fate[n] = "rejected"
           /\ \A n \in Products : fate[n] # "new" <=> fate'[n] # "new"
           /\ \A n \in Products : fate'[n] = "queued" => fate[n] = "queued"
<1>1. PICK n \in Products : \/ Ledger!Serve(n)
                            \/ \E r \in {"persisted", "failed"} : Ledger!Settle(n, r)
  BY DEF Work
<1>2. /\ \E r \in {"active", "persisted", "failed"} : fate' = [fate EXCEPT ![n] = r]
      /\ closed' = closed /\ fate[n] \in {"queued", "active"}
  BY <1>1 DEF Ledger!Serve, Ledger!Settle, Ledger!Oldest, Ledger!With
<1>3. QED
  BY <1>2 DEF Ledger!Fates

LEMMA CloseFates ==
    ASSUME ClosePersistence, fate \in [Products -> Ledger!Fates]
    PROVE  /\ fate' \in [Products -> Ledger!Fates] /\ closed' = TRUE
           /\ \A n \in Products : fate'[n] # "rejected" \/ fate[n] = "rejected"
           /\ \A n \in Products : fate[n] # "new" <=> fate'[n] # "new"
           /\ \A n \in Products : fate'[n] # "queued"
  BY DEF ClosePersistence, Ledger!Shut, Ledger!Fates, Products

\* No other step touches them.
LEMMA LedgerKinds ==
    ASSUME [Next]_vars
    PROVE  \/ OfferProduct /\ persisting /\ Enqueue(Len(inserted))
           \/ Work \/ ClosePersistence \/ UNCHANGED <<fate, closed>>
<1> USE DEF ledgerVars
<1>1. CASE Start \/ StartFails \/ CtrlC
  BY <1>1 DEF Start, StartFails, CtrlC
<1>2. CASE Joins
  BY <1>2 DEF Joins, ServeReturns, JoinIngest, JoinStats, JoinCleanup, PersistenceSettles
<1>3. CASE (\E kind \in FeedKinds : ReceiverSends(kind)) \/ ReceiverDies
  BY <1>3 DEF ReceiverSends, ReceiverDies
<1>4. CASE Ingest
  BY <1>4 DEF Ingest, HandleEvent, IngestBegins, IngestCannotBegin, IngestLeaves, ReceiverStopped,
              HandleStatus, HandleCorrupt, HandleProduct, OfferProduct, OfferFails, PublishProduct
<1>5. CASE StatsTick \/ StatsEnds \/ CleanupPass \/ CleanupEnds
  BY <1>5 DEF StatsTick, StatsEnds, CleanupPass, CleanupEnds
<1>6. CASE \E c \in Clients : HandleEvents(c)
  BY <1>6 DEF HandleEvents
<1>7. CASE Returned \/ UNCHANGED vars
  BY <1>7 DEF Returned, vars
<1>8. QED
  BY <1>1, <1>2, <1>3, <1>4, <1>5, <1>6, <1>7 DEF Next

-----------------------------------------------------------------------------
(* Types *)

\* A step that leaves alone what the receiver and the ingest task keep.
LEMMA MainKinds ==
    ASSUME [Next]_vars
    PROVE  \/ Start
           \/ UNCHANGED <<linkVars, feed, ingestVars, tasks>> /\ (StartFails \/ CtrlC \/ Joins)
           \/ UNCHANGED <<serverVars, tasks>> /\ ((\E kind \in FeedKinds : ReceiverSends(kind)) \/ ReceiverDies \/ Ingest)
           \/ UNCHANGED <<serverVars, linkVars, feed, ingestVars>>
<1>1. CASE StartFails \/ CtrlC
  BY <1>1 DEF StartFails, CtrlC
<1>2. CASE Joins
  BY <1>2 DEF Joins, ServeReturns, JoinIngest, JoinStats, JoinCleanup, ClosePersistence,
              PersistenceSettles, Elsewhere
<1>3. CASE (\E kind \in FeedKinds : ReceiverSends(kind)) \/ ReceiverDies
  BY <1>3 DEF ReceiverSends, ReceiverDies
<1>4. CASE Ingest
  BY <1>4 DEF Ingest, HandleEvent, IngestBegins, IngestCannotBegin, IngestLeaves, ReceiverStopped,
              HandleStatus, HandleCorrupt, HandleProduct, OfferProduct, OfferFails, PublishProduct
<1>5. CASE StatsTick \/ StatsEnds \/ CleanupPass \/ CleanupEnds \/ Work
  BY <1>5 DEF StatsTick, StatsEnds, CleanupPass, CleanupEnds, Work, Aside
<1>6. CASE \E c \in Clients : HandleEvents(c)
  BY <1>6 DEF HandleEvents, Aside
<1>7. CASE Returned \/ UNCHANGED vars
  BY <1>7 DEF Returned, vars
<1>8. QED
  BY <1>1, <1>2, <1>3, <1>4, <1>5, <1>6, <1>7 DEF Next

\* Every variable keeps its type; that of the clients' counter comes from the
\* event streams.
LEMMA TypeStep ==
    ASSUME TypeOK, [Next]_vars, Numbered, connected' \in 0..MaxClients,
           ingest = "retained" => ~closed,
           ingest \in {"retained", "offered"} => Len(inserted) >= 1
    PROVE  TypeOK'
<1> DEFINE Rest ==
      /\ main \in Mains
      /\ persisting \in BOOLEAN /\ cleaning \in BOOLEAN
      /\ link \in BOOLEAN /\ upstream \in BOOLEAN
      /\ receiver \in {"off", "running", "ended", "detached"}
      /\ feed \in Seq(FeedKinds) /\ Len(feed) <= FeedCapacity
      /\ sent \in 0..MaxFeed /\ missed \in BOOLEAN
      /\ ingest \in {"off", "starting", "running", "retained", "offered", "stopping",
                     "ok", "failed"}
      /\ stats \in {"off", "running", "ended"}
      /\ cleanup \in {"off", "running", "busy", "ended"}
      /\ announced \subseteq Products
<1>i. Rest
  BY DEF TypeOK
<1>f. fate' \in [Products -> Ledger!Fates]
  <2>1. fate \in [Products -> Ledger!Fates]
    BY DEF TypeOK
  <2>2. CASE OfferProduct /\ persisting
    BY <2>1, <2>2, OfferFates DEF OfferProduct
  <2>3. QED
    BY <2>1, <2>2, LedgerKinds, WorkFates, CloseFates
<1> SUFFICES Rest'
  BY <1>f DEF TypeOK
<1>1. CASE Start \/ StartFails \/ CtrlC
  BY <1>1, <1>i DEF Start, StartFails, CtrlC, Mains, serverVars, linkVars, ingestVars, tasks
<1>2. CASE Joins
  BY <1>2, <1>i DEF Joins, ServeReturns, JoinIngest, JoinStats, JoinCleanup, ClosePersistence,
                    PersistenceSettles, Advance, Elsewhere, Mains, serverVars, linkVars, ingestVars, tasks
<1>3. ASSUME NEW kind \in FeedKinds, ReceiverSends(kind) PROVE Rest'
  <2>1. feed' \in Seq(FeedKinds) /\ Len(feed') <= FeedCapacity /\ sent' \in 0..MaxFeed
    BY <1>3, <1>i, Constants DEF ReceiverSends, Send
  <2>2. missed' \in BOOLEAN
    BY <1>3, <1>i DEF ReceiverSends, Send
  <2>3. link' \in BOOLEAN
    BY <1>3, <1>i DEF ReceiverSends
  <2>4. UNCHANGED <<main, persisting, cleaning, upstream, receiver, ingest, stats, cleanup, announced>>
    BY <1>3 DEF ReceiverSends, serverVars, linkVars, ingestVars, tasks
  <2>5. QED
    BY <1>i, <2>1, <2>2, <2>3, <2>4
<1>4. CASE ReceiverDies
  <2>1. link' = FALSE /\ receiver' = "ended"
        /\ UNCHANGED <<main, persisting, cleaning, upstream, feed, sent, missed, ingest, stats, cleanup, announced>>
    BY <1>4 DEF ReceiverDies, serverVars, linkVars, ingestVars, tasks
  <2>2. QED
    BY <1>i, <2>1, Zenon
<1>5. CASE IngestBegins \/ IngestCannotBegin \/ IngestLeaves \/ OfferFails
  <2>1. feed' \in {feed, <<>>}
    BY <1>5 DEF IngestBegins, IngestCannotBegin, IngestLeaves, OfferFails
  <2>2. feed' \in Seq(FeedKinds) /\ Len(feed') <= FeedCapacity
    <3>1. <<>> \in Seq(FeedKinds) /\ Len(<<>>) = 0 /\ 0 <= FeedCapacity
      BY Constants
    <3>2. CASE feed' = feed
      BY <1>i, <3>2
    <3>3. CASE feed' = <<>>
      BY <3>1, <3>3
    <3>4. QED
      BY <2>1, <3>2, <3>3
  <2>3. QED
    BY <1>5, <1>i, <2>2 DEF IngestBegins, IngestCannotBegin, IngestLeaves, OfferFails, serverVars, linkVars, ingestVars, tasks
<1>6. CASE ReceiverStopped
  <2>1. link' = FALSE /\ receiver' = "ended" /\ ingest' = "ok"
        /\ UNCHANGED <<main, persisting, cleaning, upstream, feed, sent, missed, stats, cleanup, announced>>
    BY <1>6 DEF ReceiverStopped, serverVars, linkVars, ingestVars, tasks
  <2>2. QED
    BY <1>i, <2>1, Zenon
<1>7. ASSUME NEW kind \in FeedKinds, HandleStatus(kind) PROVE Rest'
  <2>1. feed' \in Seq(FeedKinds) /\ Len(feed') <= FeedCapacity
    BY <1>7, <1>i, Constants DEF HandleStatus, Take
  <2>2. upstream' \in BOOLEAN
    BY <1>7, <1>i DEF HandleStatus
  <2>3. UNCHANGED <<main, persisting, cleaning, link, receiver, sent, missed, ingest, stats, cleanup, announced>>
    BY <1>7 DEF HandleStatus, serverVars, linkVars, ingestVars, tasks
  <2>4. QED
    BY <1>i, <2>1, <2>2, <2>3
<1>8. CASE HandleCorrupt \/ HandleProduct
  <2>1. feed' \in Seq(FeedKinds) /\ Len(feed') <= FeedCapacity
    <3>1. feed # <<>> /\ feed' = Tail(feed)
      BY <1>8 DEF HandleCorrupt, HandleProduct, Take
    <3>2. QED
      BY <1>i, <3>1, Constants
  <2>2. QED
    BY <1>8, <1>i, <2>1 DEF HandleCorrupt, HandleProduct, serverVars, linkVars, ingestVars, tasks
<1>9. CASE OfferProduct
  BY <1>9, <1>i DEF OfferProduct, serverVars, linkVars, ingestVars, tasks
<1>10. CASE PublishProduct
  <2>1. Len(inserted) \in Products
    BY <1>10, Constants DEF PublishProduct, Numbered, Products
  <2>2. /\ announced' = announced \cup {Len(inserted)} /\ ingest' = "running"
        /\ UNCHANGED <<main, persisting, cleaning, link, upstream, receiver, feed, sent, missed, stats, cleanup>>
    BY <1>10 DEF PublishProduct, serverVars, linkVars, ingestVars, tasks
  <2>3. announced' \subseteq Products
    BY <1>i, <2>1, <2>2
  <2>4. QED
    BY <1>i, <2>2, <2>3
<1>11. CASE StatsTick \/ StatsEnds \/ CleanupPass \/ CleanupEnds \/ Work
  BY <1>11, <1>i DEF StatsTick, StatsEnds, CleanupPass, CleanupEnds, Work, Aside, serverVars, linkVars, ingestVars, tasks
<1>12. CASE \E c \in Clients : HandleEvents(c)
  BY <1>12, <1>i DEF HandleEvents, Aside, serverVars, linkVars, ingestVars, tasks
<1>13. CASE Returned \/ UNCHANGED vars
  BY <1>13, <1>i DEF Returned, vars, serverVars, linkVars, ingestVars, tasks
<1>14. QED
  <2> HIDE DEF Rest
  <2>1. QED
    BY <1>1, <1>2, <1>3, <1>4, <1>5, <1>6, <1>7, <1>8, <1>9, <1>10, <1>11, <1>12, <1>13
       DEF Next, Ingest, HandleEvent

-----------------------------------------------------------------------------
(* Slots and connections *)

\* What a step of the event streams does to a client's stage and the counter:
\* a slot is taken, given back, or lost to a query that is refused.
Moved(c, stages) == \E t \in stages : stage' = [stage EXCEPT ![c] = t]

SlotMove(c) ==
    \/ stage[c] = "away" /\ connected < MaxClients /\ connected' = connected + 1 /\ Moved(c, {"admitted"})
    \/ stage[c] = "streaming" /\ connected' = connected - 1 /\ Moved(c, {"away"})
    \/ stage[c] = "admitted" /\ connected' = connected /\ Moved(c, {"away", "streaming"})
    \/ stage[c] \in {"away", "refused"} /\ connected' = connected /\ Moved(c, {"away", "refused"})

LEMMA StageKinds ==
    ASSUME [Hub!Next]_hubVars
    PROVE  \/ UNCHANGED <<connected, stage>>
           \/ \E c \in Clients : SlotMove(c)
<1>1. CASE UNCHANGED hubVars
  BY <1>1 DEF hubVars
<1>2. CASE Hub!Shutdown \/ \E k \in Hub!Kinds : Hub!Publish(k)
  BY <1>2 DEF Hub!Shutdown, Hub!Publish
<1>3. ASSUME NEW c \in Clients, Hub!Admit(c) \/ Hub!Refuse(c) \/ Hub!RejectQuery(c) \/ Hub!Retry(c)
      PROVE  SlotMove(c)
  BY <1>3 DEF Hub!Admit, Hub!Refuse, Hub!RejectQuery, Hub!Retry, SlotMove, Moved
<1>4. ASSUME NEW c \in Clients, NEW q, NEW id, Hub!Subscribe(c, q, id)
      PROVE  SlotMove(c)
  BY <1>4 DEF Hub!Subscribe, SlotMove, Moved
<1>5. ASSUME NEW c \in Clients, Hub!Receive(c) \/ Hub!Lag(c)
      PROVE  UNCHANGED <<connected, stage>>
  BY <1>5 DEF Hub!Receive, Hub!Lag
<1>6. ASSUME NEW c \in Clients, Hub!EndOnShutdown(c) \/ Hub!Disconnect(c)
      PROVE  SlotMove(c)
  BY <1>6 DEF Hub!EndOnShutdown, Hub!Disconnect, Hub!Release, SlotMove, Moved
<1>7. QED
  BY <1>1, <1>2, <1>3, <1>4, <1>5, <1>6 DEF Hub!Next, Hub!Handle, Hub!Poll

LEMMA SlotsStep ==
    ASSUME Slots, [Next]_vars
    PROVE  Slots'
<1> DEFINE C == Connections
<1>1. connected \in 0..MaxClients /\ stage \in [Clients -> Hub!Stages] /\ Cardinality(C) <= connected
  BY DEF Slots
<1>2. IsFiniteSet(C) /\ Cardinality(C) \in Nat /\ MaxClients \in Nat
  BY Constants, FS_Subset, FS_CardinalityType DEF Connections
<1>3. CASE UNCHANGED <<connected, stage>>
  BY <1>1, <1>3 DEF Slots, Connections
<1>4. ASSUME NEW c \in Clients, stage[c] = "away", connected < MaxClients, connected' = connected + 1,
             stage' = [stage EXCEPT ![c] = "admitted"]
      PROVE  Slots'
  <2>1. C' = C \cup {c} /\ c \notin C
    BY <1>1, <1>4 DEF Connections, Hub!Stages
  <2>2. Cardinality(C') = Cardinality(C) + 1
    BY <1>2, <2>1, FS_AddElement
  <2>3. QED
    BY <1>1, <1>2, <1>4, <2>2 DEF Slots, Hub!Stages
<1>5. ASSUME NEW c \in Clients, stage[c] = "streaming", connected' = connected - 1,
             stage' = [stage EXCEPT ![c] = "away"]
      PROVE  Slots'
  <2>1. C' = C \ {c} /\ c \in C
    BY <1>1, <1>5 DEF Connections, Hub!Stages
  <2>2. Cardinality(C') = Cardinality(C) - 1
    BY <1>2, <2>1, FS_RemoveElement
  <2>3. Cardinality(C') \in Nat
    BY <1>2, <2>1, FS_Subset, FS_CardinalityType
  <2>4. QED
    BY <1>1, <1>2, <1>5, <2>2, <2>3 DEF Slots, Hub!Stages
<1>6. ASSUME connected' = connected, stage' \in [Clients -> Hub!Stages], C' \subseteq C
      PROVE  Slots'
  <2>1. Cardinality(C') <= Cardinality(C) /\ Cardinality(C') \in Nat
    BY <1>2, <1>6, FS_Subset, FS_CardinalityType
  <2>2. QED
    BY <1>1, <1>2, <1>6, <2>1 DEF Slots
<1>7. ASSUME NEW c \in Clients, connected' = connected,
             \/ stage[c] = "admitted" /\ Moved(c, {"away", "streaming"})
             \/ stage[c] \in {"away", "refused"} /\ Moved(c, {"away", "refused"})
      PROVE  Slots'
  <2>1. stage' \in [Clients -> Hub!Stages] /\ C' \subseteq C
    BY <1>1, <1>7 DEF Connections, Hub!Stages, Moved
  <2>2. QED
    BY <1>6, <1>7, <2>1
<1>8. QED
  BY <1>3, <1>4, <1>5, <1>7, HubStep, StageKinds DEF SlotMove, Moved

\* A server without connections gets none once it stopped accepting them.
LEMMA NoNewConnection ==
    ASSUME Slots, [Next]_vars, main # "serving", Connections = {}
    PROVE  Connections' = {}
<1> SUFFICES ASSUME NEW c \in Clients, stage'[c] \in {"admitted", "streaming"} PROVE FALSE
  BY DEF Connections
<1>1. stage \in [Clients -> Hub!Stages] /\ \A d \in Clients : stage[d] \notin {"admitted", "streaming"}
  BY DEF Slots, Connections
<1>2. stage' # stage
  BY <1>1
<1>3. PICK d \in Clients : HandleEvents(d)
  <2>1. ASSUME NEW kind \in {"file", "status"}, Hub!Publish(kind) PROVE FALSE
    BY <1>2, <2>1 DEF Hub!Publish
  <2>2. ~Hub!Shutdown /\ ~UNCHANGED hubVars
    BY <1>2 DEF Hub!Shutdown, hubVars
  <2>3. QED
    BY <2>1, <2>2 DEF Next, vars, hubVars, Start, StartFails, CtrlC, Joins, ServeReturns, JoinIngest, JoinStats,
       JoinCleanup, ClosePersistence, PersistenceSettles, Elsewhere, ReceiverSends, ReceiverDies,
       Ingest, HandleEvent, IngestBegins, IngestCannotBegin, IngestLeaves, ReceiverStopped,
       HandleStatus, HandleCorrupt, HandleProduct, OfferProduct, OfferFails, PublishProduct,
       StatsTick, StatsEnds, CleanupPass, CleanupEnds, Work, Returned
<1>4. stage[d] # "away" /\ stage[d] \notin {"admitted", "streaming"}
  BY <1>1, <1>3 DEF HandleEvents
<1>5. Hub!Retry(d)
  BY <1>3, <1>4 DEF HandleEvents, Hub!Handle, Hub!Poll, Hub!Disconnect, Hub!Admit, Hub!Refuse,
     Hub!RejectQuery, Hub!Subscribe, Hub!Receive, Hub!Lag, Hub!EndOnShutdown
<1>6. QED
  BY <1>1, <1>5 DEF Hub!Retry

-----------------------------------------------------------------------------
(* Products *)

\* Which steps touch the retained files.
LEMMA FilesKinds ==
    ASSUME [Next]_vars
    PROVE  \/ HandleProduct /\ Files!Insert(Len(inserted) + 1, now)
           \/ Files!Length /\ UNCHANGED <<main, persisting, ingest, announced>>
           \/ UNCHANGED <<byName, order, now, inserted, lapsed, reply>>
<1> USE DEF fileVars
<1>1. CASE Start \/ StartFails \/ CtrlC
  BY <1>1 DEF Start, StartFails, CtrlC
<1>2. CASE Joins
  BY <1>2 DEF Joins, ServeReturns, JoinIngest, JoinStats, JoinCleanup, ClosePersistence,
              PersistenceSettles, Elsewhere
<1>3. CASE (\E kind \in FeedKinds : ReceiverSends(kind)) \/ ReceiverDies
  BY <1>3 DEF ReceiverSends, ReceiverDies
<1>4. CASE Ingest
  BY <1>4 DEF Ingest, HandleEvent, IngestBegins, IngestCannotBegin, IngestLeaves, ReceiverStopped,
              HandleStatus, HandleCorrupt, HandleProduct, OfferProduct, OfferFails, PublishProduct
<1>5. CASE StatsTick \/ StatsEnds \/ CleanupPass \/ CleanupEnds \/ Work
  BY <1>5 DEF StatsTick, StatsEnds, CleanupPass, CleanupEnds, Work, Aside, serverVars, ingestVars
<1>6. CASE \E c \in Clients : HandleEvents(c)
  BY <1>6 DEF HandleEvents
<1>7. CASE Returned \/ UNCHANGED vars
  BY <1>7 DEF Returned, vars
<1>8. QED
  BY <1>1, <1>2, <1>3, <1>4, <1>5, <1>6, <1>7 DEF Next

LEMMA NumberedStep ==
    ASSUME Numbered, [Next]_vars
    PROVE  Numbered' /\ [Files!Next]_fileVars
<1>n. now = 0 /\ inserted \in Seq(Products) /\ Len(inserted) <= MaxProducts
      /\ \A i \in 1..Len(inserted) : inserted[i] = i
  BY DEF Numbered
<1>1. CASE HandleProduct /\ Files!Insert(Len(inserted) + 1, now)
  <2>1. /\ Len(inserted) < MaxProducts /\ inserted' = Append(inserted, Len(inserted) + 1) /\ now' = now
    BY <1>1 DEF Files!Insert
  <2>2. Len(inserted) + 1 \in Products
    BY <1>n, <2>1, Constants DEF Products
  <2>3. /\ inserted' \in Seq(Products) /\ Len(inserted') = Len(inserted) + 1
        /\ inserted'[Len(inserted) + 1] = Len(inserted) + 1
        /\ \A j \in 1..Len(inserted) : inserted'[j] = inserted[j]
    BY <1>n, <2>1, <2>2, Appended
  <2>4. Numbered'
    BY <1>n, <2>1, <2>3, Constants DEF Numbered
  <2>5. Files!Next
    BY <1>1, <1>n, <2>2 DEF Files!Next, Files!Times
  <2>6. QED
    BY <2>4, <2>5
<1>2. CASE Files!Length
  BY <1>2, <1>n DEF Files!Next, Files!Length, Files!EvictExpired, Numbered
<1>3. CASE UNCHANGED <<byName, order, now, inserted, lapsed, reply>>
  BY <1>3, <1>n DEF Numbered, fileVars
<1>4. QED
  BY <1>1, <1>2, <1>3, FilesKinds

\* How a step moves the ingest task on.
LEMMA IngestKinds ==
    ASSUME [Next]_vars
    PROVE  /\ persisting' = persisting
           /\ \/ /\ UNCHANGED <<ingest, announced, inserted>>
                 /\ receiver' = receiver \/ (receiver = "running" /\ receiver' = "ended")
              \/ /\ UNCHANGED <<announced, inserted>>
                 /\ \/ main = "starting" /\ main' = "serving" /\ ingest' = "starting" /\ receiver' = receiver
                    \/ ingest = "starting" /\ ingest' = "running" /\ receiver' = "running"
                    \/ ingest = "starting" /\ ingest' = "failed" /\ receiver' = receiver
                    \/ ingest = "retained" /\ ingest' = "failed" /\ receiver' # "running"
                    \/ ingest = "running" /\ ingest' = "stopping" /\ receiver' = receiver
                    \/ ingest = "stopping" /\ ingest' = "ok" /\ receiver' = "ended"
                    \/ OfferProduct /\ ingest = "retained" /\ ingest' = "offered" /\ receiver' = receiver
              \/ /\ ingest = "running" /\ ingest' = "retained" /\ announced' = announced
                 /\ Len(inserted) < MaxProducts /\ inserted' = Append(inserted, Len(inserted) + 1)
                 /\ receiver' = receiver
              \/ /\ ingest = "offered" /\ ingest' = "running" /\ inserted' = inserted
                 /\ announced' = announced \cup {Len(inserted)} /\ fate' = fate
                 /\ receiver' = receiver
<1> USE DEF serverVars, linkVars, ingestVars, fileVars
<1>1. CASE Start
  BY <1>1 DEF Start
<1>2. CASE StartFails \/ CtrlC
  BY <1>2 DEF StartFails, CtrlC
<1>3. CASE Joins
  BY <1>3 DEF Joins, ServeReturns, JoinIngest, JoinStats, JoinCleanup, ClosePersistence,
              PersistenceSettles, Elsewhere, Advance
<1>4. CASE (\E kind \in FeedKinds : ReceiverSends(kind)) \/ ReceiverDies
  BY <1>4 DEF ReceiverSends, ReceiverDies
<1>5. CASE IngestBegins \/ IngestCannotBegin \/ IngestLeaves \/ ReceiverStopped \/ OfferFails
  BY <1>5 DEF IngestBegins, IngestCannotBegin, IngestLeaves, ReceiverStopped, OfferFails
<1>6. CASE (\E kind \in FeedKinds : HandleStatus(kind)) \/ HandleCorrupt
  BY <1>6 DEF HandleStatus, HandleCorrupt
<1>7. CASE HandleProduct
  BY <1>7 DEF HandleProduct, Take, Files!Insert
<1>8. CASE OfferProduct
  BY <1>8 DEF OfferProduct
<1>9. CASE PublishProduct
  BY <1>9 DEF PublishProduct, ledgerVars
<1>10. CASE StatsTick
  BY <1>10 DEF StatsTick, Files!Length, Files!EvictExpired, Aside
<1>11. CASE StatsEnds \/ CleanupPass \/ CleanupEnds \/ Work
  BY <1>11 DEF StatsEnds, CleanupPass, CleanupEnds, Work, Aside
<1>12. CASE \E c \in Clients : HandleEvents(c)
  BY <1>12 DEF HandleEvents, Aside
<1>13. CASE Returned \/ UNCHANGED vars
  BY <1>13 DEF Returned, vars
<1>14. QED
  BY <1>1, <1>2, <1>3, <1>4, <1>5, <1>6, <1>7, <1>8, <1>9, <1>10, <1>11, <1>12, <1>13
     DEF Next, Ingest, HandleEvent

\* The ingest task counts as it goes.
LEMMA CountedStep ==
    ASSUME Counted, Numbered, Joined, TypeOK, [Next]_vars,
           closed => ingest \in {"ok", "failed"}
    PROVE  Counted'
<1> DEFINE k == Len(inserted)
<1>c. /\ ingest \in {"off", "starting"} => inserted = <<>> /\ announced = {}
      /\ ingest \in {"running", "stopping", "ok"} => announced = 1..k
      /\ ingest \in {"retained", "offered"} => k >= 1 /\ announced = 1..(k - 1)
      /\ 1..(k - 1) \subseteq announced /\ announced \subseteq 1..k
      /\ persisting => \A n \in announced : fate[n] # "new"
      /\ persisting /\ ingest = "offered" => fate[k] # "new"
  BY DEF Counted
<1>n. k \in Nat /\ k <= MaxProducts /\ inserted \in Seq(Products) /\ MaxProducts \in Nat
  BY Constants DEF Numbered
<1>p. \A n \in 1..k : n \in Products
  BY <1>n DEF Products
<1>t. fate \in [Products -> Ledger!Fates]
  BY DEF TypeOK
<1>f. \A n \in Products : fate[n] # "new" => fate'[n] # "new"
  <2>1. CASE OfferProduct /\ persisting
    BY <1>t, <2>1, OfferFates DEF OfferProduct
  <2>2. QED
    BY <1>t, <2>1, LedgerKinds, WorkFates, CloseFates
<1>o. persisting' = persisting
  BY IngestKinds
<1>1. CASE UNCHANGED <<ingest, announced, inserted>>
  BY <1>c, <1>n, <1>p, <1>f, <1>o, <1>1 DEF Counted
<1>2. CASE UNCHANGED <<announced, inserted>> /\ main = "starting" /\ ingest' = "starting"
  BY <1>c, <1>n, <1>p, <1>f, <1>o, <1>2 DEF Counted, Joined
<1>3. CASE UNCHANGED <<announced, inserted>> /\ ingest = "starting" /\ ingest' \in {"running", "failed"}
  <2>1. k = 0 /\ announced = {} /\ inserted = <<>>
    BY <1>c, <1>3
  <2>2. QED
    BY <1>3, <2>1 DEF Counted
<1>4. CASE UNCHANGED <<announced, inserted>> /\ ingest = "retained" /\ ingest' = "failed"
  BY <1>c, <1>n, <1>p, <1>f, <1>o, <1>4 DEF Counted
<1>5. CASE /\ UNCHANGED <<announced, inserted>>
           /\ \/ ingest = "running" /\ ingest' = "stopping"
              \/ ingest = "stopping" /\ ingest' = "ok"
  BY <1>c, <1>n, <1>p, <1>f, <1>o, <1>5 DEF Counted
<1>6. CASE UNCHANGED <<announced, inserted>> /\ OfferProduct /\ ingest = "retained" /\ ingest' = "offered"
  <2>1. persisting => fate'[k] # "new"
    BY <1>t, <1>6, OfferFates DEF OfferProduct
  <2>2. QED
    BY <1>c, <1>n, <1>p, <1>f, <1>o, <1>6, <2>1 DEF Counted
<1>7. CASE /\ ingest = "running" /\ ingest' = "retained" /\ announced' = announced
           /\ k < MaxProducts /\ inserted' = Append(inserted, k + 1)
  <2>1. k + 1 \in Products
    BY <1>n, <1>7 DEF Products
  <2>2. Len(inserted') = k + 1
    BY <1>n, <1>7, <2>1, Appended
  <2>3. QED
    BY <1>c, <1>n, <1>p, <1>f, <1>o, <1>7, <2>2 DEF Counted
<1>8. CASE /\ ingest = "offered" /\ ingest' = "running" /\ inserted' = inserted
           /\ announced' = announced \cup {k} /\ fate' = fate
  BY <1>c, <1>n, <1>p, <1>f, <1>o, <1>8 DEF Counted
<1>9. QED
  BY <1>1, <1>2, <1>3, <1>4, <1>5, <1>6, <1>7, <1>8, IngestKinds

-----------------------------------------------------------------------------
(* The shutdown *)

\* How a step moves the main task on, and what it waits for.
LEMMA MainMoves ==
    ASSUME [Next]_vars
    PROVE  \/ main' = main
           \/ main = "starting" /\ main' \in {"serving", "failed"} /\ closed' = closed
           \/ main = "serving" /\ main' = "draining" /\ closed' = closed
           \/ /\ UNCHANGED <<ingest, stats, cleanup, receiver, stage>>
              /\ \/ main = "draining" /\ main' = "joinIngest" /\ Connections = {}
                 \/ main = "joinIngest" /\ main' = "joinStats" /\ ingest \in {"ok", "failed"}
                 \/ main = "joinStats" /\ main' = "joinCleanup" /\ stats = "ended"
                 \/ /\ main = "joinCleanup" /\ main' = IF persisting THEN "closing" ELSE "returned"
                    /\ cleanup \in {"off", "ended"}
                 \/ main = "closing" /\ main' = "settling" /\ ClosePersistence
                 \/ /\ main = "settling" /\ main' = "returned" /\ Ledger!With("active") = {}
                    /\ fate' = fate
              /\ closed' = closed \/ (main = "closing" /\ main' = "settling")
<1> USE DEF serverVars, linkVars, ingestVars, tasks, hubVars, ledgerVars
<1>1. CASE Start \/ StartFails \/ CtrlC
  BY <1>1 DEF Start, StartFails, CtrlC
<1>2. CASE Joins
  BY <1>2 DEF Joins, ServeReturns, JoinIngest, JoinStats, JoinCleanup, ClosePersistence,
              PersistenceSettles, Elsewhere, Advance
<1>3. CASE (\E kind \in FeedKinds : ReceiverSends(kind)) \/ ReceiverDies
  BY <1>3 DEF ReceiverSends, ReceiverDies
<1>4. CASE Ingest
  BY <1>4 DEF Ingest, HandleEvent, IngestBegins, IngestCannotBegin, IngestLeaves, ReceiverStopped,
              HandleStatus, HandleCorrupt, HandleProduct, OfferProduct, OfferFails, PublishProduct
<1>5. CASE StatsTick \/ StatsEnds \/ CleanupPass \/ CleanupEnds \/ Work
  BY <1>5 DEF StatsTick, StatsEnds, CleanupPass, CleanupEnds, Work, Aside
<1>6. CASE \E c \in Clients : HandleEvents(c)
  BY <1>6 DEF HandleEvents, Aside
<1>7. CASE Returned \/ UNCHANGED vars
  BY <1>7 DEF Returned, vars
<1>8. QED
  BY <1>1, <1>2, <1>3, <1>4, <1>5, <1>6, <1>7 DEF Next

\* The statistics and cleanup tasks end once, and start with the server.
LEMMA TaskKinds ==
    ASSUME [Next]_vars
    PROVE  /\ stats' = stats \/ main = "starting" \/ (stats = "running" /\ stats' = "ended")
           /\ cleanup' = cleanup \/ main = "starting" \/ cleanup \in {"running", "busy"}
<1> USE DEF tasks
<1>1. CASE Start \/ StartFails \/ CtrlC
  BY <1>1 DEF Start, StartFails, CtrlC
<1>2. CASE Joins
  BY <1>2 DEF Joins, ServeReturns, JoinIngest, JoinStats, JoinCleanup, ClosePersistence,
              PersistenceSettles, Elsewhere
<1>3. CASE (\E kind \in FeedKinds : ReceiverSends(kind)) \/ ReceiverDies
  BY <1>3 DEF ReceiverSends, ReceiverDies
<1>4. CASE Ingest
  BY <1>4 DEF Ingest, HandleEvent, IngestBegins, IngestCannotBegin, IngestLeaves, ReceiverStopped,
              HandleStatus, HandleCorrupt, HandleProduct, OfferProduct, OfferFails, PublishProduct
<1>5. CASE StatsTick \/ StatsEnds \/ CleanupPass \/ CleanupEnds \/ Work
  BY <1>5 DEF StatsTick, StatsEnds, CleanupPass, CleanupEnds, Work
<1>6. CASE \E c \in Clients : HandleEvents(c)
  BY <1>6 DEF HandleEvents
<1>7. CASE Returned \/ UNCHANGED vars
  BY <1>7 DEF Returned, vars
<1>8. QED
  BY <1>1, <1>2, <1>3, <1>4, <1>5, <1>6, <1>7 DEF Next

LEMMA JoinedStep ==
    ASSUME Joined, Slots, TypeOK, [Next]_vars
    PROVE  Joined'
<1> USE DEF AfterServe, AfterIngest, AfterStats, AfterCleanup
<1>m. main \in Mains /\ main' \in Mains
  BY MainMoves DEF TypeOK, Mains
<1>1. main' \in {"starting", "failed"} => ingest' = "off"
  BY <1>m, MainMoves, IngestKinds DEF Joined, Mains
<1>2. main' \in AfterServe => Connections' = {}
  <2>1. CASE main \in AfterServe
    BY <2>1, NoNewConnection DEF Joined
  <2>2. CASE main \notin AfterServe
    BY <1>m, <2>2, MainMoves DEF Mains, Connections
  <2>3. QED
    BY <2>1, <2>2
<1>3. main' \in AfterIngest => ingest' \in {"ok", "failed"}
  BY <1>m, MainMoves, IngestKinds DEF Joined, Mains
<1>4. main' \in AfterStats => stats' = "ended"
  BY <1>m, MainMoves, TaskKinds DEF Joined, Mains
<1>5. main' \in AfterCleanup => cleanup' \in {"off", "ended"}
  BY <1>m, MainMoves, TaskKinds DEF Joined, Mains
<1>6. ingest' \in {"off", "starting"} => receiver' = "off"
  BY IngestKinds DEF Joined
<1>7. ingest' \in {"ok", "failed"} => receiver' # "running"
  BY IngestKinds DEF Joined
<1>8. receiver' = "detached" => ingest' = "failed"
  BY IngestKinds DEF Joined
<1>9. QED
  BY <1>1, <1>2, <1>3, <1>4, <1>5, <1>6, <1>7, <1>8 DEF Joined

\* Persistence is closed with no product on its way to it.
LEMMA ClosedLate ==
    ASSUME Joined, Settled
    PROVE  closed => ingest \in {"ok", "failed"}
  BY DEF Joined, Settled, AfterServe, AfterIngest

LEMMA SettledStep ==
    ASSUME Settled, Joined, TypeOK, [Next]_vars
    PROVE  Settled'
<1>s. /\ main \in {"closing", "settling"} => persisting
      /\ closed <=> persisting /\ main \in {"settling", "returned"}
      /\ closed => Ledger!With("queued") = {}
      /\ main = "returned" => Ledger!With("active") = {}
      /\ \A n \in Products : fate[n] # "new" => persisting /\ fate[n] # "rejected"
  BY DEF Settled
<1>t. fate \in [Products -> Ledger!Fates] /\ main \in Mains
  BY DEF TypeOK
<1>p. persisting' = persisting
  BY IngestKinds
<1>1. main' \in {"closing", "settling"} => persisting'
  BY <1>s, <1>p, MainMoves
<1>2. closed' <=> persisting' /\ main' \in {"settling", "returned"}
  <2>1. CASE main' = main
    <3>1. closed' = closed
      BY <1>t, <2>1, LedgerKinds, WorkFates, OfferFates, ClosedLate DEF ClosePersistence, Advance, OfferProduct, Enqueue
    <3>2. QED
      BY <1>s, <1>p, <2>1, <3>1
  <2>2. CASE main = "closing" /\ main' = "settling" /\ ClosePersistence
    BY <1>t, <1>p, <1>1, <2>2, CloseFates
  <2>3. CASE main' # main /\ closed' = closed /\ main # "closing"
    <3>1. CASE main \in {"starting", "serving", "draining", "joinIngest", "joinStats"}
      BY <1>s, <1>p, <2>3, <3>1, MainMoves
    <3>2. CASE main = "joinCleanup"
      BY <1>s, <1>p, <2>3, <3>2, MainMoves
    <3>3. CASE main = "settling"
      BY <1>s, <1>p, <2>3, <3>3, MainMoves
    <3>4. QED
      BY <2>3, <3>1, <3>2, <3>3, MainMoves
  <2>4. QED
    BY <2>1, <2>2, <2>3, MainMoves
<1>3. closed' => Ledger!With("queued")' = {}
  <2>1. CASE ClosePersistence
    BY <1>t, <2>1, CloseFates DEF Ledger!With, Products
  <2>2. CASE Work
    BY <1>s, <1>t, <2>2, WorkFates DEF Ledger!With, Products
  <2>3. CASE UNCHANGED <<fate, closed>>
    BY <1>s, <2>3 DEF Ledger!With
  <2>4. CASE OfferProduct /\ persisting
    BY <1>t, <2>4, OfferFates, ClosedLate DEF OfferProduct
  <2>5. QED
    BY <2>1, <2>2, <2>3, <2>4, LedgerKinds
<1>4. main' = "returned" => Ledger!With("active")' = {}
  <2>1. CASE main = "settling" /\ Ledger!With("active") = {} /\ fate' = fate
    BY <2>1 DEF Ledger!With
  <2>2. CASE main = "returned"
    <3>1. fate' = fate
      BY <2>2, LedgerKinds DEF Work, OfferProduct, Alive, ClosePersistence, Advance
    <3>2. QED
      BY <1>s, <2>2, <3>1 DEF Ledger!With
  <2>3. CASE main = "joinCleanup" /\ ~persisting /\ main' = "returned"
    <3>1. fate' = fate
      BY <2>3, LedgerKinds DEF Work, ClosePersistence, Advance
    <3>2. \A n \in 1..MaxProducts : fate[n] = "new"
      BY <1>s, <2>3 DEF Products
    <3>3. QED
      BY <3>1, <3>2 DEF Ledger!With
  <2>4. QED
    BY <2>1, <2>2, <2>3, MainMoves
<1>5. \A n \in Products : fate'[n] # "new" => persisting' /\ fate'[n] # "rejected"
  <2>1. CASE ClosePersistence
    BY <1>s, <1>t, <1>p, <2>1, CloseFates
  <2>2. CASE Work
    BY <1>s, <1>t, <1>p, <2>2, WorkFates DEF Work
  <2>3. CASE UNCHANGED <<fate, closed>>
    BY <1>s, <1>p, <2>3
  <2>4. CASE OfferProduct /\ persisting
    BY <1>s, <1>t, <1>p, <2>4, OfferFates, ClosedLate DEF OfferProduct
  <2>5. QED
    BY <2>1, <2>2, <2>3, <2>4, LedgerKinds
<1>6. QED
  BY <1>1, <1>2, <1>3, <1>4, <1>5 DEF Settled

-----------------------------------------------------------------------------
(* The health endpoint *)

\* What is sent is foretold: a mark becomes the last one, ...
LEMMA ForetoldMark ==
    ASSUME NEW f \in Seq(FeedKinds), NEW kind \in Marks, NEW known, NEW up,
           up <=> kind = "connected"
    PROVE  Foretold(Append(f, kind), known, up)
<1> DEFINE g == Append(f, kind)
<1>1. kind \in FeedKinds
  BY DEF Marks, FeedKinds
<1>2. Len(g) = Len(f) + 1 /\ Len(f) \in Nat /\ g[Len(f) + 1] = kind
  BY <1>1, Appended
<1>3. Len(g) \in 1..Len(g) /\ LastMark(g, Len(g)) /\ (up <=> g[Len(g)] = "connected")
  <2> HIDE DEF g
  <2>1. LastMark(g, Len(g))
    BY <1>2 DEF LastMark
  <2>2. g[Len(g)] = kind /\ Len(g) \in 1..Len(g)
    BY <1>2
  <2>3. QED
    BY <2>1, <2>2
<1>4. QED
  BY <1>3 DEF Foretold

\* ... and anything else leaves the last mark where it is.
LEMMA ForetoldOther ==
    ASSUME NEW f \in Seq(FeedKinds), NEW kind \in FeedKinds \ Marks, NEW known, NEW up,
           Foretold(f, known, up)
    PROVE  Foretold(Append(f, kind), known, up)
<1> DEFINE g == Append(f, kind)
<1>1. Len(g) = Len(f) + 1 /\ Len(f) \in Nat /\ g[Len(f) + 1] = kind /\ \A j \in 1..Len(f) : g[j] = f[j]
  BY Appended
<1> HIDE DEF g
<1>2. CASE (\A i \in 1..Len(f) : f[i] \notin Marks) /\ (known <=> up)
  <2>1. \A i \in 1..Len(g) : g[i] \notin Marks
    BY <1>1, <1>2
  <2>2. QED
    BY <1>2, <2>1 DEF Foretold, g
<1>3. ASSUME NEW i \in 1..Len(f), LastMark(f, i), up <=> f[i] = "connected"
      PROVE  Foretold(g, known, up)
  <2>1. i \in 1..Len(g) /\ g[i] = f[i] /\ LastMark(g, i)
    BY <1>1, <1>3 DEF LastMark
  <2>2. QED
    BY <1>3, <2>1 DEF Foretold
<1>4. QED
  BY <1>2, <1>3 DEF Foretold, g

\* What is handled is known.
LEMMA ForetoldTail ==
    ASSUME NEW f \in Seq(FeedKinds), f # <<>>, NEW known, NEW up, Foretold(f, known, up),
           NEW after, Head(f) = "connected" => after, Head(f) = "disconnected" => ~after,
           Head(f) \notin Marks => (after <=> known)
    PROVE  Foretold(Tail(f), after, up)
<1> DEFINE g == Tail(f)
<1>1. /\ Len(g) = Len(f) - 1 /\ Len(f) \in Nat \ {0} /\ Head(f) = f[1]
      /\ \A j \in 1..Len(g) : g[j] = f[j + 1]
  OBVIOUS
<1> HIDE DEF g
<1>2. CASE (\A i \in 1..Len(f) : f[i] \notin Marks) /\ (known <=> up)
  <2>1. (\A i \in 1..Len(g) : g[i] \notin Marks) /\ Head(f) \notin Marks
    BY <1>1, <1>2
  <2>2. QED
    BY <1>2, <2>1 DEF Foretold, g
<1>3. ASSUME NEW i \in 1..Len(f), LastMark(f, i), up <=> f[i] = "connected"
      PROVE  Foretold(g, after, up)
  <2>1. CASE i = 1
    <3>1. \A j \in 1..Len(g) : g[j] \notin Marks
      BY <1>1, <1>3, <2>1 DEF LastMark
    <3>2. after <=> up
      BY <1>1, <1>3, <2>1 DEF LastMark, Marks
    <3>3. QED
      BY <3>1, <3>2 DEF Foretold
  <2>2. CASE i # 1
    <3>1. i - 1 \in 1..Len(g) /\ g[i - 1] = f[i] /\ LastMark(g, i - 1)
      BY <1>1, <1>3, <2>2 DEF LastMark
    <3>2. QED
      BY <1>3, <3>1 DEF Foretold
  <2>3. QED
    BY <2>1, <2>2
<1>4. QED
  BY <1>2, <1>3 DEF Foretold, g

LEMMA ToldStep ==
    ASSUME Told, Joined, TypeOK, [Next]_vars
    PROVE  Told'
<1> DEFINE Open == receiver = "running" /\ ~missed /\ ingest \in {"running", "retained", "offered"}
<1>i. /\ ingest \in {"off", "starting"} => feed = <<>> /\ ~link /\ ~upstream /\ receiver = "off"
      /\ Open => Foretold(feed, upstream, link)
  BY DEF Told, Joined
<1>t. feed \in Seq(FeedKinds)
  BY DEF TypeOK
<1> USE DEF linkVars, ingestVars
<1>1. CASE Start
  <2>1. ingest = "off" /\ ingest' = "starting" /\ UNCHANGED <<link, feed, upstream>>
    BY <1>1 DEF Start, Joined
  <2>2. QED
    BY <1>i, <2>1 DEF Told
<1>2. ASSUME NEW kind \in FeedKinds, ReceiverSends(kind) PROVE Told'
  <2>1. receiver = "running" /\ UNCHANGED <<receiver, ingest, upstream>> /\ ingest \notin {"off", "starting"}
    BY <1>2, <1>i DEF ReceiverSends
  <2>2. CASE missed'
    BY <2>1, <2>2 DEF Told
  <2>3. CASE ~missed' /\ Open
    <3>1. feed' = Append(feed, kind)
      BY <1>2, <2>3 DEF ReceiverSends, Send
    <3>2. CASE kind \in Marks
      <4>1. link' <=> kind = "connected"
        BY <1>2, <3>2 DEF ReceiverSends, Marks
      <4>2. QED
        BY <1>t, <2>1, <3>1, <3>2, <4>1, ForetoldMark DEF Told
    <3>3. CASE kind \notin Marks
      <4>1. link' = link
        BY <1>2, <3>3 DEF ReceiverSends, Marks
      <4>2. Foretold(feed, upstream, link)
        BY <1>i, <2>3
      <4>3. Foretold(Append(feed, kind), upstream, link)
        BY <1>t, <3>3, <4>2, ForetoldOther
      <4>4. QED
        BY <2>1, <3>1, <4>1, <4>3 DEF Told
    <3>4. QED
      BY <3>2, <3>3
  <2>4. CASE ~missed' /\ ~Open
    <3>1. missed' = missed \/ missed' = TRUE
      BY <1>2 DEF ReceiverSends, Send
    <3>2. QED
      BY <2>1, <2>4, <3>1 DEF Told
  <2>5. QED
    BY <2>2, <2>3, <2>4
<1>3. CASE ReceiverDies
  BY <1>3, <1>i DEF ReceiverDies, Told
<1>4. CASE IngestBegins
  <2>1. /\ feed' = <<>> /\ ~link' /\ ~upstream' /\ ingest' = "running"
    BY <1>4, <1>i DEF IngestBegins
  <2>2. Foretold(feed', upstream', link')
    BY <2>1 DEF Foretold
  <2>3. QED
    BY <2>1, <2>2 DEF Told
<1>5. CASE IngestCannotBegin \/ IngestLeaves \/ ReceiverStopped \/ OfferFails
  BY <1>5 DEF IngestCannotBegin, IngestLeaves, ReceiverStopped, OfferFails, Told
<1>6. ASSUME NEW kind \in FeedKinds, HandleStatus(kind) PROVE Told'
  <2>1. /\ UNCHANGED <<receiver, ingest, link, missed>> /\ ingest = "running"
        /\ feed # <<>> /\ Head(feed) = kind /\ feed' = Tail(feed)
    BY <1>6 DEF HandleStatus, Take
  <2>2. /\ kind = "connected" => upstream'
        /\ kind = "disconnected" => ~upstream'
        /\ kind \notin Marks => (upstream' <=> upstream)
    BY <1>6 DEF HandleStatus, Marks
  <2>3. Open => Foretold(feed', upstream', link)
    BY <1>i, <1>t, <2>1, <2>2, ForetoldTail
  <2>4. QED
    BY <2>1, <2>3 DEF Told
<1>7. CASE HandleCorrupt \/ HandleProduct
  <2>1. /\ UNCHANGED <<receiver, link, missed, upstream>> /\ ingest = "running" /\ ingest' \in {"running", "retained"}
        /\ feed # <<>> /\ Head(feed) \notin Marks /\ feed' = Tail(feed)
    BY <1>7 DEF HandleCorrupt, HandleProduct, Take, Marks
  <2>2. Open => Foretold(feed', upstream, link)
    BY <1>i, <1>t, <2>1, ForetoldTail DEF Marks
  <2>3. QED
    BY <2>1, <2>2 DEF Told
<1>8. CASE OfferProduct \/ PublishProduct
  <2>1. /\ UNCHANGED <<receiver, link, missed, upstream, feed>>
        /\ ingest \in {"retained", "offered"} /\ ingest' \in {"running", "offered"}
    BY <1>8 DEF OfferProduct, PublishProduct
  <2>2. QED
    BY <1>i, <2>1 DEF Told
<1>9. CASE UNCHANGED <<link, receiver, missed, feed, ingest, upstream>>
  BY <1>9, <1>i DEF Told
<1>10. QED
  BY <1>1, <1>2, <1>3, <1>4, <1>5, <1>6, <1>7, <1>8, <1>9, MainKinds DEF Ingest, HandleEvent

-----------------------------------------------------------------------------
(* The server as a whole *)

ServerInv == TypeOK /\ Slots /\ Numbered /\ Counted /\ Joined /\ Settled /\ Told

LEMMA ServerInit ==
    ASSUME Init
    PROVE  ServerInv
<1>1. /\ main = "starting" /\ persisting \in BOOLEAN /\ cleaning \in BOOLEAN
      /\ link = FALSE /\ receiver = "off" /\ feed = <<>> /\ sent = 0 /\ missed = FALSE
      /\ ingest = "off" /\ upstream = FALSE /\ announced = {} /\ stats = "off" /\ cleanup = "off"
  BY DEF Init
<1>2. connected = 0 /\ stage = [c \in Clients |-> "away"]
  BY DEF Init, Hub!Init
<1>3. now = 0 /\ inserted = <<>>
  BY DEF Init, Files!Init, Files!Times
<1>4. fate = [n \in Products |-> "new"] /\ closed = FALSE
  BY DEF Init, Ledger!Init, Products
<1>5. Slots
  <2>1. Connections = {}
    BY <1>2 DEF Connections
  <2>2. QED
    BY <1>2, <2>1, Constants, FS_EmptySet DEF Slots, Hub!Stages
<1>6. TypeOK
  <2>1. fate \in [Products -> Ledger!Fates] /\ connected \in 0..MaxClients
    BY <1>2, <1>4, Constants DEF Ledger!Fates
  <2>2. feed \in Seq(FeedKinds) /\ Len(feed) <= FeedCapacity /\ sent \in 0..MaxFeed
    BY <1>1, Constants
  <2>3. QED
    BY <1>1, <2>1, <2>2 DEF TypeOK, Mains
<1>7. Numbered /\ Counted
  BY <1>1, <1>3, Constants DEF Numbered, Counted
<1>8. Joined /\ Told
  BY <1>1 DEF Joined, Told, AfterServe, AfterIngest, AfterStats, AfterCleanup
<1>9. Settled
  BY <1>1, <1>4 DEF Settled
<1>10. QED
  BY <1>5, <1>6, <1>7, <1>8, <1>9 DEF ServerInv

LEMMA ServerStep ==
    ASSUME ServerInv, [Next]_vars
    PROVE  ServerInv'
<1>1. TypeOK /\ Slots /\ Numbered /\ Counted /\ Joined /\ Settled /\ Told
  BY DEF ServerInv
<1>2. Slots' /\ connected' \in 0..MaxClients
  BY <1>1, SlotsStep DEF Slots
<1>3. Numbered'
  BY <1>1, NumberedStep
<1>4. closed => ingest \in {"ok", "failed"}
  BY <1>1, ClosedLate
<1>5. Counted'
  BY <1>1, <1>4, CountedStep
<1>6. TypeOK'
  BY <1>1, <1>2, <1>4, TypeStep DEF Counted
<1>7. Joined' /\ Settled' /\ Told'
  BY <1>1, JoinedStep, SettledStep, ToldStep
<1>8. QED
  BY <1>2, <1>3, <1>5, <1>6, <1>7 DEF ServerInv

\* The invariant of the server: the types, the slots of the clients, the
\* progress of the ingest task with its last product, the order of the joins,
\* the state of the persistence runtime and the last word on the connection
\* hold in every state of live mode.
THEOREM ServerInvariant == Spec => []ServerInv
<1>1. Init => ServerInv
  BY ServerInit
<1>2. ServerInv /\ [Next]_vars => ServerInv'
  BY ServerStep
<1>3. QED
  BY <1>1, <1>2, PTL DEF Spec

\* What is done to the persistence runtime is what its ledger allows.
LEMMA LedgerStep ==
    ASSUME [Next]_vars
    PROVE  [Ledger!Next]_ledgerVars
<1>1. CASE Enqueue(Len(inserted))
  <2>1. Ledger!Oldest(Len(inserted), "new")
    BY <1>1 DEF Enqueue, Ledger!Reject, Ledger!Admit, Ledger!Displace
  <2>2. Len(inserted) \in 1..MaxProducts
    BY <2>1 DEF Ledger!Oldest, Ledger!With
  <2>3. QED
    BY <1>1, <2>2 DEF Enqueue, Ledger!Next, Products
<1>2. CASE Work
  BY <1>2 DEF Work, Ledger!Next, Products
<1>3. CASE ClosePersistence
  BY <1>3 DEF ClosePersistence, Ledger!Next
<1>4. QED
  BY <1>1, <1>2, <1>3, LedgerKinds DEF ledgerVars

\* In live mode the event streams, the retained files and the persistence
\* runtime are used as their own specifications say: whatever the main, ingest,
\* statistics and cleanup tasks and the HTTP handlers do between them, every
\* step is a step of each part, or leaves it alone.
THEOREM PartsAsSpecified == Spec => Hub!Spec /\ Files!Spec /\ Ledger!Spec
<1>1. Init => Hub!Init /\ Files!Init /\ Ledger!Init
  BY DEF Init
<1>2. [Next]_vars => [Hub!Next]_(Hub!vars)
  BY HubStep DEF hubVars, Hub!vars
<1>3. ServerInv /\ [Next]_vars => [Files!Next]_(Files!vars)
  BY NumberedStep DEF ServerInv, fileVars, Files!vars
<1>4. [Next]_vars => [Ledger!Next]_(Ledger!ledger)
  BY LedgerStep DEF ledgerVars, Ledger!ledger
<1>5. QED
  BY <1>1, <1>2, <1>3, <1>4, ServerInvariant, PTL DEF Spec, Hub!Spec, Files!Spec, Ledger!Spec

\* Whenever the shutdown comes, no product meets a closed persistence queue;
\* and when run returns the ingest, statistics and cleanup tasks have ended, no
\* connection is left, and no request waits or is in hand.  The receiver task
\* has ended too, unless the ingest task failed and dropped it unstopped.
THEOREM ShutdownCorrect == Spec => []CleanShutdown
<1>1. ServerInv => CleanShutdown
  <2> SUFFICES ASSUME ServerInv PROVE NothingRefused /\ CleanReturn
    BY DEF CleanShutdown
  <2>1. Joined /\ Settled /\ TypeOK
    BY DEF ServerInv
  <2>2. NothingRefused
    BY <2>1 DEF Settled, NothingRefused
  <2>3. ASSUME main = "returned" PROVE Ledger!With("queued") = {}
    <3>1. CASE persisting
      BY <2>1, <2>3, <3>1 DEF Settled
    <3>2. CASE ~persisting
      BY <2>1, <3>2 DEF Settled, Ledger!With, Products
    <3>3. QED
      BY <3>1, <3>2
  <2>4. CleanReturn
    BY <2>1, <2>3 DEF CleanReturn, TypeOK, Joined, Settled, AfterServe, AfterIngest, AfterStats, AfterCleanup
  <2>5. QED
    BY <2>2, <2>4
<1>2. QED
  BY <1>1, ServerInvariant, PTL

\* Once the ingest task has handled what a running receiver sent it, /health
\* names an endpoint exactly if there is a connection, unless an event was lost
\* to a full channel.
THEOREM HealthCorrect == Spec => []HealthTellsConnection
<1>1. ServerInv => HealthTellsConnection
  <2> SUFFICES ASSUME ServerInv, ingest = "running", receiver = "running", feed = <<>>, ~missed
               PROVE  upstream <=> link
    BY DEF HealthTellsConnection
  <2>1. Foretold(feed, upstream, link)
    BY DEF ServerInv, Told
  <2>2. QED
    BY <2>1 DEF Foretold
<1>2. QED
  BY <1>1, ServerInvariant, PTL

-----------------------------------------------------------------------------
(* What is announced is served *)

\* The theorems about the retained files, for the files of the server.
FilesFacts == INSTANCE RetainedFilesProofs WITH
                  Names <- Products, Ttl <- 1, MaxTime <- 0, MaxInserts <- MaxProducts

LEMMA SameFiles == Files!Spec => FilesFacts!Spec
<1>1. \A r, S : Files!Retain(r, S) = FilesFacts!Retain(r, S)
  BY DEF Files!Retain, FilesFacts!Retain
<1>2. Files!AliveOrder = FilesFacts!AliveOrder /\ Files!Lapsing = FilesFacts!Lapsing
      /\ Files!Alive = FilesFacts!Alive
  BY <1>1 DEF Files!AliveOrder, FilesFacts!AliveOrder, Files!Alive, FilesFacts!Alive, Files!Age, FilesFacts!Age,
              Files!Lapsing, FilesFacts!Lapsing
<1>3. \A n \in Products : Files!Trimmed(n) = FilesFacts!Trimmed(n)
  BY <1>1, <1>2 DEF Files!Trimmed, FilesFacts!Trimmed, Files!Reordered, FilesFacts!Reordered
<1>4. ASSUME NEW n \in Products, NEW t, Files!Insert(n, t) PROVE FilesFacts!Insert(n, t)
  BY <1>2, <1>3, <1>4 DEF Files!Insert, FilesFacts!Insert, Files!Members, FilesFacts!Members
<1>5. Files!EvictExpired => FilesFacts!EvictExpired
  BY <1>2 DEF Files!EvictExpired, FilesFacts!EvictExpired
<1>6. [Files!Next]_(Files!vars) => [FilesFacts!Next]_(FilesFacts!vars)
  BY <1>2, <1>4, <1>5 DEF Files!Next, FilesFacts!Next, Files!List, FilesFacts!List, Files!Get, FilesFacts!Get,
     Files!Length, FilesFacts!Length, Files!ClockMoves, FilesFacts!ClockMoves, Files!Times, FilesFacts!Times,
     Files!vars, FilesFacts!vars
<1>7. Files!Init => FilesFacts!Init
  BY DEF Files!Init, FilesFacts!Init, Files!Times, FilesFacts!Times
<1>8. QED
  BY <1>6, <1>7, PTL DEF Files!Spec, FilesFacts!Spec

\* The clock stands still, so that nothing expires.
LEMMA NothingLapses ==
    ASSUME FilesFacts!TypeOK, Numbered, lapsed = {}, [Next]_vars
    PROVE  lapsed' = {}
<1>1. \A n \in DOMAIN byName : byName[n].completedAt = 0
  BY DEF FilesFacts!TypeOK, FilesFacts!Times
<1>2. Files!Lapsing = {}
  BY <1>1 DEF Files!Lapsing, Files!Alive, Files!Age, Numbered
<1>3. QED
  BY <1>2, FilesKinds DEF Files!Insert, Files!Length, Files!EvictExpired

\* A product that is not served any more was followed by MaxEntries others.
LEMMA ServedOrReplaced ==
    ASSUME FilesFacts!StoreConsistent, Numbered, lapsed = {}, NEW n \in 1..Len(inserted)
    PROVE  n \in DOMAIN byName \/ Len(inserted) - n >= MaxEntries
<1> DEFINE k == Len(inserted)
           later == (n + 1)..k
<1>1. k \in Nat /\ k <= MaxProducts /\ \A i \in 1..k : inserted[i] = i
  BY DEF Numbered
<1>2. n \in Products
  BY <1>1, Constants DEF Products
<1>3. FilesFacts!Latest(n) = n
  <2>1. {i \in 1..k : inserted[i] = n} = {n}
    BY <1>1
  <2>2. QED
    BY <1>1, <2>1 DEF FilesFacts!Latest
<1>c. \A T : FilesFacts!Cardinality(T) = Cardinality(T)
  BY DEF FilesFacts!Cardinality, Cardinality
<1>4. \/ n \in DOMAIN byName
      \/ FilesFacts!Cardinality({inserted[i] : i \in later}) >= MaxEntries
  BY <1>1, <1>2, <1>3 DEF FilesFacts!StoreConsistent, FilesFacts!KeptWhileRecent
<1>5. {inserted[i] : i \in later} = later
  BY <1>1
<1>6. Cardinality(later) = k - n
  BY <1>1, FS_Interval
<1>7. QED
  BY <1>c, <1>4, <1>5, <1>6

\* A product a client was told of is served until MaxEntries others replaced
\* it and was offered to the persistence runtime; what was retained was
\* announced, except for the product an ingest task failed on.
THEOREM HandledCorrect == Spec => []HandledCompletely
<1> DEFINE Kept == lapsed = {}
<1>1. FilesFacts!StoreAssumption
  BY ServerAssumption DEF FilesFacts!StoreAssumption
<1>2. Spec => []FilesFacts!StoreConsistent
  BY <1>1, PartsAsSpecified, SameFiles, FilesFacts!StoreCorrect, PTL
<1>3. Init => Kept
  BY DEF Init, Files!Init
<1>4. FilesFacts!StoreConsistent /\ ServerInv /\ Kept /\ [Next]_vars => Kept'
  BY NothingLapses DEF FilesFacts!StoreConsistent, ServerInv
<1>5. FilesFacts!StoreConsistent /\ ServerInv /\ Kept => HandledCompletely
  <2> SUFFICES ASSUME FilesFacts!StoreConsistent, ServerInv, lapsed = {}
               PROVE  TypeOK /\ AnnouncedIsServed /\ NothingHalfHandled
    BY DEF HandledCompletely
  <2>1. TypeOK /\ Numbered /\ Counted
    BY DEF ServerInv
  <2>2. ASSUME NEW n \in announced
        PROVE  /\ n \in DOMAIN byName \/ Len(inserted) - n >= MaxEntries
               /\ persisting => fate[n] # "new"
    <3>1. n \in 1..Len(inserted)
      BY <2>1 DEF Counted
    <3>2. QED
      BY <2>1, <3>1, ServedOrReplaced DEF Counted
  <2>3. QED
    BY <2>1, <2>2 DEF AnnouncedIsServed, NothingHalfHandled, Counted
<1> HIDE DEF Kept
<1>6. QED
  BY <1>2, <1>3, <1>4, <1>5, ServerInvariant, PTL DEF Spec
=============================================================================
