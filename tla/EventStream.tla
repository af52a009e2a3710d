----------------------------- MODULE EventStream ----------------------------
(***************************************************************************)
(* GET /events (emwin-cli live/server/server_http.rs) over the broadcast   *)
(* channel of AppState: slots for clients, the subscription, the stream    *)
(* each client polls, and the shutdown watch.                              *)
(*                                                                         *)
(* tokio's broadcast channel is a ring of the last Capacity events; a      *)
(* receiver that falls behind is told how many it missed.  Event ids are   *)
(* given out by publish, which only the ingest task calls; an event sent   *)
(* while nobody subscribes takes an id and is not stored.                  *)
(***************************************************************************)
EXTENDS FileFilter

CONSTANTS
    Clients,     \* peers that call /events
    MaxClients,  \* max_clients
    Capacity,    \* EVENT_CHANNEL_CAPACITY
    EventOf,     \* what is published: a name for each event, and its content
    QueryOf,     \* what clients ask for: a name for each query, and its fields
    LastIds,     \* Last-Event-ID values clients send; zero when absent
    MaxEvents    \* bound: events published

ASSUME HubAssumption == /\ MaxClients \in Nat \ {0}
                        /\ Capacity \in Nat \ {0}
                        /\ MaxEvents \in Nat
                        /\ LastIds \subseteq Nat
                        /\ IsFiniteSet(Clients)

Kinds   == DOMAIN EventOf
Queries == DOMAIN QueryOf
Accepted == {q \in Queries : ~RejectsQuery(QueryOf[q])}

VARIABLES
    connected,    \* connected_clients
    nextEventId,  \* next_event_id
    channel,      \* the events sent, with id and kind
    stage,        \* "away", "admitted", "streaming" or "refused", per client
    stream,       \* StreamState of a client: position, last_id, filter
    shutdown,     \* the shutdown watch
    log           \* history per client: what it was sent and told

vars == <<connected, nextEventId, channel, stage, stream, shutdown, log>>

Stages == {"away", "admitted", "streaming", "refused"}
NoStream == [position |-> 1, lastId |-> 0, filter |-> "none"]
NoLog    == [from |-> 1, floor |-> 0, ids |-> <<>>, lost |-> 0]

TypeOK ==
    /\ connected \in 0..MaxClients
    /\ nextEventId \in 1..(MaxEvents + 1)
    /\ channel \in Seq([id : 1..MaxEvents, kind : Kinds])
    /\ stage \in [Clients -> Stages]
    /\ stream \in [Clients -> [position : Nat, lastId : Nat, filter : Queries \cup {"none"}]]
    /\ \A c \in Clients : stream[c].position \in 1..(Len(channel) + 1)
    /\ shutdown \in BOOLEAN
    /\ log \in [Clients -> [from : Nat, floor : Nat, ids : Seq(Nat), lost : Nat]]

Init ==
    /\ connected = 0
    /\ nextEventId = 1
    /\ channel = <<>>
    /\ stage = [c \in Clients |-> "away"]
    /\ stream = [c \in Clients |-> NoStream]
    /\ shutdown = FALSE
    /\ log = [c \in Clients |-> NoLog]

-----------------------------------------------------------------------------
Streaming == {c \in Clients : stage[c] = "streaming"}

\* publish: take an id and send; without receivers the event is dropped.
Publish(kind) ==
    /\ nextEventId <= MaxEvents
    /\ nextEventId' = nextEventId + 1
    /\ channel' = IF Streaming = {} THEN channel
                  ELSE Append(channel, [id |-> nextEventId, kind |-> kind])
    /\ UNCHANGED <<connected, stage, stream, shutdown, log>>

\* events_handler: the atomic update that takes a slot.
Admit(c) ==
    /\ stage[c] = "away"
    /\ connected < MaxClients
    /\ connected' = connected + 1
    /\ stage' = [stage EXCEPT ![c] = "admitted"]
    /\ UNCHANGED <<nextEventId, channel, stream, shutdown, log>>

\* ... and the answer TOO_MANY_REQUESTS when there is none.
Refuse(c) ==
    /\ stage[c] = "away"
    /\ connected >= MaxClients
    /\ stage' = [stage EXCEPT ![c] = "refused"]
    /\ UNCHANGED <<connected, nextEventId, channel, stream, shutdown, log>>

\* The rest of the handler for a query it accepts.
Subscribe(c, query, lastId) ==
    /\ stage[c] = "admitted" /\ query \in Accepted
    /\ stage' = [stage EXCEPT ![c] = "streaming"]
    /\ stream' = [stream EXCEPT ![c] = [position |-> Len(channel) + 1,
                                        lastId   |-> lastId,
                                        filter   |-> query]]
    /\ log' = [log EXCEPT ![c] = [NoLog EXCEPT !.from = Len(channel) + 1,
                                               !.floor = lastId]]
    /\ UNCHANGED <<connected, nextEventId, channel, shutdown>>

\* A query it does not accept: BAD_REQUEST, before the guard of the slot
\* exists.
RejectQuery(c) ==
    /\ stage[c] = "admitted" /\ Accepted # Queries
    /\ stage' = [stage EXCEPT ![c] = "away"]
    /\ UNCHANGED <<connected, nextEventId, channel, stream, shutdown, log>>

-----------------------------------------------------------------------------
\* The queries and the events their filters let through.
Matching == {qk \in Accepted \X Kinds : Matches(Compiled(QueryOf[qk[1]]), EventOf[qk[2]])}

\* The ring holds the last Capacity events.
Oldest == IF Len(channel) > Capacity THEN Len(channel) - Capacity + 1 ELSE 1

\* Seeded fault: events the client has seen are sent again.
PassesAnyId(c, event) == <<stream[c].filter, event.kind>> \in Matching

\* An event that the stream skips: seen before, or not asked for.
Passes(c, event) == event.id > stream[c].lastId /\ <<stream[c].filter, event.kind>> \in Matching

\* recv returns the next event, and the stream sends or skips it.
Receive(c) ==
    LET s == stream[c]
    IN  /\ stage[c] = "streaming"
        /\ Oldest <= s.position /\ s.position <= Len(channel)
        /\ LET event == channel[s.position]
           IN  IF Passes(c, event)
               THEN /\ stream' = [stream EXCEPT ![c] = [s EXCEPT !.position = @ + 1,
                                                                 !.lastId = event.id]]
                    /\ log' = [log EXCEPT ![c].ids = Append(@, event.id)]
               ELSE /\ stream' = [stream EXCEPT ![c].position = @ + 1]
                    /\ UNCHANGED log
        /\ UNCHANGED <<connected, nextEventId, channel, stage, shutdown>>

\* Seeded fault: a client that lags resumes with the next event to come, and
\* is told of the overwritten ones only.
LagToTail(c) ==
    /\ stage[c] = "streaming"
    /\ stream[c].position < Oldest
    /\ stream' = [stream EXCEPT ![c].position = Len(channel) + 1]
    /\ log' = [log EXCEPT ![c].lost = @ + (Oldest - stream[c].position)]
    /\ UNCHANGED <<connected, nextEventId, channel, stage, shutdown>>

\* recv reports how many events were overwritten, and the stream warns.
Lag(c) ==
    /\ stage[c] = "streaming"
    /\ stream[c].position < Oldest
    /\ stream' = [stream EXCEPT ![c].position = Oldest]
    /\ log' = [log EXCEPT ![c].lost = @ + (Oldest - stream[c].position)]
    /\ UNCHANGED <<connected, nextEventId, channel, stage, shutdown>>

\* The stream ends and ClientGuard gives the slot back: the peer left, ...
Release(c) ==
    /\ stage' = [stage EXCEPT ![c] = "away"]
    /\ connected' = connected - 1
    /\ stream' = [stream EXCEPT ![c] = NoStream]
    /\ log' = [log EXCEPT ![c] = NoLog]
    /\ UNCHANGED <<nextEventId, channel, shutdown>>

Disconnect(c) == stage[c] = "streaming" /\ Release(c)

\* Seeded fault: only an idle stream that has sent nothing looks at the watch.
EndOnlyIfUnused(c) ==
    stage[c] = "streaming" /\ shutdown /\ log[c].ids = <<>> /\ Release(c)

\* ... or the shutdown watch fired.
EndOnShutdown(c) == stage[c] = "streaming" /\ shutdown /\ Release(c)

\* A refused peer tries again later.
Retry(c) ==
    /\ stage[c] = "refused"
    /\ stage' = [stage EXCEPT ![c] = "away"]
    /\ UNCHANGED <<connected, nextEventId, channel, stream, shutdown, log>>

Shutdown ==
    /\ ~shutdown
    /\ shutdown' = TRUE
    /\ UNCHANGED <<connected, nextEventId, channel, stage, stream, log>>

Handle(c) ==
    \/ Admit(c) \/ Refuse(c) \/ RejectQuery(c)
    \/ \E q \in Queries, id \in LastIds : Subscribe(c, q, id)

Poll(c) == Receive(c) \/ Lag(c) \/ EndOnShutdown(c)

Next ==
    \/ \E k \in Kinds : Publish(k)
    \/ \E c \in Clients : Handle(c) \/ Poll(c) \/ Disconnect(c) \/ Retry(c)
    \/ Shutdown

Spec == Init /\ [][Next]_vars

\* A client that reads keeps its stream polled, and a poll that finds both
\* the watch and the channel ready picks one of them at random, so that
\* neither is passed over for ever.
Fairness == \A c \in Clients : WF_vars(Poll(c)) /\ WF_vars(EndOnShutdown(c))

FairSpec == Spec /\ Fairness

-----------------------------------------------------------------------------
(* Correctness *)

Holders == {c \in Clients : stage[c] \in {"admitted", "streaming"}}

\* The counter covers every stream, so that there are never more streams
\* than max_clients and no guard takes the counter below zero.
StreamsWithinLimit == Cardinality(Holders) <= connected

\* A client sees increasing ids, and only what it asked for.
DeliveredInOrder ==
    \A c \in Clients :
        LET ids == log[c].ids
        IN  /\ \A i, j \in 1..Len(ids) : i < j => ids[i] < ids[j]
            /\ \A i \in 1..Len(ids) : log[c].floor < ids[i]

\* The queries and the events they mean.
Asked == {qk \in Accepted \X Kinds : AskedFor(Compiled(QueryOf[qk[1]]), EventOf[qk[2]])}

\* The places in the channel of what a client with stream s and log g is to
\* have been sent, and of what it was sent.
Due(sent, s, g) == {i \in g.from..(s.position - 1) : /\ <<s.filter, sent[i].kind>> \in Asked
                                                     /\ sent[i].id > g.floor}
Got(sent, s, g) == {i \in Due(sent, s, g) : \E j \in 1..Len(g.ids) : g.ids[j] = sent[i].id}

\* No silent loss: of the events sent since a client subscribed and before
\* its position, those its query asks for were delivered, except as many as it
\* was warned about, and no other was.
LossesTold(sent, s, g) ==
    /\ Cardinality(Due(sent, s, g) \ Got(sent, s, g)) <= g.lost
    /\ Cardinality(Got(sent, s, g)) = Len(g.ids)
NoSilentLoss == \A c \in Streaming : LossesTold(channel, stream[c], log[c])

\* "Non-filename events are never filtered out by filename filter": of the
\* events without a file that a client's query names, all were delivered but
\* those it was warned about.  EventFilter::matches lets none of them pass
\* beside a constraint on files.
OtherEventsDelivered ==
    \A c \in Streaming :
        LET s      == stream[c]
            others == {i \in Due(channel, s, log[c]) :
                          EventOf[channel[i].kind].name # "file_complete"}
        IN  Cardinality(others \ Got(channel, s, log[c])) <= log[c].lost

\* "cap concurrent SSE clients": a client is refused only while max_clients
\* clients hold a slot.
RefusedOnlyWhenFull ==
    [][\A c \in Clients :
          (stage[c] = "away" /\ stage'[c] = "refused")
          => Cardinality(Holders) >= MaxClients]_vars

\* After the shutdown watch fires every stream ends and its slot is free.
StreamsEnd ==
    \A c \in Clients : (shutdown /\ stage[c] = "streaming") ~> stage[c] # "streaming"

\* A client that keeps its stream catches up with what was sent.
CatchesUp ==
    \A c \in Clients, n \in 1..MaxEvents :
        (stage[c] = "streaming" /\ Len(channel) = n)
            ~> (stage[c] # "streaming" \/ stream[c].position > n)

\* No stream is stuck: while the server runs it catches up with what was sent,
\* and once the shutdown watch fires it ends.
StreamsProgress == StreamsEnd /\ CatchesUp

\* Every stream holds a counted slot and sends what its client asked for, in
\* order, however clients come, go, fall behind and are refused.
StreamsConsistent == TypeOK /\ StreamsWithinLimit /\ DeliveredInOrder
=============================================================================
