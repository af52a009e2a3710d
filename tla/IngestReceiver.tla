---------------------------- MODULE IngestReceiver --------------------------
(***************************************************************************)
(* The unified receiver (emwin-protocol ingest): a process builds either   *)
(* the QBT receiver or the Weather Wire receiver, and start and stop go to *)
(* the one that was built.  The other one never leaves its initial state,  *)
(* in which nothing of it is enabled, so that each keeps its fairness.     *)
(***************************************************************************)
EXTENDS QbtReceiver

CONSTANTS InitialBackoff, MaxBackoff, IdleTimeout, IngressCapacity, MaxFailures,
          BufferLimit, MaxElements

VARIABLES
    inner,                      \* which receiver was built
    wxPc, wxShutdown, wxTold,   \* pc, shutdown and told of the Weather Wire
    backoff, idle, ingress, failures, rest,
    stage, waited, sm, buf, handled, acked, due, sending, stalled,
    rooms, given, stanzas, elements

WxWire == INSTANCE WxWireLink WITH pc <- wxPc, shutdown <- wxShutdown, told <- wxTold

\* The buffer has room for what comes with the end of the handshake.
ASSUME IngestAssumption ==
    WxWire!WxWireLimits /\ {BufferLimit, MaxElements} \subseteq Nat \ {0, 1}

wxWireVars == <<wxPc, wxShutdown, wxTold, backoff, idle, ingress, failures, rest,
                stage, waited, sm, buf, handled, acked, due, sending, stalled,
                rooms, given, stanzas, elements>>
ingestVars == <<inner, vars, wxWireVars>>

\* IngestReceiver::build.
IngestInit ==
    /\ inner \in {"Qbt", "WxWire"}
    /\ Init /\ WxWire!LinkInit

Qbt ==
    /\ inner = "Qbt"
    /\ Next
    /\ UNCHANGED <<inner, wxWireVars>>

WeatherWire ==
    /\ inner = "WxWire"
    /\ WxWire!LinkNext
    /\ UNCHANGED <<inner, vars>>

IngestNext == Qbt \/ WeatherWire

IngestSpec == IngestInit /\ [][IngestNext]_ingestVars /\ Fairness /\ WxWire!LinkFairness

-----------------------------------------------------------------------------
(* Correctness *)

\* The Weather Wire loop pauses as its failures ask for and tells of each
\* connection and of its end (wxwire_receiver/client.rs).
PacedAndReported == WxWire!PacedAndReported

\* No message and no count is lost when a turn of the select drops
\* next_stanza at an await (wxwire_receiver/transport.rs).
StanzasKept == WxWire!StanzasKept

\* What the transport has read is handed out while the connection lasts, also
\* behind broken text and behind a request that cannot be answered.
ReadIsHandedOut == WxWire!ReadIsHandedOut

\* stop ends the receiver that was built, wherever it is; in the handshake of
\* the Weather Wire it waits for the server to answer or to fall silent.
StopEndsReceiver == StopEnds /\ WxWire!StopEndsLink

\* The receiver that was built tries to connect again unless it is stopped,
\* and with pinned servers it gets round to every one of them; see KeepsTrying
\* of the two for what counts as trying.
ReceiverKeepsTrying == KeepsTrying /\ EveryServerTried /\ WxWire!KeepsTrying
=============================================================================
