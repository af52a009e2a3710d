---------------------------- MODULE WxWireReceiver --------------------------
(***************************************************************************)
(* The Weather Wire loop (emwin-protocol wxwire_receiver/client.rs): one   *)
(* host, a bounded exponential backoff, stanzas from the transport and     *)
(* from the ingress queue, an idle timeout that only warns, and a clean    *)
(* disconnect.  A step ends at an await.  The network is free: a connect   *)
(* or a read may have any outcome.                                         *)
(***************************************************************************)
EXTENDS Integers

CONSTANTS
    InitialBackoff,   \* RECONNECT_BACKOFF_INITIAL, seconds
    MaxBackoff,       \* RECONNECT_BACKOFF_MAX, seconds
    IdleTimeout,      \* config.idle_timeout_secs
    IngressCapacity,  \* config.inbound_channel_capacity
    MaxFailures       \* bound: failures told apart in the history

\* The pause after n pauses, were there no limit.
Doubling[n \in 0..MaxFailures] == IF n = 0 THEN InitialBackoff ELSE 2 * Doubling[n - 1]

\* What the configuration and the bound keep to.
WxWireLimits ==
    /\ InitialBackoff \in Nat \ {0} /\ MaxBackoff \in Nat
    /\ InitialBackoff <= MaxBackoff
    /\ IdleTimeout \in Nat \ {0} /\ IngressCapacity \in Nat \ {0}
    /\ MaxFailures \in Nat /\ Doubling[MaxFailures] >= MaxBackoff

VARIABLES
    pc,         \* where the loop is
    shutdown,   \* the value of the shutdown watch
    backoff,    \* reconnect_backoff
    idle,       \* seconds since last_message_time
    ingress,    \* stanzas in the ingress queue
    told,       \* the last of Connected (TRUE) and Disconnected events
    failures,   \* history: pauses since the last connection
    rest        \* history: the loop paused since it last lost or failed to
                \* make a connection (or has just started)

vars == <<pc, shutdown, backoff, idle, ingress, told, failures, rest>>

Pcs == {"ended", "boot", "top", "connecting", "backoff", "session", "open",
        "closing", "reclosing"}

TypeOK ==
    /\ pc \in Pcs
    /\ shutdown \in BOOLEAN
    /\ backoff \in InitialBackoff..MaxBackoff
    /\ idle \in 0..IdleTimeout - 1
    /\ ingress \in 0..IngressCapacity
    /\ told \in BOOLEAN
    /\ failures \in 0..MaxFailures
    /\ rest \in BOOLEAN

Init ==
    /\ pc = "ended" /\ shutdown = TRUE
    /\ backoff = InitialBackoff
    /\ idle = 0 /\ ingress = 0
    /\ told = FALSE
    /\ failures = 0 /\ rest = TRUE

-----------------------------------------------------------------------------
Start ==
    /\ pc = "ended"
    /\ pc' = "boot" /\ shutdown' = FALSE
    /\ backoff' = InitialBackoff
    /\ idle' = 0 /\ ingress' = 0
    /\ failures' = 0 /\ rest' = TRUE
    /\ UNCHANGED told

Shutdown ==
    /\ pc # "ended" /\ ~shutdown
    /\ shutdown' = TRUE
    /\ UNCHANGED <<pc, backoff, idle, ingress, told, failures, rest>>

\* submit_raw_stanza; a full queue is an error to the caller.
Submit ==
    /\ pc # "ended" /\ ingress < IngressCapacity
    /\ ingress' = ingress + 1
    /\ UNCHANGED <<pc, shutdown, backoff, idle, told, failures, rest>>

\* The first telemetry tick; a receiver stopped before it says goodbye too.
Boot ==
    /\ pc = "boot"
    /\ pc' = IF shutdown THEN "ended" ELSE "top"
    /\ told' = FALSE
    /\ UNCHANGED <<shutdown, backoff, idle, ingress, failures, rest>>

\* The top of the loop, without ("top") and with ("open") a transport.
TopStops ==
    /\ pc \in {"top", "open"} /\ shutdown
    /\ pc' = IF pc = "open" THEN "closing" ELSE "ended"
    /\ told' = IF pc = "open" THEN told ELSE FALSE
    /\ UNCHANGED <<shutdown, backoff, idle, ingress, failures, rest>>

TopConnects ==
    /\ pc = "top" /\ ~shutdown
    /\ pc' = "connecting"
    /\ UNCHANGED <<shutdown, backoff, idle, ingress, told, failures, rest>>

TopReads ==
    /\ pc = "open" /\ ~shutdown
    /\ pc' = "session"
    /\ UNCHANGED <<shutdown, backoff, idle, ingress, told, failures, rest>>

\* connect_single_endpoint; the watch is not looked at before the select.
Connects ==
    /\ pc = "connecting"
    /\ pc' = "session"
    /\ backoff' = InitialBackoff
    /\ idle' = 0
    /\ told' = TRUE
    /\ failures' = 0
    /\ UNCHANGED <<shutdown, ingress, rest>>

ConnectFails ==
    /\ pc = "connecting"
    /\ pc' = "backoff"
    /\ rest' = FALSE
    /\ UNCHANGED <<shutdown, backoff, idle, ingress, told, failures>>

AtMost(x, limit) == IF x < limit THEN x ELSE limit

\* wait_reconnect_backoff: the sleep, after which the next one is longer.
BackoffElapses ==
    /\ pc = "backoff"
    /\ backoff' = AtMost(backoff * 2, MaxBackoff)
    /\ failures' = AtMost(failures + 1, MaxFailures)
    /\ rest' = TRUE
    /\ pc' = "top"
    /\ UNCHANGED <<shutdown, idle, ingress, told>>

BackoffInterrupted ==
    /\ pc = "backoff" /\ shutdown
    /\ pc' = "top"
    /\ UNCHANGED <<shutdown, backoff, idle, ingress, told, failures, rest>>

-----------------------------------------------------------------------------
\* The select over the watch, the telemetry tick, the ingress queue and the
\* transport with its one-second timeout.
SessionStops ==
    /\ pc = "session" /\ shutdown
    /\ pc' = "closing"
    /\ UNCHANGED <<shutdown, backoff, idle, ingress, told, failures, rest>>

Tick ==
    /\ pc = "session"
    /\ pc' = "open"
    /\ UNCHANGED <<shutdown, backoff, idle, ingress, told, failures, rest>>

TakeIngress ==
    /\ pc = "session" /\ ingress > 0
    /\ ingress' = ingress - 1
    /\ idle' = 0
    /\ pc' = "open"
    /\ UNCHANGED <<shutdown, backoff, told, failures, rest>>

TakeStanza ==
    /\ pc = "session"
    /\ idle' = 0
    /\ pc' = "open"
    /\ UNCHANGED <<shutdown, backoff, ingress, told, failures, rest>>

\* A second without a stanza; at the timeout a warning restarts the clock.
IdleSecond ==
    /\ pc = "session"
    /\ idle' = IF idle + 1 >= IdleTimeout THEN 0 ELSE idle + 1
    /\ pc' = "open"
    /\ UNCHANGED <<shutdown, backoff, ingress, told, failures, rest>>

TransportFails ==
    /\ pc = "session"
    /\ pc' = "reclosing"
    /\ rest' = FALSE
    /\ UNCHANGED <<shutdown, backoff, idle, ingress, told, failures>>

\* Seeded fault: a lost connection is replaced without a pause.
ReclosedAtOnce ==
    /\ pc = "reclosing"
    /\ pc' = "top"
    /\ told' = FALSE
    /\ UNCHANGED <<shutdown, backoff, idle, ingress, failures, rest>>

\* disconnect is awaited, then Disconnected is emitted.
Reclosed ==
    /\ pc = "reclosing"
    /\ pc' = "backoff"
    /\ told' = FALSE
    /\ UNCHANGED <<shutdown, backoff, idle, ingress, failures, rest>>

Closed ==
    /\ pc = "closing"
    /\ pc' = "ended"
    /\ told' = FALSE
    /\ UNCHANGED <<shutdown, backoff, idle, ingress, failures, rest>>

Select == SessionStops \/ Tick \/ TakeIngress \/ TakeStanza \/ IdleSecond \/ TransportFails

Loop ==
    \/ Boot \/ TopStops \/ TopConnects \/ TopReads \/ Connects \/ ConnectFails
    \/ BackoffElapses \/ BackoffInterrupted \/ Reclosed \/ Closed \/ Select

Next == Start \/ Shutdown \/ Submit \/ Loop

\* The executor polls the loop; select starts at a random branch, so a branch
\* that is ready again and again is taken.
Fairness == WF_vars(Loop) /\ SF_vars(SessionStops)

Spec == Init /\ [][Next]_vars /\ Fairness

-----------------------------------------------------------------------------
(* Correctness *)

\* "bounded exponential backoff": the pause doubles with every pause since
\* the last connection, up to the limit, and starts over after a connection.
BackoffMatchesFailures ==
    backoff = AtMost(Doubling[failures], MaxBackoff)

\* The loop pauses after every lost connection and every failed attempt.
PausesBetweenAttempts == pc = "connecting" => rest

\* The consumer is told of a connection before any stanza of it, and told of
\* its end before the next attempt and before the task ends.
EventsFollowConnection ==
    /\ pc \in {"session", "open"} => told
    /\ pc \in {"top", "connecting", "backoff", "ended"} => ~told

\* A receiver that is not stopped comes back to a session or tries to.
KeepsTrying ==
    (pc # "ended" /\ ~shutdown) ~>
        (shutdown \/ pc \in {"ended", "connecting", "session"})

\* Through every way a connection can fail or end, the loop pauses as long as
\* its failures ask for and the consumer knows whether there is a connection.
PacedAndReported == /\ TypeOK
                    /\ BackoffMatchesFailures
                    /\ PausesBetweenAttempts
                    /\ EventsFollowConnection
=============================================================================
