------------------------------ MODULE WxWireLink ----------------------------
(***************************************************************************)
(* The Weather Wire receiver on its transport: connect runs the handshake  *)
(* without a look at the watch, every turn of the loop makes a future of   *)
(* next_stanza and drops it when another branch of the select is taken,    *)
(* and disconnect drops the connection with its buffer.                    *)
(***************************************************************************)
EXTENDS WxWireReceiver, WxWireTransport

linkVars == <<vars, transportVars>>

LinkInit == Init /\ TransportInit

\* What one read or the leftover of the handshake may hold.
Batches == {<<>>} \cup {<<k>> : k \in Kinds} \cup {<<k, "room">> : k \in Kinds}

\* Awaits of the loop itself.
LoopAlone ==
    /\ Boot \/ TopStops \/ TopReads \/ BackoffElapses \/ BackoffInterrupted
    /\ UNCHANGED transportVars

Dials == TopConnects /\ Dial

Handshake ==
    /\ pc = "connecting"
    /\ \/ Answered \/ Bound \/ Managed
       \/ \E leftover \in Batches : Joined(leftover)
       \/ Waits \/ OtherElement
    /\ UNCHANGED vars

LinkUp == stage = "up" /\ Connects /\ UNCHANGED transportVars

LinkRefused == ConnectFails /\ HandshakeFails

\* Branches of the select other than the transport.
OtherBranch == (SessionStops \/ Tick \/ TakeIngress) /\ Dropped

\* The second is over while next_stanza waits.
SecondOver == (sending # "none" \/ Reading) /\ IdleSecond /\ Dropped

StanzaTaken == TakeStanza /\ TakeRoom

LinkFails == TransportFails /\ NextStanzaFails

Works == pc = "session" /\ Inside /\ UNCHANGED vars

Reads == pc = "session" /\ (\E new \in Batches \ {<<>>} : ReadMore(new)) /\ UNCHANGED vars

Disconnects == (Reclosed \/ Closed) /\ Hangup

Heartbeat == HeartbeatDue /\ UNCHANGED vars

Application == (Start \/ Shutdown \/ Submit) /\ UNCHANGED transportVars

TurnEnds == OtherBranch \/ SecondOver \/ StanzaTaken \/ LinkFails

LinkLoop ==
    \/ LoopAlone \/ Dials \/ Handshake \/ LinkUp \/ LinkRefused
    \/ TurnEnds \/ Works \/ Reads \/ Disconnects

LinkNext == Application \/ Heartbeat \/ LinkLoop

\* The executor polls the loop, each read of the handshake has a timeout (the
\* handshake as a whole has none), a turn ends after a second at the latest,
\* and select starts at a random branch, so one that is ready again and again
\* is taken.  Of the server nothing is assumed but that the few bytes of the
\* requests of connect and of the goodbye find room in the socket's buffer:
\* they are written without a timeout.
LinkFairness ==
    /\ WF_linkVars(LinkLoop) /\ WF_linkVars(TurnEnds)
    /\ SF_linkVars(SessionStops /\ Dropped)
    /\ SF_linkVars(StanzaTaken) /\ SF_linkVars(Works)

LinkSpec == LinkInit /\ [][LinkNext]_linkVars /\ LinkFairness

-----------------------------------------------------------------------------
(* Correctness *)

\* connect has an outcome in the end.
ConnectEnds == (pc = "connecting") ~> (pc # "connecting")

\* A receiver that is told to stop ends, wherever it is but in connect, which
\* does not look at the watch; connect ends unless the server goes on sending
\* elements it was not asked for.
StopEndsLink ==
    /\ (shutdown /\ pc # "connecting") ~> (pc = "ended")
    /\ ConnectEnds \/ []<><<OtherElement>>_linkVars

Connection == pc \in {"session", "open"} /\ ~shutdown

\* A message that was read reaches the decoder, also behind broken text and
\* behind a request whose answer the server does not take, as long as the
\* connection lasts.
ReadIsHandedOut ==
    \A n \in 1..MaxElements :
        (Connection /\ rooms >= n) ~> (given >= n \/ ~Connection)
=============================================================================
