--------------------------- MODULE WxWireTransport --------------------------
(***************************************************************************)
(* XmppWxWireTransport (wxwire_receiver/transport.rs): the handshake that  *)
(* ends in the room, and next_stanza, which takes top-level elements from  *)
(* the read buffer until one is a message of the room.  The future of      *)
(* next_stanza may be dropped at each of its awaits and is made anew in    *)
(* every turn of the receiver's loop.                                      *)
(*                                                                         *)
(* An element is its kind: "room" is a groupchat message of the room,      *)
(* "foreign" any other message, presence or iq, "request" and "ack" are    *)
(* <r/> and <a/> of stream management, "junk" is an element that is not    *)
(* supported or cannot be parsed, "broken" is text that is no element.     *)
(* The small writes go into the TLS buffer whole or not at all, so a       *)
(* dropped write has sent nothing.                                         *)
(***************************************************************************)
EXTENDS Integers, Sequences, FiniteSets

CONSTANTS
    BufferLimit,   \* MAX_READ_BUFFER_BYTES, in elements
    MaxElements    \* bound: elements read over one connection

VARIABLES
    stage,      \* what connect waits for; "up" in the room, "down" without
    waited,     \* the read of connect has waited for some of its timeout
    sm,         \* sm_enabled
    buf,        \* the elements in read_buf
    handled,    \* sm_handled_stanzas
    acked,      \* the h of the last <a/> sent
    due,        \* HEARTBEAT_INTERVAL has passed since last_heartbeat
    sending,    \* the element next_stanza is writing, or "none"
    stalled,    \* this future met broken text and waits for more bytes
    rooms,      \* history: room messages read over this connection,
    given,      \*   those handed out,
    stanzas,    \*   messages, presences and iqs read,
    elements    \*   and elements of any kind

counts == <<rooms, given, stanzas, elements>>
transportVars == <<stage, waited, sm, buf, handled, acked, due, sending, stalled, counts>>

Kinds == {"room", "foreign", "request", "ack", "junk", "broken"}
Stanzas == {"room", "foreign"}

\* What connect waits for, in this order; with stream management on offer
\* "managed" comes before "presence".
Stages == {"down", "tcp", "features", "proceed", "tls", "mechanisms", "success",
           "binding", "bound", "managed", "presence", "up"}

TransportTypeOK ==
    /\ stage \in Stages
    /\ waited \in BOOLEAN /\ sm \in BOOLEAN /\ due \in BOOLEAN /\ stalled \in BOOLEAN
    /\ buf \in Seq(Kinds) /\ Len(buf) <= BufferLimit
    /\ {handled, acked, rooms, given, stanzas, elements} \subseteq 0..MaxElements
    /\ sending \in {"none", "ack", "ping"}

Hangup ==
    /\ stage' = "down" /\ waited' = FALSE /\ sm' = FALSE
    /\ buf' = <<>>
    /\ handled' = 0 /\ acked' = 0
    /\ due' = FALSE /\ sending' = "none" /\ stalled' = FALSE
    /\ rooms' = 0 /\ given' = 0 /\ stanzas' = 0 /\ elements' = 0

TransportInit ==
    /\ stage = "down" /\ waited = FALSE /\ sm = FALSE
    /\ buf = <<>>
    /\ handled = 0 /\ acked = 0
    /\ due = FALSE /\ sending = "none" /\ stalled = FALSE
    /\ rooms = 0 /\ given = 0 /\ stanzas = 0 /\ elements = 0

-----------------------------------------------------------------------------
(* connect *)

Stage(from, to) ==
    /\ stage = from
    /\ stage' = to /\ waited' = FALSE
    /\ UNCHANGED <<sm, buf, handled, acked, due, sending, stalled, counts>>

Dial == Stage("down", "tcp")

\* The answers that lead on.  TCP, TLS and the presence of the room have what
\* is left of connect_timeout; an element is awaited by wait_for_any_tag,
\* below.
Answered ==
    \/ Stage("tcp", "features")          \* TCP is up, the stream is opened
    \/ Stage("features", "proceed")      \* STARTTLS is offered and asked for
    \/ Stage("proceed", "tls")
    \/ Stage("tls", "mechanisms")        \* buffer cleared, stream opened anew
    \/ Stage("mechanisms", "success")    \* SASL is offered, PLAIN is sent
    \/ Stage("success", "binding")
    \/ Stage("binding", "bound")         \* bind is offered and asked for

\* The result of bind; stream management follows if it was on offer.
Bound ==
    \/ Stage("bound", "managed")
    \/ Stage("bound", "presence")

Managed ==
    /\ stage = "managed"
    /\ stage' = "presence" /\ waited' = FALSE /\ sm' = TRUE
    /\ UNCHANGED <<buf, handled, acked, due, sending, stalled, counts>>

\* What wait_for_any_tag waits for without an outer deadline.
Awaited == {"features", "proceed", "mechanisms", "success", "binding", "bound", "managed"}

Waits ==
    /\ stage \in Awaited /\ ~waited
    /\ waited' = TRUE
    /\ UNCHANGED <<stage, sm, buf, handled, acked, due, sending, stalled, counts>>

\* wait_for_any_tag is sent something else: it is dropped, and the next read
\* has the whole timeout again.
OtherElement ==
    /\ stage \in Awaited /\ waited
    /\ waited' = FALSE
    /\ UNCHANGED <<stage, sm, buf, handled, acked, due, sending, stalled, counts>>

CountOf(s, S) == Cardinality({i \in 1..Len(s) : s[i] \in S})

\* Elements go to the end of the buffer.
Receive(new) ==
    /\ buf' = buf \o new
    /\ rooms' = rooms + CountOf(new, {"room"})
    /\ stanzas' = stanzas + CountOf(new, Stanzas)
    /\ elements' = elements + Len(new)
    /\ UNCHANGED given

\* The own presence of the room.  What came before it in the stream was
\* discarded, what came with it in one read is kept for next_stanza.
Joined(leftover) ==
    /\ stage = "presence"
    /\ stage' = "up" /\ waited' = FALSE
    /\ Receive(leftover)
    /\ UNCHANGED <<sm, handled, acked, due, sending, stalled>>

\* A timeout that has passed, an answer that refuses, or a socket error.
HandshakeFails == stage \notin {"down", "up"} /\ Hangup

-----------------------------------------------------------------------------
(* next_stanza *)

Ready == stage = "up" /\ sending = "none" /\ ~stalled /\ buf # <<>>

\* pop_next_top_level_element.
Pop(kinds) == Ready /\ Head(buf) \in kinds /\ buf' = Tail(buf)

Skip ==
    /\ Pop({"ack", "junk"})
    /\ UNCHANGED <<stage, waited, sm, handled, acked, due, sending, stalled, counts>>

SkipForeign ==
    /\ Pop({"foreign"})
    /\ handled' = handled + 1
    /\ UNCHANGED <<stage, waited, sm, acked, due, sending, stalled, counts>>

\* Broken text is cut off and nothing is returned, so that the loop goes on
\* to read although there may be elements behind it.
SkipBroken ==
    /\ Pop({"broken"})
    /\ stalled' = TRUE
    /\ UNCHANGED <<stage, waited, sm, handled, acked, due, sending, counts>>

AnswerBegins ==
    /\ Pop({"request"})
    /\ sending' = "ack"
    /\ UNCHANGED <<stage, waited, sm, handled, acked, due, stalled, counts>>

\* Seeded fault: the message is taken off before the heartbeat is awaited.
TakeRoomLate ==
    \/ /\ Pop({"room"})
       /\ handled' = handled + 1 /\ given' = given + 1
       /\ ~(sm /\ due)
       /\ UNCHANGED <<stage, waited, sm, acked, due, sending, stalled, rooms, stanzas, elements>>
    \/ /\ Pop({"room"})
       /\ handled' = handled + 1
       /\ sm /\ due /\ sending' = "ping"
       /\ UNCHANGED <<stage, waited, sm, acked, due, stalled, counts>>

\* The future returns a message of the room.
TakeRoom ==
    /\ Pop({"room"})
    /\ handled' = handled + 1 /\ given' = given + 1
    /\ UNCHANGED <<stage, waited, sm, acked, due, sending, stalled, rooms, stanzas, elements>>

\* Nothing to take: the heartbeat comes before the read.
AtRead == stage = "up" /\ sending = "none" /\ (buf = <<>> \/ stalled)

HeartbeatBegins ==
    /\ AtRead /\ sm /\ due
    /\ sending' = "ping"
    /\ UNCHANGED <<stage, waited, sm, buf, handled, acked, due, stalled, counts>>

\* last_heartbeat is set only once the write is done.
WriteDone ==
    /\ sending # "none"
    /\ acked' = IF sending = "ack" THEN handled ELSE acked
    /\ due' = IF sending = "ping" THEN FALSE ELSE due
    /\ sending' = "none"
    /\ UNCHANGED <<stage, waited, sm, buf, handled, stalled, counts>>

Reading == AtRead /\ ~(sm /\ due)

ReadMore(new) ==
    /\ Reading
    /\ elements + Len(new) <= MaxElements
    /\ Len(buf) + Len(new) <= BufferLimit
    /\ Receive(new)
    /\ stalled' = FALSE
    /\ UNCHANGED <<stage, waited, sm, handled, acked, due, sending>>

\* A write or a read that fails, the end of the stream, or a buffer that
\* would exceed its limit; the receiver hangs up.
NextStanzaFails ==
    /\ sending # "none" \/ Reading
    /\ sending' = "none" /\ stalled' = FALSE
    /\ UNCHANGED <<stage, waited, sm, buf, handled, acked, due, counts>>

\* Twenty seconds since the last heartbeat.
HeartbeatDue ==
    /\ stage = "up" /\ ~due
    /\ due' = TRUE
    /\ UNCHANGED <<stage, waited, sm, buf, handled, acked, sending, stalled, counts>>

\* Seeded fault: the loop keeps its place at the read.
DroppedStays ==
    /\ sending' = "none"
    /\ UNCHANGED <<stage, waited, sm, buf, handled, acked, due, stalled, counts>>

\* The future is dropped at an await: a write that was not done never
\* happens, the element it answered is gone, and the next future starts
\* with what is left in the buffer.
Dropped ==
    /\ sending' = "none" /\ stalled' = FALSE
    /\ UNCHANGED <<stage, waited, sm, buf, handled, acked, due, counts>>

Inside == Skip \/ SkipForeign \/ SkipBroken \/ AnswerBegins \/ HeartbeatBegins \/ WriteDone

-----------------------------------------------------------------------------
(* Correctness *)

\* next_stanza can be dropped at any await without losing a message or its
\* count: the messages read are those handed out and those in the buffer, an
\* acknowledgement never runs ahead of what was taken from the buffer.
StanzasKept ==
    /\ TransportTypeOK
    /\ given + CountOf(buf, {"room"}) = rooms
    /\ handled + CountOf(buf, Stanzas) = stanzas
    /\ acked <= handled
=============================================================================
