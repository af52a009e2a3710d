----------------------------- MODULE EventChannel ---------------------------
(***************************************************************************)
(* The bounded event channel of a receiver and its drop accounting         *)
(* (emwin-protocol runtime_support.rs): the receiver task never waits, an  *)
(* event that does not fit is dropped and counted, and the next send first *)
(* tries to put a warning with the counts into the channel.                *)
(*                                                                         *)
(* Between the two try_send calls of one send the consumer may take items  *)
(* out, so they are two steps.  The n-th event is the number n.            *)
(***************************************************************************)
EXTENDS Integers, Sequences, FiniteSets

CONSTANTS
    Capacity,   \* capacity of the mpsc channel
    MaxEvents   \* bound: events offered

ASSUME CapacityAssumption == Capacity \in Nat \ {0} /\ MaxEvents \in Nat

VARIABLES
    queue,          \* what is in the channel
    rxOpen,         \* the consumer still holds the receiver
    dropTotal,      \* event_queue_drop_total
    dropSince,      \* dropped_since_last_report
    pc,             \* "idle", or "event" between the two try_send calls
    offered,        \* history: events the task sent so far
    lost,           \* history: events dropped because the channel was full
    lostWarnings,   \* history: warnings dropped for the same reason
    unheard,        \* history: events sent after the consumer left
    announced,      \* history: drops named by the warnings put in the channel
    taken           \* history: what the consumer received

tracker == <<dropTotal, dropSince>>
history == <<offered, lost, lostWarnings, unheard, announced, taken>>
channelVars == <<queue, rxOpen, tracker, pc, history>>

Event(n)              == [kind |-> "event", number |-> n, since |-> 0, total |-> 0]
Warning(since, total) == [kind |-> "warning", number |-> 0, since |-> since, total |-> total]

Items == [kind : {"event", "warning"}, number : Nat, since : Nat, total : Nat]

ChannelTypeOK ==
    /\ queue \in Seq(Items)
    /\ rxOpen \in BOOLEAN
    /\ dropTotal \in Nat
    /\ dropSince \in Nat
    /\ pc \in {"idle", "event"}
    /\ offered \in 0..MaxEvents
    /\ lost \in Nat
    /\ lostWarnings \in Nat
    /\ unheard \in Nat
    /\ announced \in Nat
    /\ taken \in Seq(Items)

ChannelInit ==
    /\ queue = <<>>
    /\ rxOpen = TRUE
    /\ dropTotal = 0
    /\ dropSince = 0
    /\ pc = "idle"
    /\ offered = 0
    /\ lost = 0
    /\ lostWarnings = 0
    /\ unheard = 0
    /\ announced = 0
    /\ taken = <<>>

-----------------------------------------------------------------------------
HasRoom == rxOpen /\ Len(queue) < Capacity
IsFull  == rxOpen /\ Len(queue) >= Capacity

\* record_send_failure: only a full channel counts, a closed one does not.
RecordSendFailure ==
    /\ dropTotal' = dropTotal + 1
    /\ dropSince' = dropSince + 1

\* try_send_with_backpressure_warning, first half: nothing to report.
NothingToReport ==
    /\ pc = "idle" /\ offered < MaxEvents
    /\ dropSince = 0
    /\ pc' = "event"
    /\ UNCHANGED <<queue, rxOpen, tracker, history>>

\* Seeded fault: the window is not cleared.
WarningRepeats ==
    /\ pc = "idle" /\ offered < MaxEvents
    /\ dropSince > 0 /\ HasRoom
    /\ queue' = Append(queue, Warning(dropSince, dropTotal))
    /\ announced' = announced + dropSince
    /\ pc' = "event"
    /\ UNCHANGED <<rxOpen, tracker, offered, lost, lostWarnings, unheard, taken>>

\* The warning fits: the window of drops it names is closed.
WarningSent ==
    /\ pc = "idle" /\ offered < MaxEvents
    /\ dropSince > 0 /\ HasRoom
    /\ queue' = Append(queue, Warning(dropSince, dropTotal))
    /\ announced' = announced + dropSince
    /\ dropSince' = 0
    /\ pc' = "event"
    /\ UNCHANGED <<rxOpen, dropTotal, offered, lost, lostWarnings, unheard, taken>>

\* The warning does not fit, and is itself counted as a drop.
WarningDropped ==
    /\ pc = "idle" /\ offered < MaxEvents
    /\ dropSince > 0 /\ IsFull
    /\ RecordSendFailure
    /\ lostWarnings' = lostWarnings + 1
    /\ pc' = "event"
    /\ UNCHANGED <<queue, rxOpen, offered, lost, unheard, announced, taken>>

\* Nobody listens any more.
WarningUnheard ==
    /\ pc = "idle" /\ offered < MaxEvents
    /\ dropSince > 0 /\ ~rxOpen
    /\ pc' = "event"
    /\ UNCHANGED <<queue, rxOpen, tracker, history>>

\* Second half: the event itself.
EventSent ==
    /\ pc = "event" /\ HasRoom
    /\ queue' = Append(queue, Event(offered + 1))
    /\ offered' = offered + 1
    /\ pc' = "idle"
    /\ UNCHANGED <<rxOpen, tracker, lost, lostWarnings, unheard, announced, taken>>

\* Seeded fault: an event that does not fit is not counted.
EventForgotten ==
    /\ pc = "event" /\ IsFull
    /\ offered' = offered + 1
    /\ lost' = lost + 1
    /\ pc' = "idle"
    /\ UNCHANGED <<queue, rxOpen, tracker, lostWarnings, unheard, announced, taken>>

EventDropped ==
    /\ pc = "event" /\ IsFull
    /\ RecordSendFailure
    /\ offered' = offered + 1
    /\ lost' = lost + 1
    /\ pc' = "idle"
    /\ UNCHANGED <<queue, rxOpen, lostWarnings, unheard, announced, taken>>

EventUnheard ==
    /\ pc = "event" /\ ~rxOpen
    /\ offered' = offered + 1
    /\ unheard' = unheard + 1
    /\ pc' = "idle"
    /\ UNCHANGED <<queue, rxOpen, tracker, lost, lostWarnings, announced, taken>>

-----------------------------------------------------------------------------
\* The consumer polls the stream of take_events.
Recv ==
    /\ rxOpen /\ queue # <<>>
    /\ taken' = Append(taken, Head(queue))
    /\ queue' = Tail(queue)
    /\ UNCHANGED <<rxOpen, tracker, pc, offered, lost, lostWarnings, unheard, announced>>

\* The consumer drops the stream; what is still queued is gone.
DropStream ==
    /\ rxOpen
    /\ rxOpen' = FALSE
    /\ queue' = <<>>
    /\ UNCHANGED <<tracker, pc, history>>

Send ==
    \/ NothingToReport \/ WarningSent \/ WarningDropped \/ WarningUnheard
    \/ EventSent \/ EventDropped \/ EventUnheard

\* A new start makes a new channel and a new tracker; what the consumer of
\* the old one still holds is no longer looked at.
Reopen ==
    /\ queue' = <<>>
    /\ rxOpen' = TRUE
    /\ dropTotal' = 0
    /\ dropSince' = 0
    /\ pc' = "idle"
    /\ offered' = 0
    /\ lost' = 0
    /\ lostWarnings' = 0
    /\ unheard' = 0
    /\ announced' = 0
    /\ taken' = <<>>

ChannelNext == Send \/ Recv \/ DropStream \/ Reopen

ChannelSpec == ChannelInit /\ [][ChannelNext]_channelVars

-----------------------------------------------------------------------------
(* Correctness *)

\* The counters are exact: the total is the number of items that did not fit,
\* each of them is in the open window or named by exactly one warning, and
\* the channel never exceeds its capacity.
DropsAccounted ==
    /\ dropTotal = lost + lostWarnings
    /\ dropTotal = announced + dropSince
    /\ Len(queue) <= Capacity

IsEvent(item)   == item.kind = "event"
IsWarning(item) == item.kind = "warning"

\* What the consumer has been given, or will be if it reads on.
Given == taken \o queue

\* What the consumer gets is in order, and the warnings it gets add up: each
\* total is the previous one plus the drops since.
InOrder(given) ==
    \A i, j \in 1..Len(given) :
        i < j => /\ (IsEvent(given[i]) /\ IsEvent(given[j])) =>
                        given[i].number < given[j].number
                 /\ (IsWarning(given[i]) /\ IsWarning(given[j])) =>
                        given[i].total + given[j].since <= given[j].total
ConsumerSeesOrder == InOrder(Given)

\* The events a sequence of items lacks, of the first n.
Absent(given, n) ==
    {e \in 1..n : \A i \in 1..Len(given) : ~(IsEvent(given[i]) /\ given[i].number = e)}

\* No silent loss: while the consumer listens, the events missing from what
\* it was given are at most the announced drops and the ones still to be
\* announced.
LossIsAnnounced == rxOpen => Cardinality(Absent(Given, offered)) <= announced + dropSince

\* What the consumer can conclude from what it is given: events come in order,
\* warnings add up, and nothing is missing beyond what they announce.
LossesVisible == ChannelTypeOK /\ ConsumerSeesOrder /\ LossIsAnnounced
=============================================================================
