--------------------------- MODULE ReceiverRuntime --------------------------
(***************************************************************************)
(* A receiver as its users see it: the lifecycle of ReceiverLifecycle with *)
(* the event channel of EventChannel.  Every start makes a channel, the    *)
(* task of that start is its only sender, and its consumer is whoever took *)
(* the stream from events().                                               *)
(*                                                                         *)
(* The channel followed is the one of the latest start; a task whose stop  *)
(* was abandoned before it keeps a sender of a channel nobody reads.       *)
(***************************************************************************)
EXTENDS ReceiverLifecycle, EventChannel

runtimeVars == <<vars, channelVars>>

RuntimeInit == Init /\ ChannelInit

\* The task of the latest start lives, and with it the sender.
SenderAlive == starts \in working

\* Somebody holds the stream of the latest start.
StreamHeld == starts > 0 /\ streams[starts] = 1 /\ rxOpen

-----------------------------------------------------------------------------
\* start: channel, watch and task are made together.
StartRuntime == Start /\ Reopen

StopRuntime == Stop /\ UNCHANGED channelVars

TakeEvents == Events /\ UNCHANGED channelVars

\* The task is between two awaits while it sends, so it neither returns nor
\* panics with an event half sent.
TaskSends == SenderAlive /\ Send /\ UNCHANGED vars

TaskEnds(t) ==
    /\ TaskReturns(t) \/ TaskPanics(t)
    /\ t = starts => pc = "idle"
    /\ UNCHANGED channelVars

ConsumerRecv == StreamHeld /\ Recv /\ UNCHANGED vars

ConsumerLeaves == StreamHeld /\ DropStream /\ UNCHANGED vars

RuntimeNext ==
    \/ StartRuntime \/ StopRuntime \/ TakeEvents
    \/ TaskSends \/ \E t \in Tasks : TaskEnds(t)
    \/ ConsumerRecv \/ ConsumerLeaves

\* The executor polls the task, the stop that waits for it and the consumer
\* that reads; a task that was told to stop gets to its next await.
RuntimeFairness ==
    /\ WF_runtimeVars(StopReturn /\ UNCHANGED channelVars)
    /\ WF_runtimeVars(TaskSends /\ pc = "event")
    /\ \A t \in Tasks : SF_runtimeVars(TaskReturns(t) /\ TaskEnds(t))
    /\ WF_runtimeVars(ConsumerRecv)

RuntimeSpec == RuntimeInit /\ [][RuntimeNext]_runtimeVars /\ RuntimeFairness

-----------------------------------------------------------------------------
(* Correctness *)

\* recv returns None: no sender, and nothing left to read.
StreamOver == ~SenderAlive /\ queue = <<>>

\* After a stop, the stream of the run ends for a consumer that keeps reading:
\* it gets what was queued and then the end, unless the receiver is started
\* again or the stream is dropped.
StreamEnds ==
    (stopped /\ StreamHeld) ~> (StreamOver \/ ~stopped \/ ~StreamHeld)

\* Nothing is put into a channel after a stop that waited for the task has
\* returned, and what is in it stays until the consumer takes it.
QuietAfterStop ==
    [][stopped /\ stopped' /\ starts \notin abandoned =>
          \/ UNCHANGED queue
          \/ ~rxOpen'
          \/ queue # <<>> /\ taken' = Append(taken, Head(queue)) /\ queue' = Tail(queue)]_runtimeVars

\* A stop is final: it returns, nothing is sent after it, and the consumer
\* reaches the end of the stream.
StopIsFinal == StopReturns /\ StreamEnds /\ QuietAfterStop
=============================================================================
