-------------------------- MODULE ReceiverLifecycle -------------------------
(***************************************************************************)
(* The lifecycle both receivers share (ReceiverRuntime of emwin-protocol   *)
(* runtime_support.rs): start spawns the background task and installs its  *)
(* channel, watch and join handle; stop signals the watch, awaits the task *)
(* and forgets it; events hands the channel out once per start.            *)
(*                                                                         *)
(* stop is a future: it waits between taking the join handle and clearing  *)
(* running, and its caller may drop it there (a timeout or a select).  The *)
(* n-th task is the number n, and 0 stands for None.                       *)
(***************************************************************************)
EXTENDS Integers, FiniteSets

CONSTANT MaxStarts  \* bound: calls of start that succeed

ASSUME LifecycleAssumption == MaxStarts \in Nat \ {0}

VARIABLES
    running,     \* ReceiverRuntime.running
    eventRx,     \* event_rx: the task whose channel is held
    shutdownTx,  \* shutdown_tx: the task whose watch is held
    joinHandle,  \* join_handle
    awaiting,    \* the task an unfinished stop is waiting for
    starts,      \* tasks spawned so far
    working,     \* the tasks that are alive
    told,        \* the tasks whose watch holds true
    streams,     \* history: the channels handed out, with how often
    stopped,     \* history: a stop has returned since the last start
    abandoned    \* history: the tasks whose stop was dropped half way

runtime == <<running, eventRx, shutdownTx, joinHandle>>
vars == <<runtime, awaiting, starts, working, told, streams, stopped, abandoned>>

Tasks == 1..MaxStarts

TypeOK ==
    /\ running \in BOOLEAN
    /\ eventRx \in 0..starts /\ shutdownTx \in 0..starts
    /\ joinHandle \in 0..starts /\ awaiting \in 0..starts
    /\ starts \in 0..MaxStarts
    /\ told \subseteq 1..starts
    /\ working \subseteq 1..starts
    /\ streams \in [Tasks -> 0..1]
    /\ stopped \in BOOLEAN
    /\ abandoned \subseteq 1..starts

Init ==
    /\ running = FALSE
    /\ eventRx = 0 /\ shutdownTx = 0 /\ joinHandle = 0
    /\ awaiting = 0
    /\ starts = 0
    /\ working = {} /\ told = {}
    /\ streams = [t \in Tasks |-> 0]
    /\ stopped = FALSE
    /\ abandoned = {}

\* The methods take &mut self, so none is called while a stop future lives.
Idle == awaiting = 0

-----------------------------------------------------------------------------

\* start, and install at its end.
Start ==
    /\ Idle /\ starts < MaxStarts
    /\ ~running
    /\ starts' = starts + 1
    /\ working' = working \cup {starts + 1}
    /\ eventRx' = starts + 1
    /\ shutdownTx' = starts + 1
    /\ joinHandle' = starts + 1
    /\ running' = TRUE
    /\ stopped' = FALSE
    /\ UNCHANGED <<awaiting, told, streams, abandoned>>

\* stop of a receiver that is not running returns at once.
StopIdle ==
    /\ Idle /\ ~running
    /\ stopped' = TRUE
    /\ UNCHANGED <<runtime, awaiting, starts, working, told, streams, abandoned>>

\* Seeded fault: stop does not signal the watch.
SignalNot == UNCHANGED told

Signal == told' = told \cup ({shutdownTx} \ {0})

\* The end of stop: the runtime forgets the task.
Forget ==
    /\ running' = FALSE
    /\ shutdownTx' = 0
    /\ stopped' = TRUE

\* Seeded fault: stop drops the handle instead of awaiting it.
StopUnawaited ==
    /\ Idle /\ running /\ joinHandle # 0
    /\ Signal
    /\ joinHandle' = 0
    /\ Forget
    /\ UNCHANGED <<eventRx, awaiting, starts, working, streams, abandoned>>

\* stop up to the await of the join handle.
StopBegin ==
    /\ Idle /\ running /\ joinHandle # 0
    /\ Signal
    /\ awaiting' = joinHandle
    /\ joinHandle' = 0
    /\ UNCHANGED <<running, eventRx, shutdownTx, starts, working, streams, stopped, abandoned>>

\* An earlier stop has taken the handle: there is nothing to await.
StopWithoutHandle ==
    /\ Idle /\ running /\ joinHandle = 0
    /\ Signal
    /\ Forget
    /\ UNCHANGED <<eventRx, joinHandle, awaiting, starts, working, streams, abandoned>>

\* The task has ended, by itself or by a panic, and stop returns.
StopReturn ==
    /\ awaiting # 0 /\ awaiting \notin working
    /\ awaiting' = 0
    /\ Forget
    /\ UNCHANGED <<eventRx, joinHandle, starts, working, told, streams, abandoned>>

\* The caller drops the future; the handle it had taken detaches the task.
StopCancelled ==
    /\ awaiting # 0
    /\ awaiting' = 0
    /\ abandoned' = abandoned \cup {awaiting}
    /\ UNCHANGED <<runtime, starts, working, told, streams, stopped>>

\* take_events.
Events ==
    /\ Idle /\ eventRx # 0
    /\ streams' = [streams EXCEPT ![eventRx] = @ + 1]
    /\ eventRx' = 0
    /\ UNCHANGED <<running, shutdownTx, joinHandle, awaiting, starts, working, told, stopped, abandoned>>

-----------------------------------------------------------------------------
\* A task reads its watch in every loop and returns once it holds true.
TaskReturns(t) ==
    /\ t \in working /\ t \in told
    /\ working' = working \ {t}
    /\ UNCHANGED <<runtime, awaiting, starts, told, streams, stopped, abandoned>>

\* A registered handler runs on the task; if it panics the task is gone.
TaskPanics(t) ==
    /\ t \in working
    /\ working' = working \ {t}
    /\ UNCHANGED <<runtime, awaiting, starts, told, streams, stopped, abandoned>>

Stop == StopIdle \/ StopBegin \/ StopWithoutHandle \/ StopReturn \/ StopCancelled

Next ==
    \/ Start \/ Stop \/ Events
    \/ \E t \in Tasks : TaskReturns(t) \/ TaskPanics(t)

\* The executor keeps polling the task and the future that waits for it.
Fairness == WF_vars(StopReturn) /\ \A t \in Tasks : WF_vars(TaskReturns(t))

Spec == Init /\ [][Next]_vars /\ Fairness

-----------------------------------------------------------------------------
(* Correctness *)

\* No task is ever out of reach: a task that was not told to stop is the one
\* whose watch the running receiver holds, however many starts, stops,
\* panics and abandoned stops came before.
NoOrphanTask ==
    \A t \in working \ told : running /\ shutdownTx = t

\* The events of a run are handed out at most once, and never those of a run
\* that is still to come.
EventsTakenOnce ==
    \A t \in Tasks : streams[t] + (IF eventRx = t THEN 1 ELSE 0) <= 1

\* "stop() is idempotent and shuts down background tasks before returning":
\* between a stop that returned and the next start nothing runs, except a task
\* whose first stop was dropped while it waited.  The join handle went with
\* that future, and a second stop returns without waiting for the task.
StopLeavesNothing == stopped => working \subseteq abandoned

\* A stop that waits returns.
StopReturns == (awaiting # 0) ~> (awaiting = 0)

\* Whatever the order of start, stop and events: no task out of reach, no
\* channel handed out twice, and nothing running after a stop that waited.
NothingLeftBehind == TypeOK /\ NoOrphanTask /\ EventsTakenOnce /\ StopLeavesNothing
=============================================================================
