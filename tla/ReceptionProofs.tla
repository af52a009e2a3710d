--------------------------- MODULE ReceptionProofs --------------------------
(***************************************************************************)
(* What is proved of a message on its way in, in three parts.              *)
(*   The receiver: its lifecycle for every number of starts, its channel   *)
(*   for every capacity and every number of events, and the two together.  *)
(*   The frame decoder: for every stream and every way to cut it into      *)
(*   chunks, the events are those of the stream read at once.              *)
(*   The product parser: the splitter of event bodies for texts of any     *)
(*   length, what is reported of products that could not be read in full,  *)
(*   and the instants recovered from a day and a time of day, for every    *)
(*   run of years of the calendar.                                         *)
(* The three share no variable, and no lemma but those of DataLemmas.      *)
(***************************************************************************)
EXTENDS ReceiverRuntime, FrameDecoder, ProductPipeline, DataLemmas

-----------------------------------------------------------------------------
(* The receiver: its lifecycle *)

\* The watch is held exactly while the receiver runs, and the handle, where
\* it still is, belongs to the same task.
HandlesAgree ==
    /\ running <=> shutdownTx # 0
    /\ joinHandle # 0 => joinHandle = shutdownTx
    /\ awaiting # 0 => joinHandle = 0 /\ awaiting = shutdownTx /\ awaiting \in told
    /\ running => ~stopped

\* A task that is alive is the one of the watch, or its stop was abandoned; a
\* running receiver has lost its handle to a stop that waits or was dropped.
TasksKnown ==
    /\ \A t \in working : t = shutdownTx \/ t \in abandoned
    /\ (running /\ joinHandle = 0 /\ awaiting = 0) => shutdownTx \in abandoned

\* No channel of a task to come has been handed out.
StreamsPast == \A t \in Tasks : t > starts => streams[t] = 0

LifecycleInv == /\ TypeOK /\ HandlesAgree /\ TasksKnown /\ StreamsPast
                /\ NoOrphanTask /\ EventsTakenOnce

\* The types survive every step: the one that hands a channel out relies on
\* EventsTakenOnce.
LEMMA LifecycleTypeStep == LifecycleInv /\ [Next]_vars => TypeOK'
<1> SUFFICES ASSUME LifecycleInv, [Next]_vars PROVE TypeOK'
  OBVIOUS
<1> USE LifecycleAssumption DEF LifecycleInv, TypeOK
<1>1. CASE Start
  <2>1. running' \in BOOLEAN /\ stopped' \in BOOLEAN /\ streams' \in [Tasks -> 0..1]
    BY <1>1 DEF Start
  <2>2. QED
    BY <1>1, <2>1 DEF Start
<1>2. CASE StopIdle
  BY <1>2 DEF StopIdle, runtime
<1>3. CASE StopBegin
  BY <1>3 DEF StopBegin, Signal
<1>4. CASE StopWithoutHandle
  <2>1. running' \in BOOLEAN /\ stopped' \in BOOLEAN /\ streams' \in [Tasks -> 0..1]
    BY <1>4 DEF StopWithoutHandle, Forget
  <2>2. told' \subseteq 1..starts
    BY <1>4 DEF StopWithoutHandle, Signal
  <2>3. QED
    BY <1>4, <2>1, <2>2 DEF StopWithoutHandle, Forget
<1>5. CASE StopReturn
  <2>1. running' \in BOOLEAN /\ stopped' \in BOOLEAN /\ streams' \in [Tasks -> 0..1]
    BY <1>5 DEF StopReturn, Forget
  <2>2. QED
    BY <1>5, <2>1 DEF StopReturn, Forget
<1>6. CASE StopCancelled
  BY <1>6 DEF StopCancelled, runtime
<1>7. CASE Events
  <2>1. eventRx \in Tasks /\ streams[eventRx] = 0
    BY <1>7 DEF Events, EventsTakenOnce, Tasks
  <2>2. streams' \in [Tasks -> 0..1]
    BY <1>7, <2>1 DEF Events
  <2>3. QED
    BY <1>7, <2>2 DEF Events
<1>8. ASSUME NEW t \in Tasks, TaskReturns(t) \/ TaskPanics(t)
      PROVE  TypeOK'
  BY <1>8 DEF TaskReturns, TaskPanics, runtime
<1>9. CASE UNCHANGED vars
  BY <1>9 DEF vars, runtime
<1>10. QED
  BY <1>1, <1>2, <1>3, <1>4, <1>5, <1>6, <1>7, <1>8, <1>9 DEF Next, Stop

\* The watch, the handle and the tasks stay in step.
LEMMA TasksStep ==
    LifecycleInv /\ [Next]_vars => HandlesAgree' /\ TasksKnown' /\ NoOrphanTask'
<1> SUFFICES ASSUME LifecycleInv, [Next]_vars
             PROVE  HandlesAgree' /\ TasksKnown' /\ NoOrphanTask'
  OBVIOUS
<1> USE DEF LifecycleInv, TypeOK, HandlesAgree, TasksKnown, NoOrphanTask
<1>1. CASE Start
  <2>1. working \subseteq told /\ working \subseteq abandoned /\ starts + 1 # 0
    BY <1>1 DEF Start, Idle
  <2>2. QED
    BY <1>1, <2>1 DEF Start, Idle
<1>2. CASE StopIdle
  BY <1>2 DEF StopIdle, runtime
<1>3. CASE StopBegin
  BY <1>3 DEF StopBegin, Signal, Idle
<1>4. CASE StopWithoutHandle
  BY <1>4 DEF StopWithoutHandle, Signal, Forget, Idle
<1>5. CASE StopReturn
  BY <1>5 DEF StopReturn, Forget
<1>6. CASE StopCancelled
  BY <1>6 DEF StopCancelled, runtime
<1>7. CASE Events
  BY <1>7 DEF Events
<1>8. CASE \E t \in Tasks : TaskReturns(t) \/ TaskPanics(t)
  <2>1. working' \subseteq working
        /\ UNCHANGED <<runtime, awaiting, told, stopped, abandoned>>
    BY <1>8 DEF TaskReturns, TaskPanics
  <2>2. QED
    BY <2>1 DEF runtime
<1>9. CASE UNCHANGED vars
  BY <1>9 DEF vars, runtime
<1>10. QED
  BY <1>1, <1>2, <1>3, <1>4, <1>5, <1>6, <1>7, <1>8, <1>9 DEF Next, Stop

\* Channels are handed out once, and only those of tasks that were started.
LEMMA StreamsStep == LifecycleInv /\ [Next]_vars => StreamsPast' /\ EventsTakenOnce'
<1> SUFFICES ASSUME LifecycleInv, [Next]_vars PROVE StreamsPast' /\ EventsTakenOnce'
  OBVIOUS
<1> USE LifecycleAssumption DEF LifecycleInv, TypeOK, StreamsPast, EventsTakenOnce, Tasks
<1>1. CASE Start
  <2>1. streams[starts + 1] = 0 /\ \A t \in Tasks : streams[t] \in 0..1
    BY <1>1 DEF Start
  <2>2. QED
    BY <1>1, <2>1 DEF Start
<1>2. CASE Events
  <2>1. eventRx \in Tasks /\ eventRx <= starts /\ streams[eventRx] = 0
    BY <1>2 DEF Events
  <2>2. QED
    BY <1>2, <2>1 DEF Events
<1>3. CASE Stop \/ (\E t \in Tasks : TaskReturns(t) \/ TaskPanics(t)) \/ UNCHANGED vars
  <2>1. UNCHANGED <<eventRx, streams, starts>>
    BY <1>3
    DEF Stop, StopIdle, StopBegin, StopWithoutHandle, StopReturn, StopCancelled,
        TaskReturns, TaskPanics, runtime, vars
  <2>2. QED
    BY <2>1
<1>4. QED
  BY <1>1, <1>2, <1>3 DEF Next

\* A receiver that was never started satisfies the invariant.
LEMMA LifecycleInitially == Init => LifecycleInv
<1> SUFFICES ASSUME Init PROVE LifecycleInv
  OBVIOUS
<1>1. streams \in [Tasks -> 0..1]
  BY DEF Init
<1>2. running \in BOOLEAN /\ stopped \in BOOLEAN
  BY DEF Init
<1>3. TypeOK
  BY <1>1, <1>2, LifecycleAssumption DEF Init, TypeOK
<1>4. HandlesAgree /\ TasksKnown /\ NoOrphanTask
  BY DEF Init, HandlesAgree, TasksKnown, NoOrphanTask
<1>5. StreamsPast /\ EventsTakenOnce
  BY DEF Init, StreamsPast, EventsTakenOnce, Tasks
<1>6. QED
  BY <1>3, <1>4, <1>5 DEF LifecycleInv

\* The invariant survives every step.
LEMMA LifecycleStep == LifecycleInv /\ [Next]_vars => LifecycleInv'
  BY LifecycleTypeStep, TasksStep, StreamsStep DEF LifecycleInv

\* The invariant is strong enough: once a stop has returned, no watch is held,
\* so that a task still alive is one whose stop was abandoned.
LEMMA LifecycleImplies == LifecycleInv => NothingLeftBehind
<1> SUFFICES ASSUME LifecycleInv PROVE StopLeavesNothing
  BY DEF LifecycleInv, NothingLeftBehind
<1>1. CASE stopped
  <2>1. shutdownTx = 0 /\ 0 \notin working
    BY <1>1 DEF LifecycleInv, HandlesAgree, TypeOK
  <2>2. QED
    BY <2>1 DEF LifecycleInv, TasksKnown, StopLeavesNothing
<1>2. QED
  BY <1>1 DEF StopLeavesNothing

\* The receiver's handles, tasks and channels stay in step throughout.
THEOREM LifecycleInvariant == Spec => []LifecycleInv
  BY LifecycleInitially, LifecycleStep, PTL DEF Spec

\* Whatever the order and number of calls of start, stop and events, of panics
\* and of abandoned stops: no task is out of reach, no channel is handed out
\* twice, and a stop that returned left nothing behind but what an abandoned
\* stop had detached.
THEOREM LifecycleCorrect == Spec => []NothingLeftBehind
  BY LifecycleInvariant, LifecycleImplies, PTL

-----------------------------------------------------------------------------
(* The channel *)

\* An event is only half sent while there is one left to send.
HalfSent == pc = "event" => offered < MaxEvents

ChannelInv == ChannelTypeOK /\ HalfSent /\ DropsAccounted

\* What is put into the channel has the shape of an item.
LEMMA ItemsAreItems ==
    /\ \A n \in Nat : Event(n) \in Items
    /\ \A s, t \in Nat : Warning(s, t) \in Items
  BY DEF Event, Warning, Items

\* The types, and the bound on events, survive every step.
LEMMA ChannelTypeStep ==
    ASSUME ChannelTypeOK, HalfSent, [ChannelNext]_channelVars
    PROVE  ChannelTypeOK' /\ HalfSent'
<1> USE CapacityAssumption, ItemsAreItems
<1> USE DEF ChannelTypeOK, HalfSent
<1>1. CASE NothingToReport
  BY <1>1 DEF NothingToReport, tracker, history
<1>2. CASE WarningSent
  <2>1. Warning(dropSince, dropTotal) \in Items
    OBVIOUS
  <2>2. queue' \in Seq(Items)
    BY <1>2, <2>1 DEF WarningSent
  <2> QED
    BY <1>2, <2>2 DEF WarningSent
<1>3. CASE WarningDropped
  BY <1>3 DEF WarningDropped, RecordSendFailure
<1>4. CASE WarningUnheard
  BY <1>4 DEF WarningUnheard, tracker, history
<1>5. CASE EventSent
  <2>1. Event(offered + 1) \in Items
    OBVIOUS
  <2>2. queue' \in Seq(Items)
    BY <1>5, <2>1 DEF EventSent
  <2> QED
    BY <1>5, <2>2 DEF EventSent, tracker
<1>6. CASE EventDropped
  BY <1>6 DEF EventDropped, RecordSendFailure
<1>7. CASE EventUnheard
  BY <1>7 DEF EventUnheard, tracker
<1>8. CASE Recv
  <2>1. Head(queue) \in Items /\ queue' \in Seq(Items) /\ taken' \in Seq(Items)
    BY <1>8 DEF Recv
  <2> QED
    BY <1>8, <2>1 DEF Recv, tracker
<1>9. CASE DropStream
  <2>1. queue' \in Seq(Items)
    BY <1>9 DEF DropStream
  <2>2. UNCHANGED <<dropTotal, dropSince, pc, offered, lost, lostWarnings,
                    unheard, announced, taken>> /\ rxOpen' = FALSE
    BY <1>9 DEF DropStream, tracker, history
  <2> QED
    BY <2>1, <2>2
<1>10. CASE Reopen
  <2>1. queue' \in Seq(Items) /\ taken' \in Seq(Items)
    BY <1>10 DEF Reopen
  <2> QED
    BY <1>10, <2>1 DEF Reopen
<1>11. CASE UNCHANGED channelVars
  BY <1>11 DEF channelVars, tracker, history
<1> QED
  BY <1>1, <1>2, <1>3, <1>4, <1>5, <1>6, <1>7, <1>8, <1>9, <1>10, <1>11
     DEF ChannelNext, Send

\* Every step keeps the three accounts of the dropped items equal.
LEMMA DropsStep ==
    ASSUME ChannelTypeOK, DropsAccounted, [ChannelNext]_channelVars
    PROVE  DropsAccounted'
<1> USE CapacityAssumption
<1> USE DEF DropsAccounted
<1>1. CASE NothingToReport
  BY <1>1 DEF NothingToReport, tracker, history
<1>2. CASE WarningSent
  <2>1. Len(queue') = Len(queue) + 1
    BY <1>2 DEF WarningSent, ChannelTypeOK
  <2> QED
    BY <1>2, <2>1 DEF WarningSent, HasRoom, ChannelTypeOK
<1>3. CASE WarningDropped
  BY <1>3 DEF WarningDropped, RecordSendFailure, ChannelTypeOK
<1>4. CASE WarningUnheard
  BY <1>4 DEF WarningUnheard, tracker, history
<1>5. CASE EventSent
  <2>1. Len(queue') = Len(queue) + 1
    BY <1>5 DEF EventSent, ChannelTypeOK
  <2> QED
    BY <1>5, <2>1 DEF EventSent, HasRoom, ChannelTypeOK, tracker
<1>6. CASE EventDropped
  BY <1>6 DEF EventDropped, RecordSendFailure, ChannelTypeOK
<1>7. CASE EventUnheard
  BY <1>7 DEF EventUnheard, tracker
<1>8. CASE Recv
  <2>1. Len(queue') <= Len(queue)
    BY <1>8 DEF Recv, ChannelTypeOK
  <2> QED
    BY <1>8, <2>1 DEF Recv, tracker, ChannelTypeOK
<1>9. CASE DropStream
  <2>1. Len(queue') = 0
    BY <1>9 DEF DropStream
  <2> QED
    BY <1>9, <2>1 DEF DropStream, tracker, history
<1>10. CASE Reopen
  BY <1>10 DEF Reopen
<1>11. CASE UNCHANGED channelVars
  BY <1>11 DEF channelVars, tracker, history
<1> QED
  BY <1>1, <1>2, <1>3, <1>4, <1>5, <1>6, <1>7, <1>8, <1>9, <1>10, <1>11
     DEF ChannelNext, Send

\* A new channel satisfies the invariant.
LEMMA ChannelInitially == ChannelInit => ChannelInv
  BY CapacityAssumption DEF ChannelInit, ChannelInv, ChannelTypeOK, HalfSent, DropsAccounted

\* The invariant survives every step.
LEMMA ChannelStep == ChannelInv /\ [ChannelNext]_channelVars => ChannelInv'
  BY ChannelTypeStep, DropsStep DEF ChannelInv

\* ChannelInv is an invariant of the channel.
THEOREM ChannelInvariant == ChannelSpec => []ChannelInv
  BY ChannelInitially, ChannelStep, PTL DEF ChannelSpec

\* Every drop is counted once, in the total and in exactly one warning or the
\* open window, and the channel keeps its bound: for every capacity.
THEOREM DropsAccountedCorrect == ChannelSpec => []DropsAccounted
<1>1. ChannelInv => DropsAccounted
  BY DEF ChannelInv
<1> QED
  BY <1>1, ChannelInvariant, PTL

\* What was given when n events were offered and the warnings named a drops.
GivenAt(s, n, a) ==
    /\ s \in Seq(Items) /\ n \in Nat /\ a \in Nat
    /\ InOrder(s)
    /\ \A i \in 1..Len(s) : /\ IsEvent(s[i]) => s[i].number <= n
                            /\ IsWarning(s[i]) => s[i].total <= a

\* What is missing when the consumer listens is what did not fit.
GivenInv ==
    /\ GivenAt(Given, offered, announced)
    /\ rxOpen => Cardinality(Absent(Given, offered)) = lost

\* Reading on changes nothing in what is given in all.
LEMMA GivenRead ==
    ASSUME NEW t \in Seq(Items), NEW q \in Seq(Items), q # <<>>
    PROVE  Append(t, Head(q)) \o Tail(q) = t \o q
<1>1. Head(q) \in Items /\ Tail(q) \in Seq(Items) /\ q = <<Head(q)>> \o Tail(q)
  BY HeadTailProperties
<1>2. Append(t, Head(q)) = t \o <<Head(q)>> /\ <<Head(q)>> \in Seq(Items)
  BY <1>1, AppendIsConcat
<1>3. (t \o <<Head(q)>>) \o Tail(q) = t \o (<<Head(q)>> \o Tail(q))
  BY <1>1, <1>2, ConcatAssociative
<1>4. QED
  BY <1>1, <1>2, <1>3, Zenon

\* What is put into the channel comes last.
LEMMA GivenLast ==
    ASSUME NEW t \in Seq(Items), NEW q \in Seq(Items), NEW x \in Items
    PROVE  t \o Append(q, x) = Append(t \o q, x)
<1>1. /\ Append(q, x) = q \o <<x>> /\ <<x>> \in Seq(Items) /\ t \o q \in Seq(Items)
      /\ Append(t \o q, x) = (t \o q) \o <<x>>
  BY AppendIsConcat, ConcatProperties
<1>2. (t \o q) \o <<x>> = t \o (q \o <<x>>)
  BY <1>1, ConcatAssociative
<1>3. QED
  BY <1>1, <1>2, Zenon

\* The next event goes to the end, and with it nothing more is missing.
LEMMA GivenEvent ==
    ASSUME NEW s, NEW n, NEW a, GivenAt(s, n, a)
    PROVE  /\ GivenAt(Append(s, Event(n + 1)), n + 1, a)
           /\ Absent(Append(s, Event(n + 1)), n + 1) = Absent(s, n)
<1> DEFINE x == Event(n + 1)
           r == Append(s, x)
<1>1. s \in Seq(Items) /\ n \in Nat /\ a \in Nat /\ InOrder(s)
  BY DEF GivenAt
<1>2. x \in Items /\ IsEvent(x) /\ ~IsWarning(x) /\ x.number = n + 1
  BY <1>1, ItemsAreItems DEF Event, IsEvent, IsWarning
<1> HIDE DEF x
<1>3. /\ r \in Seq(Items) /\ Len(r) = Len(s) + 1 /\ r[Len(s) + 1] = x /\ Len(s) \in Nat
      /\ \A i \in 1..Len(s) : r[i] = s[i]
  BY <1>1, <1>2
<1> HIDE DEF r
<1>4. \A i \in 1..Len(s) : /\ IsEvent(s[i]) => s[i].number <= n
                           /\ IsWarning(s[i]) => s[i].total <= a
                           /\ s[i] \in Items /\ s[i].number \in Nat
  <2>1. \A i \in 1..Len(s) : s[i] \in Items
    BY <1>1
  <2>2. \A y \in Items : y.number \in Nat
    BY DEF Items
  <2>3. QED
    BY <2>1, <2>2 DEF GivenAt
<1>5. ASSUME NEW i \in 1..Len(r), NEW j \in 1..Len(r), i < j
      PROVE  /\ (IsEvent(r[i]) /\ IsEvent(r[j])) => r[i].number < r[j].number
             /\ (IsWarning(r[i]) /\ IsWarning(r[j])) => r[i].total + r[j].since <= r[j].total
  <2>1. i \in 1..Len(s) /\ r[i] = s[i]
    BY <1>3, <1>5
  <2>2. CASE j \in 1..Len(s)
    BY <1>1, <1>3, <1>5, <2>1, <2>2 DEF InOrder
  <2>3. CASE j = Len(s) + 1
    BY <1>1, <1>2, <1>3, <1>4, <2>1, <2>3
  <2>4. QED
    BY <1>3, <2>2, <2>3
<1>6. \A i \in 1..Len(r) : /\ IsEvent(r[i]) => r[i].number <= n + 1
                           /\ IsWarning(r[i]) => r[i].total <= a
  <2> SUFFICES ASSUME NEW i \in 1..Len(r)
               PROVE  /\ IsEvent(r[i]) => r[i].number <= n + 1
                      /\ IsWarning(r[i]) => r[i].total <= a
    OBVIOUS
  <2>1. CASE i \in 1..Len(s)
    BY <1>1, <1>3, <1>4, <2>1
  <2>2. CASE i = Len(s) + 1
    BY <1>1, <1>2, <1>3, <2>2
  <2>3. QED
    BY <1>3, <2>1, <2>2
<1>7. GivenAt(r, n + 1, a)
  BY <1>1, <1>3, <1>5, <1>6 DEF GivenAt, InOrder
<1>8. Absent(r, n + 1) = Absent(s, n)
  <2>1. ASSUME NEW e \in Absent(r, n + 1) PROVE e \in Absent(s, n)
    <3>1. e \in 1..(n + 1) /\ \A i \in 1..Len(r) : ~(IsEvent(r[i]) /\ r[i].number = e)
      BY DEF Absent
    <3>2. e # n + 1
      BY <1>2, <1>3, <3>1
    <3>3. e \in 1..n
      BY <1>1, <3>1, <3>2
    <3>4. \A i \in 1..Len(s) : i \in 1..Len(r)
      BY <1>3
    <3>5. QED
      BY <1>3, <3>1, <3>3, <3>4 DEF Absent
  <2>2. ASSUME NEW e \in Absent(s, n) PROVE e \in Absent(r, n + 1)
    <3>1. e \in 1..n /\ \A i \in 1..Len(s) : ~(IsEvent(s[i]) /\ s[i].number = e)
      BY DEF Absent
    <3>2. e \in 1..(n + 1) /\ e # n + 1
      BY <1>1, <3>1
    <3>3. \A i \in 1..Len(r) : i \in 1..Len(s) \/ i = Len(s) + 1
      BY <1>3
    <3>4. QED
      BY <1>2, <1>3, <3>1, <3>2, <3>3 DEF Absent
  <2>3. QED
    BY <2>1, <2>2
<1>9. QED
  BY <1>7, <1>8 DEF r, x

\* The next warning names d drops more, and its total adds up.
LEMMA GivenWarning ==
    ASSUME NEW s, NEW n, NEW a, NEW d \in Nat, GivenAt(s, n, a)
    PROVE  /\ GivenAt(Append(s, Warning(d, a + d)), n, a + d)
           /\ Absent(Append(s, Warning(d, a + d)), n) = Absent(s, n)
<1> DEFINE x == Warning(d, a + d)
           r == Append(s, x)
<1>1. s \in Seq(Items) /\ n \in Nat /\ a \in Nat /\ InOrder(s)
  BY DEF GivenAt
<1>2. x \in Items /\ ~IsEvent(x) /\ IsWarning(x) /\ x.since = d /\ x.total = a + d
  BY <1>1, ItemsAreItems DEF Warning, IsEvent, IsWarning
<1> HIDE DEF x
<1>3. /\ r \in Seq(Items) /\ Len(r) = Len(s) + 1 /\ r[Len(s) + 1] = x /\ Len(s) \in Nat
      /\ \A i \in 1..Len(s) : r[i] = s[i]
  BY <1>1, <1>2
<1> HIDE DEF r
<1>4. \A i \in 1..Len(s) : /\ IsEvent(s[i]) => s[i].number <= n
                           /\ IsWarning(s[i]) => s[i].total <= a
                           /\ s[i] \in Items /\ s[i].total \in Nat
  <2>1. \A i \in 1..Len(s) : s[i] \in Items
    BY <1>1
  <2>2. \A y \in Items : y.total \in Nat
    BY DEF Items
  <2>3. QED
    BY <2>1, <2>2 DEF GivenAt
<1>5. ASSUME NEW i \in 1..Len(r), NEW j \in 1..Len(r), i < j
      PROVE  /\ (IsEvent(r[i]) /\ IsEvent(r[j])) => r[i].number < r[j].number
             /\ (IsWarning(r[i]) /\ IsWarning(r[j])) => r[i].total + r[j].since <= r[j].total
  <2>1. i \in 1..Len(s) /\ r[i] = s[i]
    BY <1>3, <1>5
  <2>2. CASE j \in 1..Len(s)
    BY <1>1, <1>3, <1>5, <2>1, <2>2 DEF InOrder
  <2>3. CASE j = Len(s) + 1
    BY <1>1, <1>2, <1>3, <1>4, <2>1, <2>3
  <2>4. QED
    BY <1>3, <2>2, <2>3
<1>6. \A i \in 1..Len(r) : /\ IsEvent(r[i]) => r[i].number <= n
                           /\ IsWarning(r[i]) => r[i].total <= a + d
  <2> SUFFICES ASSUME NEW i \in 1..Len(r)
               PROVE  /\ IsEvent(r[i]) => r[i].number <= n
                      /\ IsWarning(r[i]) => r[i].total <= a + d
    OBVIOUS
  <2>1. CASE i \in 1..Len(s)
    BY <1>1, <1>3, <1>4, <2>1
  <2>2. CASE i = Len(s) + 1
    BY <1>1, <1>2, <1>3, <2>2
  <2>3. QED
    BY <1>3, <2>1, <2>2
<1>7. GivenAt(r, n, a + d)
  BY <1>1, <1>3, <1>5, <1>6 DEF GivenAt, InOrder
<1>8. Absent(r, n) = Absent(s, n)
  <2>1. \A i \in 1..Len(r) : i \in 1..Len(s) \/ i = Len(s) + 1
    BY <1>3
  <2>2. \A i \in 1..Len(s) : i \in 1..Len(r)
    BY <1>3
  <2>3. QED
    BY <1>2, <1>3, <2>1, <2>2 DEF Absent
<1>9. QED
  BY <1>7, <1>8 DEF r, x

\* An event that is not put into the channel is missing for good.
LEMMA GivenMissed ==
    ASSUME NEW s, NEW n, NEW a, GivenAt(s, n, a)
    PROVE  /\ GivenAt(s, n + 1, a)
           /\ Cardinality(Absent(s, n + 1)) = Cardinality(Absent(s, n)) + 1
<1>1. s \in Seq(Items) /\ n \in Nat /\ a \in Nat
  BY DEF GivenAt
<1>2. \A i \in 1..Len(s) : IsEvent(s[i]) => s[i].number <= n /\ s[i].number \in Nat
  <2>1. \A i \in 1..Len(s) : s[i] \in Items
    BY <1>1
  <2>2. \A y \in Items : y.number \in Nat
    BY DEF Items
  <2>3. QED
    BY <2>1, <2>2 DEF GivenAt
<1>3. GivenAt(s, n + 1, a)
  BY <1>1, <1>2 DEF GivenAt
<1>4. n + 1 \notin Absent(s, n) /\ Absent(s, n + 1) = Absent(s, n) \cup {n + 1}
  <2>1. \A e \in 1..(n + 1) : e \in 1..n \/ e = n + 1
    BY <1>1
  <2>2. n + 1 \in 1..(n + 1) /\ n + 1 \notin 1..n /\ 1..n \subseteq 1..(n + 1)
    BY <1>1
  <2>3. \A i \in 1..Len(s) : ~(IsEvent(s[i]) /\ s[i].number = n + 1)
    BY <1>1, <1>2
  <2>4. QED
    BY <2>1, <2>2, <2>3 DEF Absent
<1>5. IsFiniteSet(Absent(s, n))
  <2>1. IsFiniteSet(1..n)
    BY <1>1, FS_Interval
  <2>2. QED
    BY <2>1, FS_Subset DEF Absent
<1>6. QED
  BY <1>3, <1>4, <1>5, FS_AddElement

\* What was taken before the consumer left is a beginning of what was given.
LEMMA GivenLeft ==
    ASSUME NEW t \in Seq(Items), NEW q \in Seq(Items), NEW n, NEW a, GivenAt(t \o q, n, a)
    PROVE  GivenAt(t \o <<>>, n, a)
<1>1. t \o <<>> = t /\ <<>> \in Seq(Items)
  BY ConcatEmptySeq
<1>2. /\ Len(t) \in Nat /\ Len(t) <= Len(t \o q)
      /\ \A i \in 1..Len(t) : i \in 1..Len(t \o q) /\ (t \o q)[i] = t[i]
  BY ConcatProperties
<1>3. GivenAt(t, n, a)
  BY <1>2 DEF GivenAt, InOrder
<1>4. QED
  BY <1>1, <1>3

\* Every step keeps what is given in order, and its gaps counted.
LEMMA GivenStep == ChannelInv /\ GivenInv /\ [ChannelNext]_channelVars => GivenInv'
<1> SUFFICES ASSUME ChannelInv, GivenInv, [ChannelNext]_channelVars PROVE GivenInv'
  OBVIOUS
<1>t. /\ queue \in Seq(Items) /\ taken \in Seq(Items) /\ offered \in Nat /\ announced \in Nat
      /\ dropSince \in Nat /\ dropTotal = announced + dropSince /\ lost \in Nat
  BY CapacityAssumption DEF ChannelInv, ChannelTypeOK, DropsAccounted
<1>g. GivenAt(Given, offered, announced)
  BY DEF GivenInv
<1>1. CASE UNCHANGED <<queue, taken, rxOpen, offered, announced, lost>>
  BY <1>1 DEF GivenInv, GivenAt, Given, Absent, InOrder
<1>2. CASE WarningSent
  <2>1. /\ queue' = Append(queue, Warning(dropSince, announced + dropSince))
        /\ announced' = announced + dropSince /\ UNCHANGED <<taken, rxOpen, offered, lost>>
    BY <1>t, <1>2 DEF WarningSent
  <2>2. Warning(dropSince, announced + dropSince) \in Items
    BY <1>t, ItemsAreItems
  <2>3. Given' = Append(Given, Warning(dropSince, announced + dropSince))
    BY <1>t, <2>1, <2>2, GivenLast DEF Given
  <2>4. GivenAt(Given', offered', announced') /\ Absent(Given', offered') = Absent(Given, offered)
    BY <1>t, <1>g, <2>1, <2>3, GivenWarning
  <2>5. QED
    BY <2>1, <2>4 DEF GivenInv, GivenAt, Absent, InOrder
<1>3. CASE EventSent
  <2>1. /\ queue' = Append(queue, Event(offered + 1))
        /\ offered' = offered + 1 /\ UNCHANGED <<taken, rxOpen, announced, lost>>
    BY <1>3 DEF EventSent
  <2>2. Event(offered + 1) \in Items
    BY <1>t, ItemsAreItems
  <2>3. Given' = Append(Given, Event(offered + 1))
    BY <1>t, <2>1, <2>2, GivenLast DEF Given
  <2>4. GivenAt(Given', offered', announced') /\ Absent(Given', offered') = Absent(Given, offered)
    BY <1>g, <2>1, <2>3, GivenEvent
  <2>5. QED
    BY <2>1, <2>4 DEF GivenInv, GivenAt, Absent, InOrder
<1>4. CASE EventDropped \/ EventUnheard
  <2>1. /\ UNCHANGED <<queue, taken, rxOpen, announced>> /\ offered' = offered + 1
        /\ rxOpen => lost' = lost + 1
    BY <1>4 DEF EventDropped, EventUnheard
  <2>2. Given' = Given
    BY <2>1 DEF Given
  <2>3. /\ GivenAt(Given', offered', announced')
        /\ Cardinality(Absent(Given', offered')) = Cardinality(Absent(Given, offered)) + 1
    BY <1>g, <2>1, <2>2, GivenMissed
  <2>4. QED
    BY <2>1, <2>3 DEF GivenInv, GivenAt, Absent, InOrder
<1>5. CASE Recv
  <2>1. /\ queue # <<>> /\ taken' = Append(taken, Head(queue)) /\ queue' = Tail(queue)
        /\ UNCHANGED <<rxOpen, offered, announced, lost>>
    BY <1>5 DEF Recv
  <2>2. Given' = Given
    BY <1>t, <2>1, GivenRead DEF Given
  <2>3. QED
    BY <2>1, <2>2 DEF GivenInv, GivenAt, Absent, InOrder
<1>6. CASE DropStream
  <2>1. ~rxOpen' /\ queue' = <<>> /\ UNCHANGED <<taken, offered, announced>>
    BY <1>6 DEF DropStream, history
  <2>2. GivenAt(taken \o <<>>, offered, announced)
    BY <1>t, <1>g, GivenLeft DEF Given
  <2>3. QED
    BY <2>1, <2>2 DEF GivenInv, GivenAt, Given, InOrder
<1>7. CASE Reopen
  <2>1. queue' = <<>> /\ taken' = <<>> /\ offered' = 0 /\ announced' = 0 /\ lost' = 0
    BY <1>7 DEF Reopen
  <2>2. Given' = <<>>
    BY <2>1 DEF Given
  <2>3. Len(<<>>) = 0 /\ <<>> \in Seq(Items)
    OBVIOUS
  <2>4. GivenAt(<<>>, 0, 0) /\ Absent(<<>>, 0) = {}
    BY <2>3 DEF GivenAt, Absent, InOrder
  <2>5. QED
    BY <2>1, <2>2, <2>4, FS_EmptySet DEF GivenInv, GivenAt, Absent, InOrder
<1>8. QED
  BY <1>1, <1>2, <1>3, <1>4, <1>5, <1>6, <1>7
     DEF ChannelNext, Send, NothingToReport, WarningDropped, WarningUnheard, history, channelVars

\* A new channel has given nothing and lost nothing.
LEMMA GivenInitially == ChannelInit => GivenInv
<1> SUFFICES ASSUME ChannelInit PROVE GivenInv
  OBVIOUS
<1>1. Given = <<>> /\ offered = 0 /\ announced = 0 /\ lost = 0
  BY DEF ChannelInit, Given
<1>2. Len(<<>>) = 0 /\ <<>> \in Seq(Items)
  OBVIOUS
<1>3. GivenAt(<<>>, 0, 0) /\ Absent(<<>>, 0) = {}
  BY <1>2 DEF GivenAt, Absent, InOrder
<1>4. QED
  BY <1>1, <1>3, FS_EmptySet DEF GivenInv

\* What the invariants say to the consumer.
LEMMA GivenImplies == ChannelInv /\ GivenInv => LossesVisible
<1> SUFFICES ASSUME ChannelInv, GivenInv PROVE LossesVisible
  OBVIOUS
<1>1. ChannelTypeOK /\ dropTotal = lost + lostWarnings /\ dropTotal = announced + dropSince
      /\ lost \in Nat /\ lostWarnings \in Nat
  BY DEF ChannelInv, ChannelTypeOK, DropsAccounted
<1>2. ConsumerSeesOrder
  BY DEF GivenInv, GivenAt, ConsumerSeesOrder
<1>3. LossIsAnnounced
  BY <1>1 DEF GivenInv, LossIsAnnounced
<1>4. QED
  BY <1>1, <1>2, <1>3 DEF LossesVisible

\* What a consumer of the channel can conclude is true: events come in order,
\* warnings add up, and no more is missing than they announce or the next one
\* will (try_send_with_backpressure_warning), for every capacity.
THEOREM LossesVisibleCorrect == ChannelSpec => []LossesVisible
<1>1. ChannelInit => ChannelInv /\ GivenInv
  BY ChannelInitially, GivenInitially
<1>2. ChannelInv /\ GivenInv /\ [ChannelNext]_channelVars => (ChannelInv /\ GivenInv)'
  BY ChannelStep, GivenStep
<1>3. QED
  BY <1>1, <1>2, GivenImplies, PTL DEF ChannelSpec

-----------------------------------------------------------------------------
(* The receiver *)

\* Every step of the receiver is a step of its lifecycle, or leaves it alone.
LEMMA RuntimeStepsLifecycle ==
    [RuntimeNext]_runtimeVars => [Next]_vars
<1> SUFFICES ASSUME RuntimeNext PROVE Next \/ UNCHANGED vars
  BY DEF runtimeVars
<1>1. CASE StartRuntime
  BY <1>1 DEF StartRuntime, Next
<1>2. CASE StopRuntime
  BY <1>2 DEF StopRuntime, Next
<1>3. CASE TakeEvents
  BY <1>3 DEF TakeEvents, Next
<1>4. CASE TaskSends
  BY <1>4 DEF TaskSends
<1>5. CASE \E t \in Tasks : TaskEnds(t)
  BY <1>5 DEF TaskEnds, Next
<1>6. CASE ConsumerRecv \/ ConsumerLeaves
  BY <1>6 DEF ConsumerRecv, ConsumerLeaves
<1> QED
  BY <1>1, <1>2, <1>3, <1>4, <1>5, <1>6 DEF RuntimeNext

\* Every step of the receiver is a step of its channel, or leaves it alone.
LEMMA RuntimeStepsChannel ==
    [RuntimeNext]_runtimeVars => [ChannelNext]_channelVars
<1> SUFFICES ASSUME RuntimeNext PROVE ChannelNext \/ UNCHANGED channelVars
  BY DEF runtimeVars
<1>1. CASE StartRuntime
  BY <1>1 DEF StartRuntime, ChannelNext
<1>2. CASE StopRuntime \/ TakeEvents
  BY <1>2 DEF StopRuntime, TakeEvents
<1>3. CASE TaskSends
  BY <1>3 DEF TaskSends, ChannelNext
<1>4. CASE \E t \in Tasks : TaskEnds(t)
  BY <1>4 DEF TaskEnds
<1>5. CASE ConsumerRecv \/ ConsumerLeaves
  BY <1>5 DEF ConsumerRecv, ConsumerLeaves, ChannelNext
<1> QED
  BY <1>1, <1>2, <1>3, <1>4, <1>5 DEF RuntimeNext

\* The receiver keeps its drop accounting exact, tells its consumer of every
\* loss and leaves no task or stream behind, for every capacity, number of
\* events and number of starts.
THEOREM RuntimeCorrect == RuntimeSpec => [](DropsAccounted /\ LossesVisible /\ NothingLeftBehind)
<1> DEFINE Inv == LifecycleInv /\ ChannelInv /\ GivenInv
<1>1. RuntimeInit => Inv
  BY LifecycleInitially, ChannelInitially, GivenInitially DEF RuntimeInit
<1>2. Inv /\ [RuntimeNext]_runtimeVars => Inv'
  BY RuntimeStepsLifecycle, RuntimeStepsChannel, LifecycleStep, ChannelStep, GivenStep
<1>3. Inv => DropsAccounted /\ LossesVisible /\ NothingLeftBehind
  BY LifecycleImplies, GivenImplies DEF ChannelInv
<1> QED
  BY <1>1, <1>2, <1>3, PTL DEF RuntimeSpec

\* Nothing is put into a channel after a stop that waited for its task has
\* returned, and what is in it stays until the consumer takes it.
THEOREM QuietAfterStopCorrect == RuntimeSpec => QuietAfterStop
<1> DEFINE Quiet == stopped /\ stopped' /\ starts \notin abandoned =>
               \/ UNCHANGED queue
               \/ ~rxOpen'
               \/ queue # <<>> /\ taken' = Append(taken, Head(queue)) /\ queue' = Tail(queue)
<1>1. RuntimeInit => LifecycleInv
  BY LifecycleInitially DEF RuntimeInit
<1>2. LifecycleInv /\ [RuntimeNext]_runtimeVars => LifecycleInv'
  BY RuntimeStepsLifecycle, LifecycleStep
<1>3. LifecycleInv /\ [RuntimeNext]_runtimeVars => [Quiet]_runtimeVars
  <2> SUFFICES ASSUME LifecycleInv, RuntimeNext, stopped, stopped', starts \notin abandoned
      PROVE  \/ UNCHANGED queue
             \/ ~rxOpen'
             \/ queue # <<>> /\ taken' = Append(taken, Head(queue)) /\ queue' = Tail(queue)
    OBVIOUS
  <2>1. ~SenderAlive
    BY LifecycleImplies DEF NothingLeftBehind, StopLeavesNothing, SenderAlive
  <2>2. CASE StartRuntime
    BY <2>2 DEF StartRuntime, Start
  <2>3. CASE StopRuntime \/ TakeEvents \/ \E t \in Tasks : TaskEnds(t)
    BY <2>3 DEF StopRuntime, TakeEvents, TaskEnds, channelVars
  <2>4. CASE ConsumerRecv
    BY <2>4 DEF ConsumerRecv, Recv
  <2>5. CASE ConsumerLeaves
    BY <2>5 DEF ConsumerLeaves, DropStream
  <2>6. QED
    BY <2>1, <2>2, <2>3, <2>4, <2>5 DEF RuntimeNext, TaskSends
<1>4. QED
  BY <1>1, <1>2, <1>3, PTL DEF RuntimeSpec, QuietAfterStop

-----------------------------------------------------------------------------
(* The frame decoder: the stream read at once *)

MarkerAt(b, i) == i + SyncLen - 1 <= Len(b) /\ \A j \in i..(i + SyncLen - 1) : b[j] = Nul
NulsBetween(b, p, q) == \A i \in (p + 1)..q : b[i] = Nul

\* One step of a decoder that has all of the stream b: from c to d, each of
\* them what was consumed, the state, the pending block and the events.
Moves(b, c, d) ==
    LET p == c[1]
        w == c[3]
        o == c[4]
    IN  /\ p \in 0..Len(b)
        /\ \/ /\ c[2] = "Resync"
              /\ \E i \in (p + 1)..Len(b) :
                    /\ MarkerAt(b, i) /\ \A j \in (p + 1)..(i - 1) : ~MarkerAt(b, j)
                    /\ d = <<i + SyncLen - 1, "StartFrame", w, o>>
           \/ /\ c[2] = "StartFrame"
              /\ \E q \in p..(Len(b) - 1) :
                    /\ NulsBetween(b, p, q) /\ b[q + 1] # Nul
                    /\ d = <<q, "FrameType", w, o>>
           \/ /\ c[2] = "FrameType" /\ p < Len(b) /\ b[p + 1] # Slash
              /\ d = <<p + 1, "Resync", w, o>>
           \/ /\ c[2] = "FrameType" /\ p + 1 < Len(b) /\ b[p + 1] = Slash
              /\ d = IF b[p + 2] = "P" THEN <<p, "BlockHeader", w, o>>
                     ELSE IF b[p + 2] = "S" THEN <<p, "ServerList", w, o>>
                     ELSE <<p + 1, "Resync", w, o>>
           \/ /\ c[2] = "ServerList"
              /\ \E e \in (p + 1)..Len(b) :
                    /\ b[e] = Nul /\ \A i \in (p + 1)..(e - 1) : b[i] # Nul
                    /\ d = LET content == SubSeq(b, p + 1, e - 1)
                           IN  IF Contains(content, "x")
                               THEN <<e, "Resync", <<>>, Append(o, DecodeWarning("list"))>>
                               ELSE <<e, "StartFrame", w, Append(o, ServerList(content))>>
           \/ /\ c[2] = "BlockHeader" /\ p + HeaderLen <= Len(b)
              /\ d = IF b[p + HeaderLen] \in Headers
                     THEN <<p + HeaderLen, "BlockBody", <<b[p + HeaderLen]>>, o>>
                     ELSE <<p + HeaderLen, "Resync", <<>>, Append(o, DecodeWarning("header"))>>
           \/ /\ c[2] = "BlockBody" /\ p + BodyLen[w[1]] <= Len(b)
              /\ d = <<p + BodyLen[w[1]], "Validate",
                       Append(w, SubSeq(b, p + 1, p + BodyLen[w[1]])), o>>
           \/ /\ c[2] = "Validate"
              /\ d = <<p, "StartFrame", <<>>, o \o Verdict(w[1], w[2])>>

Trail(b, f, n) ==
    /\ f[0] = <<0, "Resync", <<>>, <<>>>>
    /\ \A i \in 0..(n - 1) : Moves(b, f[i], f[i + 1])

Reached(b, c) == \E n \in Nat : \E f : Trail(b, f, n) /\ f[n] = c

AtRest(b, c) == \A d : ~Moves(b, c, d)

\* The events of b: what has been emitted where the decoder comes to rest.
EndsWith(b, o) == \E c : Reached(b, c) /\ AtRest(b, c) /\ c[4] = o

\* A step has one outcome.
LEMMA MovesOnce ==
    ASSUME NEW b \in Seq(STRING), NEW c, NEW d, NEW e, Moves(b, c, d), Moves(b, c, e)
    PROVE  d = e
<1> DEFINE p == c[1]
           w == c[3]
           o == c[4]
<1>a. p \in 0..Len(b)
  BY Zenon DEF Moves
<1>1. p \in 0..Len(b) /\ Len(b) \in Nat /\ SyncLen \in Nat
  BY <1>a, DecoderAssumption
<1>2. CASE c[2] = "Resync"
  <2>1. PICK i \in (p + 1)..Len(b) : /\ MarkerAt(b, i) /\ \A j \in (p + 1)..(i - 1) : ~MarkerAt(b, j)
                                     /\ d = <<i + SyncLen - 1, "StartFrame", w, o>>
    BY <1>2 DEF Moves
  <2>2. PICK k \in (p + 1)..Len(b) : /\ MarkerAt(b, k) /\ \A j \in (p + 1)..(k - 1) : ~MarkerAt(b, j)
                                     /\ e = <<k + SyncLen - 1, "StartFrame", w, o>>
    BY <1>2 DEF Moves
  <2> HIDE DEF p, w, o
  <2>3. i = k
    BY <1>1, <2>1, <2>2
  <2>4. QED
    BY <2>1, <2>2, <2>3
<1>3. CASE c[2] = "StartFrame"
  <2>1. PICK q \in p..(Len(b) - 1) : NulsBetween(b, p, q) /\ b[q + 1] # Nul /\ d = <<q, "FrameType", w, o>>
    BY <1>3 DEF Moves
  <2>2. PICK r \in p..(Len(b) - 1) : NulsBetween(b, p, r) /\ b[r + 1] # Nul /\ e = <<r, "FrameType", w, o>>
    BY <1>3 DEF Moves
  <2> HIDE DEF p, w, o
  <2>3. q = r
    BY <1>1, <2>1, <2>2 DEF NulsBetween
  <2>4. QED
    BY <2>1, <2>2, <2>3
<1>4. CASE c[2] = "ServerList"
  <2> DEFINE D(k) == LET content == SubSeq(b, p + 1, k - 1)
                     IN  IF Contains(content, "x")
                         THEN <<k, "Resync", <<>>, Append(o, DecodeWarning("list"))>>
                         ELSE <<k, "StartFrame", w, Append(o, ServerList(content))>>
  <2>1. PICK i \in (p + 1)..Len(b) : /\ b[i] = Nul /\ \A j \in (p + 1)..(i - 1) : b[j] # Nul
                                     /\ d = D(i)
    BY <1>4, Zenon DEF Moves
  <2>2. PICK k \in (p + 1)..Len(b) : /\ b[k] = Nul /\ \A j \in (p + 1)..(k - 1) : b[j] # Nul
                                     /\ e = D(k)
    BY <1>4, Zenon DEF Moves
  <2> HIDE DEF p, w, o, D
  <2>3. i = k
    BY <1>1, <2>1, <2>2
  <2>4. QED
    BY <2>1, <2>2, <2>3
<1>5. CASE c[2] = "FrameType"
  <2> DEFINE D == IF b[p + 2] = "P" THEN <<p, "BlockHeader", w, o>>
                  ELSE IF b[p + 2] = "S" THEN <<p, "ServerList", w, o>>
                  ELSE <<p + 1, "Resync", w, o>>
  <2>1. ASSUME NEW x, Moves(b, c, x), b[p + 1] = Slash PROVE x = D
    BY <1>5, <2>1, Zenon DEF Moves
  <2>2. ASSUME NEW x, Moves(b, c, x), b[p + 1] # Slash PROVE x = <<p + 1, "Resync", w, o>>
    BY <1>5, <2>2, Zenon DEF Moves
  <2> HIDE DEF D
  <2>3. QED
    BY <2>1, <2>2
<1>6. CASE c[2] = "BlockHeader"
  <2> DEFINE D == IF b[p + HeaderLen] \in Headers
                  THEN <<p + HeaderLen, "BlockBody", <<b[p + HeaderLen]>>, o>>
                  ELSE <<p + HeaderLen, "Resync", <<>>, Append(o, DecodeWarning("header"))>>
  <2>1. ASSUME NEW x, Moves(b, c, x) PROVE x = D
    BY <1>6, <2>1, Zenon DEF Moves
  <2> HIDE DEF D
  <2>2. QED
    BY <2>1
<1>7. CASE c[2] = "BlockBody"
  BY <1>7, Zenon DEF Moves
<1>8. CASE c[2] = "Validate"
  BY <1>8, Zenon DEF Moves
<1>9. QED
  BY <1>2, <1>3, <1>4, <1>5, <1>6, <1>7, <1>8 DEF Moves

LEMMA ReachedStart == ASSUME NEW b PROVE Reached(b, <<0, "Resync", <<>>, <<>>>>)
<1> DEFINE f == [i \in 0..0 |-> <<0, "Resync", <<>>, <<>>>>]
<1>1. f[0] = <<0, "Resync", <<>>, <<>>>> /\ 0 \in Nat /\ 0..(0 - 1) = {}
  OBVIOUS
<1> HIDE DEF f
<1>2. Trail(b, f, 0)
  BY <1>1 DEF Trail
<1>3. QED
  BY <1>1, <1>2 DEF Reached

LEMMA ReachedNext ==
    ASSUME NEW b, NEW c, NEW d, Reached(b, c), Moves(b, c, d)
    PROVE  Reached(b, d)
<1>n. PICK n \in Nat : \E f : Trail(b, f, n) /\ f[n] = c
  BY DEF Reached
<1>1. PICK f : Trail(b, f, n) /\ f[n] = c
  BY <1>n
<1> DEFINE g == [i \in 0..(n + 1) |-> IF i = n + 1 THEN d ELSE f[i]]
<1>2. \A i \in 0..n : g[i] = f[i]
  OBVIOUS
<1>3. g[n + 1] = d /\ n + 1 \in Nat
  OBVIOUS
<1> HIDE DEF g
<1>4. ASSUME NEW i \in 0..((n + 1) - 1) PROVE Moves(b, g[i], g[i + 1])
  <2>1. CASE i = n
    BY <1>1, <1>2, <1>3, <2>1
  <2>2. CASE i # n
    <3>1. i \in 0..(n - 1) /\ i \in 0..n /\ i + 1 \in 0..n
      BY <2>2
    <3>2. QED
      BY <1>1, <1>2, <3>1 DEF Trail
  <2>3. QED
    BY <2>1, <2>2
<1>5. g[0] = f[0]
  BY <1>2
<1>6. Trail(b, g, n + 1)
  BY <1>1, <1>4, <1>5 DEF Trail
<1>7. QED
  BY <1>3, <1>6 DEF Reached

\* Two trails are the same as far as the shorter one goes.
LEMMA TrailsAgree ==
    ASSUME NEW b \in Seq(STRING), NEW f, NEW g, NEW n \in Nat, NEW m \in Nat, n <= m,
           Trail(b, f, n), Trail(b, g, m)
    PROVE  \A i \in 0..n : f[i] = g[i]
<1> DEFINE P == {i \in Nat : f[i] = g[i]}
<1>1. 0 \in P
  BY DEF Trail
<1>2. ASSUME NEW i \in 0..(n - 1), i \in P PROVE i + 1 \in P
  <2>1. i \in 0..(m - 1) /\ f[i] = g[i]
    BY <1>2
  <2>2. Moves(b, f[i], f[i + 1]) /\ Moves(b, f[i], g[i + 1])
    BY <2>1 DEF Trail
  <2>3. QED
    BY <2>2, MovesOnce
<1> HIDE DEF P
<1>3. \A i \in 0..n : i \in P
  BY <1>1, <1>2, UpTo
<1>4. QED
  BY <1>3 DEF P

LEMMA RestsOnce ==
    ASSUME NEW b \in Seq(STRING), NEW f, NEW g, NEW n \in Nat, NEW m \in Nat, n <= m,
           NEW c, NEW d, Trail(b, f, n), f[n] = c, Trail(b, g, m), g[m] = d, AtRest(b, c)
    PROVE  c = d
<1>1. f[n] = g[n]
  BY TrailsAgree
<1>2. n = m
  <2> SUFFICES ASSUME n < m PROVE FALSE
    OBVIOUS
  <2>1. n \in 0..(m - 1)
    OBVIOUS
  <2>2. Moves(b, g[n], g[n + 1])
    BY <2>1 DEF Trail
  <2>3. QED
    BY <1>1, <2>2 DEF AtRest
<1>3. QED
  BY <1>1, <1>2

\* A stream has one list of events.
LEMMA OneEnd ==
    ASSUME NEW b \in Seq(STRING), NEW o, NEW x, EndsWith(b, o), EndsWith(b, x)
    PROVE  o = x
<1>1. PICK c : Reached(b, c) /\ AtRest(b, c) /\ c[4] = o
  BY DEF EndsWith
<1>2. PICK d : Reached(b, d) /\ AtRest(b, d) /\ d[4] = x
  BY DEF EndsWith
<1>n. PICK n \in Nat : \E f : Trail(b, f, n) /\ f[n] = c
  BY <1>1 DEF Reached
<1>3. PICK f : Trail(b, f, n) /\ f[n] = c
  BY <1>n
<1>m. PICK m \in Nat : \E g : Trail(b, g, m) /\ g[m] = d
  BY <1>2 DEF Reached
<1>4. PICK g : Trail(b, g, m) /\ g[m] = d
  BY <1>m
<1>5. CASE n <= m
  <2>1. c = d
    BY <1>1, <1>3, <1>4, <1>5, RestsOnce
  <2>2. QED
    BY <1>1, <1>2, <2>1
<1>6. CASE m <= n
  <2>1. d = c
    BY <1>2, <1>3, <1>4, <1>6, RestsOnce
  <2>2. QED
    BY <1>1, <1>2, <2>1
<1>7. QED
  BY <1>5, <1>6

-----------------------------------------------------------------------------
(* The stream is a sequence of symbols *)

\* f joins the first pieces of s, up to the n-th.
Joined(s, f, n) == f = [i \in 1..n |-> IF i = 1 THEN s[i] ELSE f[i - 1] \o s[i]]

LEMMA JoinedExists == ASSUME NEW s, NEW n \in Nat PROVE \E f : Joined(s, f, n)
<1> DEFINE P == {k \in Nat : \E f : Joined(s, f, k)}
<1>1. 0 \in P
  <2> DEFINE f == [i \in 1..0 |-> s]
  <2>1. Joined(s, f, 0)
    BY DEF Joined
  <2>2. QED
    BY <2>1
<1>2. ASSUME NEW k \in 0..(n - 1), k \in P PROVE k + 1 \in P
  <2>1. PICK f : Joined(s, f, k)
    BY <1>2
  <2> DEFINE last == IF k = 0 THEN s[1] ELSE f[k] \o s[k + 1]
             g == [i \in 1..(k + 1) |-> IF i = k + 1 THEN last ELSE f[i]]
             h == [i \in 1..(k + 1) |-> IF i = 1 THEN s[i] ELSE g[i - 1] \o s[i]]
  <2>2. \A i \in 1..k : f[i] = IF i = 1 THEN s[i] ELSE f[i - 1] \o s[i]
    BY <2>1 DEF Joined
  <2>3. ASSUME NEW i \in 1..(k + 1) PROVE g[i] = h[i]
    <3>1. CASE i = k + 1
      <4>1. g[i] = last /\ (k # 0 => g[i - 1] = f[k])
        BY <3>1
      <4>2. QED
        BY <3>1, <4>1
    <3>2. CASE i # k + 1
      <4>1. i \in 1..k /\ g[i] = f[i] /\ (i # 1 => g[i - 1] = f[i - 1])
        BY <3>2
      <4>2. QED
        BY <2>2, <4>1
    <3>3. QED
      BY <3>1, <3>2
  <2> HIDE DEF last
  <2>4. g = h
    BY <2>3, Zenon
  <2>5. Joined(s, g, k + 1)
    BY <2>4, Zenon DEF Joined
  <2>6. QED
    BY <2>5
<1> HIDE DEF P
<1>3. \A k \in 0..n : k \in P
  BY <1>1, <1>2, UpTo
<1>4. QED
  BY <1>3 DEF P

LEMMA FlattenType ==
    ASSUME NEW s \in Seq(Seq(STRING))
    PROVE  FlattenSeq(s) \in Seq(STRING)
<1>1. CASE Len(s) = 0
  <2>1. s = <<>> /\ <<>> \in Seq(STRING)
    BY <1>1
  <2>2. QED
    BY <1>1, <2>1 DEF FlattenSeq
<1>2. CASE Len(s) # 0
  <2> DEFINE F == CHOOSE f : Joined(s, f, Len(s))
  <2>0. Len(s) \in Nat /\ \A i \in 1..Len(s) : s[i] \in Seq(STRING)
    OBVIOUS
  <2>1. Joined(s, F, Len(s))
    BY <2>0, JoinedExists
  <2>2. FlattenSeq(s) = F[Len(s)]
    BY <1>2 DEF FlattenSeq, Joined
  <2> HIDE DEF F
  <2>3. \A i \in 1..Len(s) : F[i] = IF i = 1 THEN s[i] ELSE F[i - 1] \o s[i]
    BY <2>1 DEF Joined
  <2> DEFINE P == {i \in Nat : i = 0 \/ F[i] \in Seq(STRING)}
  <2>4. 0 \in P
    OBVIOUS
  <2>5. ASSUME NEW i \in 0..(Len(s) - 1), i \in P PROVE i + 1 \in P
    <3>1. i + 1 \in 1..Len(s) /\ (i + 1) - 1 = i
      BY <2>0
    <3>2. F[i + 1] = IF i + 1 = 1 THEN s[i + 1] ELSE F[i] \o s[i + 1]
      BY <2>3, <3>1
    <3>3. s[i + 1] \in Seq(STRING)
      BY <2>0, <3>1
    <3>4. F[i + 1] \in Seq(STRING)
      <4>1. CASE i = 0
        BY <3>2, <3>3, <4>1
      <4>2. CASE i # 0
        <5>1. F[i] \in Seq(STRING) /\ i + 1 # 1
          BY <2>5, <4>2
        <5>2. QED
          BY <3>2, <3>3, <5>1
      <4>3. QED
        BY <4>1, <4>2
    <3>5. QED
      BY <3>4
  <2> HIDE DEF P
  <2>6. \A i \in 0..Len(s) : i \in P
    BY <2>0, <2>4, <2>5, UpTo
  <2>7. QED
    BY <1>2, <2>0, <2>2, <2>6 DEF P
<1>3. QED
  BY <1>1, <1>2

-----------------------------------------------------------------------------
(* The inductive invariant *)

\* How much of the stream has left the buffer.
Consumed == fed - Len(buffer)

\* The buffer is what was fed and is not consumed.
Buffered ==
    /\ bytes \in Seq(STRING) /\ fed \in 0..Len(bytes)
    /\ buffer \in Seq(STRING) /\ Len(buffer) <= fed
    /\ \A i \in 1..Len(buffer) : buffer[i] = bytes[Consumed + i]

\* A block is pending in the states that deal with one.
BlockHeld ==
    /\ state \in States
    /\ state = "BlockBody" => \E h \in Headers : pending = <<h>>
    /\ state = "Validate" => \E h \in Headers : \E body : pending = <<h, body>>
    /\ state \notin {"BlockBody", "Validate"} => pending = <<>>

\* The decoder is where the reader of the whole stream comes by, but for
\* bytes without a marker, and padding, that it has dropped already.
Follows ==
    \E q \in 0..Consumed :
        /\ Reached(bytes, <<q, state, pending, out>>)
        /\ \/ q = Consumed
           \/ state = "Resync" /\ \A i \in (q + 1)..Consumed : ~MarkerAt(bytes, i)
           \/ state = "StartFrame" /\ NulsBetween(bytes, q, Consumed)

\* What the decoder waits for is not in the buffer yet.
Stalled ==
    /\ state = "Resync" => Len(buffer) < SyncLen
    /\ state = "StartFrame" => buffer = <<>>
    /\ state = "FrameType" => buffer = <<>> \/ (Len(buffer) = 1 /\ buffer[1] = Slash)
    /\ state = "ServerList" => \A i \in 1..Len(buffer) : buffer[i] # Nul
    /\ state = "BlockHeader" => Len(buffer) < HeaderLen
    /\ state = "BlockBody" => Len(buffer) < BodyLen[pending[1]]
    /\ state # "Validate"

FeedInv == Buffered /\ BlockHeld /\ Follows /\ (busy = FALSE => Stalled)

DecoderInv ==
    /\ stream \in Streams /\ busy \in BOOLEAN /\ pass \in {"chunks", "whole", "done"}
    /\ FeedInv
    /\ pass # "chunks" => EndsWith(bytes, first)
    /\ pass = "done" => busy = FALSE /\ EndsWith(bytes, out)

LEMMA Lengths ==
    /\ SyncLen \in Nat /\ SyncLen >= 1 /\ HeaderLen = 3
    /\ \A h \in Headers : BodyLen[h] \in Nat /\ BodyLen[h] >= 1
  BY DecoderAssumption DEF HeaderLen

\* Dropping the first k symbols consumes them.
LEMMA DropsOff ==
    ASSUME Buffered, NEW k \in 0..Len(buffer), buffer' = Drop(buffer, k), UNCHANGED <<bytes, fed>>
    PROVE  Buffered' /\ Consumed' = Consumed + k /\ Len(buffer') = Len(buffer) - k
<1>1. bytes \in Seq(STRING) /\ fed \in Nat /\ buffer \in Seq(STRING) /\ Len(buffer) \in Nat /\ Len(buffer) <= fed
  BY DEF Buffered
<1>2. /\ buffer' \in Seq(STRING) /\ Len(buffer') = Len(buffer) - k
      /\ \A i \in 1..Len(buffer') : buffer'[i] = buffer[k + i]
  BY <1>1 DEF Drop
<1>3. Consumed' = Consumed + k /\ Consumed \in Nat
  BY <1>1, <1>2 DEF Consumed
<1>4. ASSUME NEW i \in 1..Len(buffer') PROVE buffer'[i] = bytes[Consumed' + i]
  <2>1. k + i \in 1..Len(buffer) /\ Consumed + (k + i) = Consumed' + i
    BY <1>1, <1>2, <1>3
  <2>2. buffer[k + i] = bytes[Consumed + (k + i)]
    BY <2>1 DEF Buffered
  <2>3. QED
    BY <1>2, <2>1, <2>2
<1>5. QED
  BY <1>1, <1>2, <1>3, <1>4 DEF Buffered

\* After a step of the reader of the whole stream, the decoder is with it.
LEMMA StepsAlong ==
    ASSUME NEW q, Reached(bytes, <<q, state, pending, out>>), bytes' = bytes, Consumed' \in Nat,
           Moves(bytes, <<q, state, pending, out>>, <<Consumed', state', pending', out'>>)
    PROVE  Follows'
<1>1. Reached(bytes, <<Consumed', state', pending', out'>>)
  BY ReachedNext
<1>2. Reached(bytes', <<Consumed', state', pending', out'>>) /\ Consumed' \in 0..Consumed'
  BY <1>1
<1>3. QED
  BY <1>2, Zenon DEF Follows

-----------------------------------------------------------------------------
(* One call of process_buffer *)

\* Where the decoder and the reader of the whole stream stand.
LEMMA Standing ==
    ASSUME Buffered
    PROVE  /\ Len(bytes) \in Nat /\ Len(buffer) \in Nat /\ fed \in Nat /\ Consumed \in Nat
           /\ fed <= Len(bytes) /\ Consumed + Len(buffer) = fed
           /\ \A i \in 1..Len(buffer) : buffer[i] = bytes[Consumed + i]
  BY DEF Buffered, Consumed

\* A marker in the buffer is one in the stream, and the other way round.
LEMMA MarkersSeen ==
    ASSUME Buffered, NEW i \in 1..Len(buffer)
    PROVE  i \in SyncAt <=> MarkerAt(bytes, Consumed + i) /\ i + SyncLen - 1 <= Len(buffer)
<1>1. /\ Len(bytes) \in Nat /\ Len(buffer) \in Nat /\ fed \in Nat /\ Consumed \in Nat
      /\ fed <= Len(bytes) /\ Consumed + Len(buffer) = fed
      /\ \A j \in 1..Len(buffer) : buffer[j] = bytes[Consumed + j]
      /\ SyncLen \in Nat /\ SyncLen >= 1
  BY Standing, Lengths
<1>2. ASSUME i \in SyncAt PROVE MarkerAt(bytes, Consumed + i) /\ i + SyncLen - 1 <= Len(buffer)
  <2>1. i + SyncLen - 1 <= Len(buffer) /\ \A j \in i..(i + SyncLen - 1) : buffer[j] = Nul
    BY <1>1, <1>2 DEF SyncAt
  <2>2. ASSUME NEW j \in (Consumed + i)..((Consumed + i) + SyncLen - 1) PROVE bytes[j] = Nul
    <3>1. j - Consumed \in i..(i + SyncLen - 1) /\ j - Consumed \in 1..Len(buffer) /\ Consumed + (j - Consumed) = j
      BY <1>1, <2>1
    <3>2. buffer[j - Consumed] = Nul /\ buffer[j - Consumed] = bytes[Consumed + (j - Consumed)]
      BY <1>1, <2>1, <3>1
    <3>3. QED
      BY <3>1, <3>2
  <2>3. (Consumed + i) + SyncLen - 1 <= Len(bytes)
    BY <1>1, <2>1
  <2>4. QED
    BY <2>1, <2>2, <2>3 DEF MarkerAt
<1>3. ASSUME MarkerAt(bytes, Consumed + i), i + SyncLen - 1 <= Len(buffer) PROVE i \in SyncAt
  <2>1. ASSUME NEW j \in i..(i + SyncLen - 1) PROVE buffer[j] = Nul
    <3>1. j \in 1..Len(buffer) /\ Consumed + j \in (Consumed + i)..((Consumed + i) + SyncLen - 1)
      BY <1>1, <1>3
    <3>2. QED
      BY <1>1, <1>3, <3>1 DEF MarkerAt
  <2>2. i \in 1..(Len(buffer) - SyncLen + 1)
    BY <1>1, <1>3
  <2>3. QED
    BY <2>1, <2>2 DEF SyncAt
<1>4. QED
  BY <1>2, <1>3

LEMMA FindSyncStep ==
    ASSUME Buffered, BlockHeld, Follows, busy = TRUE, FindSync, UNCHANGED <<bytes, fed>>
    PROVE  FeedInv'
<1>1. /\ Len(bytes) \in Nat /\ Len(buffer) \in Nat /\ fed \in Nat /\ Consumed \in Nat
      /\ fed <= Len(bytes) /\ Consumed + Len(buffer) = fed
      /\ \A j \in 1..Len(buffer) : buffer[j] = bytes[Consumed + j]
      /\ SyncLen \in Nat /\ SyncLen >= 1 /\ state = "Resync" /\ pending = <<>>
  BY Standing, Lengths DEF FindSync, BlockHeld
<1>2. PICK q \in 0..Consumed : /\ Reached(bytes, <<q, state, pending, out>>)
                               /\ \A i \in (q + 1)..Consumed : ~MarkerAt(bytes, i)
  <2>1. PICK q \in 0..Consumed : /\ Reached(bytes, <<q, state, pending, out>>)
                                 /\ q = Consumed \/ \A i \in (q + 1)..Consumed : ~MarkerAt(bytes, i)
    BY <1>1, Zenon DEF Follows
  <2>2. \A i \in (q + 1)..Consumed : ~MarkerAt(bytes, i)
    BY <1>1, <2>1
  <2>3. QED
    BY <2>1, <2>2
<1>3. CASE SyncAt # {}
  <2>1. SyncAt \in SUBSET Nat /\ SyncAt \subseteq 1..Len(buffer)
    BY <1>1 DEF SyncAt
  <2>2. PICK n \in SyncAt : \A m \in SyncAt : n <= m
    BY <1>3, <2>1, LeastElement
  <2>3. Min(SyncAt) \in SyncAt /\ \A m \in SyncAt : Min(SyncAt) <= m
    BY <2>2 DEF Min
  <2> DEFINE i == Min(SyncAt)
             k == i + SyncLen - 1
  <2>4. buffer' = Drop(buffer, k) /\ state' = "StartFrame" /\ UNCHANGED <<busy, pending, out>>
    BY <1>3 DEF FindSync, Goes
  <2> HIDE DEF i
  <2>5. i \in 1..Len(buffer) /\ MarkerAt(bytes, Consumed + i) /\ k <= Len(buffer)
    BY <2>1, <2>3, MarkersSeen DEF i
  <2>6. k \in 0..Len(buffer)
    BY <1>1, <2>5
  <2>7. Buffered' /\ Consumed' = Consumed + k
    BY <2>4, <2>6, DropsOff
  <2>8. ASSUME NEW j \in (q + 1)..((Consumed + i) - 1), MarkerAt(bytes, j) PROVE FALSE
    <3>1. CASE j <= Consumed
      BY <1>1, <1>2, <2>8, <3>1
    <3>2. CASE j > Consumed
      <4>0. j \in Int /\ i \in Int /\ j < Consumed + i
        BY <1>1, <1>2, <2>5
      <4>1. /\ j - Consumed \in 1..Len(buffer) /\ (j - Consumed) + SyncLen - 1 <= Len(buffer)
            /\ j - Consumed < i /\ Consumed + (j - Consumed) = j
        BY <1>1, <2>5, <3>2, <4>0
      <4>2. j - Consumed \in SyncAt
        BY <2>8, <4>1, MarkersSeen
      <4>3. QED
        BY <1>1, <2>3, <2>5, <4>1, <4>2 DEF i
    <3>3. QED
      BY <1>1, <1>2, <2>5, <3>1, <3>2
  <2>9. Moves(bytes, <<q, state, pending, out>>, <<Consumed', state', pending', out'>>)
    <3>1. Consumed + i \in (q + 1)..Len(bytes) /\ (Consumed + i) + SyncLen - 1 = Consumed + k /\ q \in 0..Len(bytes)
      BY <1>1, <2>5
    <3>2. <<Consumed', state', pending', out'>> = <<(Consumed + i) + SyncLen - 1, "StartFrame", pending, out>>
      BY <2>4, <2>7, <3>1
    <3>3. \A j \in (q + 1)..((Consumed + i) - 1) : ~MarkerAt(bytes, j)
      BY <2>8, Zenon
    <3>4. QED
      BY <1>1, <2>5, <3>1, <3>2, <3>3 DEF Moves
  <2>10. Follows'
    <3>1. Consumed' \in Nat
      BY <1>1, <2>6, <2>7
    <3>2. QED
      BY <1>2, <2>9, <3>1, StepsAlong
  <2>11. BlockHeld'
    BY <1>1, <2>4 DEF BlockHeld, States
  <2>12. busy' = FALSE => Stalled'
    BY <2>4
  <2>13. QED
    BY <2>7, <2>10, <2>11, <2>12 DEF FeedInv
<1>4. CASE SyncAt = {}
  <2>1. /\ buffer' = Drop(buffer, Max({0, Len(buffer) - (SyncLen - 1)})) /\ busy' = FALSE
        /\ UNCHANGED <<state, pending, out>>
    BY <1>4 DEF FindSync
  <2> DEFINE k == Max({0, Len(buffer) - (SyncLen - 1)})
  <2>2. k \in {0, Len(buffer) - (SyncLen - 1)} /\ k >= 0 /\ k >= Len(buffer) - (SyncLen - 1)
    <3> DEFINE pair == {0, Len(buffer) - (SyncLen - 1)}
    <3>1. \E x \in pair : \A y \in pair : x >= y
      <4>1. CASE Len(buffer) - (SyncLen - 1) >= 0
        BY <1>1, <4>1
      <4>2. CASE Len(buffer) - (SyncLen - 1) < 0
        BY <1>1, <4>2
      <4>3. QED
        BY <1>1, <4>1, <4>2
    <3>2. k \in pair /\ \A y \in pair : k >= y
      <4> HIDE DEF pair
      <4>1. k = Max(pair)
        BY DEF pair
      <4>2. QED
        BY <3>1, <4>1 DEF Max
    <3>3. QED
      BY <3>2
  <2> HIDE DEF k
  <2>3. k \in 0..Len(buffer) /\ Len(buffer) - k < SyncLen
    BY <1>1, <2>2
  <2>4. Buffered' /\ Consumed' = Consumed + k /\ Len(buffer') = Len(buffer) - k
    BY <2>1, <2>3, DropsOff DEF k
  <2>5. ASSUME NEW j \in (q + 1)..(Consumed + k), MarkerAt(bytes, j) PROVE FALSE
    <3>1. CASE j <= Consumed
      BY <1>1, <1>2, <2>5, <3>1
    <3>2. CASE j > Consumed
      <4>1. j - Consumed \in 1..Len(buffer) /\ (j - Consumed) + SyncLen - 1 <= Len(buffer)
            /\ Consumed + (j - Consumed) = j
        BY <1>1, <1>2, <2>2, <2>3, <3>2
      <4>2. j - Consumed \in SyncAt
        BY <2>5, <4>1, MarkersSeen
      <4>3. QED
        BY <1>4, <4>2
    <3>3. QED
      BY <1>1, <1>2, <2>3, <3>1, <3>2
  <2>6. Follows'
    <3>1. q \in 0..Consumed' /\ Reached(bytes', <<q, state', pending', out'>>) /\ state' = "Resync"
      BY <1>1, <1>2, <2>1, <2>3, <2>4
    <3>2. \A j \in (q + 1)..Consumed' : ~MarkerAt(bytes', j)
      BY <2>4, <2>5
    <3>3. QED
      BY <3>1, <3>2, Zenon DEF Follows
  <2>7. BlockHeld' /\ Stalled'
    BY <1>1, <2>1, <2>3, <2>4 DEF BlockHeld, Stalled
  <2>8. QED
    BY <2>4, <2>6, <2>7 DEF FeedInv
<1>5. QED
  BY <1>3, <1>4

LEMMA SkipPaddingStep ==
    ASSUME Buffered, BlockHeld, Follows, busy = TRUE, SkipPadding, UNCHANGED <<bytes, fed>>
    PROVE  FeedInv'
<1>1. /\ Len(bytes) \in Nat /\ Len(buffer) \in Nat /\ fed \in Nat /\ Consumed \in Nat
      /\ fed <= Len(bytes) /\ Consumed + Len(buffer) = fed
      /\ \A j \in 1..Len(buffer) : buffer[j] = bytes[Consumed + j]
      /\ state = "StartFrame" /\ pending = <<>> /\ buffer \in Seq(STRING)
  BY Standing DEF SkipPadding, BlockHeld, Buffered
<1>2. PICK q \in 0..Consumed : /\ Reached(bytes, <<q, state, pending, out>>)
                               /\ NulsBetween(bytes, q, Consumed)
  <2>1. PICK q \in 0..Consumed : /\ Reached(bytes, <<q, state, pending, out>>)
                                 /\ q = Consumed \/ NulsBetween(bytes, q, Consumed)
    BY <1>1, Zenon DEF Follows
  <2>2. NulsBetween(bytes, q, Consumed)
    BY <1>1, <2>1 DEF NulsBetween
  <2>3. QED
    BY <2>1, <2>2
<1> DEFINE k == Max(Padding)
<1>3. k \in 0..Len(buffer) /\ (\A i \in 1..k : buffer[i] = Nul) /\ (k < Len(buffer) => buffer[k + 1] # Nul)
  <2>1. Padding \subseteq 0..Len(buffer) /\ 0 \in Padding
    BY <1>1 DEF Padding
  <2>2. \E x \in Padding : \A y \in Padding : y <= x
    BY <1>1, <2>1, GreatestElement
  <2>3. \E x \in Padding : \A y \in Padding : x >= y
    BY <1>1, <2>1, <2>2
  <2>4. k \in Padding /\ \A y \in Padding : k >= y
    BY <2>3 DEF Max
  <2> HIDE DEF k
  <2>5. k \in 0..Len(buffer) /\ \A i \in 1..k : buffer[i] = Nul
    BY <2>4 DEF Padding
  <2>6. ASSUME k < Len(buffer), buffer[k + 1] = Nul PROVE FALSE
    <3>1. k + 1 \in 0..Len(buffer) /\ \A i \in 1..(k + 1) : buffer[i] = Nul
      BY <1>1, <2>5, <2>6
    <3>2. k + 1 \in Padding
      BY <3>1 DEF Padding
    <3>3. QED
      BY <2>4, <2>5, <3>2
  <2>7. QED
    BY <2>5, <2>6
<1>4. buffer' = Drop(buffer, k)
  BY DEF SkipPadding, Goes
<1> HIDE DEF k
<1>5. Buffered' /\ Consumed' = Consumed + k /\ Len(buffer') = Len(buffer) - k
  BY <1>3, <1>4, DropsOff
<1>6. NulsBetween(bytes, q, Consumed + k)
  <2> SUFFICES ASSUME NEW i \in (q + 1)..(Consumed + k) PROVE bytes[i] = Nul
    BY DEF NulsBetween
  <2>1. CASE i <= Consumed
    BY <1>1, <1>2, <1>3, <2>1 DEF NulsBetween
  <2>2. CASE i > Consumed
    <3>1. i - Consumed \in 1..k /\ i - Consumed \in 1..Len(buffer) /\ Consumed + (i - Consumed) = i
      BY <1>1, <1>2, <1>3, <2>2
    <3>2. QED
      BY <1>1, <1>3, <3>1
  <2>3. QED
    BY <1>1, <1>2, <1>3, <2>1, <2>2
<1>7. CASE Drop(buffer, k) # <<>>
  <2>1. state' = "FrameType" /\ UNCHANGED <<busy, pending, out>>
    BY <1>7 DEF SkipPadding, Goes, k
  <2>2. k < Len(buffer)
    <3>1. buffer' # <<>> /\ buffer' \in Seq(STRING)
      BY <1>4, <1>5, <1>7 DEF Buffered
    <3>2. Len(buffer') > 0
      BY <3>1
    <3>3. QED
      BY <1>1, <1>3, <1>5, <3>2
  <2>3. Consumed + k \in q..(Len(bytes) - 1) /\ (Consumed + k) + 1 = Consumed + (k + 1) /\ k + 1 \in 1..Len(buffer)
        /\ q \in 0..Len(bytes)
    BY <1>1, <1>2, <1>3, <2>2
  <2>4. bytes[(Consumed + k) + 1] # Nul
    BY <1>1, <1>3, <2>2, <2>3
  <2>5. Moves(bytes, <<q, state, pending, out>>, <<Consumed', state', pending', out'>>)
    <3>1. <<Consumed', state', pending', out'>> = <<Consumed + k, "FrameType", pending, out>>
      BY <1>5, <2>1
    <3>2. QED
      BY <1>1, <1>6, <2>3, <2>4, <3>1 DEF Moves
  <2>6. Follows'
    <3>1. Consumed' \in Nat
      BY <1>1, <1>3, <1>5
    <3>2. QED
      BY <1>2, <2>5, <3>1, StepsAlong
  <2>7. BlockHeld'
    BY <1>1, <2>1 DEF BlockHeld, States
  <2>8. busy' # FALSE
    BY <2>1
  <2>9. QED
    BY <1>5, <2>6, <2>7, <2>8 DEF FeedInv
<1>8. CASE Drop(buffer, k) = <<>>
  <2>1. UNCHANGED <<state, pending, out>>
    BY <1>8 DEF SkipPadding, k
  <2>2. Follows'
    <3>1. q \in 0..Consumed' /\ Reached(bytes', <<q, state', pending', out'>>) /\ state' = "StartFrame"
      BY <1>1, <1>2, <1>3, <1>5, <2>1
    <3>2. NulsBetween(bytes', q, Consumed')
      BY <1>5, <1>6
    <3>3. QED
      BY <3>1, <3>2, Zenon DEF Follows
  <2>3. BlockHeld' /\ Stalled'
    BY <1>1, <1>4, <1>8, <2>1 DEF BlockHeld, Stalled
  <2>4. QED
    BY <1>5, <2>2, <2>3 DEF FeedInv
<1>9. QED
  BY <1>7, <1>8

\* In the other states the decoder is level with the reader.
LEMMA Level ==
    ASSUME Buffered, Follows, state \notin {"Resync", "StartFrame"}
    PROVE  Reached(bytes, <<Consumed, state, pending, out>>)
  BY Zenon DEF Follows

\* A call that finds too little leaves everything as it is.
LEMMA FeedWaitsStep ==
    ASSUME Buffered, BlockHeld, Follows, Waits, Stalled, UNCHANGED <<bytes, fed>>
    PROVE  FeedInv'
<1>1. UNCHANGED <<buffer, state, pending, out>>
  BY DEF Waits, decoder
<1>2. Consumed' = Consumed
  BY <1>1 DEF Consumed
<1>3. Buffered' /\ BlockHeld' /\ Stalled'
  BY <1>1, <1>2 DEF Buffered, BlockHeld, Stalled
<1>4. Follows'
  BY <1>1, <1>2, Zenon DEF Follows
<1>5. QED
  BY <1>3, <1>4 DEF FeedInv

\* A call that takes k symbols and goes on.
LEMMA TakesStep ==
    ASSUME Buffered, Follows, UNCHANGED <<bytes, fed>>, NEW k \in 0..Len(buffer),
           buffer' = Drop(buffer, k), state \notin {"Resync", "StartFrame"}, BlockHeld',
           busy' = FALSE => Stalled',
           Moves(bytes, <<Consumed, state, pending, out>>, <<Consumed + k, state', pending', out'>>)
    PROVE  FeedInv'
<1>1. Buffered' /\ Consumed' = Consumed + k /\ Consumed \in Nat
  BY DropsOff, Standing
<1>2. Moves(bytes, <<Consumed, state, pending, out>>, <<Consumed', state', pending', out'>>)
  BY <1>1
<1>3. Reached(bytes, <<Consumed, state, pending, out>>)
  BY Level
<1>4. Consumed' \in Nat
  BY <1>1
<1>5. Follows'
  BY <1>2, <1>3, <1>4, StepsAlong
<1>6. QED
  BY <1>1, <1>5 DEF FeedInv

LEMMA DropNone == ASSUME Buffered PROVE buffer = Drop(buffer, 0)
  BY DEF Buffered, Drop

LEMMA FrameTypeStep ==
    ASSUME Buffered, BlockHeld, Follows, busy = TRUE, DetectFrameType, UNCHANGED <<bytes, fed>>
    PROVE  FeedInv'
<1>1. /\ Len(bytes) \in Nat /\ Len(buffer) \in Nat /\ fed \in Nat /\ Consumed \in Nat
      /\ fed <= Len(bytes) /\ Consumed + Len(buffer) = fed
      /\ \A j \in 1..Len(buffer) : buffer[j] = bytes[Consumed + j]
      /\ state = "FrameType" /\ pending = <<>> /\ buffer \in Seq(STRING)
  BY Standing DEF DetectFrameType, BlockHeld, Buffered
<1>3. ASSUME NEW k \in 0..Len(buffer), NEW st \in States \ {"BlockBody", "Validate"},
             buffer' = Drop(buffer, k), Goes(buffer', st),
             Moves(bytes, <<Consumed, state, pending, out>>, <<Consumed + k, st, pending, out>>)
      PROVE  FeedInv'
  <2>1. state' = st /\ UNCHANGED <<busy, pending, out>>
    BY <1>3 DEF Goes
  <2>2. BlockHeld'
    BY <1>1, <2>1 DEF BlockHeld
  <2>3. busy' # FALSE
    BY <2>1
  <2>4. QED
    BY <1>1, <1>3, <2>1, <2>2, <2>3, TakesStep
<1>4. CASE buffer # <<>> /\ buffer[1] # Slash /\ Goes(Drop(buffer, 1), "Resync")
  <2>1. 1 \in 1..Len(buffer) /\ Consumed < Len(bytes) /\ bytes[Consumed + 1] # Slash /\ 1 \in 0..Len(buffer)
    BY <1>1, <1>4
  <2>2. Moves(bytes, <<Consumed, state, pending, out>>, <<Consumed + 1, "Resync", pending, out>>)
    BY <1>1, <2>1 DEF Moves
  <2>3. buffer' = Drop(buffer, 1) /\ Goes(buffer', "Resync")
    BY <1>4 DEF Goes
  <2>4. QED
    BY <1>3, <2>1, <2>2, <2>3 DEF States
<1>5. CASE Len(buffer) > 1 /\ buffer[1] = Slash
  <2>1. /\ 1 \in 1..Len(buffer) /\ 2 \in 1..Len(buffer) /\ 1 \in 0..Len(buffer) /\ 0 \in 0..Len(buffer)
        /\ Consumed + 1 < Len(bytes) /\ Consumed + 0 = Consumed
    BY <1>1, <1>5
  <2>2. bytes[Consumed + 1] = Slash /\ bytes[Consumed + 2] = buffer[2]
    BY <1>1, <1>5, <2>1
  <2>3. ASSUME NEW d, d = IF buffer[2] = "P" THEN <<Consumed, "BlockHeader", pending, out>>
                          ELSE IF buffer[2] = "S" THEN <<Consumed, "ServerList", pending, out>>
                          ELSE <<Consumed + 1, "Resync", pending, out>>
        PROVE  Moves(bytes, <<Consumed, state, pending, out>>, d)
    BY <1>1, <2>1, <2>2, <2>3 DEF Moves
  <2>4. CASE buffer[2] = "P" /\ Goes(buffer, "BlockHeader")
    <3>1. buffer' = Drop(buffer, 0) /\ Goes(buffer', "BlockHeader")
      BY <2>4, DropNone DEF Goes
    <3>2. Moves(bytes, <<Consumed, state, pending, out>>, <<Consumed + 0, "BlockHeader", pending, out>>)
      BY <2>1, <2>3, <2>4
    <3>3. QED
      BY <1>3, <2>1, <3>1, <3>2 DEF States
  <2>5. CASE buffer[2] = "S" /\ Goes(buffer, "ServerList")
    <3>1. buffer' = Drop(buffer, 0) /\ Goes(buffer', "ServerList")
      BY <2>5, DropNone DEF Goes
    <3>2. Moves(bytes, <<Consumed, state, pending, out>>, <<Consumed + 0, "ServerList", pending, out>>)
      BY <2>1, <2>3, <2>5
    <3>3. QED
      BY <1>3, <2>1, <3>1, <3>2 DEF States
  <2>6. CASE buffer[2] \notin {"P", "S"} /\ Goes(Drop(buffer, 1), "Resync")
    <3>1. buffer' = Drop(buffer, 1) /\ Goes(buffer', "Resync")
      BY <2>6 DEF Goes
    <3>2. Moves(bytes, <<Consumed, state, pending, out>>, <<Consumed + 1, "Resync", pending, out>>)
      BY <2>3, <2>6
    <3>3. QED
      BY <1>3, <2>1, <3>1, <3>2 DEF States
  <2>7. QED
    BY <1>1, <1>4, <1>5, <2>1, <2>4, <2>5, <2>6 DEF DetectFrameType
<1>6. \/ buffer = <<>> /\ Waits
      \/ buffer # <<>> /\ buffer[1] # Slash /\ Goes(Drop(buffer, 1), "Resync")
      \/ Len(buffer) = 1 /\ buffer[1] = Slash /\ Waits
      \/ Len(buffer) > 1 /\ buffer[1] = Slash
  BY Zenon DEF DetectFrameType
<1>7. CASE buffer = <<>> /\ Waits
  <2>1. Stalled
    BY <1>1, <1>7 DEF Stalled
  <2>2. QED
    BY <1>7, <2>1, FeedWaitsStep
<1>8. CASE Len(buffer) = 1 /\ buffer[1] = Slash /\ Waits
  <2>1. Stalled
    BY <1>1, <1>8 DEF Stalled
  <2>2. QED
    BY <1>8, <2>1, FeedWaitsStep
<1>9. QED
  BY <1>4, <1>5, <1>6, <1>7, <1>8

LEMMA ServerListStep ==
    ASSUME Buffered, BlockHeld, Follows, busy = TRUE, ProcessServerList, UNCHANGED <<bytes, fed>>
    PROVE  FeedInv'
<1>1. /\ Len(bytes) \in Nat /\ Len(buffer) \in Nat /\ fed \in Nat /\ Consumed \in Nat
      /\ fed <= Len(bytes) /\ Consumed + Len(buffer) = fed
      /\ \A j \in 1..Len(buffer) : buffer[j] = bytes[Consumed + j]
      /\ state = "ServerList" /\ pending = <<>> /\ buffer \in Seq(STRING) /\ bytes \in Seq(STRING)
  BY Standing DEF ProcessServerList, BlockHeld, Buffered
<1>2. CASE ~Contains(buffer, Nul)
  <2>1. Waits
    BY <1>2, Zenon DEF ProcessServerList
  <2>2. Stalled
    BY <1>1, <1>2 DEF Stalled, Contains
  <2>3. QED
    BY <2>1, <2>2, FeedWaitsStep
<1>3. CASE Contains(buffer, Nul)
  <2> DEFINE nuls == {i \in DOMAIN buffer : buffer[i] = Nul}
             end == Min(nuls)
             content == SubSeq(buffer, 1, end - 1)
             rest == Drop(buffer, end)
             d == IF Contains(content, "x")
                  THEN <<Consumed + end, "Resync", <<>>, Append(out, DecodeWarning("list"))>>
                  ELSE <<Consumed + end, "StartFrame", pending, Append(out, ServerList(content))>>
  <2>1. \/ Contains(content, "x") /\ Recovers(rest, "list")
        \/ /\ ~Contains(content, "x")
           /\ out' = Append(out, ServerList(content)) /\ buffer' = rest /\ state' = "StartFrame"
           /\ UNCHANGED <<pending, busy>>
    BY <1>3, Zenon DEF ProcessServerList
  <2>2. end \in nuls /\ \A m \in nuls : end <= m
    <3>1. nuls \in SUBSET Nat /\ nuls # {}
      BY <1>1, <1>3 DEF Contains
    <3> HIDE DEF nuls
    <3>2. \E n \in nuls : \A m \in nuls : n <= m
      BY <3>1, LeastElement
    <3>3. QED
      BY <3>2 DEF Min
  <2> HIDE DEF end
  <2>3. end \in 1..Len(buffer) /\ buffer[end] = Nul /\ \A i \in 1..(end - 1) : buffer[i] # Nul
    BY <1>1, <2>2
  <2> HIDE DEF nuls
  <2>4. Consumed + end \in (Consumed + 1)..Len(bytes) /\ bytes[Consumed + end] = Nul
    BY <1>1, <2>3
  <2>5. ASSUME NEW i \in (Consumed + 1)..((Consumed + end) - 1) PROVE bytes[i] # Nul
    <3>1. i - Consumed \in 1..(end - 1) /\ i - Consumed \in 1..Len(buffer) /\ Consumed + (i - Consumed) = i
      BY <1>1, <2>3
    <3>2. QED
      BY <1>1, <2>3, <3>1
  <2>6. content = SubSeq(bytes, Consumed + 1, (Consumed + end) - 1)
    <3> DEFINE other == SubSeq(bytes, Consumed + 1, (Consumed + end) - 1)
    <3>1. content \in Seq(STRING) /\ Len(content) = end - 1 /\ \A i \in 1..(end - 1) : content[i] = buffer[i]
      BY <1>1, <2>3
    <3>2. /\ other \in Seq(STRING) /\ Len(other) = end - 1
          /\ \A i \in 1..(end - 1) : other[i] = bytes[Consumed + i]
      BY <1>1, <2>3
    <3>3. \A i \in 1..(end - 1) : buffer[i] = bytes[Consumed + i]
      BY <1>1, <2>3
    <3> HIDE DEF content, other
    <3>4. content = other
      BY <3>1, <3>2, <3>3, SeqEqual
    <3>5. QED
      BY <3>4 DEF content, other
  <2>7. Moves(bytes, <<Consumed, state, pending, out>>, d)
    <3> HIDE DEF content
    <3>0. Consumed \in 0..Len(bytes)
      BY <1>1
    <3>1. \A i \in (Consumed + 1)..((Consumed + end) - 1) : bytes[i] # Nul
      BY <2>5
    <3>2. QED
      BY <1>1, <2>4, <2>6, <3>0, <3>1, Zenon DEF Moves
  <2> HIDE DEF content
  <2>8. end \in 0..Len(buffer) /\ buffer' = Drop(buffer, end)
    <3>1. end \in 0..Len(buffer)
      BY <2>3
    <3>2. buffer' = rest
      BY <2>1, Zenon DEF Recovers
    <3>3. QED
      BY <3>1, <3>2
  <2>9. d = <<Consumed + end, state', pending', out'>>
    BY <2>1 DEF Recovers
  <2>10. BlockHeld' /\ (busy' = FALSE => Stalled')
    <3>1. CASE Contains(content, "x") /\ Recovers(rest, "list")
      <4>1. state' = "Resync" /\ pending' = <<>> /\ (busy' = FALSE => buffer' = <<>>)
        BY <3>1 DEF Recovers
      <4>2. QED
        BY <4>1, Lengths DEF BlockHeld, Stalled, States
    <3>2. CASE state' = "StartFrame" /\ UNCHANGED <<pending, busy>>
      BY <1>1, <3>2 DEF BlockHeld, States
    <3>3. QED
      BY <2>1, <3>1, <3>2
  <2>11. QED
    BY <1>1, <2>7, <2>8, <2>9, <2>10, TakesStep
<1>4. QED
  BY <1>2, <1>3

LEMMA BlockHeaderStep ==
    ASSUME Buffered, BlockHeld, Follows, busy = TRUE, ProcessBlockHeader, UNCHANGED <<bytes, fed>>
    PROVE  FeedInv'
<1>1. /\ Len(bytes) \in Nat /\ Len(buffer) \in Nat /\ fed \in Nat /\ Consumed \in Nat
      /\ fed <= Len(bytes) /\ Consumed + Len(buffer) = fed
      /\ \A j \in 1..Len(buffer) : buffer[j] = bytes[Consumed + j]
      /\ state = "BlockHeader" /\ pending = <<>> /\ buffer \in Seq(STRING) /\ HeaderLen = 3
  BY Standing, Lengths DEF ProcessBlockHeader, BlockHeld, Buffered
<1>2. CASE Len(buffer) < HeaderLen
  <2>1. Waits
    <3>1. ~(Len(buffer) >= HeaderLen)
      BY <1>1, <1>2
    <3>2. QED
      BY <3>1, Zenon DEF ProcessBlockHeader
  <2>2. Stalled
    BY <1>1, <1>2 DEF Stalled
  <2>3. QED
    BY <2>1, <2>2, FeedWaitsStep
<1>3. CASE Len(buffer) >= HeaderLen
  <2> DEFINE h == buffer[HeaderLen]
  <2>1. HeaderLen \in 1..Len(buffer) /\ HeaderLen \in 0..Len(buffer) /\ Consumed + HeaderLen <= Len(bytes)
        /\ Consumed \in 0..Len(bytes)
    BY <1>1, <1>3
  <2>2. bytes[Consumed + HeaderLen] = h
    BY <1>1, <2>1
  <2>3. CASE h \notin Headers /\ Recovers(Drop(buffer, HeaderLen), "header")
    <3>1. /\ buffer' = Drop(buffer, HeaderLen) /\ state' = "Resync" /\ pending' = <<>>
          /\ out' = Append(out, DecodeWarning("header")) /\ (busy' = FALSE => buffer' = <<>>)
      BY <2>3 DEF Recovers
    <3>2. Moves(bytes, <<Consumed, state, pending, out>>, <<Consumed + HeaderLen, state', pending', out'>>)
      BY <1>1, <2>1, <2>2, <2>3, <3>1 DEF Moves
    <3>3. BlockHeld' /\ (busy' = FALSE => Stalled')
      BY <3>1, Lengths DEF BlockHeld, Stalled, States
    <3>4. QED
      BY <1>1, <2>1, <3>1, <3>2, <3>3, TakesStep
  <2>4. CASE /\ h \in Headers /\ pending' = <<h>> /\ buffer' = Drop(buffer, HeaderLen)
             /\ state' = "BlockBody" /\ UNCHANGED <<out, busy>>
    <3>1. Moves(bytes, <<Consumed, state, pending, out>>, <<Consumed + HeaderLen, state', pending', out'>>)
      BY <1>1, <2>1, <2>2, <2>4 DEF Moves
    <3>2. BlockHeld' /\ busy' # FALSE
      BY <2>4 DEF BlockHeld, States
    <3>3. QED
      BY <1>1, <2>1, <2>4, <3>1, <3>2, TakesStep
  <2>5. QED
    <3>1. ~(Len(buffer) < HeaderLen)
      BY <1>1, <1>3
    <3>2. QED
      BY <2>3, <2>4, <3>1, Zenon DEF ProcessBlockHeader
<1>4. QED
  BY <1>1, <1>2, <1>3

LEMMA PairUp == ASSUME NEW x, NEW y PROVE Append(<<x>>, y) = <<x, y>>
<1>1. <<x>> \in Seq({x, y}) /\ y \in {x, y} /\ <<x, y>> \in Seq({x, y}) /\ Len(<<x>>) = 1 /\ Len(<<x, y>>) = 2
  OBVIOUS
<1>2. /\ Append(<<x>>, y) \in Seq({x, y}) /\ Len(Append(<<x>>, y)) = 2
      /\ Append(<<x>>, y)[1] = x /\ Append(<<x>>, y)[2] = y
  BY <1>1
<1>3. <<x, y>>[1] = x /\ <<x, y>>[2] = y
  OBVIOUS
<1> DEFINE s == Append(<<x>>, y)
           t == <<x, y>>
<1>4. s \in Seq({x, y}) /\ t \in Seq({x, y}) /\ Len(s) = 2 /\ Len(t) = 2 /\ s[1] = t[1] /\ s[2] = t[2]
  BY <1>1, <1>2, <1>3
<1> HIDE DEF s, t
<1>5. \A i \in 1..Len(s) : s[i] = t[i]
  BY <1>4
<1>6. s = t
  BY <1>4, <1>5, SeqEqual
<1>7. QED
  BY <1>6 DEF s, t

LEMMA BlockBodyStep ==
    ASSUME Buffered, BlockHeld, Follows, busy = TRUE, ProcessBlockBody, UNCHANGED <<bytes, fed>>
    PROVE  FeedInv'
<1> DEFINE n == BodyLen[pending[1]]
<1>1. /\ Len(bytes) \in Nat /\ Len(buffer) \in Nat /\ fed \in Nat /\ Consumed \in Nat
      /\ fed <= Len(bytes) /\ Consumed + Len(buffer) = fed
      /\ \A j \in 1..Len(buffer) : buffer[j] = bytes[Consumed + j]
      /\ state = "BlockBody" /\ buffer \in Seq(STRING) /\ bytes \in Seq(STRING)
  BY Standing DEF ProcessBlockBody, Buffered
<1>h. PICK h \in Headers : pending = <<h>>
  BY <1>1 DEF BlockHeld
<1>2. pending[1] = h /\ n \in Nat
  BY <1>h, Lengths
<1>3. CASE Len(buffer) < n
  <2>1. Waits
    <3>1. ~(Len(buffer) >= n)
      BY <1>1, <1>2, <1>3
    <3>2. QED
      BY <3>1, Zenon DEF ProcessBlockBody
  <2>2. Stalled
    BY <1>1, <1>3 DEF Stalled
  <2>3. QED
    BY <2>1, <2>2, FeedWaitsStep
<1>4. CASE Len(buffer) >= n
  <2> DEFINE body == SubSeq(buffer, 1, n)
             other == SubSeq(bytes, Consumed + 1, Consumed + n)
  <2>1. /\ pending' = Append(pending, body) /\ buffer' = Drop(buffer, n)
        /\ state' = "Validate" /\ UNCHANGED <<out, busy>>
    <3>1. ~(Len(buffer) < n)
      BY <1>1, <1>2, <1>4
    <3>2. QED
      BY <3>1, Zenon DEF ProcessBlockBody
  <2>2. n \in 0..Len(buffer) /\ Consumed + n <= Len(bytes) /\ Consumed \in 0..Len(bytes)
    BY <1>1, <1>2, <1>4
  <2> HIDE DEF n
  <2>3. body = other
    <3>1. body \in Seq(STRING) /\ Len(body) = n /\ \A i \in 1..n : body[i] = buffer[i]
      BY <1>1, <1>2, <2>2
    <3>2. other \in Seq(STRING) /\ Len(other) = n /\ \A i \in 1..n : other[i] = bytes[Consumed + i]
      BY <1>1, <1>2, <2>2
    <3>3. \A i \in 1..n : buffer[i] = bytes[Consumed + i]
      BY <1>1, <1>2, <2>2
    <3> HIDE DEF body, other
    <3>4. QED
      BY <3>1, <3>2, <3>3, SeqEqual
  <2>4. Moves(bytes, <<Consumed, state, pending, out>>, <<Consumed + n, state', pending', out'>>)
    <3>1. pending' = Append(pending, other)
      BY <2>1, <2>3
    <3>2. QED
      BY <1>1, <2>1, <2>2, <3>1 DEF Moves, n
  <2>5. BlockHeld' /\ busy' # FALSE
    <3>1. pending' = <<h, body>>
      BY <1>h, <2>1, PairUp
    <3> HIDE DEF body
    <3>2. \E g \in Headers : \E x : pending' = <<g, x>>
      BY <3>1
    <3>3. QED
      BY <2>1, <3>2 DEF BlockHeld, States
  <2>6. QED
    BY <1>1, <2>1, <2>2, <2>4, <2>5, TakesStep
<1>5. QED
  BY <1>1, <1>2, <1>3, <1>4

LEMMA ValidateStep ==
    ASSUME Buffered, BlockHeld, Follows, busy = TRUE, ValidateAndEmit, UNCHANGED <<bytes, fed>>
    PROVE  FeedInv'
<1>1. /\ Len(bytes) \in Nat /\ Len(buffer) \in Nat /\ Consumed \in 0..Len(bytes) /\ Consumed + 0 = Consumed
      /\ 0 \in 0..Len(buffer) /\ state = "Validate" /\ buffer' = Drop(buffer, 0)
      /\ out' = out \o Verdict(pending[1], pending[2]) /\ pending' = <<>> /\ state' = "StartFrame"
      /\ busy' # FALSE
  BY Standing, DropNone DEF ValidateAndEmit
<1>2. Moves(bytes, <<Consumed, state, pending, out>>, <<Consumed + 0, state', pending', out'>>)
  BY <1>1 DEF Moves
<1>3. BlockHeld'
  BY <1>1 DEF BlockHeld, States
<1>4. QED
  BY <1>1, <1>2, <1>3, TakesStep

-----------------------------------------------------------------------------
(* A whole pass *)

\* A decoder that waits with all of the stream has the events of the stream.
LEMMA PassOver ==
    ASSUME FeedInv, Stalled, fed = Len(bytes)
    PROVE  EndsWith(bytes, out)
<1>1. /\ Len(bytes) \in Nat /\ Len(buffer) \in Nat /\ Consumed \in Nat
      /\ Consumed + Len(buffer) = Len(bytes)
      /\ \A j \in 1..Len(buffer) : buffer[j] = bytes[Consumed + j]
      /\ SyncLen \in Nat /\ HeaderLen = 3 /\ buffer \in Seq(STRING) /\ BlockHeld
  BY Standing, Lengths DEF FeedInv, Buffered
<1>2. PICK q \in 0..Consumed :
          /\ Reached(bytes, <<q, state, pending, out>>)
          /\ \/ q = Consumed
             \/ state = "Resync" /\ \A i \in (q + 1)..Consumed : ~MarkerAt(bytes, i)
             \/ state = "StartFrame" /\ NulsBetween(bytes, q, Consumed)
  BY Zenon DEF FeedInv, Follows
<1> DEFINE c == <<q, state, pending, out>>
<1>3. c[1] = q /\ c[2] = state /\ c[3] = pending /\ c[4] = out
  OBVIOUS
<1> HIDE DEF c
<1>4. ASSUME NEW d, Moves(bytes, c, d) PROVE FALSE
  <2>1. CASE state = "Resync"
    <3>1. PICK i \in (q + 1)..Len(bytes) : MarkerAt(bytes, i)
      BY <1>3, <1>4, <2>1 DEF Moves
    <3>2. i + SyncLen - 1 <= Len(bytes) /\ Len(buffer) < SyncLen
      BY <2>1, <3>1 DEF MarkerAt, Stalled
    <3>3. i \in (q + 1)..Consumed
      BY <1>1, <1>2, <3>2
    <3>4. QED
      BY <1>1, <1>2, <2>1, <3>1, <3>3
  <2>2. CASE state = "StartFrame"
    <3>1. PICK r \in q..(Len(bytes) - 1) : bytes[r + 1] # Nul
      BY <1>3, <1>4, <2>2 DEF Moves
    <3>2. Consumed = Len(bytes)
      BY <1>1, <2>2 DEF Stalled
    <3>3. r + 1 \in (q + 1)..Consumed
      BY <1>1, <1>2, <3>2
    <3>4. QED
      BY <1>1, <1>2, <2>2, <3>1, <3>3 DEF NulsBetween
  <2>3. CASE state \notin {"Resync", "StartFrame"}
    <3>1. q = Consumed
      BY <1>2, <2>3
    <3>2. CASE state = "FrameType"
      <4>1. Consumed < Len(bytes)
        BY <1>1, <1>3, <1>4, <3>1, <3>2 DEF Moves
      <4>2. Len(buffer) = 1 /\ buffer[1] = Slash
        BY <1>1, <3>2, <4>1 DEF Stalled
      <4>3. bytes[Consumed + 1] = Slash /\ ~(Consumed + 1 < Len(bytes))
        BY <1>1, <4>2
      <4>4. QED
        BY <1>3, <1>4, <3>1, <3>2, <4>3 DEF Moves
    <3>3. CASE state = "ServerList"
      <4>1. PICK e \in (Consumed + 1)..Len(bytes) : bytes[e] = Nul
        BY <1>3, <1>4, <3>1, <3>3 DEF Moves
      <4>2. e - Consumed \in 1..Len(buffer) /\ Consumed + (e - Consumed) = e
        BY <1>1
      <4>3. buffer[e - Consumed] = Nul
        BY <1>1, <4>1, <4>2
      <4>4. QED
        BY <3>3, <4>2, <4>3 DEF Stalled
    <3>4. CASE state = "BlockHeader"
      <4>1. Consumed + HeaderLen <= Len(bytes)
        BY <1>3, <1>4, <3>1, <3>4 DEF Moves
      <4>2. Len(buffer) < HeaderLen
        BY <3>4 DEF Stalled
      <4>3. QED
        BY <1>1, <4>1, <4>2
    <3>5. CASE state = "BlockBody"
      <4> DEFINE n == BodyLen[pending[1]]
      <4>1. Consumed + n <= Len(bytes)
        BY <1>3, <1>4, <3>1, <3>5 DEF Moves
      <4>2. Len(buffer) < n
        BY <3>5 DEF Stalled
      <4>3. n \in Nat
        <5>1. PICK h \in Headers : pending = <<h>>
          BY <1>1, <3>5 DEF BlockHeld
        <5>2. QED
          BY <5>1, Lengths
      <4> HIDE DEF n
      <4>4. QED
        BY <1>1, <4>1, <4>2, <4>3
    <3>6. QED
      BY <1>1, <2>3, <3>2, <3>3, <3>4, <3>5 DEF Stalled, BlockHeld, States
  <2>4. QED
    BY <2>1, <2>2, <2>3
<1>5. Reached(bytes, c) /\ AtRest(bytes, c)
  BY <1>2, <1>4, Zenon DEF AtRest, c
<1>6. QED
  BY <1>3, <1>5, Zenon DEF EndsWith

LEMMA FeedStep ==
    ASSUME DecoderInv, NEW k \in 1..Len(bytes), Feed(k)
    PROVE  FeedInv'
<1>1. /\ bytes \in Seq(STRING) /\ fed \in 0..Len(bytes) /\ buffer \in Seq(STRING) /\ Len(buffer) <= fed
      /\ Len(bytes) \in Nat /\ Len(buffer) \in Nat /\ Consumed \in Nat /\ Consumed + Len(buffer) = fed
      /\ \A i \in 1..Len(buffer) : buffer[i] = bytes[Consumed + i]
  BY Standing DEF DecoderInv, FeedInv, Buffered
<1> DEFINE chunk == SubSeq(bytes, fed + 1, fed + k)
<1>2. /\ fed + k <= Len(bytes) /\ buffer' = buffer \o chunk /\ fed' = fed + k /\ busy' = TRUE
      /\ UNCHANGED <<bytes, state, pending, out>>
  BY DEF Feed
<1>3. chunk \in Seq(STRING) /\ Len(chunk) = k /\ \A i \in 1..k : chunk[i] = bytes[fed + i]
  BY <1>1, <1>2
<1> HIDE DEF chunk
<1>4. /\ buffer' \in Seq(STRING) /\ Len(buffer') = Len(buffer) + k
      /\ \A i \in 1..Len(buffer) : buffer'[i] = buffer[i]
      /\ \A i \in 1..k : buffer'[Len(buffer) + i] = chunk[i]
  BY <1>1, <1>2, <1>3
<1>5. Consumed' = Consumed
  BY <1>1, <1>2, <1>4 DEF Consumed
<1>6. ASSUME NEW i \in 1..Len(buffer') PROVE buffer'[i] = bytes[Consumed + i]
  <2>1. CASE i <= Len(buffer)
    <3>1. i \in 1..Len(buffer)
      BY <1>1, <1>4, <2>1
    <3>2. buffer'[i] = buffer[i] /\ buffer[i] = bytes[Consumed + i]
      BY <1>1, <1>4, <3>1, Zenon
    <3>3. QED
      BY <3>2
  <2>2. CASE i > Len(buffer)
    <3> DEFINE n == Len(buffer)
    <3>0. i \in Nat /\ i <= n + k /\ n \in Nat /\ i > n /\ fed \in Nat /\ Consumed + n = fed
      BY <1>1, <1>4, <2>2
    <3> HIDE DEF n
    <3>1. i - n \in 1..k /\ n + (i - n) = i /\ fed + (i - n) = Consumed + i
      BY <1>1, <3>0
    <3>2. QED
      BY <1>3, <1>4, <3>1 DEF n
  <2>3. QED
    BY <1>1, <1>4, <2>1, <2>2
<1>7. Buffered'
  <2>1. bytes' = bytes /\ fed' \in 0..Len(bytes) /\ Len(buffer') <= fed'
    BY <1>1, <1>2, <1>4
  <2>2. QED
    BY <1>1, <1>4, <1>5, <1>6, <2>1, SMTT(40) DEF Buffered
<1>8. BlockHeld'
  BY <1>2 DEF DecoderInv, FeedInv, BlockHeld
<1>9. Follows'
  BY <1>2, <1>5, Zenon DEF DecoderInv, FeedInv, Follows
<1>10. QED
  BY <1>2, <1>7, <1>8, <1>9 DEF FeedInv

\* An empty buffer and nothing fed: before a stream and after a reset.
LEMMA Fresh ==
    /\ bytes \in Seq(STRING) /\ fed = 0 /\ buffer = <<>>
    /\ state = "Resync" /\ pending = <<>> /\ out = <<>>
    => FeedInv
<1> SUFFICES ASSUME bytes \in Seq(STRING), fed = 0, buffer = <<>>, state = "Resync", pending = <<>>, out = <<>>
             PROVE  FeedInv
  OBVIOUS
<1>1. Len(bytes) \in Nat /\ Len(buffer) = 0 /\ buffer \in Seq(STRING) /\ Consumed = 0
  <2>1. Len(bytes) \in Nat
    OBVIOUS
  <2>2. <<>> \in Seq(STRING) /\ Len(<<>>) = 0
    OBVIOUS
  <2>3. QED
    <3>1. buffer \in Seq(STRING) /\ Len(buffer) = 0
      BY <2>2, Zenon
    <3>2. Consumed = 0
      <4>1. Consumed = 0 - 0
        BY <3>1, Zenon DEF Consumed
      <4>2. QED
        BY <4>1
    <3>3. QED
      BY <2>1, <3>1, <3>2
<1>2. Buffered
  BY <1>1 DEF Buffered
<1>3. BlockHeld /\ Stalled
  BY <1>1, Lengths DEF BlockHeld, Stalled, States
<1>4. Follows
  <2>1. Reached(bytes, <<0, state, pending, out>>)
    BY ReachedStart
  <2>2. 0 \in 0..Consumed /\ Consumed = 0
    BY <1>1
  <2>3. QED
    BY <2>1, <2>2, Zenon DEF Follows
<1>5. QED
  BY <1>2, <1>3, <1>4 DEF FeedInv

LEMMA SameFeed ==
    ASSUME FeedInv, UNCHANGED <<bytes, fed, buffer, state, pending, out, busy>>
    PROVE  FeedInv'
<1>1. Consumed' = Consumed
  BY DEF Consumed
<1>2. Buffered' /\ BlockHeld' /\ (busy' = FALSE => Stalled')
  BY <1>1 DEF FeedInv, Buffered, BlockHeld, Stalled
<1>3. Follows'
  BY <1>1, Zenon DEF FeedInv, Follows
<1>4. QED
  BY <1>2, <1>3 DEF FeedInv

LEMMA ProcessStep ==
    ASSUME FeedInv, ProcessBuffer, busy \in BOOLEAN
    PROVE  FeedInv'
<1>1. Buffered /\ BlockHeld /\ Follows /\ UNCHANGED <<bytes, fed>>
  BY DEF FeedInv, ProcessBuffer
<1>2. busy = TRUE
  BY Zenon DEF ProcessBuffer
<1>3. QED
  BY <1>1, <1>2, FindSyncStep, SkipPaddingStep, FrameTypeStep, ServerListStep, BlockHeaderStep,
     BlockBodyStep, ValidateStep DEF ProcessBuffer

\* Every state of the decoder: it is with a reader that has all of the
\* stream, and a pass that is over has that reader's events.
THEOREM DecoderInvariant == DecoderSpec => []DecoderInv
<1>1. DecoderInit => DecoderInv
  <2> SUFFICES ASSUME DecoderInit PROVE DecoderInv
    OBVIOUS
  <2>1. bytes \in Seq(STRING)
    <3>1. stream \in Seq(Seq(STRING)) /\ bytes = FlattenSeq(stream)
      BY DecoderAssumption DEF DecoderInit
    <3>2. QED
      BY <3>1, FlattenType
  <2>2. FeedInv
    BY <2>1, Fresh DEF DecoderInit
  <2>3. QED
    BY <2>2 DEF DecoderInit, DecoderInv
<1>2. DecoderInv /\ [DecoderNext]_decoderVars => DecoderInv'
  <2> SUFFICES ASSUME DecoderInv, [DecoderNext]_decoderVars PROVE DecoderInv'
    OBVIOUS
  <2>0. FeedInv /\ busy \in BOOLEAN
    BY DEF DecoderInv
  <2>1. ASSUME NEW k \in 1..Len(bytes), Feed(k), pass # "done" PROVE DecoderInv'
    <3>1. UNCHANGED <<stream, bytes, pass, first>> /\ busy' = TRUE
      BY <2>1 DEF Feed
    <3>2. FeedInv'
      BY <2>1, FeedStep
    <3>3. QED
      BY <2>1, <3>1, <3>2 DEF DecoderInv
  <2>2. CASE ProcessBuffer
    <3>1. FeedInv'
      BY <2>0, <2>2, ProcessStep
    <3>2. UNCHANGED <<stream, bytes, fed, pass, first>> /\ busy = TRUE
      BY <2>0, <2>2, Zenon DEF ProcessBuffer
    <3>3. busy' \in BOOLEAN
      BY <2>2, <3>2, Zenon DEF ProcessBuffer, FindSync, SkipPadding, DetectFrameType, ProcessServerList,
         ProcessBlockHeader, ProcessBlockBody, ValidateAndEmit, Waits, Goes, Recovers
    <3>4. pass # "done"
      BY <3>2 DEF DecoderInv
    <3>5. QED
      BY <3>1, <3>2, <3>3, <3>4 DEF DecoderInv
  <2>3. CASE Reset
    <3>1. /\ busy = FALSE /\ fed = Len(bytes) /\ first' = out /\ pass' = "whole"
          /\ UNCHANGED <<stream, bytes, busy>>
      BY <2>0, <2>3, Zenon DEF Reset
    <3>2. EndsWith(bytes, out)
      BY <2>0, <3>1, PassOver DEF FeedInv
    <3>3. FeedInv'
      <4>1. bytes' \in Seq(STRING)
        BY <2>0, <3>1 DEF FeedInv, Buffered
      <4>2. fed' = 0 /\ buffer' = <<>> /\ state' = "Resync" /\ pending' = <<>> /\ out' = <<>>
        BY <2>3 DEF Reset
      <4>3. (/\ bytes \in Seq(STRING) /\ fed = 0 /\ buffer = <<>>
             /\ state = "Resync" /\ pending = <<>> /\ out = <<>>
             => FeedInv)'
        BY Fresh, PTL
      <4>4. QED
        BY <4>1, <4>2, <4>3
    <3>4. QED
      BY <3>1, <3>2, <3>3 DEF DecoderInv
  <2>4. CASE Finish
    <3>1. /\ busy = FALSE /\ fed = Len(bytes) /\ pass = "whole" /\ pass' = "done"
          /\ UNCHANGED <<stream, bytes, fed, buffer, state, pending, out, busy, first>>
      BY <2>0, <2>4, Zenon DEF Finish, decoder
    <3>2. EndsWith(bytes, out)
      BY <2>0, <3>1, PassOver DEF FeedInv
    <3>3. FeedInv'
      BY <2>0, <3>1, SameFeed
    <3>4. QED
      BY <3>1, <3>2, <3>3 DEF DecoderInv
  <2>5. CASE UNCHANGED decoderVars
    <3>1. UNCHANGED <<stream, bytes, fed, buffer, state, pending, out, busy, pass, first>>
      BY <2>5 DEF decoderVars, decoder
    <3>2. FeedInv'
      BY <2>0, <3>1, SameFeed
    <3>3. QED
      BY <3>1, <3>2 DEF DecoderInv
  <2>6. QED
    BY <2>1, <2>2, <2>3, <2>4, <2>5 DEF DecoderNext, Done
<1>3. QED
  BY <1>1, <1>2, PTL DEF DecoderSpec

\* Whatever stream is read, and however it is cut into chunks, the events are
\* those of the same bytes fed at once, and a reset leaves nothing behind
\* (QbtProtocolDecoder::feed, process_buffer, reset).
THEOREM ChunksCorrect == DecoderSpec => []ChunkingIrrelevant
<1>1. DecoderInv => ChunkingIrrelevant
  <2> SUFFICES ASSUME DecoderInv, pass = "done" PROVE out = first
    BY DEF ChunkingIrrelevant
  <2>1. bytes \in Seq(STRING) /\ EndsWith(bytes, out) /\ EndsWith(bytes, first)
    BY DEF DecoderInv, FeedInv, Buffered
  <2>2. QED
    BY <2>1, OneEnd
<1>2. QED
  BY <1>1, DecoderInvariant, PTL

\* What the largest frame needs at a time.
Sizes == {SyncLen, HeaderLen} \cup {BodyLen[h] : h \in Headers}

LEMMA SizesBounded == \E b \in Nat : Sizes \subseteq 0..b
<1>1. /\ SyncLen \in Nat /\ HeaderLen \in Nat /\ \A h \in Headers : BodyLen[h] \in Nat
      /\ IsFiniteSet(Headers)
  BY Lengths, DecoderAssumption
<1>2. PICK q \in Seq(Headers) : \A h \in Headers : \E n \in 1..Len(q) : q[n] = h
  BY <1>1 DEF IsFiniteSet
<1>3. Len(q) \in Nat /\ \A n \in 1..Len(q) : q[n] \in Headers
  OBVIOUS
<1> DEFINE Within(k, b) == SyncLen <= b /\ HeaderLen <= b /\ \A n \in 1..k : BodyLen[q[n]] <= b
           P == {k \in Nat : \E b \in Nat : Within(k, b)}
<1>4. 0 \in P
  <2>1. CASE SyncLen <= HeaderLen
    BY <1>1, <2>1
  <2>2. CASE HeaderLen <= SyncLen
    BY <1>1, <2>2
  <2>3. QED
    BY <1>1, <2>1, <2>2
<1>5. ASSUME NEW k \in 0..(Len(q) - 1), k \in P PROVE k + 1 \in P
  <2>1. PICK b \in Nat : Within(k, b)
    BY <1>5
  <2> DEFINE l == BodyLen[q[k + 1]]
  <2>2. l \in Nat
    BY <1>1, <1>3
  <2>3. \A n \in 1..k : BodyLen[q[n]] \in Nat
    BY <1>1, <1>3
  <2>4. CASE l <= b
    <3>1. Within(k + 1, b)
      BY <2>1, <2>4
    <3>2. QED
      BY <3>1
  <2>5. CASE l > b
    <3>1. Within(k + 1, l)
      BY <1>1, <2>1, <2>2, <2>3, <2>5
    <3>2. QED
      BY <2>2, <3>1
  <2>6. QED
    BY <2>2, <2>4, <2>5
<1> HIDE DEF P
<1>6. Len(q) \in P
  <2>1. \A k \in 0..(Len(q) - 1) : k \in P => k + 1 \in P
    BY <1>5
  <2>2. \A k \in 0..Len(q) : k \in P
    BY <1>3, <1>4, <2>1, UpTo
  <2>3. QED
    BY <1>3, <2>2
<1>7. PICK b \in Nat : Within(Len(q), b)
  BY <1>6 DEF P
<1>8. ASSUME NEW x \in Sizes PROVE x \in 0..b
  <2>1. CASE x \in {SyncLen, HeaderLen}
    BY <1>1, <1>7, <2>1
  <2>2. CASE \E h \in Headers : x = BodyLen[h]
    <3>1. PICK n \in 1..Len(q) : x = BodyLen[q[n]]
      BY <1>2, <2>2
    <3>2. QED
      BY <1>1, <1>3, <1>7, <3>1
  <2>3. QED
    BY <2>1, <2>2 DEF Sizes
<1>9. QED
  BY <1>8

LEMMA LargestSize == Max(Sizes) \in Nat /\ \A x \in Sizes : x <= Max(Sizes) /\ x \in Nat
<1>1. PICK b \in Nat : Sizes \subseteq 0..b
  BY SizesBounded
<1>2. SyncLen \in Sizes
  BY DEF Sizes
<1>3. \E x \in Sizes : \A y \in Sizes : y <= x
  BY <1>1, <1>2, GreatestElement
<1>4. \E x \in Sizes : \A y \in Sizes : x >= y
  BY <1>1, <1>3
<1>5. Max(Sizes) \in Sizes /\ \A y \in Sizes : Max(Sizes) >= y
  BY <1>4 DEF Max
<1>6. \A x \in Sizes : x \in Nat
  BY <1>1
<1> HIDE DEF Sizes
<1> DEFINE m == Max(Sizes)
<1>7. m \in Nat
  BY <1>5, <1>6
<1>8. ASSUME NEW x \in Sizes PROVE x <= m /\ x \in Nat
  <2>1. x \in Nat /\ m >= x
    BY <1>5, <1>6
  <2> HIDE DEF m
  <2>2. QED
    BY <1>7, <2>1
<1>9. QED
  BY <1>7, <1>8

\* Between two chunks the decoder holds back less than the largest thing it
\* may wait for, whatever came before; only a server list has no limit.
THEOREM BufferCorrect == DecoderSpec => [](DecoderTypeOK /\ BufferBounded)
<1>1. DecoderInv => DecoderTypeOK /\ BufferBounded
  <2> SUFFICES ASSUME DecoderInv PROVE DecoderTypeOK /\ BufferBounded
    OBVIOUS
  <2>1. Buffered /\ BlockHeld /\ (busy = FALSE => Stalled)
    BY DEF DecoderInv, FeedInv
  <2>2. Len(pending) = CASE state = "BlockBody" -> 1 [] state = "Validate" -> 2 [] OTHER -> 0
    <3>1. CASE state = "BlockBody"
      <4>1. PICK h \in Headers : pending = <<h>>
        BY <2>1, <3>1 DEF BlockHeld
      <4>2. QED
        BY <3>1, <4>1
    <3>2. CASE state = "Validate"
      <4>1. PICK h \in Headers : \E body : pending = <<h, body>>
        BY <2>1, <3>2 DEF BlockHeld
      <4>2. PICK body : pending = <<h, body>>
        BY <4>1
      <4>3. QED
        BY <3>2, <4>2
    <3>3. CASE state \notin {"BlockBody", "Validate"}
      BY <2>1, <3>3 DEF BlockHeld
    <3>4. QED
      BY <3>1, <3>2, <3>3
  <2>3. DecoderTypeOK
    BY <2>1, <2>2 DEF DecoderTypeOK, DecoderInv, Buffered, BlockHeld
  <2>4. ASSUME busy = FALSE, state # "ServerList" PROVE Len(buffer) < Max(Sizes)
    <3>1. Stalled /\ Len(buffer) \in Nat /\ state \in States
      BY <2>1, <2>4 DEF Buffered, BlockHeld
    <3>2. SyncLen \in Sizes /\ HeaderLen \in Sizes /\ \A h \in Headers : BodyLen[h] \in Sizes
      BY DEF Sizes
    <3> DEFINE m == Max(Sizes)
               n == Len(buffer)
    <3>3. m \in Nat /\ \A x \in Sizes : x <= m /\ x \in Nat
      BY LargestSize
    <3>a. n \in Nat
      BY <3>1
    <3>b. ASSUME NEW x \in Sizes, n < x PROVE n < m
      <4>1. x <= m /\ x \in Nat /\ n < x /\ m \in Nat
        BY <3>3, <3>b
      <4> HIDE DEF m, n
      <4>2. QED
        BY <3>a, <4>1
    <3>4. CASE state = "Resync"
      <4>1. n < SyncLen
        BY <3>1, <3>4, Lengths DEF Stalled
      <4>2. QED
        BY <3>2, <3>b, <4>1
    <3>5. CASE state \in {"StartFrame", "FrameType", "BlockHeader"}
      <4>1. HeaderLen = 3 /\ (buffer = <<>> => n = 0)
        BY DEF HeaderLen
      <4>2. n = 0 \/ n = 1 \/ n < HeaderLen
        <5>1. CASE state = "StartFrame"
          BY <3>1, <4>1, <5>1 DEF Stalled
        <5>2. CASE state = "FrameType"
          BY <3>1, <4>1, <5>2, Zenon DEF Stalled
        <5>3. CASE state = "BlockHeader"
          BY <3>1, <5>3 DEF Stalled
        <5>4. QED
          BY <3>5, <5>1, <5>2, <5>3
      <4>3. n < HeaderLen
        BY <3>a, <4>1, <4>2
      <4>4. QED
        BY <3>2, <3>b, <4>3
    <3>6. CASE state = "BlockBody"
      <4>1. PICK h \in Headers : pending = <<h>>
        BY <2>1, <3>6 DEF BlockHeld
      <4>2. n < BodyLen[h]
        BY <3>1, <3>6, <4>1 DEF Stalled
      <4>3. QED
        BY <3>2, <3>b, <4>2
    <3>7. QED
      BY <2>4, <3>1, <3>4, <3>5, <3>6 DEF States, Stalled
  <2>5. BufferBounded
    BY <2>4, Zenon DEF BufferBounded, Sizes, DecoderInv
  <2>6. QED
    BY <2>3, <2>5
<1>2. QED
  BY <1>1, DecoderInvariant, PTL

-----------------------------------------------------------------------------
(* The product parser: what the splitter keeps *)

\* The segments that hold the line n, and the number of the one being
\* collected.
At(n) == {s \in DOMAIN AllSegments : Holds(s, n)}
Cur == Len(segments) + 1

SplitTyped ==
    /\ lines \in Seq(LineKinds)
    /\ segments \in Seq(Seq(Nat)) /\ current \in Seq(Nat)
    /\ currentHasVtec \in BOOLEAN /\ currentHasGeography \in BOOLEAN
    /\ \A n \in Nat : At(n) # {} => n \in 1..Len(lines)

\* No line is in two segments, and no event code is in none.
EventsPlaced ==
    /\ \A n \in 1..Len(lines) : \A s, t \in At(n) : s = t
    /\ \A n \in 1..Len(lines) : LineHasVtec(lines[n]) => At(n) # {}

\* The segment being collected reaches to the last line read, and the two
\* flags tell what is in it.
CurrentReaches ==
    /\ \A m \in 1..Len(lines) : Cur \in At(m) =>
          \A k \in m..Len(lines) : Cur \in At(k) /\ lines[k] # "end"
    /\ currentHasVtec <=> \E m \in 1..Len(lines) : Cur \in At(m) /\ LineHasVtec(lines[m])
    /\ currentHasGeography <=> \E m \in 1..Len(lines) : Cur \in At(m) /\ LineHasGeography(lines[m])

\* Areas that wait for their event code, and an event code that waits for its
\* geography, are in that segment.
CurrentWaits ==
    \A m \in 1..Len(lines) :
        \/ Cur \in At(m)
        \/ ~IsUgcStart(lines[m]) /\ ~LineHasVtec(lines[m])
        \/ \E k \in (m + 1)..Len(lines) :
              \/ lines[k] = "end" \/ LineHasVtec(lines[k])
              \/ LineHasVtec(lines[m]) /\ IsUgcStart(lines[k])

\* The three parts of the promise about two lines m < n.
AreasAbove(m, n) ==
    /\ IsUgcStart(lines[m]) /\ LineHasVtec(lines[n])
    /\ \A k \in (m + 1)..(n - 1) : lines[k] # "end" /\ ~LineHasVtec(lines[k])

GeographyBelow(m, n) ==
    /\ LineHasVtec(lines[m]) /\ LineHasGeography(lines[n])
    /\ \A k \in (m + 1)..(n - 1) :
          lines[k] # "end" /\ ~LineHasVtec(lines[k]) /\ ~IsUgcStart(lines[k])

Apart(m, n) ==
    /\ LineHasVtec(lines[m])
    /\ \/ IsUgcStart(lines[n])
       \/ LineHasVtec(lines[n]) /\ \E k \in (m + 1)..(n - 1) : LineHasGeography(lines[k])

PairsCorrelated ==
    \A n \in 1..Len(lines), m \in 1..Len(lines) : m < n =>
        /\ AreasAbove(m, n) \/ GeographyBelow(m, n) => At(m) \cap At(n) # {}
        /\ Apart(m, n) => At(m) \cap At(n) = {}

\* A segment is a run of lines, and the last one of the text, if it is in a
\* segment, is in the one being collected.
Run(s) == \A i \in 1..Len(s) : s[i] = s[1] + i - 1

SegmentsRun ==
    /\ \A s \in 1..Len(segments) : Run(segments[s])
    /\ Run(current)
    /\ Len(current) > 0 => current[Len(current)] = Len(lines)

\* A run is broken only by $$, areas and event codes, holds no $$, and takes in
\* no event code behind another one and a polygon or a motion line.
LinesFollow ==
    /\ \A n \in 1..Len(lines) : lines[n] = "end" => At(n) = {}
    /\ \A n \in 1..Len(lines) : n = Len(lines) => At(n) \subseteq {Cur}
    /\ \A m, n \in 1..Len(lines) : n = m + 1 =>
          \/ At(m) \subseteq At(n)
          \/ lines[n] = "end" \/ IsUgcStart(lines[n]) \/ LineHasVtec(lines[n])
    /\ \A k, m, n \in 1..Len(lines) :
          k < n /\ m < n /\ LineHasGeography(lines[k]) /\ LineHasVtec(lines[m]) /\ LineHasVtec(lines[n])
              => At(k) \cap At(m) \cap At(n) = {}

SplitInv ==
    /\ SplitTyped /\ EventsPlaced /\ CurrentReaches /\ CurrentWaits /\ PairsCorrelated
    /\ SegmentsRun /\ LinesFollow

-----------------------------------------------------------------------------
(* What a line does to the segments *)

\* A line is in a finished segment, or in the one being collected.
Where(segs, cur, n) ==
    LET every == Append(segs, cur)
    IN  {s \in DOMAIN every : \E i \in DOMAIN every[s] : every[s][i] = n}

LEMMA Spread ==
    ASSUME NEW segs \in Seq(Seq(Nat)), NEW cur \in Seq(Nat), NEW n
    PROVE  /\ Where(segs, cur, n) \subseteq 1..(Len(segs) + 1)
           /\ \A s \in 1..Len(segs) : s \in Where(segs, cur, n) <=> \E i \in 1..Len(segs[s]) : segs[s][i] = n
           /\ Len(segs) + 1 \in Where(segs, cur, n) <=> \E i \in 1..Len(cur) : cur[i] = n
<1> DEFINE all == Append(segs, cur)
           last == Len(segs) + 1
           where == {s \in DOMAIN all : \E i \in DOMAIN all[s] : all[s][i] = n}
<1>1. Len(segs) \in Nat /\ DOMAIN all = 1..last
  BY Appended
<1>2. \A s \in 1..last : all[s] = IF s <= Len(segs) THEN segs[s] ELSE cur
  <2> SUFFICES ASSUME NEW s \in 1..last PROVE all[s] = IF s <= Len(segs) THEN segs[s] ELSE cur
    OBVIOUS
  <2>1. CASE s <= Len(segs)
    BY <1>1, <2>1, Appended
  <2>2. CASE s = last
    BY <1>1, <2>2, Appended
  <2>3. QED
    BY <1>1, <2>1, <2>2
<1>3. \A s \in 1..Len(segs) : DOMAIN segs[s] = 1..Len(segs[s])
  OBVIOUS
<1>4. DOMAIN cur = 1..Len(cur)
  OBVIOUS
<1> HIDE DEF all
<1>5. \A s \in 1..Len(segs) : s \in where <=> \E i \in 1..Len(segs[s]) : segs[s][i] = n
  BY <1>1, <1>2, <1>3
<1>6. last \in where <=> \E i \in 1..Len(cur) : cur[i] = n
  BY <1>1, <1>2, <1>4
<1>7. where \subseteq 1..last
  BY <1>1
<1>8. Where(segs, cur, n) = where
  BY DEF Where, all
<1> HIDE DEF where
<1>9. QED
  BY <1>5, <1>6, <1>7, <1>8, Zenon

LEMMA PlacesTyped ==
    ASSUME segments \in Seq(Seq(Nat)), current \in Seq(Nat), NEW n
    PROVE  /\ At(n) \subseteq 1..Cur
           /\ \A s \in 1..Len(segments) : s \in At(n) <=> \E i \in 1..Len(segments[s]) : segments[s][i] = n
           /\ Cur \in At(n) <=> \E i \in 1..Len(current) : current[i] = n
<1>2. At(n) = Where(segments, current, n) /\ Cur = Len(segments) + 1
  BY DEF At, Holds, AllSegments, Cur, Where
<1> DEFINE W == Where(segments, current, n)
<1>3. /\ W \subseteq 1..(Len(segments) + 1)
      /\ \A s \in 1..Len(segments) : s \in W <=> \E i \in 1..Len(segments[s]) : segments[s][i] = n
      /\ Len(segments) + 1 \in W <=> \E i \in 1..Len(current) : current[i] = n
  BY Spread
<1> HIDE DEF W
<1>4. QED
  BY <1>2, <1>3, SMT DEF W

LEMMA Places ==
    ASSUME SplitTyped, NEW n
    PROVE  /\ At(n) \subseteq 1..Cur
           /\ \A s \in 1..Len(segments) : s \in At(n) <=> \E i \in 1..Len(segments[s]) : segments[s][i] = n
           /\ Cur \in At(n) <=> \E i \in 1..Len(current) : current[i] = n
  BY PlacesTyped, Zenon DEF SplitTyped

\* The ways through one turn of the loop: a line outside of every segment is
\* passed over, or is added to the segment being collected; $$ ends that
\* segment, or drops it if it has no event code; and a boundary ends it and
\* starts the next one.
New == Len(lines) + 1

Passes(kind) ==
    /\ kind # "end" /\ ~LooksLikeEventContent(kind) /\ current = <<>>
    /\ UNCHANGED <<segments, current, currentHasVtec, currentHasGeography>>

Grows(kind) ==
    /\ kind # "end" /\ ~Boundary(kind)
    /\ segments' = segments /\ current' = Append(current, New)
    /\ currentHasVtec' = (currentHasVtec \/ LineHasVtec(kind))
    /\ currentHasGeography' = (currentHasGeography \/ LineHasGeography(kind))

Ends(kind) ==
    /\ kind = "end" /\ current' = <<>>
    /\ ~currentHasVtec' /\ ~currentHasGeography'
    /\ segments' = Append(segments, current)

Drops(kind) ==
    /\ kind = "end" /\ current' = <<>>
    /\ ~currentHasVtec' /\ ~currentHasGeography'
    /\ segments' = segments
    /\ \A i \in DOMAIN current : ~LineHasVtec(lines[current[i]])

Starts(kind) ==
    /\ kind # "end" /\ Boundary(kind)
    /\ segments' = Append(segments, current) /\ current' = <<New>>
    /\ currentHasVtec' = LineHasVtec(kind)
    /\ currentHasGeography' = LineHasGeography(kind)

LEMMA WaysToRead ==
    ASSUME SplitInv, NEW kind \in LineKinds, ReadLine(kind)
    PROVE  /\ lines' = Append(lines, kind)
           /\ Passes(kind) \/ Grows(kind) \/ Ends(kind) \/ Drops(kind) \/ Starts(kind)
<1>1. ASSUME currentHasVtec PROVE \E i \in DOMAIN current : LineHasVtec(lines[current[i]])
  <2>1. PICK m \in 1..Len(lines) : Cur \in At(m) /\ LineHasVtec(lines[m])
    BY <1>1, Zenon DEF SplitInv, CurrentReaches
  <2>2. PICK i \in 1..Len(current) : current[i] = m
    BY <2>1, Places, Zenon DEF SplitInv
  <2>3. i \in DOMAIN current
    BY DEF SplitInv, SplitTyped
  <2>4. QED
    BY <2>1, <2>2, <2>3, Zenon
<1>2. Boundary(kind) => LooksLikeEventContent(kind) /\ currentHasVtec
  BY DEF Boundary, LooksLikeEventContent
<1>3. currentHasVtec \in BOOLEAN /\ currentHasGeography \in BOOLEAN
  BY DEF SplitInv, SplitTyped
<1>4. CASE kind = "end"
  BY <1>4 DEF ReadLine, Pushed, Ends, Drops
<1>5. CASE kind # "end" /\ Boundary(kind)
  <2>1. Pushed = Append(segments, current)
    BY <1>1, <1>2, <1>5 DEF Pushed
  <2>2. QED
    BY <1>2, <1>5, <2>1 DEF ReadLine, Starts, New, LineHasVtec, LineHasGeography
<1>6. CASE kind # "end" /\ ~Boundary(kind) /\ (current # <<>> \/ LooksLikeEventContent(kind))
  BY <1>3, <1>6 DEF ReadLine, Grows, New, LineHasVtec, LineHasGeography
<1>7. CASE kind # "end" /\ ~Boundary(kind) /\ current = <<>> /\ ~LooksLikeEventContent(kind)
  BY <1>3, <1>7 DEF ReadLine, Passes
<1>8. QED
  BY <1>4, <1>5, <1>6, <1>7 DEF ReadLine

\* A turn of the loop keeps the types.
LEMMA SplitTypes ==
    ASSUME SplitInv, NEW kind \in LineKinds, ReadLine(kind)
    PROVE  /\ lines' \in Seq(LineKinds) /\ Len(lines') = New /\ Len(lines) \in Nat
           /\ lines'[New] = kind /\ \A n \in 1..Len(lines) : lines'[n] = lines[n]
           /\ segments' \in Seq(Seq(Nat)) /\ current' \in Seq(Nat)
           /\ currentHasVtec' \in BOOLEAN /\ currentHasGeography' \in BOOLEAN
<1>1. SplitTyped
  BY DEF SplitInv
<1>2. /\ lines' = Append(lines, kind)
      /\ Passes(kind) \/ Grows(kind) \/ Ends(kind) \/ Drops(kind) \/ Starts(kind)
  BY WaysToRead
<1>3. /\ lines' \in Seq(LineKinds) /\ Len(lines') = New /\ Len(lines) \in Nat
      /\ lines'[New] = kind /\ \A n \in 1..Len(lines) : lines'[n] = lines[n]
  BY <1>1, <1>2, Appended DEF SplitTyped, New
<1>4. New \in Nat
  BY <1>3 DEF New
<1>5. /\ Append(segments, current) \in Seq(Seq(Nat)) /\ Append(current, New) \in Seq(Nat)
      /\ <<New>> \in Seq(Nat) /\ <<>> \in Seq(Nat)
  BY <1>1, <1>4, Appended DEF SplitTyped
<1>6. segments' \in Seq(Seq(Nat)) /\ current' \in Seq(Nat)
  <2>1. segments' = segments \/ segments' = Append(segments, current)
    BY <1>2 DEF Passes, Grows, Ends, Drops, Starts
  <2>2. current' = current \/ current' = Append(current, New) \/ current' = <<>> \/ current' = <<New>>
    BY <1>2 DEF Passes, Grows, Ends, Drops, Starts
  <2>3. QED
    BY <1>1, <1>5, <2>1, <2>2, Zenon DEF SplitTyped
<1>7. currentHasVtec' \in BOOLEAN /\ currentHasGeography' \in BOOLEAN
  BY <1>1 DEF SplitTyped, ReadLine
<1>8. QED
  BY <1>3, <1>6, <1>7

\* Where the lines are after a turn of the loop.
LEMMA PlacesAfter ==
    ASSUME SplitInv, NEW kind \in LineKinds, ReadLine(kind), NEW n
    PROVE  /\ At(n)' \subseteq 1..Cur'
           /\ \A s \in 1..Len(segments') : s \in At(n)' <=> \E i \in 1..Len(segments'[s]) : segments'[s][i] = n
           /\ Cur' \in At(n)' <=> \E i \in 1..Len(current') : current'[i] = n
<1>1. segments' \in Seq(Seq(Nat)) /\ current' \in Seq(Nat)
  BY SplitTypes
<1>2. At(n)' = Where(segments', current', n) /\ Cur' = Len(segments') + 1
  BY DEF At, Holds, AllSegments, Cur, Where
<1> DEFINE W == Where(segments', current', n)
<1>3. /\ W \subseteq 1..(Len(segments') + 1)
      /\ \A s \in 1..Len(segments') : s \in W <=> \E i \in 1..Len(segments'[s]) : segments'[s][i] = n
      /\ Len(segments') + 1 \in W <=> \E i \in 1..Len(current') : current'[i] = n
  BY <1>1, Spread
<1> HIDE DEF W
<1>4. QED
  BY <1>2, <1>3, SMT DEF W

\* The new line is in no segment yet.
LEMMA NewIsNew ==
    ASSUME SplitTyped
    PROVE  /\ At(New) = {} /\ Len(lines) \in Nat /\ New \in Nat /\ Len(segments) \in Nat
           /\ \A s \in 1..Len(segments) : \A i \in 1..Len(segments[s]) : segments[s][i] # New
           /\ \A i \in 1..Len(current) : current[i] # New
<1>1. Len(lines) \in Nat /\ New \in Nat /\ Len(segments) \in Nat
  BY DEF SplitTyped, New
<1>2. At(New) = {}
  BY <1>1 DEF SplitTyped, New
<1>3. QED
  BY <1>1, <1>2, Places

\* The other lines stay where they were.
Kept == \A n : n # New => At(n)' = At(n)

\* The new line is then in the segments S.
NewIn(S) == \A n : n = New => At(n)' = S

LEMMA AfterPass ==
    ASSUME SplitInv, NEW kind \in LineKinds, ReadLine(kind), Passes(kind)
    PROVE  /\ Cur' = Cur /\ Kept /\ NewIn({})
           /\ \A n \in 1..Len(lines) : Cur \notin At(n)
<1>1. SplitTyped
  BY DEF SplitInv
<1>2. Cur' = Cur /\ \A n : At(n)' = At(n)
  BY DEF Passes, Cur, At, Holds, AllSegments
<1>3. \A n \in 1..Len(lines) : Cur \notin At(n)
  BY <1>1, Places DEF Passes
<1>4. QED
  BY <1>1, <1>2, <1>3, NewIsNew DEF Kept, NewIn

LEMMA AfterGrow ==
    ASSUME SplitInv, NEW kind \in LineKinds, ReadLine(kind), Grows(kind)
    PROVE  Cur' = Cur /\ Kept /\ NewIn({Cur})
<1>1. SplitTyped
  BY DEF SplitInv
<1>2. Cur' = Cur /\ segments' = segments /\ current' = Append(current, New)
  BY DEF Grows, Cur
<1>3. /\ Len(current') = Len(current) + 1 /\ current'[Len(current) + 1] = New
      /\ Len(current) \in Nat /\ \A i \in 1..Len(current) : current'[i] = current[i]
  BY <1>1, <1>2, NewIsNew, Appended DEF SplitTyped
<1>4. ASSUME NEW n PROVE \A s \in 1..Len(segments) : s \in At(n)' <=> s \in At(n)
  BY <1>1, <1>2, Places, PlacesAfter, SMTT(40)
<1>5. ASSUME NEW n, n # New PROVE Cur \in At(n)' <=> Cur \in At(n)
  <2>1. (\E i \in 1..Len(current') : current'[i] = n) <=> (\E i \in 1..Len(current) : current[i] = n)
    BY <1>3, <1>5
  <2>2. QED
    BY <1>1, <1>2, <2>1, Places, PlacesAfter
<1>6. \A n : n = New => Cur \in At(n)'
  <2>1. \E i \in 1..Len(current') : current'[i] = New
    BY <1>3
  <2>2. QED
    BY <1>2, <2>1, PlacesAfter
<1>7. \A n : At(n)' \subseteq 1..Cur /\ At(n) \subseteq 1..Cur
  BY <1>1, <1>2, Places, PlacesAfter
<1>8. \A s \in 1..Cur : s \in 1..Len(segments) \/ s = Cur
  BY <1>1, NewIsNew DEF Cur
<1>9. Kept
  <2> SUFFICES ASSUME NEW n, n # New PROVE At(n)' = At(n)
    BY DEF Kept
  <2>1. \A s \in 1..Cur : s \in At(n)' <=> s \in At(n)
    BY <1>4, <1>5, <1>8
  <2>2. QED
    BY <1>7, <2>1
<1>10. NewIn({Cur})
  BY <1>1, <1>4, <1>6, <1>7, <1>8, NewIsNew DEF NewIn
<1>11. QED
  BY <1>2, <1>9, <1>10

\* Where the lines are once the segment is pushed.
LEMMA AfterPush ==
    ASSUME SplitInv, NEW kind \in LineKinds, ReadLine(kind), segments' = Append(segments, current),
           \A i \in 1..Len(current') : current'[i] = New
    PROVE  /\ Cur' = Cur + 1 /\ Cur \in Nat /\ Kept
           /\ \A n : n = New => At(n)' \subseteq {Cur + 1}
<1>1. SplitTyped
  BY DEF SplitInv
<1>2. /\ Len(segments') = Len(segments) + 1 /\ segments'[Cur] = current
      /\ Len(segments) \in Nat /\ \A s \in 1..Len(segments) : segments'[s] = segments[s]
  BY <1>1, Appended DEF SplitTyped, Cur
<1>3. Cur' = Cur + 1 /\ Cur \in Nat /\ Len(segments') = Cur
  BY <1>2 DEF Cur
<1>4. ASSUME NEW n PROVE \A s \in 1..Cur : s \in At(n)' <=> s \in At(n)
  <2>1. \A s \in 1..Len(segments) : s \in At(n)' <=> s \in At(n)
    BY <1>1, <1>2, <1>3, Places, PlacesAfter
  <2>2. Cur \in At(n)' <=> Cur \in At(n)
    BY <1>1, <1>2, <1>3, Places, PlacesAfter
  <2>3. QED
    BY <1>2, <2>1, <2>2 DEF Cur
<1>5. \A n : At(n)' \subseteq 1..Cur' /\ At(n) \subseteq 1..Cur
  BY <1>1, Places, PlacesAfter
<1>6. \A n : n # New => Cur' \notin At(n)'
  BY PlacesAfter
<1>7. \A s \in 1..Cur' : s \in 1..Cur \/ s = Cur'
  BY <1>3
<1>8. Kept
  <2> SUFFICES ASSUME NEW n, n # New PROVE At(n)' = At(n)
    BY DEF Kept
  <2>1. \A s \in At(n)' : s \in 1..Cur
    BY <1>5, <1>6, <1>7
  <2>2. \A s \in 1..Cur : s \in At(n)' <=> s \in At(n)
    BY <1>4
  <2>3. At(n) \subseteq 1..Cur
    BY <1>5
  <2>4. QED
    BY <2>1, <2>2, <2>3, Zenon
<1>9. \A n : n = New => At(n)' \subseteq {Cur + 1}
  BY <1>1, <1>3, <1>4, <1>5, <1>7, NewIsNew
<1>10. QED
  BY <1>3, <1>8, <1>9

LEMMA AfterEnd ==
    ASSUME SplitInv, NEW kind \in LineKinds, ReadLine(kind), Ends(kind)
    PROVE  Cur' = Cur + 1 /\ Cur \in Nat /\ Kept /\ NewIn({})
<1>1. current' = <<>> /\ Len(current') = 0 /\ segments' = Append(segments, current)
  BY DEF Ends
<1>2. /\ Cur' = Cur + 1 /\ Cur \in Nat /\ Kept
      /\ \A n : n = New => At(n)' \subseteq {Cur + 1}
  BY <1>1, AfterPush
<1>3. \A n : Cur' \notin At(n)'
  BY <1>1, PlacesAfter
<1>4. QED
  BY <1>2, <1>3 DEF NewIn

LEMMA AfterStart ==
    ASSUME SplitInv, NEW kind \in LineKinds, ReadLine(kind), Starts(kind)
    PROVE  Cur' = Cur + 1 /\ Cur \in Nat /\ Kept /\ NewIn({Cur + 1})
<1>1. Len(current') = 1 /\ current'[1] = New /\ segments' = Append(segments, current)
  BY DEF Starts
<1>2. /\ Cur' = Cur + 1 /\ Cur \in Nat /\ Kept
      /\ \A n : n = New => At(n)' \subseteq {Cur + 1}
  BY <1>1, AfterPush
<1>3. \A n : n = New => Cur' \in At(n)'
  BY <1>1, PlacesAfter
<1>4. QED
  BY <1>2, <1>3 DEF NewIn

LEMMA AfterDrop ==
    ASSUME SplitInv, NEW kind \in LineKinds, ReadLine(kind), Drops(kind)
    PROVE  /\ Cur' = Cur /\ NewIn({})
           /\ \A n : At(n)' = At(n) \ {Cur}
           /\ \A n \in 1..Len(lines) : LineHasVtec(lines[n]) => Cur \notin At(n)
<1>1. SplitTyped
  BY DEF SplitInv
<1>2. Cur' = Cur /\ segments' = segments /\ Len(current') = 0
  BY DEF Drops, Cur
<1>3. ASSUME NEW n PROVE \A s \in 1..Len(segments) : s \in At(n)' <=> s \in At(n)
  BY <1>1, <1>2, Places, PlacesAfter
<1>4. \A n : At(n)' \subseteq 1..Cur /\ At(n) \subseteq 1..Cur /\ Cur \notin At(n)'
  BY <1>1, <1>2, Places, PlacesAfter
<1>5. \A s \in 1..Cur : s \in 1..Len(segments) \/ s = Cur
  BY <1>1, NewIsNew DEF Cur
<1>6. \A n : At(n)' = At(n) \ {Cur}
  BY <1>3, <1>4, <1>5
<1>7. \A n \in 1..Len(lines) : LineHasVtec(lines[n]) => Cur \notin At(n)
  <2>1. DOMAIN current = 1..Len(current)
    BY <1>1 DEF SplitTyped
  <2>2. QED
    BY <1>1, <2>1, Places DEF Drops
<1>8. QED
  BY <1>1, <1>2, <1>6, <1>7, NewIsNew DEF NewIn

\* What all ways have in common.
LEMMA OldLines ==
    ASSUME SplitInv, NEW kind \in LineKinds, ReadLine(kind)
    PROVE  /\ \A n : n # New => At(n)' \subseteq At(n)
           /\ \A n \in 1..Len(lines) : n # New
           /\ \A n \in 1..Len(lines) : LineHasVtec(lines[n]) => At(n)' = At(n)
           /\ \A m, n \in 1..Len(lines) : (LineHasVtec(lines[n]) /\ At(m) \cap At(n) # {})
                  => At(m)' \cap At(n)' # {}
<1>0. \A n \in 1..Len(lines) : n # New
  BY NewIsNew DEF SplitInv, New
<1>1. CASE Kept
  BY <1>0, <1>1 DEF Kept
<1>2. CASE Drops(kind)
  BY <1>0, <1>2, AfterDrop
<1>3. QED
  BY <1>1, <1>2, WaysToRead, AfterPass, AfterGrow, AfterEnd, AfterStart

LEMMA NewLine ==
    ASSUME SplitInv, NEW kind \in LineKinds, ReadLine(kind)
    PROVE  \/ NewIn({}) /\ ~LineHasVtec(kind) /\ (kind = "end" \/ ~LooksLikeEventContent(kind))
           \/ NewIn({Cur}) /\ Kept /\ Cur' = Cur /\ Grows(kind)
           \/ NewIn({Cur + 1}) /\ Kept /\ Cur' = Cur + 1 /\ Cur \in Nat /\ Starts(kind)
<1>1. CASE Passes(kind)
  BY <1>1, AfterPass DEF Passes, LooksLikeEventContent
<1>2. CASE Ends(kind)
  BY <1>2, AfterEnd DEF Ends, LineHasVtec
<1>3. CASE Drops(kind)
  BY <1>3, AfterDrop DEF Drops, LineHasVtec
<1>4. QED
  BY <1>1, <1>2, <1>3, WaysToRead, AfterGrow, AfterStart

LEMMA TypedStep ==
    ASSUME SplitInv, NEW kind \in LineKinds, ReadLine(kind)
    PROVE  SplitTyped'
<1>1. Len(lines') = New /\ Len(lines) \in Nat /\ New = Len(lines) + 1
  BY SplitTypes DEF New
<1>2. SplitTyped
  BY DEF SplitInv
<1>3. ASSUME NEW n \in Nat, At(n)' # {} PROVE n \in 1..Len(lines')
  <2> SUFFICES ASSUME n # New PROVE At(n) # {}
    BY <1>1, <1>2 DEF SplitTyped
  <2>1. QED
    BY <1>3, OldLines
<1>4. QED
  BY <1>3, SplitTypes DEF SplitTyped

LEMMA PlacedStep ==
    ASSUME SplitInv, NEW kind \in LineKinds, ReadLine(kind)
    PROVE  EventsPlaced'
<1>1. /\ Len(lines') = New /\ Len(lines) \in Nat /\ New = Len(lines) + 1
      /\ lines'[New] = kind /\ \A n \in 1..Len(lines) : lines'[n] = lines[n]
  BY SplitTypes DEF New
<1>2. ASSUME NEW n \in 1..Len(lines)
      PROVE  /\ \A s, t \in At(n)' : s = t
             /\ LineHasVtec(lines'[n]) => At(n)' # {}
  BY <1>1, OldLines DEF SplitInv, EventsPlaced
<1>3. ASSUME NEW n, n = New
      PROVE  /\ \A s, t \in At(n)' : s = t
             /\ LineHasVtec(lines'[n]) => At(n)' # {}
  <2>1. lines'[n] = kind
    BY <1>1, <1>3
  <2>2. CASE NewIn({}) /\ ~LineHasVtec(kind)
    BY <1>3, <2>1, <2>2 DEF NewIn
  <2>3. CASE NewIn({Cur}) \/ NewIn({Cur + 1})
    BY <1>3, <2>3 DEF NewIn
  <2>4. QED
    BY <2>2, <2>3, NewLine
<1>4. \A n \in 1..Len(lines') : n \in 1..Len(lines) \/ n = New
  BY <1>1
<1>5. QED
  BY <1>2, <1>3, <1>4 DEF EventsPlaced

LEMMA ReachesStep ==
    ASSUME SplitInv, NEW kind \in LineKinds, ReadLine(kind)
    PROVE  CurrentReaches'
<1>1. /\ Len(lines') = New /\ Len(lines) \in Nat /\ New = Len(lines) + 1
      /\ lines'[New] = kind /\ \A n \in 1..Len(lines) : lines'[n] = lines[n]
  BY SplitTypes DEF New
<1>2. \A n \in 1..Len(lines') : n \in 1..Len(lines) \/ n = New
  BY <1>1
<1> DEFINE Within(m) == Cur' \in At(m)'
<1>3. CASE Passes(kind) \/ Ends(kind) \/ Drops(kind)
  <2>1. \A m \in 1..Len(lines') : ~Within(m)
    <3>1. CASE Passes(kind)
      BY <1>2, <3>1, AfterPass DEF NewIn, Kept
    <3>2. CASE Ends(kind)
      <4>1. \A m \in 1..Len(lines) : Cur + 1 \notin At(m)
        BY <3>2, AfterEnd, Places DEF SplitInv
      <4>2. QED
        BY <1>2, <3>2, <4>1, AfterEnd DEF NewIn, Kept
    <3>3. CASE Drops(kind)
      BY <1>2, <3>3, AfterDrop DEF NewIn
    <3>4. QED
      BY <1>3, <3>1, <3>2, <3>3
  <2>2. ~currentHasVtec' /\ ~currentHasGeography'
    <3>1. CASE Passes(kind)
      BY <3>1, AfterPass DEF Passes, SplitInv, CurrentReaches
    <3>2. QED
      BY <1>3, <3>1 DEF Ends, Drops
  <2>3. QED
    BY <2>1, <2>2 DEF CurrentReaches
<1>4. CASE Grows(kind)
  <2>1. Cur' = Cur /\ Kept /\ NewIn({Cur})
    BY <1>4, AfterGrow
  <2>2. \A m \in 1..Len(lines) : Within(m) <=> Cur \in At(m)
    BY <2>1, OldLines DEF Kept
  <2>3. \A m : m = New => Within(m)
    BY <2>1 DEF NewIn
  <2>4. kind # "end"
    BY <1>4 DEF Grows
  <2> HIDE DEF Within
  <2>5. ASSUME NEW m \in 1..Len(lines'), Within(m), NEW k \in m..Len(lines')
        PROVE  Within(k) /\ lines'[k] # "end"
    BY <1>1, <1>2, <2>2, <2>3, <2>4, <2>5 DEF SplitInv, CurrentReaches
  <2>6. currentHasVtec' <=> \E m \in 1..Len(lines') : Within(m) /\ LineHasVtec(lines'[m])
    <3>1. currentHasVtec' <=> (currentHasVtec \/ LineHasVtec(kind))
      BY <1>4 DEF Grows
    <3>2. QED
      BY <1>1, <1>2, <2>2, <2>3, <3>1 DEF SplitInv, CurrentReaches
  <2>7. currentHasGeography' <=> \E m \in 1..Len(lines') : Within(m) /\ LineHasGeography(lines'[m])
    <3>1. currentHasGeography' <=> (currentHasGeography \/ LineHasGeography(kind))
      BY <1>4 DEF Grows
    <3>2. QED
      BY <1>1, <1>2, <2>2, <2>3, <3>1 DEF SplitInv, CurrentReaches
  <2>8. QED
    BY <2>5, <2>6, <2>7 DEF CurrentReaches, Within
<1>5. CASE Starts(kind)
  <2>1. Cur' = Cur + 1 /\ Kept /\ NewIn({Cur + 1})
    BY <1>5, AfterStart
  <2>2. \A m \in 1..Len(lines) : ~Within(m)
    <3>1. \A m \in 1..Len(lines) : Cur + 1 \notin At(m)
      BY <1>5, AfterStart, Places DEF SplitInv
    <3>2. QED
      BY <2>1, <3>1, OldLines DEF Kept
  <2>3. \A m : m = New => Within(m)
    BY <2>1 DEF NewIn
  <2>4. kind # "end"
    BY <1>5 DEF Starts
  <2> HIDE DEF Within
  <2>5. ASSUME NEW m \in 1..Len(lines'), Within(m), NEW k \in m..Len(lines')
        PROVE  Within(k) /\ lines'[k] # "end"
    BY <1>1, <1>2, <2>2, <2>3, <2>4, <2>5
  <2>6. currentHasVtec' <=> \E m \in 1..Len(lines') : Within(m) /\ LineHasVtec(lines'[m])
    BY <1>1, <1>2, <1>5, <2>2, <2>3 DEF Starts
  <2>7. currentHasGeography' <=> \E m \in 1..Len(lines') : Within(m) /\ LineHasGeography(lines'[m])
    BY <1>1, <1>2, <1>5, <2>2, <2>3 DEF Starts
  <2>8. QED
    BY <2>5, <2>6, <2>7 DEF CurrentReaches, Within
<1>6. QED
  BY <1>3, <1>4, <1>5, WaysToRead

LEMMA WaitsStep ==
    ASSUME SplitInv, NEW kind \in LineKinds, ReadLine(kind)
    PROVE  CurrentWaits'
<1>1. /\ Len(lines') = New /\ Len(lines) \in Nat /\ New = Len(lines) + 1
      /\ lines'[New] = kind /\ \A n \in 1..Len(lines) : lines'[n] = lines[n]
  BY SplitTypes DEF New
<1> DEFINE Awaits(m) == IsUgcStart(lines'[m]) \/ LineHasVtec(lines'[m])
           Served(m) == \E k \in (m + 1)..Len(lines') :
                            \/ lines'[k] = "end" \/ LineHasVtec(lines'[k])
                            \/ LineHasVtec(lines'[m]) /\ IsUgcStart(lines'[k])
<1> SUFFICES ASSUME NEW m \in 1..Len(lines'), Cur' \notin At(m)', Awaits(m) PROVE Served(m)
  BY DEF CurrentWaits
<1>2. CASE m = New
  <2>1. lines'[m] = kind
    BY <1>1, <1>2
  <2>2. LooksLikeEventContent(kind) /\ kind # "end"
    BY <2>1 DEF LooksLikeEventContent, IsUgcStart, LineHasVtec
  <2>3. QED
    BY <1>2, <2>2, NewLine DEF NewIn
<1>3. CASE m \in 1..Len(lines)
  <2>1. lines'[m] = lines[m] /\ m # New
    BY <1>1, <1>3
  <2>2. ASSUME Cur \notin At(m) PROVE Served(m)
    <3>1. PICK k \in (m + 1)..Len(lines) :
              \/ lines[k] = "end" \/ LineHasVtec(lines[k])
              \/ LineHasVtec(lines[m]) /\ IsUgcStart(lines[k])
      BY <1>3, <2>1, <2>2 DEF SplitInv, CurrentWaits
    <3>2. k \in (m + 1)..Len(lines') /\ lines'[k] = lines[k]
      BY <1>1, <1>3, <3>1
    <3>3. QED
      BY <2>1, <3>1, <3>2
  <2>3. New \in (m + 1)..Len(lines')
    BY <1>1, <1>3
  <2>4. CASE kind = "end"
    BY <1>1, <2>3, <2>4
  <2>5. CASE Passes(kind) \/ Grows(kind)
    <3>1. Cur' = Cur /\ Kept
      BY <2>5, AfterPass, AfterGrow
    <3>2. QED
      BY <2>1, <2>2, <3>1 DEF Kept
  <2>6. CASE Starts(kind) /\ Cur \in At(m)
    <3>1. LineHasVtec(kind) \/ (IsUgcStart(kind) /\ currentHasVtec)
      BY <2>6 DEF Starts, Boundary
    <3>2. CASE LineHasVtec(kind) \/ LineHasVtec(lines[m])
      BY <1>1, <2>1, <2>3, <3>1, <3>2
    <3>3. CASE IsUgcStart(lines[m]) /\ currentHasVtec
      <4>1. PICK j \in 1..Len(lines) : Cur \in At(j) /\ LineHasVtec(lines[j])
        BY <3>3 DEF SplitInv, CurrentReaches
      <4>2. ~(j < m)
        <5>1. Cur \in At(j) \cap At(m)
          BY <2>6, <4>1
        <5>2. j < m => Apart(j, m)
          BY <3>3, <4>1 DEF Apart
        <5>3. QED
          BY <1>3, <4>1, <5>1, <5>2 DEF SplitInv, PairsCorrelated
      <4>3. j # m
        BY <3>3, <4>1 DEF IsUgcStart, LineHasVtec
      <4>4. j \in (m + 1)..Len(lines') /\ lines'[j] = lines[j]
        BY <1>1, <1>3, <4>1, <4>2, <4>3
      <4>5. QED
        BY <4>1, <4>4
    <3>4. QED
      BY <2>1, <3>1, <3>2, <3>3
  <2>7. QED
    BY <2>2, <2>4, <2>5, <2>6, WaysToRead DEF Ends, Drops
<1>4. QED
  BY <1>1, <1>2, <1>3

\* The three parts are about lines up to n only.
LEMMA SamePairs ==
    ASSUME SplitInv, NEW kind \in LineKinds, ReadLine(kind),
           NEW n \in 1..Len(lines), NEW m \in 1..Len(lines), m < n
    PROVE  /\ AreasAbove(m, n)' <=> AreasAbove(m, n)
           /\ GeographyBelow(m, n)' <=> GeographyBelow(m, n)
           /\ Apart(m, n)' <=> Apart(m, n)
<1>1. Len(lines) \in Nat /\ \A k \in 1..Len(lines) : lines'[k] = lines[k]
  BY SplitTypes
<1>2. \A k \in (m + 1)..(n - 1) : lines'[k] = lines[k]
  BY <1>1
<1>3. lines'[m] = lines[m] /\ lines'[n] = lines[n]
  BY <1>1
<1>4. QED
  BY <1>2, <1>3 DEF AreasAbove, GeographyBelow, Apart

LEMMA PairsStep ==
    ASSUME SplitInv, NEW kind \in LineKinds, ReadLine(kind)
    PROVE  PairsCorrelated'
<1>1. /\ Len(lines') = New /\ Len(lines) \in Nat /\ New = Len(lines) + 1
      /\ lines'[New] = kind /\ \A n \in 1..Len(lines) : lines'[n] = lines[n]
  BY SplitTypes DEF New
<1> SUFFICES ASSUME NEW n \in 1..Len(lines'), NEW m \in 1..Len(lines'), m < n
             PROVE  /\ AreasAbove(m, n)' \/ GeographyBelow(m, n)' => At(m)' \cap At(n)' # {}
                    /\ Apart(m, n)' => At(m)' \cap At(n)' = {}
  BY DEF PairsCorrelated
<1>2. m \in 1..Len(lines) /\ m # New /\ lines'[m] = lines[m]
  BY <1>1
<1>3. CASE n \in 1..Len(lines)
  <2>1. AreasAbove(m, n)' \/ GeographyBelow(m, n)' => At(m) \cap At(n) # {}
    BY <1>2, <1>3, SamePairs DEF SplitInv, PairsCorrelated
  <2>2. Apart(m, n)' => At(m) \cap At(n) = {}
    BY <1>2, <1>3, SamePairs DEF SplitInv, PairsCorrelated
  <2>3. AreasAbove(m, n)' \/ GeographyBelow(m, n)' => LineHasVtec(lines[n]) \/ LineHasVtec(lines[m])
    BY <1>2, <1>3, SamePairs DEF AreasAbove, GeographyBelow
  <2>4. QED
    BY <1>2, <1>3, <2>1, <2>2, <2>3, OldLines
<1>4. CASE n = New
  <2>1. lines'[n] = kind /\ \A k \in (m + 1)..(n - 1) : k \in 1..Len(lines) /\ lines'[k] = lines[k]
    BY <1>1, <1>2, <1>4
  <2>2. ASSUME AreasAbove(m, n)' \/ GeographyBelow(m, n)' PROVE Cur \in At(m)
    <3>1. ~\E k \in (m + 1)..Len(lines) :
              \/ lines[k] = "end" \/ LineHasVtec(lines[k])
              \/ LineHasVtec(lines[m]) /\ IsUgcStart(lines[k])
      BY <1>1, <1>2, <1>4, <2>1, <2>2 DEF AreasAbove, GeographyBelow, IsUgcStart, LineHasVtec
    <3>2. IsUgcStart(lines[m]) \/ LineHasVtec(lines[m])
      BY <1>2, <2>2 DEF AreasAbove, GeographyBelow
    <3>3. QED
      BY <1>2, <3>1, <3>2 DEF SplitInv, CurrentWaits
  <2>3. ASSUME AreasAbove(m, n)' PROVE ~Starts(kind)
    <3> SUFFICES ASSUME Starts(kind) PROVE FALSE
      OBVIOUS
    <3>1. currentHasVtec
      BY DEF Starts, Boundary
    <3>2. PICK j \in 1..Len(lines) : Cur \in At(j) /\ LineHasVtec(lines[j])
      BY <3>1 DEF SplitInv, CurrentReaches
    <3>3. IsUgcStart(lines[m]) /\ \A k \in (m + 1)..Len(lines) : ~LineHasVtec(lines[k])
      BY <1>1, <1>2, <1>4, <2>1, <2>3 DEF AreasAbove
    <3>4. j < m
      BY <1>1, <1>2, <3>2, <3>3 DEF IsUgcStart, LineHasVtec
    <3>5. Apart(j, m)
      BY <3>2, <3>3 DEF Apart
    <3>6. Cur \in At(j) \cap At(m)
      BY <2>2, <2>3, <3>2
    <3>7. QED
      BY <1>2, <3>2, <3>4, <3>5, <3>6 DEF SplitInv, PairsCorrelated
  <2>4. ASSUME GeographyBelow(m, n)' PROVE ~Starts(kind)
    BY <2>1, <2>4 DEF GeographyBelow, Starts, Boundary, LineHasGeography, LineHasVtec, IsUgcStart
  <2>5. AreasAbove(m, n)' \/ GeographyBelow(m, n)' => LooksLikeEventContent(kind) /\ kind # "end"
    BY <2>1 DEF AreasAbove, GeographyBelow, LooksLikeEventContent, LineHasVtec, LineHasGeography
  <2>6. AreasAbove(m, n)' \/ GeographyBelow(m, n)' => At(m)' \cap At(n)' # {}
    <3> SUFFICES ASSUME AreasAbove(m, n)' \/ GeographyBelow(m, n)' PROVE Cur \in At(m)' \cap At(n)'
      OBVIOUS
    <3>1. NewIn({Cur}) /\ Kept
      BY <2>3, <2>4, <2>5, NewLine
    <3>2. QED
      BY <1>2, <1>4, <2>2, <3>1 DEF NewIn, Kept
  <2>7. ASSUME Apart(m, n)' PROVE At(m)' \cap At(n)' = {}
    <3>1. CASE NewIn({})
      BY <1>4, <3>1 DEF NewIn
    <3>2. CASE NewIn({Cur}) /\ Kept /\ Grows(kind)
      <4> SUFFICES ASSUME Cur \in At(m) PROVE FALSE
        BY <1>2, <1>4, <3>2 DEF NewIn, Kept
      <4>1. LineHasVtec(lines[m]) /\ (IsUgcStart(kind) \/ LineHasVtec(kind))
        BY <1>2, <2>1, <2>7 DEF Apart
      <4>2. currentHasVtec /\ current # <<>>
        <5>1. currentHasVtec
          BY <1>2, <4>1 DEF SplitInv, CurrentReaches
        <5>2. \E i \in 1..Len(current) : current[i] = m
          BY Places DEF SplitInv
        <5>3. QED
          BY <5>1, <5>2
      <4>3. IsUgcStart(kind) \/ currentHasGeography
        <5> SUFFICES ASSUME ~IsUgcStart(kind) PROVE currentHasGeography
          OBVIOUS
        <5>1. PICK k \in (m + 1)..(n - 1) : LineHasGeography(lines[k])
          BY <2>1, <2>7 DEF Apart
        <5>2. k \in m..Len(lines) /\ k \in 1..Len(lines)
          BY <1>1, <1>2, <1>4, <5>1
        <5>3. Cur \in At(k)
          BY <1>2, <5>2 DEF SplitInv, CurrentReaches
        <5>4. QED
          BY <5>1, <5>2, <5>3 DEF SplitInv, CurrentReaches
      <4>4. QED
        BY <3>2, <4>1, <4>2, <4>3 DEF Grows, Boundary
    <3>3. CASE NewIn({Cur + 1}) /\ Kept /\ Cur \in Nat
      <4>1. At(m) \subseteq 1..Cur
        BY Places DEF SplitInv
      <4>2. At(m)' = At(m) /\ At(n)' = {Cur + 1}
        BY <1>2, <1>4, <3>3 DEF NewIn, Kept
      <4>3. QED
        BY <3>3, <4>1, <4>2
    <3>4. QED
      BY <3>1, <3>2, <3>3, NewLine
  <2>8. QED
    BY <2>6, <2>7
<1>5. QED
  BY <1>1, <1>3, <1>4

LEMMA RunStep ==
    ASSUME SplitInv, NEW kind \in LineKinds, ReadLine(kind)
    PROVE  SegmentsRun'
<1>1. /\ Len(lines') = New /\ Len(lines) \in Nat /\ New = Len(lines) + 1
      /\ segments \in Seq(Seq(Nat)) /\ current \in Seq(Nat) /\ New \in Nat
  BY SplitTypes DEF New, SplitInv, SplitTyped
<1>2. SegmentsRun
  BY DEF SplitInv
<1>3. CASE segments' = segments
  <2>1. \A s \in 1..Len(segments') : Run(segments'[s])
    BY <1>2, <1>3 DEF SegmentsRun
  <2>2. CASE Len(current') = 0
    <3>1. Run(current')
      BY <2>2 DEF Run
    <3>2. QED
      BY <2>1, <2>2, <3>1 DEF SegmentsRun
  <2>3. CASE current' = Append(current, New)
    <3>1. /\ Len(current') = Len(current) + 1 /\ current'[Len(current) + 1] = New
          /\ Len(current) \in Nat /\ \A i \in 1..Len(current) : current'[i] = current[i]
      BY <1>1, <2>3, Appended
    <3>2. Run(current')
      <4>1. CASE Len(current) = 0
        BY <1>1, <3>1, <4>1 DEF Run
      <4>2. CASE Len(current) > 0
        <5>1. /\ current[Len(current)] = Len(lines) /\ current[1] \in Nat
              /\ \A i \in 1..Len(current) : current[i] = current[1] + i - 1
          BY <1>1, <1>2, <4>2 DEF SegmentsRun, Run
        <5>2. Len(lines) = current[1] + Len(current) - 1 /\ current'[1] = current[1]
          BY <3>1, <4>2, <5>1
        <5>3. ASSUME NEW i \in 1..Len(current') PROVE current'[i] = current'[1] + i - 1
          <6>1. CASE i \in 1..Len(current)
            BY <3>1, <5>1, <5>2, <6>1
          <6>2. CASE i = Len(current) + 1
            BY <1>1, <3>1, <5>1, <5>2, <6>2
          <6>3. QED
            BY <3>1, <6>1, <6>2
        <5>4. QED
          BY <5>3 DEF Run
      <4>3. QED
        BY <3>1, <4>1, <4>2
    <3>3. current'[Len(current')] = Len(lines')
      BY <1>1, <3>1
    <3>4. QED
      BY <2>1, <3>2, <3>3 DEF SegmentsRun
  <2>4. CASE Len(current) = 0 /\ current' = current
    BY <2>2, <2>4
  <2>5. QED
    BY <1>3, <2>2, <2>3, <2>4, WaysToRead DEF Passes, Grows, Drops, Ends, Starts
<1>4. CASE segments' = Append(segments, current) /\ (current' = <<>> \/ current' = <<New>>)
  <2>1. /\ Len(segments') = Len(segments) + 1 /\ segments'[Len(segments) + 1] = current
        /\ Len(segments) \in Nat /\ \A s \in 1..Len(segments) : segments'[s] = segments[s]
    BY <1>1, <1>4, Appended
  <2>2. \A s \in 1..Len(segments') : Run(segments'[s])
    BY <1>2, <2>1 DEF SegmentsRun
  <2>3. Run(current') /\ (Len(current') > 0 => current'[Len(current')] = Len(lines'))
    BY <1>1, <1>4 DEF Run
  <2>4. QED
    BY <2>2, <2>3 DEF SegmentsRun
<1>5. QED
  BY <1>3, <1>4, WaysToRead DEF Passes, Grows, Drops, Ends, Starts

LEMMA FollowStep ==
    ASSUME SplitInv, NEW kind \in LineKinds, ReadLine(kind)
    PROVE  LinesFollow'
<1>1. /\ Len(lines') = New /\ Len(lines) \in Nat /\ New = Len(lines) + 1
      /\ lines'[New] = kind /\ \A n \in 1..Len(lines) : lines'[n] = lines[n]
  BY SplitTypes DEF New
<1>2. \A n \in 1..Len(lines') : n \in 1..Len(lines) \/ n = New
  BY <1>1
<1>3. /\ \A n \in 1..Len(lines) : n # New /\ At(n)' \subseteq At(n)
      /\ \A n \in 1..Len(lines) : At(n) \subseteq 1..Cur
  BY OldLines, Places DEF SplitInv
<1>4. LinesFollow
  BY DEF SplitInv
<1>5. ASSUME NEW n \in 1..Len(lines'), lines'[n] = "end" PROVE At(n)' = {}
  <2>1. CASE n \in 1..Len(lines)
    BY <1>1, <1>3, <1>4, <1>5, <2>1 DEF LinesFollow
  <2>2. CASE n = New
    <3>1. kind = "end"
      BY <1>1, <1>5, <2>2
    <3>2. NewIn({})
      BY <3>1, NewLine DEF Grows, Starts
    <3>3. QED
      BY <2>2, <3>2 DEF NewIn
  <2>3. QED
    BY <1>2, <2>1, <2>2
<1>6. ASSUME NEW n \in 1..Len(lines'), n = Len(lines') PROVE At(n)' \subseteq {Cur'}
  BY <1>1, <1>6, NewLine DEF NewIn
<1>7. ASSUME NEW m \in 1..Len(lines'), NEW n \in 1..Len(lines'), n = m + 1
      PROVE  \/ At(m)' \subseteq At(n)'
             \/ lines'[n] = "end" \/ IsUgcStart(lines'[n]) \/ LineHasVtec(lines'[n])
  <2>1. CASE n \in 1..Len(lines)
    <3>1. m \in 1..Len(lines)
      BY <1>1, <1>7, <2>1
    <3>2. \/ At(m) \subseteq At(n)
          \/ lines'[n] = "end" \/ IsUgcStart(lines'[n]) \/ LineHasVtec(lines'[n])
      BY <1>1, <1>4, <1>7, <2>1, <3>1 DEF LinesFollow
    <3>3. CASE Kept
      BY <1>3, <2>1, <3>1, <3>2, <3>3 DEF Kept
    <3>4. CASE Drops(kind)
      BY <3>1, <2>1, <3>2, <3>4, AfterDrop
    <3>5. QED
      BY <3>3, <3>4, WaysToRead, AfterPass, AfterGrow, AfterEnd, AfterStart
  <2>2. CASE n = New
    <3>1. m \in 1..Len(lines) /\ m = Len(lines)
      BY <1>1, <1>7, <2>2
    <3>2. At(m) \subseteq {Cur}
      BY <1>4, <3>1 DEF LinesFollow
    <3>3. CASE Passes(kind)
      <4>1. At(m)' = {}
        BY <1>3, <3>1, <3>2, <3>3, AfterPass DEF Kept
      <4>2. QED
        BY <4>1
    <3>4. CASE Grows(kind)
      BY <1>3, <2>2, <3>1, <3>2, <3>4, AfterGrow DEF NewIn, Kept
    <3>5. CASE kind = "end"
      BY <1>1, <2>2, <3>5
    <3>6. CASE Starts(kind)
      BY <1>1, <2>2, <3>6 DEF Starts, Boundary
    <3>7. QED
      BY <3>3, <3>4, <3>5, <3>6, WaysToRead DEF Ends, Drops
  <2>3. QED
    BY <1>2, <2>1, <2>2
<1>8. ASSUME NEW k \in 1..Len(lines'), NEW m \in 1..Len(lines'), NEW n \in 1..Len(lines'),
             k < n, m < n, LineHasGeography(lines'[k]), LineHasVtec(lines'[m]), LineHasVtec(lines'[n])
      PROVE  At(k)' \cap At(m)' \cap At(n)' = {}
  <2>1. k \in 1..Len(lines) /\ m \in 1..Len(lines) /\ lines'[k] = lines[k] /\ lines'[m] = lines[m]
    BY <1>1, <1>8
  <2>2. CASE n \in 1..Len(lines)
    <3>1. At(k) \cap At(m) \cap At(n) = {}
      BY <1>1, <1>4, <1>8, <2>1, <2>2 DEF LinesFollow
    <3>2. QED
      BY <1>3, <2>1, <2>2, <3>1
  <2>3. CASE n = New
    <3> SUFFICES ASSUME NEW s, s \in At(k)', s \in At(m)', s \in At(n)' PROVE FALSE
      OBVIOUS
    <3>1. s \in At(k) /\ s \in At(m) /\ s \in 1..Cur /\ LineHasVtec(kind)
      BY <1>1, <1>3, <1>8, <2>1, <2>3
    <3>2. Cur \in Nat
      BY NewIsNew DEF SplitInv, Cur
    <3>3. s = Cur /\ Grows(kind)
      BY <2>3, <3>1, <3>2, NewLine DEF NewIn
    <3>4. currentHasVtec /\ currentHasGeography
      BY <1>8, <2>1, <3>1, <3>3 DEF SplitInv, CurrentReaches
    <3>5. current # <<>>
      <4>1. \E i \in 1..Len(current) : current[i] = m
        BY <3>1, <3>3, Places DEF SplitInv
      <4>2. QED
        BY <4>1
    <3>6. QED
      BY <3>1, <3>3, <3>4, <3>5 DEF Grows, Boundary
  <2>4. QED
    BY <1>2, <2>2, <2>3
<1>9. QED
  <2>1. /\ \A n \in 1..Len(lines') : lines'[n] = "end" => At(n)' = {}
        /\ \A n \in 1..Len(lines') : n = Len(lines') => At(n)' \subseteq {Cur'}
    BY <1>5, <1>6, Zenon
  <2>2. \A m, n \in 1..Len(lines') : n = m + 1 =>
            \/ At(m)' \subseteq At(n)'
            \/ lines'[n] = "end" \/ IsUgcStart(lines'[n]) \/ LineHasVtec(lines'[n])
    BY <1>7, Zenon
  <2>3. \A k, m, n \in 1..Len(lines') :
            k < n /\ m < n /\ LineHasGeography(lines'[k]) /\ LineHasVtec(lines'[m]) /\ LineHasVtec(lines'[n])
                => At(k)' \cap At(m)' \cap At(n)' = {}
    BY <1>8, Zenon
  <2>4. QED
    BY <2>1, <2>2, <2>3, Zenon DEF LinesFollow

LEMMA SplitStep ==
    ASSUME SplitInv, NEW kind \in LineKinds, ReadLine(kind)
    PROVE  SplitInv'
  BY TypedStep, PlacedStep, ReachesStep, WaitsStep, PairsStep, RunStep, FollowStep DEF SplitInv

\* Before the first line there is one segment, and it is empty.
LEMMA SplitStart == BodyInit => SplitInv
<1> SUFFICES ASSUME lines = <<>>, segments = <<>>, current = <<>>,
                    currentHasVtec = FALSE, currentHasGeography = FALSE
             PROVE  SplitInv
  BY DEF BodyInit
<1>1. lines \in Seq(LineKinds) /\ segments \in Seq(Seq(Nat)) /\ current \in Seq(Nat)
  OBVIOUS
<1>2. \A n : At(n) = {}
  <2>1. Len(segments) = 0 /\ Len(current) = 0 /\ Cur = 1
    BY DEF Cur
  <2>2. ASSUME NEW n PROVE At(n) \subseteq 1..1 /\ 1 \notin At(n)
    <3>2. At(n) \subseteq 1..Cur /\ (Cur \in At(n) <=> \E i \in 1..Len(current) : current[i] = n)
      BY <1>1, PlacesTyped, Zenon
    <3>3. Cur = 1 /\ 1..Len(current) = {}
      BY <2>1
    <3>4. QED
      BY <3>2, <3>3
  <2>3. \A s \in 1..1 : s = 1
    OBVIOUS
  <2>4. QED
    BY <2>2, <2>3, Zenon
<1>3. Len(lines) = 0 /\ 1..Len(lines) = {}
  OBVIOUS
<1>4. SegmentsRun
  BY DEF SegmentsRun, Run
<1>5. LinesFollow
  BY <1>3 DEF LinesFollow
<1>6. QED
  BY <1>1, <1>2, <1>3, <1>4, <1>5
  DEF SplitInv, SplitTyped, EventsPlaced, CurrentReaches, CurrentWaits, PairsCorrelated

\* What the invariant says of two lines is what a reader expects.
LEMMA SplitIsRight == SplitInv => SegmentsCorrelated
<1> SUFFICES ASSUME SplitInv, NEW n \in DOMAIN lines
             PROVE  /\ LineHasVtec(lines[n]) =>
                          Cardinality({s \in DOMAIN AllSegments : Holds(s, n)}) = 1
                    /\ \A m \in 1 .. n - 1 :
                          LET cut == Between(m, n, LAMBDA k : k = "end")
                          IN  /\ IsUgcStart(lines[m]) /\ LineHasVtec(lines[n]) /\ ~cut
                                 /\ ~Between(m, n, LineHasVtec)
                                     => Together(m, n)
                              /\ LineHasVtec(lines[m]) /\ LineHasGeography(lines[n]) /\ ~cut
                                 /\ ~Between(m, n, LineHasVtec) /\ ~Between(m, n, IsUgcStart)
                                     => Together(m, n)
                              /\ LineHasVtec(lines[m])
                                 /\ (IsUgcStart(lines[n])
                                     \/ (LineHasVtec(lines[n]) /\ Between(m, n, LineHasGeography)))
                                     => ~Together(m, n)
  BY DEF SegmentsCorrelated
<1>1. n \in 1..Len(lines) /\ Len(lines) \in Nat
  BY DEF SplitInv, SplitTyped
<1>2. ASSUME LineHasVtec(lines[n]) PROVE Cardinality(At(n)) = 1
  <2>1. PICK s : s \in At(n)
    BY <1>1, <1>2 DEF SplitInv, EventsPlaced
  <2>2. At(n) = {s}
    BY <1>1, <2>1 DEF SplitInv, EventsPlaced
  <2>3. QED
    BY <2>2, FS_Singleton
<1>3. ASSUME NEW m \in 1 .. n - 1
      PROVE  /\ IsUgcStart(lines[m]) /\ LineHasVtec(lines[n]) /\ ~Between(m, n, LAMBDA k : k = "end")
                /\ ~Between(m, n, LineHasVtec)
                    => Together(m, n)
             /\ LineHasVtec(lines[m]) /\ LineHasGeography(lines[n])
                /\ ~Between(m, n, LAMBDA k : k = "end")
                /\ ~Between(m, n, LineHasVtec) /\ ~Between(m, n, IsUgcStart)
                    => Together(m, n)
             /\ LineHasVtec(lines[m])
                /\ (IsUgcStart(lines[n])
                    \/ (LineHasVtec(lines[n]) /\ Between(m, n, LineHasGeography)))
                    => ~Together(m, n)
  <2>1. m \in 1..Len(lines) /\ m < n
    BY <1>1
  <2>2. Together(m, n) <=> At(m) \cap At(n) # {}
    BY DEF Together, At
  <2>3. /\ AreasAbove(m, n) \/ GeographyBelow(m, n) => At(m) \cap At(n) # {}
        /\ Apart(m, n) => At(m) \cap At(n) = {}
    BY <1>1, <2>1 DEF SplitInv, PairsCorrelated
  <2>4. QED
    BY <2>2, <2>3 DEF Between, AreasAbove, GeographyBelow, Apart
<1>4. QED
  BY <1>2, <1>3 DEF At

-----------------------------------------------------------------------------
(* What is read out of a segment *)

\* f holds the areas found up to each of the first n lines.
ScanTo(f, kinds, n) ==
    f = [i \in 0..n |-> IF i = 0 THEN NoAreas ELSE ScanUgc(f[i - 1], kinds[i])]

LEMMA ScanExists == ASSUME NEW kinds, NEW n \in Nat PROVE \E f : ScanTo(f, kinds, n)
<1> DEFINE P == {k \in Nat : \E f : ScanTo(f, kinds, k)}
<1>1. 0 \in P
  <2>1. ScanTo([i \in 0..0 |-> NoAreas], kinds, 0)
    BY DEF ScanTo
  <2>2. QED
    BY <2>1
<1>2. ASSUME NEW k \in 0..(n - 1), k \in P PROVE k + 1 \in P
  <2>1. PICK f : ScanTo(f, kinds, k)
    BY <1>2
  <2> DEFINE last == ScanUgc(f[k], kinds[k + 1])
             g == [i \in 0..(k + 1) |-> IF i = k + 1 THEN last ELSE f[i]]
             h == [i \in 0..(k + 1) |-> IF i = 0 THEN NoAreas ELSE ScanUgc(g[i - 1], kinds[i])]
  <2>2. \A i \in 0..k : f[i] = IF i = 0 THEN NoAreas ELSE ScanUgc(f[i - 1], kinds[i])
    BY <2>1 DEF ScanTo
  <2>3. ASSUME NEW i \in 0..(k + 1) PROVE g[i] = h[i]
    <3>1. CASE i = 0
      BY <2>2, <3>1
    <3>2. CASE i = k + 1
      <4>1. g[i] = last /\ g[i - 1] = f[k] /\ i - 1 = k /\ i # 0
        BY <3>2
      <4>2. QED
        BY <3>2, <4>1
    <3>3. CASE i # 0 /\ i # k + 1
      <4>1. i \in 0..k /\ i - 1 \in 0..k /\ g[i] = f[i] /\ g[i - 1] = f[i - 1]
        BY <3>3
      <4>2. QED
        BY <2>2, <3>3, <4>1
    <3>4. QED
      BY <3>1, <3>2, <3>3
  <2> HIDE DEF last
  <2>4. g = h
    BY <2>3, Zenon
  <2>5. ScanTo(g, kinds, k + 1)
    BY <2>4, Zenon DEF ScanTo
  <2>6. QED
    BY <2>5
<1> HIDE DEF P
<1>3. \A k \in 0..n : k \in P
  BY <1>1, <1>2, UpTo
<1>4. QED
  BY <1>3 DEF P

\* The areas of a segment are what is found up to its last line.
LEMMA ScanFound ==
    ASSUME NEW kinds, Len(kinds) \in Nat
    PROVE  \E f : /\ f[0] = NoAreas
                  /\ \A i \in 1..Len(kinds) : f[i] = ScanUgc(f[i - 1], kinds[i])
                  /\ ParseUgcSections(kinds) = f[Len(kinds)]
<1> DEFINE f == CHOOSE g : ScanTo(g, kinds, Len(kinds))
<1>1. ScanTo(f, kinds, Len(kinds))
  BY ScanExists
<1>2. ParseUgcSections(kinds) = f[Len(kinds)]
  BY Zenon DEF ParseUgcSections, ScanTo
<1> HIDE DEF f
<1>3. f[0] = NoAreas /\ \A i \in 1..Len(kinds) : f[i] = ScanUgc(f[i - 1], kinds[i])
  BY <1>1 DEF ScanTo
<1>4. QED
  BY <1>2, <1>3

AreaScan == [open : BOOLEAN, dirty : BOOLEAN, sections : Seq({"county", "marine"}),
             issues : SUBSET {"invalid_ugc_codes"}]

Unread(scan) == "invalid_ugc_codes" \in scan.issues

\* What one line does to the areas found.
LEMMA ScanLine ==
    ASSUME NEW scan \in AreaScan, NEW kind \in LineKinds, NEW new, new = ScanUgc(scan, kind)
    PROVE  /\ new \in AreaScan
           /\ kind \in {"county", "marine"} => new.sections # <<>> \/ Unread(new)
           /\ scan.sections # <<>> \/ Unread(scan) => new.sections # <<>> \/ Unread(new)
           /\ ~scan.open /\ ~IsUgcStart(kind) => new = scan
           /\ ~scan.open /\ ~scan.dirty /\ kind = "marine" =>
                  /\ ~new.open /\ ~new.dirty /\ new.issues = scan.issues
                  /\ new.sections = Append(scan.sections, "marine")
<1>1. /\ scan.open \in BOOLEAN /\ scan.dirty \in BOOLEAN /\ scan.sections \in Seq({"county", "marine"})
      /\ scan.issues \in SUBSET {"invalid_ugc_codes"}
  BY DEF AreaScan
<1>2. ASSUME NEW section \in {"county", "marine"}
      PROVE  /\ CompleteUgc(scan, section) \in AreaScan
             /\ CompleteUgc(scan, section).sections # <<>> \/ Unread(CompleteUgc(scan, section))
             /\ ~scan.dirty =>
                    /\ ~CompleteUgc(scan, section).open /\ ~CompleteUgc(scan, section).dirty
                    /\ CompleteUgc(scan, section).issues = scan.issues
                    /\ CompleteUgc(scan, section).sections = Append(scan.sections, section)
  <2>1. Append(scan.sections, section) \in Seq({"county", "marine"}) /\ Append(scan.sections, section) # <<>>
    <3>1. /\ Append(scan.sections, section) \in Seq({"county", "marine"})
          /\ Len(Append(scan.sections, section)) = Len(scan.sections) + 1 /\ Len(scan.sections) \in Nat
      BY <1>1, Appended
    <3>2. QED
      BY <3>1
  <2>2. CASE scan.dirty
    BY <1>1, <2>2 DEF CompleteUgc, AreaScan, Unread
  <2>3. CASE ~scan.dirty
    <3> DEFINE longer == Append(scan.sections, section)
    <3> HIDE DEF longer
    <3>1. CompleteUgc(scan, section) =
            [open |-> FALSE, dirty |-> FALSE, sections |-> longer, issues |-> scan.issues]
      BY <1>1, <2>3 DEF CompleteUgc, longer
    <3>2. longer \in Seq({"county", "marine"}) /\ longer # <<>>
      BY <2>1 DEF longer
    <3>3. QED
      BY <1>1, <3>1, <3>2 DEF AreaScan, longer
  <2>4. QED
    BY <1>1, <2>2, <2>3
<1>3. CASE kind \in {"county", "marine"}
  <2>1. PICK section \in {"county", "marine"} :
            new = CompleteUgc(scan, section) /\ (~scan.open => section = kind)
    <3>1. new = CompleteUgc(scan, IF scan.open THEN "county" ELSE kind)
      BY <1>1, <1>3 DEF ScanUgc, LineHasVtec
    <3>2. (IF scan.open THEN "county" ELSE kind) \in {"county", "marine"}
      BY <1>3
    <3>3. QED
      BY <1>3, <3>1, <3>2
  <2>2. IsUgcStart(kind)
    BY <1>3 DEF IsUgcStart
  <2>3. QED
    BY <1>2, <2>1, <2>2
<1>4. CASE kind = "tail" /\ scan.open
  <2>1. new = CompleteUgc(scan, "county")
    BY <1>1, <1>4 DEF ScanUgc, LineHasVtec
  <2>2. QED
    BY <1>2, <1>4, <2>1
<1>5. CASE kind \notin {"county", "marine"} /\ ~(kind = "tail" /\ scan.open)
  <2>1. PICK o \in BOOLEAN, d \in BOOLEAN : new = [scan EXCEPT !.open = o, !.dirty = d]
    <3>1. CASE kind = "open"
      <4>a. new = [scan EXCEPT !.open = TRUE]
        BY <1>1, <3>1 DEF ScanUgc, LineHasVtec
      <4>1. new = [scan EXCEPT !.open = TRUE, !.dirty = scan.dirty]
        BY <1>1, <4>a DEF AreaScan
      <4>2. QED
        BY <1>1, <4>1
    <3>2. CASE (LineHasVtec(kind) \/ kind = "hvtec") /\ scan.open
      <4>1. new = [scan EXCEPT !.open = scan.open, !.dirty = TRUE]
        BY <1>1, <3>2 DEF ScanUgc, AreaScan, LineHasVtec
      <4>2. QED
        BY <1>1, <4>1
    <3>3. CASE kind \in {"latlon", "motion", "tag", "blank"} /\ scan.open
      <4>1. new = [scan EXCEPT !.open = FALSE, !.dirty = FALSE]
        BY <3>3 DEF ScanUgc, LineHasVtec
      <4>2. QED
        BY <4>1
    <3>4. CASE kind # "open" /\ (~scan.open \/ (~LineHasVtec(kind) /\ kind \notin
                                   {"tail", "hvtec", "latlon", "motion", "tag", "blank"}))
      <4>1. new = scan
        BY <1>5, <3>4 DEF ScanUgc
      <4>2. scan = [scan EXCEPT !.open = scan.open, !.dirty = scan.dirty]
        BY DEF AreaScan
      <4>3. QED
        BY <1>1, <4>1, <4>2
    <3>5. QED
      BY <1>1, <1>5, <3>1, <3>2, <3>3, <3>4
  <2>2. ~scan.open /\ ~IsUgcStart(kind) => new = scan
    BY DEF ScanUgc, IsUgcStart
  <2>3. new \in AreaScan /\ new.sections = scan.sections /\ new.issues = scan.issues
    BY <2>1 DEF AreaScan
  <2>4. QED
    BY <1>5, <2>2, <2>3 DEF Unread
<1>6. QED
  BY <1>3, <1>4, <1>5

\* What is found in a segment, by the kinds of its lines.
LEMMA AreasFound ==
    ASSUME NEW kinds \in Seq(LineKinds)
    PROVE  LET found == ParseUgcSections(kinds)
           IN  /\ found.issues \in SUBSET {"invalid_ugc_codes"}
               /\ (\E i \in 1..Len(kinds) : kinds[i] \in {"county", "marine"})
                      => found.sections # <<>> \/ "invalid_ugc_codes" \in found.issues
               /\ (\A i \in 1..Len(kinds) : ~IsUgcStart(kinds[i])) => found.sections = <<>>
               /\ (/\ \E i \in 1..Len(kinds) : kinds[i] = "marine"
                   /\ \A i \in 1..Len(kinds) : IsUgcStart(kinds[i]) => kinds[i] = "marine")
                      => MarineOnly(found.sections)
<1>l. Len(kinds) \in Nat
  OBVIOUS
<1> DEFINE L == Len(kinds)
<1>1. PICK f : /\ f[0] = NoAreas
               /\ \A i \in 1..L : f[i] = ScanUgc(f[i - 1], kinds[i])
               /\ ParseUgcSections(kinds) = f[L]
  BY <1>l, ScanFound
<1> DEFINE Marine(q) == \A i \in 1..Len(q) : q[i] = "marine"
           Typed == {i \in 0..L : f[i] \in AreaScan}
           Kept1 == {i \in 0..L : (\E j \in 1..i : kinds[j] \in {"county", "marine"})
                                      => f[i].sections # <<>> \/ Unread(f[i])}
           None1 == {i \in 0..L : (\A j \in 1..i : ~IsUgcStart(kinds[j])) => f[i] = NoAreas}
           Sea == {i \in 0..L : (\A j \in 1..i : IsUgcStart(kinds[j]) => kinds[j] = "marine") =>
                      ~f[i].open /\ ~f[i].dirty /\ f[i].issues = {} /\ Marine(f[i].sections)}
<1>2. NoAreas \in AreaScan /\ NoAreas.sections = <<>> /\ NoAreas.issues = {} /\ ~NoAreas.open /\ ~NoAreas.dirty
  <2>1. <<>> \in Seq({"county", "marine"})
    OBVIOUS
  <2>2. QED
    BY <2>1 DEF NoAreas, AreaScan
<1>3. 0 \in Typed /\ 0 \in Kept1 /\ 0 \in None1 /\ 0 \in Sea
  BY <1>l, <1>1, <1>2
<1>4. ASSUME NEW k \in 0..(L - 1), k \in Typed PROVE k + 1 \in Typed
  <2>1. k + 1 \in 1..L /\ (k + 1) - 1 = k /\ kinds[k + 1] \in LineKinds /\ k + 1 \in 0..L
    BY <1>l
  <2>2. f[k + 1] = ScanUgc(f[k], kinds[k + 1])
    BY <1>1, <2>1
  <2>3. f[k + 1] \in AreaScan
    BY <1>4, <2>1, <2>2, ScanLine
  <2>4. QED
    BY <2>1, <2>3
<1> HIDE DEF Typed
<1>5. \A k \in 0..L : k \in Typed
  BY <1>l, <1>3, <1>4, UpTo
<1>6. ASSUME NEW k \in 0..(L - 1)
      PROVE  /\ k + 1 \in 1..L /\ k + 1 \in 0..L /\ k \in 0..L /\ f[k] \in AreaScan
             /\ f[k + 1] = ScanUgc(f[k], kinds[k + 1]) /\ kinds[k + 1] \in LineKinds
             /\ \A j \in 1..(k + 1) : j \in 1..k \/ j = k + 1
             /\ \A j \in 1..k : j \in 1..(k + 1)
  <2>1. k + 1 \in 1..L /\ (k + 1) - 1 = k /\ kinds[k + 1] \in LineKinds /\ k + 1 \in 0..L /\ k \in 0..L
    BY <1>l
  <2>2. f[k + 1] = ScanUgc(f[k], kinds[k + 1])
    BY <1>1, <2>1
  <2>3. (\A j \in 1..(k + 1) : j \in 1..k \/ j = k + 1) /\ \A j \in 1..k : j \in 1..(k + 1)
    OBVIOUS
  <2>4. QED
    BY <1>5, <2>1, <2>2, <2>3 DEF Typed
<1>7. ASSUME NEW k \in 0..(L - 1), k \in Kept1 PROVE k + 1 \in Kept1
  <2> SUFFICES ASSUME \E j \in 1..(k + 1) : kinds[j] \in {"county", "marine"}
               PROVE  f[k + 1].sections # <<>> \/ Unread(f[k + 1])
    BY <1>6
  <2>1. CASE kinds[k + 1] \in {"county", "marine"}
    <3>1. f[k] \in AreaScan /\ f[k + 1] = ScanUgc(f[k], kinds[k + 1]) /\ kinds[k + 1] \in LineKinds
      BY <1>6
    <3>2. QED
      BY <2>1, <3>1, ScanLine
  <2>2. CASE \E j \in 1..k : kinds[j] \in {"county", "marine"}
    <3>1. f[k].sections # <<>> \/ Unread(f[k])
      BY <1>7, <2>2
    <3>2. f[k] \in AreaScan /\ f[k + 1] = ScanUgc(f[k], kinds[k + 1]) /\ kinds[k + 1] \in LineKinds
      BY <1>6
    <3>3. QED
      BY <3>1, <3>2, ScanLine
  <2>3. QED
    BY <1>6, <2>1, <2>2
<1>8. ASSUME NEW k \in 0..(L - 1), k \in None1 PROVE k + 1 \in None1
  <2> SUFFICES ASSUME \A j \in 1..(k + 1) : ~IsUgcStart(kinds[j]) PROVE f[k + 1] = NoAreas
    BY <1>6
  <2>1. f[k] = NoAreas /\ ~IsUgcStart(kinds[k + 1])
    BY <1>6, <1>8
  <2>2. QED
    BY <1>2, <1>6, <2>1, ScanLine
<1>9. ASSUME NEW k \in 0..(L - 1), k \in Sea PROVE k + 1 \in Sea
  <2> SUFFICES ASSUME \A j \in 1..(k + 1) : IsUgcStart(kinds[j]) => kinds[j] = "marine"
               PROVE  ~f[k + 1].open /\ ~f[k + 1].dirty /\ f[k + 1].issues = {} /\ Marine(f[k + 1].sections)
    BY <1>6
  <2>1. ~f[k].open /\ ~f[k].dirty /\ f[k].issues = {} /\ Marine(f[k].sections)
    BY <1>6, <1>9
  <2>2. CASE ~IsUgcStart(kinds[k + 1])
    <3>1. f[k + 1] = f[k]
      BY <1>6, <2>1, <2>2, ScanLine
    <3> HIDE DEF Marine
    <3>2. QED
      BY <2>1, <3>1
  <2>3. CASE kinds[k + 1] = "marine"
    <3>0. f[k] \in AreaScan /\ f[k + 1] = ScanUgc(f[k], kinds[k + 1]) /\ kinds[k + 1] \in LineKinds
      BY <1>6
    <3>1. /\ ~f[k + 1].open /\ ~f[k + 1].dirty /\ f[k + 1].issues = f[k].issues
          /\ f[k + 1].sections = Append(f[k].sections, "marine")
      BY <2>1, <2>3, <3>0, ScanLine, Zenon
    <3>2. f[k].sections \in Seq({"county", "marine"})
      BY <1>6 DEF AreaScan
    <3>3. Marine(Append(f[k].sections, "marine"))
      <4> DEFINE q == f[k].sections
                 r == Append(q, "marine")
      <4>1. /\ Len(r) = Len(q) + 1 /\ r[Len(q) + 1] = "marine"
            /\ Len(q) \in Nat /\ \A i \in 1..Len(q) : r[i] = q[i]
        BY <3>2, Appended
      <4>2. \A i \in 1..Len(q) : q[i] = "marine"
        BY <2>1
      <4> HIDE DEF q, r
      <4>3. Marine(r)
        BY <4>1, <4>2
      <4>4. QED
        BY <4>3 DEF q, r
    <3> HIDE DEF Marine
    <3>4. QED
      BY <2>1, <3>1, <3>3
  <2>4. QED
    BY <1>6, <2>2, <2>3
<1> HIDE DEF Kept1, None1, Sea
<1>10. L \in Kept1 /\ L \in None1 /\ L \in Sea /\ L \in Typed
  <2>1. L \in 0..L
    BY <1>l
  <2>2. \A k \in 0..L : k \in Kept1
    BY <1>l, <1>3, <1>7, UpTo
  <2>3. \A k \in 0..L : k \in None1
    BY <1>l, <1>3, <1>8, UpTo
  <2>4. \A k \in 0..L : k \in Sea
    BY <1>l, <1>3, <1>9, UpTo
  <2>5. QED
    BY <1>5, <2>1, <2>2, <2>3, <2>4
<1> DEFINE found == ParseUgcSections(kinds)
<1>11. found = f[L]
  BY <1>1
<1> HIDE DEF found
<1>12. found \in AreaScan
  BY <1>10, <1>11 DEF Typed
<1>13. (\E i \in 1..L : kinds[i] \in {"county", "marine"}) => found.sections # <<>> \/ Unread(found)
  BY <1>10, <1>11 DEF Kept1
<1>14. (\A i \in 1..L : ~IsUgcStart(kinds[i])) => found.sections = <<>>
  BY <1>2, <1>10, <1>11 DEF None1
<1>15. ASSUME \E i \in 1..L : kinds[i] = "marine",
              \A i \in 1..L : IsUgcStart(kinds[i]) => kinds[i] = "marine"
       PROVE  MarineOnly(found.sections)
  <2>1. found.issues = {} /\ Marine(found.sections)
    BY <1>10, <1>11, <1>15 DEF Sea
  <2>2. found.sections # <<>>
    BY <1>13, <1>15, <2>1 DEF Unread
  <2>3. DOMAIN found.sections = 1..Len(found.sections)
    BY <1>12 DEF AreaScan
  <2>4. QED
    BY <2>1, <2>2, <2>3 DEF MarineOnly
<1>16. QED
  BY <1>12, <1>13, <1>14, <1>15 DEF found, Unread, AreaScan

\* What a segment of these kinds of lines is read as.
ReadAs(event, segment, kinds, known) ==
    /\ event.vtec = {segment[i] : i \in {k \in DOMAIN segment : LineHasVtec(kinds[k])}}
    /\ event.polygons = {segment[i] : i \in Polygons(kinds)}
    /\ (\E i \in DOMAIN kinds : Swallows(kinds, i)) => "invalid_latlon" \in event.issues
    /\ known /\ (\E i \in 1..Len(kinds) : kinds[i] \in {"county", "marine"})
           => event.sections # <<>> \/ "invalid_ugc_codes" \in event.issues
    /\ ~known => event.sections = <<>>
    /\ ~known /\ (\E i \in 1..Len(kinds) : IsUgcStart(kinds[i])) =>
           "missing_reference_time" \in event.issues /\ "missing_ugc" \notin event.issues
    /\ (\A i \in 1..Len(kinds) : ~IsUgcStart(kinds[i])) => event.sections = <<>>
    /\ event.sections = <<>> =>
           "missing_ugc" \in event.issues \/ "missing_reference_time" \in event.issues
    /\ Polygons(kinds) = {} /\ (\E i \in 1..Len(kinds) : kinds[i] = "warning") =>
           "missing_polygon" \in event.issues \/ MarineOnly(event.sections)
    /\ known /\ (\E i \in 1..Len(kinds) : kinds[i] = "marine")
          /\ (\A i \in 1..Len(kinds) : IsUgcStart(kinds[i]) => kinds[i] = "marine")
           => "missing_polygon" \notin event.issues

LEMMA SegmentRead ==
    ASSUME NEW segment, NEW known \in BOOLEAN, NEW event, event = ParseSegment(segment, known),
           NEW kinds \in Seq(LineKinds), kinds = [i \in DOMAIN segment |-> lines[segment[i]]]
    PROVE  ReadAs(event, segment, kinds, known)
<1> DEFINE areas    == IF known THEN ParseUgcSections(kinds) ELSE NoAreas
           polygons == Polygons(kinds)
           blocked  == ~known /\ \E i \in DOMAIN kinds : IsUgcStart(kinds[i]) \/ kinds[i] = "motion"
           timeless == IF blocked THEN {"missing_reference_time"} ELSE {}
           garbled  == IF \E i \in DOMAIN kinds : Swallows(kinds, i) THEN {"invalid_latlon"} ELSE {}
           valid    == ValidateSegment(kinds, areas.sections, polygons, known)
           issues   == areas.issues \cup timeless \cup garbled \cup valid
<1>1. event = [vtec |-> {segment[i] : i \in {k \in DOMAIN segment : LineHasVtec(kinds[k])}},
               sections |-> areas.sections, polygons |-> {segment[i] : i \in polygons},
               issues |-> issues]
  BY Zenon DEF ParseSegment
<1>2. /\ event.vtec = {segment[i] : i \in {k \in DOMAIN segment : LineHasVtec(kinds[k])}}
      /\ event.sections = areas.sections /\ event.issues = issues
      /\ event.polygons = {segment[i] : i \in polygons}
  <2> HIDE DEF areas, polygons, issues
  <2> QED BY <1>1
<1>3. DOMAIN kinds = 1..Len(kinds)
  OBVIOUS
<1>4. known =>
        /\ areas.issues \in SUBSET {"invalid_ugc_codes"}
        /\ (\E i \in 1..Len(kinds) : kinds[i] \in {"county", "marine"})
               => areas.sections # <<>> \/ "invalid_ugc_codes" \in areas.issues
        /\ (\A i \in 1..Len(kinds) : ~IsUgcStart(kinds[i])) => areas.sections = <<>>
        /\ (/\ \E i \in 1..Len(kinds) : kinds[i] = "marine"
            /\ \A i \in 1..Len(kinds) : IsUgcStart(kinds[i]) => kinds[i] = "marine")
               => MarineOnly(areas.sections)
  BY AreasFound, Zenon
<1>5. ~known => areas.issues = {} /\ areas.sections = <<>>
  BY DEF NoAreas
<1> HIDE DEF areas, polygons
<1>6. /\ "invalid_ugc_codes" \in areas.issues => "invalid_ugc_codes" \in issues
      /\ (\E i \in DOMAIN kinds : Swallows(kinds, i)) => "invalid_latlon" \in issues
      /\ blocked => "missing_reference_time" \in issues
  OBVIOUS
<1>7. /\ "missing_ugc" \in issues <=>
            areas.sections = <<>> /\ (known \/ \A i \in DOMAIN kinds : ~IsUgcStart(kinds[i]))
      /\ "missing_polygon" \in issues <=>
            polygons = {} /\ ~MarineOnly(areas.sections) /\ ~WatchOnly(kinds)
  <2>1. areas.issues \in SUBSET {"invalid_ugc_codes"}
    BY <1>4, <1>5
  <2>2. /\ "missing_ugc" \in valid <=>
              areas.sections = <<>> /\ (known \/ \A i \in DOMAIN kinds : ~IsUgcStart(kinds[i]))
        /\ "missing_polygon" \in valid <=>
              polygons = {} /\ ~MarineOnly(areas.sections) /\ ~WatchOnly(kinds)
    BY DEF ValidateSegment
  <2>3. timeless \subseteq {"missing_reference_time"} /\ garbled \subseteq {"invalid_latlon"}
    OBVIOUS
  <2> HIDE DEF valid, timeless, garbled
  <2>4. QED
    BY <2>1, <2>2, <2>3
<1> HIDE DEF issues
<1>8. (\E i \in 1..Len(kinds) : kinds[i] = "warning") => ~WatchOnly(kinds)
  BY <1>3 DEF WatchOnly, LineHasVtec
<1>9. ~known /\ (\E i \in 1..Len(kinds) : IsUgcStart(kinds[i])) =>
          "missing_reference_time" \in event.issues /\ "missing_ugc" \notin event.issues
  BY <1>2, <1>3, <1>6, <1>7
<1>10. event.sections = <<>> =>
          "missing_ugc" \in event.issues \/ "missing_reference_time" \in event.issues
  BY <1>2, <1>3, <1>6, <1>7
<1>11. /\ Polygons(kinds) = {} /\ (\E i \in 1..Len(kinds) : kinds[i] = "warning") =>
              "missing_polygon" \in event.issues \/ MarineOnly(event.sections)
       /\ known /\ (\E i \in 1..Len(kinds) : kinds[i] = "marine")
            /\ (\A i \in 1..Len(kinds) : IsUgcStart(kinds[i]) => kinds[i] = "marine")
             => "missing_polygon" \notin event.issues
  BY <1>2, <1>4, <1>7, <1>8 DEF polygons
<1>12. /\ known /\ (\E i \in 1..Len(kinds) : kinds[i] \in {"county", "marine"})
            => event.sections # <<>> \/ "invalid_ugc_codes" \in event.issues
       /\ ~known => event.sections = <<>>
       /\ (\A i \in 1..Len(kinds) : ~IsUgcStart(kinds[i])) => event.sections = <<>>
       /\ (\E i \in DOMAIN kinds : Swallows(kinds, i)) => "invalid_latlon" \in event.issues
  BY <1>2, <1>4, <1>5, <1>6
<1>13. QED
  BY <1>2, <1>9, <1>10, <1>11, <1>12, Zenon DEF polygons, ReadAs

-----------------------------------------------------------------------------
(* What a reader finds of an event *)

\* The segment of number s, finished or not, and the lines in it.
SegAt(s) == IF s = Cur THEN current ELSE segments[s]

In(s) == {m \in 1..Len(lines) : s \in At(m)}

\* A segment is a run of lines of the text.
LEMMA SegmentLines ==
    ASSUME SplitInv, NEW s \in 1..Cur
    PROVE  /\ SegAt(s) \in Seq(Nat) /\ Run(SegAt(s))
           /\ \A i \in 1..Len(SegAt(s)) : SegAt(s)[i] \in In(s)
           /\ \A m \in In(s) : \E i \in 1..Len(SegAt(s)) : SegAt(s)[i] = m
<1>1. /\ segments \in Seq(Seq(Nat)) /\ current \in Seq(Nat) /\ Len(segments) \in Nat
      /\ \A m \in Nat : At(m) # {} => m \in 1..Len(lines)
  BY DEF SplitInv, SplitTyped
<1>2. SegmentsRun
  BY DEF SplitInv
<1>3. s = Cur \/ s \in 1..Len(segments)
  <2>1. Cur = Len(segments) + 1 /\ Len(segments) \in Nat
    BY <1>1 DEF Cur
  <2>2. QED
    BY <2>1
<1>4. /\ SegAt(s) \in Seq(Nat) /\ Run(SegAt(s))
      /\ \A m : s \in At(m) <=> \E i \in 1..Len(SegAt(s)) : SegAt(s)[i] = m
  <2>1. CASE s = Cur
    <3>1. SegAt(s) = current
      BY <2>1 DEF SegAt
    <3>2. QED
      BY <1>1, <1>2, <2>1, <3>1, Places, Zenon DEF SplitInv, SegmentsRun
  <2>2. CASE s # Cur /\ s \in 1..Len(segments)
    <3>1. SegAt(s) = segments[s] /\ segments[s] \in Seq(Nat)
      BY <1>1, <2>2 DEF SegAt
    <3>2. Run(segments[s])
      BY <1>2, <2>2 DEF SegmentsRun
    <3>3. \A m : s \in At(m) <=> \E i \in 1..Len(segments[s]) : segments[s][i] = m
      BY <2>2, Places DEF SplitInv
    <3>4. QED
      BY <3>1, <3>2, <3>3, Zenon
  <2>3. QED
    BY <1>3, <2>1, <2>2
<1>5. ASSUME NEW i \in 1..Len(SegAt(s)) PROVE SegAt(s)[i] \in In(s)
  <2>1. SegAt(s)[i] \in Nat /\ s \in At(SegAt(s)[i])
    BY <1>4
  <2>2. QED
    BY <1>1, <2>1 DEF In
<1>6. QED
  BY <1>4, <1>5 DEF In

LEMMA RunHolds ==
    ASSUME SplitInv, NEW s \in 1..Cur, NEW a \in In(s), NEW b \in In(s), NEW k \in a..b
    PROVE  k \in In(s) /\ lines[k] # "end"
<1> DEFINE seg == SegAt(s)
<1>1. PICK i \in 1..Len(seg), j \in 1..Len(seg) : seg[i] = a /\ seg[j] = b
  BY SegmentLines
<1>2. seg \in Seq(Nat) /\ Run(seg) /\ \A l \in 1..Len(seg) : seg[l] \in In(s)
  BY SegmentLines
<1> HIDE DEF seg
<1>3. Len(seg) \in Nat /\ seg[1] \in Nat /\ i \in Nat /\ j \in Nat
  BY <1>2
<1>4. a = seg[1] + i - 1 /\ b = seg[1] + j - 1
  BY <1>1, <1>2 DEF Run
<1> DEFINE l == k - seg[1] + 1
<1>5. l \in 1..Len(seg)
  BY <1>3, <1>4
<1>6. seg[l] = k
  <2>1. seg[l] = seg[1] + l - 1
    BY <1>2, <1>5 DEF Run
  <2>2. QED
    BY <1>3, <1>4, <2>1
<1>7. k \in In(s)
  BY <1>2, <1>5, <1>6
<1>8. QED
  BY <1>7 DEF SplitInv, LinesFollow, In

\* The next line of a segment is the next line of the text.
LEMMA SegmentNext ==
    ASSUME SplitInv, NEW s \in 1..Cur, NEW i \in 1..Len(SegAt(s))
    PROVE  /\ i + 1 \in 1..Len(SegAt(s)) => SegAt(s)[i + 1] = SegAt(s)[i] + 1
           /\ SegAt(s)[i] + 1 \in In(s) => i + 1 \in 1..Len(SegAt(s))
<1> DEFINE seg == SegAt(s)
<1>1. /\ seg \in Seq(Nat) /\ Run(seg)
      /\ \A m \in In(s) : \E j \in 1..Len(seg) : seg[j] = m
  BY SegmentLines
<1> HIDE DEF seg
<1>2. /\ Len(seg) \in Nat /\ i \in 1..Len(seg)
      /\ \A j \in 1..Len(seg) : seg[j] = seg[1] + j - 1 /\ seg[1] \in Nat
  BY <1>1 DEF Run, seg
<1>3. i + 1 \in 1..Len(seg) => seg[i + 1] = seg[i] + 1
  BY <1>2
<1>4. ASSUME seg[i] + 1 \in In(s) PROVE i + 1 \in 1..Len(seg)
  <2>1. PICK j \in 1..Len(seg) : seg[j] = seg[i] + 1
    BY <1>1, <1>4
  <2>2. seg[j] = seg[1] + j - 1 /\ seg[i] = seg[1] + i - 1 /\ seg[1] \in Nat
    BY <1>2
  <2>3. j = i + 1
    BY <1>2, <2>1, <2>2
  <2>4. QED
    BY <2>3
<1>5. QED
  BY <1>3, <1>4 DEF seg

\* The polygon in line p takes in the line of areas below it.
Garbled(s, p) ==
    /\ p + 1 \in In(s)
    /\ lines[p + 1] \in {"tail", "county", "marine", "open"}

\* What the event of a segment is, by the lines in it.
LEMMA EventIs ==
    ASSUME SplitInv, NEW s \in 1..Cur, NEW known \in BOOLEAN,
           NEW event, event = ParseSegment(SegAt(s), known)
    PROVE  /\ event.vtec = {m \in In(s) : LineHasVtec(lines[m])}
           /\ event.polygons = {p \in In(s) : lines[p] = "latlon" /\ ~Garbled(s, p)}
           /\ (\E p \in In(s) : lines[p] = "latlon" /\ Garbled(s, p)) => "invalid_latlon" \in event.issues
           /\ known /\ (\E m \in In(s) : lines[m] \in {"county", "marine"})
                  => event.sections # <<>> \/ "invalid_ugc_codes" \in event.issues
           /\ ~known => event.sections = <<>>
           /\ ~known /\ (\E m \in In(s) : IsUgcStart(lines[m])) =>
                  "missing_reference_time" \in event.issues /\ "missing_ugc" \notin event.issues
           /\ (\A m \in In(s) : ~IsUgcStart(lines[m])) => event.sections = <<>>
           /\ event.sections = <<>> =>
                  "missing_ugc" \in event.issues \/ "missing_reference_time" \in event.issues
           /\ event.polygons = {} /\ (\E m \in In(s) : lines[m] = "warning") =>
                  "missing_polygon" \in event.issues \/ MarineOnly(event.sections)
           /\ known /\ (\E m \in In(s) : lines[m] = "marine")
                 /\ (\A m \in In(s) : IsUgcStart(lines[m]) => lines[m] = "marine")
                  => "missing_polygon" \notin event.issues
<1> DEFINE seg == SegAt(s)
           kinds == [i \in DOMAIN seg |-> lines[seg[i]]]
           L == Len(seg)
<1>1. /\ seg \in Seq(Nat) /\ \A i \in 1..L : seg[i] \in In(s)
      /\ \A m \in In(s) : \E i \in 1..L : seg[i] = m
  BY SegmentLines
<1>2. L \in Nat /\ DOMAIN seg = 1..L
  BY <1>1
<1>3. \A m \in In(s) : m \in 1..Len(lines) /\ lines[m] \in LineKinds
  BY DEF In, SplitInv, SplitTyped
<1>4. kinds \in Seq(LineKinds) /\ Len(kinds) = L /\ DOMAIN kinds = 1..L
  <2>1. kinds \in [1..L -> LineKinds]
    BY <1>1, <1>2, <1>3
  <2>2. QED
    BY <1>2, <2>1
<1>5. \A i \in 1..L : kinds[i] = lines[seg[i]]
  BY <1>2
<1>6. kinds = [i \in DOMAIN seg |-> lines[seg[i]]]
  OBVIOUS
<1>7. \A i \in 1..L : /\ i + 1 \in 1..L => seg[i + 1] = seg[i] + 1
                      /\ seg[i] + 1 \in In(s) => i + 1 \in 1..L
  BY SegmentNext
<1> HIDE DEF kinds, L
<1> HIDE DEF seg
<1>8. event = ParseSegment(seg, known)
  BY DEF seg
<1>9. ReadAs(event, seg, kinds, known)
  BY <1>4, <1>6, <1>8, SegmentRead, Zenon
<1>10. \A i \in 1..L : Swallows(kinds, i) <=> lines[seg[i]] = "latlon" /\ Garbled(s, seg[i])
  <2> SUFFICES ASSUME NEW i \in 1..L
               PROVE  Swallows(kinds, i) <=> lines[seg[i]] = "latlon" /\ Garbled(s, seg[i])
    OBVIOUS
  <2>1. i + 1 \in 1..L <=> seg[i] + 1 \in In(s)
    BY <1>1, <1>7
  <2>2. i + 1 \in 1..L => kinds[i + 1] = lines[seg[i] + 1]
    BY <1>5, <1>7
  <2>3. QED
    BY <1>4, <1>5, <2>1, <2>2, Zenon DEF Swallows, Garbled
<1>11. event.vtec = {m \in In(s) : LineHasVtec(lines[m])}
  <2>1. event.vtec = {seg[i] : i \in {k \in DOMAIN seg : LineHasVtec(kinds[k])}}
    BY <1>9, Zenon DEF ReadAs
  <2>2. QED
    BY <1>1, <1>2, <1>5, <2>1
<1>12. event.polygons = {p \in In(s) : lines[p] = "latlon" /\ ~Garbled(s, p)}
  <2>1. Polygons(kinds) = {i \in 1..L : lines[seg[i]] = "latlon" /\ ~Garbled(s, seg[i])}
    BY <1>4, <1>5, <1>10 DEF Polygons
  <2>2. event.polygons = {seg[i] : i \in Polygons(kinds)}
    BY <1>9, Zenon DEF ReadAs
  <2>3. QED
    BY <1>1, <2>1, <2>2
<1>13. event.polygons = {} => Polygons(kinds) = {}
  <2> SUFFICES ASSUME NEW i \in Polygons(kinds) PROVE event.polygons # {}
    OBVIOUS
  <2>1. event.polygons = {seg[k] : k \in Polygons(kinds)}
    BY <1>9, Zenon DEF ReadAs
  <2>2. seg[i] \in event.polygons
    BY <2>1
  <2>3. QED
    BY <2>2
<1>14. (\E p \in In(s) : lines[p] = "latlon" /\ Garbled(s, p)) => \E i \in DOMAIN kinds : Swallows(kinds, i)
  BY <1>1, <1>4, <1>10
<1>15. /\ (\E m \in In(s) : lines[m] \in {"county", "marine"}) => \E i \in 1..Len(kinds) : kinds[i] \in {"county", "marine"}
       /\ (\E m \in In(s) : IsUgcStart(lines[m])) => \E i \in 1..Len(kinds) : IsUgcStart(kinds[i])
       /\ (\A m \in In(s) : ~IsUgcStart(lines[m])) => \A i \in 1..Len(kinds) : ~IsUgcStart(kinds[i])
       /\ (\E m \in In(s) : lines[m] = "warning") => \E i \in 1..Len(kinds) : kinds[i] = "warning"
       /\ (\E m \in In(s) : lines[m] = "marine") => \E i \in 1..Len(kinds) : kinds[i] = "marine"
       /\ (\A m \in In(s) : IsUgcStart(lines[m]) => lines[m] = "marine")
            => \A i \in 1..Len(kinds) : IsUgcStart(kinds[i]) => kinds[i] = "marine"
  <2>1. /\ \A i \in 1..Len(kinds) : seg[i] \in In(s) /\ kinds[i] = lines[seg[i]]
        /\ \A m \in In(s) : \E i \in 1..Len(kinds) : seg[i] = m
    BY <1>1, <1>4, <1>5
  <2>2. QED
    BY <2>1
<1>16. QED
  BY <1>9, <1>11, <1>12, <1>13, <1>14, <1>15, Zenon DEF ReadAs

\* The events are those of the segments, and a segment with an event code has
\* one.
LEMMA EventsAre ==
    ASSUME SplitInv, NEW known
    PROVE  /\ \A event \in ParseVtecEventBody(known) : \E t \in 1..Cur : event = ParseSegment(SegAt(t), known)
           /\ \A n \in 1..Len(lines) : \A s \in At(n) : LineHasVtec(lines[n]) =>
                  s \in 1..Cur /\ ParseSegment(SegAt(s), known) \in ParseVtecEventBody(known)
<1>1. segments \in Seq(Seq(Nat)) /\ current \in Seq(Nat) /\ Len(segments) \in Nat /\ Cur = Len(segments) + 1
  BY DEF SplitInv, SplitTyped, Cur
<1>2. /\ DOMAIN segments = 1..Len(segments)
      /\ \A t \in 1..Len(segments) : SegAt(t) = segments[t] /\ t \in 1..Cur
  BY <1>1 DEF SegAt
<1>3. LET all == Append(segments, current)
      IN  DOMAIN all = 1..Cur /\ \A t \in 1..Cur : all[t] = SegAt(t)
  <2> DEFINE all == Append(segments, current)
  <2>1. /\ all \in Seq(Seq(Nat)) /\ Len(all) = Cur /\ all[Cur] = current
        /\ \A t \in 1..Len(segments) : all[t] = segments[t]
    BY <1>1, Appended
  <2> HIDE DEF all
  <2>2. DOMAIN all = 1..Cur
    BY <2>1
  <2>3. \A t \in 1..Cur : t = Cur \/ t \in 1..Len(segments)
    BY <1>1
  <2>4. \A t \in 1..Cur : all[t] = SegAt(t)
    BY <1>2, <2>1, <2>3 DEF SegAt
  <2>5. QED
    BY <2>2, <2>4 DEF all
<1>4. /\ DOMAIN Pushed \subseteq 1..Cur /\ \A t \in DOMAIN Pushed : Pushed[t] = SegAt(t)
      /\ \A t \in 1..Len(segments) : t \in DOMAIN Pushed
  <2>1. CASE Pushed = Append(segments, current)
    BY <1>2, <1>3, <2>1
  <2>2. CASE Pushed = segments
    BY <1>2, <2>2
  <2>3. QED
    BY <2>1, <2>2 DEF Pushed
<1>5. ASSUME NEW n \in 1..Len(lines), NEW s \in At(n), LineHasVtec(lines[n]) PROVE s \in DOMAIN Pushed /\ s \in 1..Cur
  <2>1. s \in 1..Cur
    BY Places DEF SplitInv
  <2>2. CASE s = Cur
    <3>1. PICK i \in 1..Len(current) : current[i] = n
      BY <2>2, Places DEF SplitInv
    <3>2. i \in DOMAIN current /\ LineHasVtec(lines[current[i]])
      BY <1>1, <1>5, <3>1
    <3>3. Pushed = Append(segments, current)
      BY <3>2, Zenon DEF Pushed
    <3>4. QED
      BY <1>3, <2>1, <3>3
  <2>3. CASE s \in 1..Len(segments)
    BY <1>4, <2>1, <2>3
  <2>4. QED
    BY <1>1, <2>1, <2>2, <2>3
<1>6. QED
  BY <1>4, <1>5, Zenon DEF ParseVtecEventBody

\* The event of the code in line n has what is printed for it.
LEMMA EventRead ==
    ASSUME SplitInv, NEW known \in BOOLEAN, NEW n \in 1..Len(lines), LineHasVtec(lines[n])
    PROVE  \E event \in ParseVtecEventBody(known) :
              /\ {e \in ParseVtecEventBody(known) : n \in e.vtec} = {event}
              /\ AreasTold(event, n, known) /\ PolygonsTold(event, n)
              /\ known /\ MarineAbove(n) => "missing_polygon" \notin event.issues
<1>1. PICK s : s \in At(n)
  BY DEF SplitInv, EventsPlaced
<1>2. At(n) = {s}
  BY <1>1 DEF SplitInv, EventsPlaced
<1> DEFINE event == ParseSegment(SegAt(s), known)
<1>3. s \in 1..Cur /\ event \in ParseVtecEventBody(known)
  BY <1>1, EventsAre, Zenon
<1>4. /\ Len(lines) \in Nat /\ n \in In(s) /\ In(s) \subseteq 1..Len(lines)
      /\ \A m \in 1..Len(lines) : m \in In(s) <=> s \in At(m)
  BY <1>1 DEF In, SplitInv, SplitTyped
<1> HIDE DEF event
<1>5. /\ event.vtec = {m \in In(s) : LineHasVtec(lines[m])}
      /\ event.polygons = {p \in In(s) : lines[p] = "latlon" /\ ~Garbled(s, p)}
      /\ (\E p \in In(s) : lines[p] = "latlon" /\ Garbled(s, p)) => "invalid_latlon" \in event.issues
      /\ known /\ (\E m \in In(s) : lines[m] \in {"county", "marine"})
             => event.sections # <<>> \/ "invalid_ugc_codes" \in event.issues
      /\ ~known => event.sections = <<>>
      /\ ~known /\ (\E m \in In(s) : IsUgcStart(lines[m])) =>
             "missing_reference_time" \in event.issues /\ "missing_ugc" \notin event.issues
      /\ (\A m \in In(s) : ~IsUgcStart(lines[m])) => event.sections = <<>>
      /\ event.sections = <<>> =>
             "missing_ugc" \in event.issues \/ "missing_reference_time" \in event.issues
      /\ event.polygons = {} /\ (\E m \in In(s) : lines[m] = "warning") =>
             "missing_polygon" \in event.issues \/ MarineOnly(event.sections)
      /\ known /\ (\E m \in In(s) : lines[m] = "marine")
            /\ (\A m \in In(s) : IsUgcStart(lines[m]) => lines[m] = "marine")
             => "missing_polygon" \notin event.issues
  <2>1. event = ParseSegment(SegAt(s), known)
    BY DEF event
  <2>2. QED
    BY <1>3, <2>1, EventIs, Zenon
<1>6. {e \in ParseVtecEventBody(known) : n \in e.vtec} = {event}
  <2>1. n \in event.vtec
    BY <1>4, <1>5
  <2>2. ASSUME NEW e \in ParseVtecEventBody(known), n \in e.vtec PROVE e = event
    <3>1. PICK t \in 1..Cur : e = ParseSegment(SegAt(t), known)
      BY EventsAre, Zenon
    <3>2. e.vtec = {m \in In(t) : LineHasVtec(lines[m])}
      BY <3>1, EventIs, Zenon
    <3>3. t \in At(n)
      BY <2>2, <3>2 DEF In
    <3>4. t = s
      BY <1>2, <3>3
    <3>5. QED
      BY <3>1, <3>4 DEF event
  <2>3. QED
    BY <1>3, <2>1, <2>2
\* Two lines of the segment, and what may not be between.
<1>7. ASSUME NEW m \in In(s), NEW k \in In(s), m < k PROVE ~Apart(m, k)
  <2>1. m \in 1..Len(lines) /\ k \in 1..Len(lines) /\ s \in At(m) \cap At(k)
    BY <1>4
  <2>2. QED
    BY <1>7, <2>1 DEF SplitInv, PairsCorrelated
<1>8. \A m, l \in In(s) : \A k \in (m + 1)..(l - 1) : k \in In(s) /\ lines[k] # "end"
  <2> SUFFICES ASSUME NEW m \in In(s), NEW l \in In(s), NEW k \in (m + 1)..(l - 1)
               PROVE  k \in In(s) /\ lines[k] # "end"
    OBVIOUS
  <2>1. k \in m..l
    BY <1>4
  <2>2. QED
    BY <1>3, <2>1, RunHolds
<1>9. \A m, l \in In(s) : ~Between(m, l, LAMBDA k : k = "end")
  BY <1>8 DEF Between
\* The areas of the segment are above the code.
<1>10. ASSUME NEW m \in In(s), IsUgcStart(lines[m])
       PROVE  /\ m \in 1..(n - 1)
              /\ \A k \in (m + 1)..(n - 1) : LineHasVtec(lines[k]) => ~Between(k, n, LineHasGeography)
  <2>1. m # n
    BY <1>10 DEF IsUgcStart, LineHasVtec
  <2>2. ~(n < m)
    BY <1>4, <1>7, <1>10 DEF Apart
  <2>3. m \in 1..(n - 1)
    BY <1>4, <2>1, <2>2
  <2>4. ASSUME NEW k \in (m + 1)..(n - 1), LineHasVtec(lines[k]), Between(k, n, LineHasGeography)
        PROVE  FALSE
    <3>1. k \in In(s) /\ k < n
      BY <1>4, <1>8, <2>4
    <3>2. Apart(k, n)
      BY <2>4 DEF Apart, Between
    <3>3. QED
      BY <1>4, <1>7, <3>1, <3>2
  <2>5. QED
    BY <2>3, <2>4
<1>11. ASSUME NEW m \in 1..(n - 1), IsUgcStart(lines[m]), Reaches(m, n) PROVE m \in In(s)
  <2>1. m \in 1..Len(lines) /\ m < n
    BY <1>4
  <2>2. AreasAbove(m, n)
    BY <1>11 DEF AreasAbove, Reaches, Between
  <2>3. At(m) \cap At(n) # {}
    BY <2>1, <2>2 DEF SplitInv, PairsCorrelated
  <2>4. QED
    BY <1>2, <1>4, <2>1, <2>3
<1>12. AreasTold(event, n, known)
  <2>1. ASSUME NEW m \in 1..(n - 1), lines[m] \in {"county", "marine"}, Reaches(m, n)
        PROVE  IF known
               THEN event.sections # <<>> \/ "invalid_ugc_codes" \in event.issues
               ELSE "missing_reference_time" \in event.issues /\ "missing_ugc" \notin event.issues
    <3>1. IsUgcStart(lines[m])
      BY <2>1 DEF IsUgcStart
    <3>2. m \in In(s)
      BY <1>11, <2>1, <3>1
    <3>3. CASE known
      BY <1>5, <2>1, <3>2, <3>3
    <3>4. CASE ~known
      BY <1>5, <3>1, <3>2, <3>4
    <3>5. QED
      BY <3>3, <3>4
  <2>2. event.sections = <<>> => {"missing_ugc", "missing_reference_time"} \cap event.issues # {}
    BY <1>5
  <2>3. ASSUME event.sections # <<>>
        PROVE  \E m \in 1 .. n - 1 :
                  /\ IsUgcStart(lines[m]) /\ ~Between(m, n, LAMBDA k : k = "end")
                  /\ \A k \in m + 1 .. n - 1 : LineHasVtec(lines[k]) => ~Between(k, n, LineHasGeography)
    <3>1. PICK m \in In(s) : IsUgcStart(lines[m])
      BY <1>5, <2>3, Zenon
    <3>2. m \in 1 .. n - 1 /\ ~Between(m, n, LAMBDA k : k = "end")
      BY <1>4, <1>9, <1>10, <3>1, Zenon
    <3>3. QED
      BY <1>10, <3>1, <3>2, Zenon
  <2>4. QED
    BY <2>1, <2>2, <2>3, Zenon DEF AreasTold
<1>13. ASSUME NEW p \in n + 1 .. Len(lines), lines[p] = "latlon", Reaches(n, p), ~Between(n, p, IsUgcStart)
       PROVE  IF p < Len(lines) /\ lines[p + 1] = "tail"
              THEN "invalid_latlon" \in event.issues
              ELSE p \in event.polygons
  <2>1. p \in 1..Len(lines) /\ n < p /\ p \in Nat
    BY <1>4
  <2>2. GeographyBelow(n, p)
    BY <1>13 DEF GeographyBelow, Reaches, Between, LineHasGeography
  <2>3. At(n) \cap At(p) # {}
    BY <2>1, <2>2 DEF SplitInv, PairsCorrelated
  <2>4. p \in In(s)
    BY <1>2, <1>4, <2>1, <2>3
  <2>5. CASE p < Len(lines) /\ lines[p + 1] = "tail"
    <3>1. p + 1 \in 1..Len(lines)
      BY <1>4, <2>1, <2>5
    <3>2. At(p) \subseteq At(p + 1)
      BY <2>1, <2>5, <3>1 DEF SplitInv, LinesFollow, IsUgcStart, LineHasVtec
    <3>3. p + 1 \in In(s)
      BY <1>4, <2>1, <2>4, <3>1, <3>2
    <3>4. Garbled(s, p)
      BY <2>5, <3>3 DEF Garbled
    <3>5. QED
      BY <1>5, <1>13, <2>4, <2>5, <3>4
  <2>6. CASE ~(p < Len(lines) /\ lines[p + 1] = "tail")
    <3>1. ASSUME Garbled(s, p) PROVE FALSE
      <4>1. p + 1 \in In(s) /\ p + 1 \in 1..Len(lines) /\ n < p + 1
        BY <1>4, <2>1, <3>1 DEF Garbled
      <4>2. IsUgcStart(lines[p + 1])
        BY <1>4, <2>1, <2>6, <3>1, <4>1 DEF Garbled, IsUgcStart
      <4>3. Apart(n, p + 1)
        BY <4>2 DEF Apart
      <4>4. QED
        BY <1>4, <1>7, <4>1, <4>3
    <3>2. QED
      BY <1>5, <1>13, <2>4, <2>6, <3>1
  <2>7. QED
    BY <2>5, <2>6
<1>14. ASSUME NEW p \in event.polygons
       PROVE  /\ lines[p] = "latlon"
              /\ p < n => Reaches(p, n)
              /\ p > n => ~Between(n, p, LAMBDA k : k = "end") /\ ~Between(n, p, IsUgcStart)
  <2>1. p \in In(s) /\ lines[p] = "latlon" /\ p \in 1..Len(lines) /\ LineHasGeography(lines[p])
    BY <1>4, <1>5 DEF LineHasGeography
  <2>2. ~Between(p, n, LAMBDA k : k = "end") /\ ~Between(n, p, LAMBDA k : k = "end")
    BY <1>4, <1>9, <2>1, Zenon
  <2>3. ASSUME NEW k \in (p + 1)..(n - 1), LineHasVtec(lines[k]) PROVE FALSE
    <3>1. k \in In(s) /\ k \in 1..Len(lines) /\ p < n /\ k < n
      BY <1>4, <1>8, <2>1
    <3>2. s \in At(p) \cap At(k) \cap At(n)
      BY <1>4, <2>1, <3>1
    <3>3. QED
      BY <2>1, <2>3, <3>1, <3>2 DEF SplitInv, LinesFollow
  <2>4. ASSUME NEW k \in (n + 1)..(p - 1), IsUgcStart(lines[k]) PROVE FALSE
    <3>1. k \in In(s) /\ n < k
      BY <1>4, <1>8, <2>1
    <3>2. Apart(n, k)
      BY <2>4 DEF Apart
    <3>3. QED
      BY <1>4, <1>7, <3>1, <3>2
  <2>5. ~Between(p, n, LineHasVtec) /\ ~Between(n, p, IsUgcStart)
    BY <2>3, <2>4 DEF Between
  <2>6. QED
    BY <2>1, <2>2, <2>5 DEF Reaches
<1>15. PolygonsTold(event, n)
  <2>1. event.polygons = {} /\ lines[n] = "warning" =>
            "missing_polygon" \in event.issues \/ MarineOnly(event.sections)
    BY <1>4, <1>5, Zenon
  <2>2. QED
    BY <1>13, <1>14, <2>1, Zenon DEF PolygonsTold
<1>16. ASSUME known, MarineAbove(n) PROVE "missing_polygon" \notin event.issues
  <2> DEFINE above == {m \in 1 .. n - 1 : IsUgcStart(lines[m]) /\ Reaches(m, n)}
  <2>1. PICK m : m \in above
    BY <1>16 DEF MarineAbove
  <2>2. \A a \in above : lines[a] = "marine"
    BY <1>16 DEF MarineAbove
  <2>3. m \in In(s) /\ lines[m] = "marine"
    BY <1>11, <2>1, <2>2
  <2>4. ASSUME NEW a \in In(s), IsUgcStart(lines[a]) PROVE lines[a] = "marine"
    <3>1. a \in 1 .. n - 1
      BY <1>10, <2>4
    <3>2. ASSUME NEW k \in (a + 1)..(n - 1), LineHasVtec(lines[k]) PROVE FALSE
      <4>1. k \in In(s)
        BY <1>4, <1>8, <2>4, <3>2
      <4>2. ~(k < m)
        BY <1>7, <2>1, <2>3, <3>2, <4>1 DEF Apart
      <4>3. k # m
        BY <2>3, <3>2 DEF LineHasVtec
      <4>4. k \in (m + 1)..(n - 1)
        BY <1>4, <2>1, <3>2, <4>2, <4>3
      <4>5. Between(m, n, LineHasVtec)
        BY <3>2, <4>4 DEF Between
      <4>6. QED
        BY <2>1, <4>5 DEF Reaches
    <3>3. Reaches(a, n)
      <4>1. ~Between(a, n, LineHasVtec)
        BY <3>2 DEF Between
      <4>2. ~Between(a, n, LAMBDA k : k = "end")
        BY <1>4, <1>9, <2>4, Zenon
      <4>3. QED
        BY <4>1, <4>2 DEF Reaches
    <3>4. a \in above
      BY <2>4, <3>1, <3>3
    <3>5. QED
      BY <2>2, <3>4
  <2>5. QED
    BY <1>5, <1>16, <2>3, <2>4, Zenon
<1>17. QED
  BY <1>3, <1>6, <1>12, <1>15, <1>16, Zenon

-----------------------------------------------------------------------------
(* What the pipeline keeps *)

\* Where a strategy is asked there is one, and the product is complete.
Asked ==
    /\ stage = "wmo" => next <= Len(WmoStrategies)
    /\ stage \notin {"text", "wmo"} => next = 1

Parts == {"artifact", "body", "issues", "segments"}
Shaped == DOMAIN product = Parts

\* Lines are read for the plan with event codes only, and the events of the
\* product are the ones of all that was read.
Published ==
    /\ stage \notin {"body", "done"} => lines = <<>>
    /\ stage = "body" /\ "vtec" \notin plan => lines = <<>>
    /\ stage = "done" => lines = <<>> \/ product.segments = ParseVtecEventBody(timeKnown)

Plain ==
    /\ stage \in {"arrives", "dated", "text", "wmo", "body", "done"}
    /\ timeKnown \in BOOLEAN
    /\ afos \in Families \cup {"generic"}
    /\ plan \in SUBSET {"vtec", "ugc", "latlon", "motion"}
    /\ next \in 1 .. Len(TextStrategies) + 1
    /\ product.artifact \in BOOLEAN /\ product.body \in {"none", "events", "generic"}

PipelineInv == SplitInv /\ Plain /\ Shaped /\ Asked /\ Published

-----------------------------------------------------------------------------
(* The steps of the pipeline *)

LEMMA SplitSame == SplitInv /\ UNCHANGED bodyVars => SplitInv'
<1> SUFFICES ASSUME SplitInv, UNCHANGED bodyVars PROVE SplitInv'
  OBVIOUS
<1>1. /\ lines' = lines /\ segments' = segments /\ current' = current
      /\ currentHasVtec' = currentHasVtec /\ currentHasGeography' = currentHasGeography
  BY DEF bodyVars
<1>2. Cur' = Cur /\ \A n : At(n)' = At(n)
  BY <1>1 DEF Cur, At, Holds, AllSegments
<1>3. SplitTyped'
  BY <1>1, <1>2 DEF SplitInv, SplitTyped
<1>4. EventsPlaced'
  BY <1>1, <1>2 DEF SplitInv, EventsPlaced
<1>5. CurrentReaches'
  BY <1>1, <1>2 DEF SplitInv, CurrentReaches
<1>6. CurrentWaits'
  BY <1>1, <1>2 DEF SplitInv, CurrentWaits
<1>7. PairsCorrelated'
  BY <1>1, <1>2 DEF SplitInv, PairsCorrelated, AreasAbove, GeographyBelow, Apart
<1>8. SegmentsRun' /\ LinesFollow'
  BY <1>1, <1>2 DEF SplitInv, SegmentsRun, LinesFollow
<1>9. QED
  BY <1>3, <1>4, <1>5, <1>6, <1>7, <1>8 DEF SplitInv

LEMMA BodyStep == SplitInv /\ [PipelineNext]_<<pipelineVars, bodyVars>> => SplitInv'
<1> SUFFICES ASSUME SplitInv, [PipelineNext]_<<pipelineVars, bodyVars>> PROVE SplitInv'
  OBVIOUS
<1>1. CASE ReadBody
  BY <1>1, SplitStep DEF ReadBody
<1>2. CASE UNCHANGED bodyVars
  BY <1>2, SplitSame
<1>3. CASE NotText \/ BrokenHeader \/ ReadTimes \/ AfosText \/ WmoOnly
  BY <1>2, <1>3 DEF NotText, BrokenHeader, Publish, ReadTimes, AfosText, WmoOnly, bodyVars
<1>4. CASE AskTextStrategy \/ GenericText \/ AskWmoStrategy \/ ExtractGeneric \/ ExtractEvents
  BY <1>2, <1>4
  DEF AskTextStrategy, GenericText, AskWmoStrategy, ExtractGeneric, ExtractEvents, Pass, Candidate, bodyVars
<1>5. QED
  BY <1>1, <1>2, <1>3, <1>4 DEF PipelineNext

\* The events are a matter of the text and the time alone.
LEMMA SameEvents ==
    ASSUME UNCHANGED bodyVars, timeKnown' = timeKnown
    PROVE  ParseVtecEventBody(timeKnown)' = ParseVtecEventBody(timeKnown)
<1>1. lines' = lines /\ segments' = segments /\ current' = current
  BY DEF bodyVars
<1>2. Pushed' = Pushed
  BY <1>1, Zenon DEF Pushed
<1>3. \A segment, known : ParseSegment(segment, known)' = ParseSegment(segment, known)
  BY <1>1, SMT DEF ParseSegment
<1>4. QED
  BY <1>2, <1>3, Zenon DEF ParseVtecEventBody

\* Before a line is read there is nothing to publish.
LEMMA NothingRead ==
    ASSUME lines = <<>>, UNCHANGED bodyVars PROVE Published'
  BY DEF Published, bodyVars

LEMMA Catalogue ==
    /\ Len(TextStrategies) = 18 /\ Len(WmoStrategies) = 9 /\ WmoStrategies[9] = "unsupported"
    /\ \A family : \A p \in PlansOf(family) : p \subseteq {"vtec", "ugc", "latlon", "motion"}
<1>1. Len(TextStrategies) = 18
  BY DEF TextStrategies
<1>2. Len(WmoStrategies) = 9 /\ WmoStrategies[9] = "unsupported"
  BY DEF WmoStrategies
<1>3. ASSUME NEW family, NEW p \in PlansOf(family) PROVE p \subseteq {"vtec", "ugc", "latlon", "motion"}
  BY <1>3 DEF PlansOf
<1>4. QED
  BY <1>1, <1>2, <1>3

LEMMA PipelineStart == PipelineInit => PipelineInv
<1> SUFFICES ASSUME PipelineInit PROVE PipelineInv
  OBVIOUS
<1>1. SplitInv
  BY SplitStart DEF PipelineInit
<1>2. product = NoProduct /\ product.artifact = FALSE /\ product.body = "none" /\ product.segments = {}
  BY DEF PipelineInit, NoProduct
<1>3. Plain /\ Asked
  <2>1. /\ stage = "arrives" /\ timeKnown = FALSE /\ afos = "generic"
        /\ plan = {} /\ next = 1
    BY DEF PipelineInit
  <2>a. timeKnown \in BOOLEAN /\ product.artifact \in BOOLEAN
    BY <1>2, <2>1, Zenon
  <2>b. plan \in SUBSET {"vtec", "ugc", "latlon", "motion"} /\ afos \in Families \cup {"generic"}
    BY <2>1
  <2>c. next \in 1 .. Len(TextStrategies) + 1
    BY <2>1, Catalogue
  <2>2. Plain
    BY <1>2, <2>1, <2>a, <2>b, <2>c DEF Plain
  <2>3. QED
    BY <2>1, <2>2 DEF Asked
<1>4. Shaped
  BY <1>2 DEF NoProduct, Shaped, Parts
<1>5. Published
  BY DEF PipelineInit, BodyInit, Published
<1>6. QED
  BY <1>1, <1>3, <1>4, <1>5 DEF PipelineInv

\* The product that a strategy or the envelope makes.
LEMMA MadeSo ==
    ASSUME NEW a, NEW i
    PROVE  LET new == [NoProduct EXCEPT !.artifact = a, !.issues = i]
           IN  /\ DOMAIN new = Parts
               /\ new.artifact = a /\ new.body = "none" /\ new.issues = i /\ new.segments = {}
<1>1. DOMAIN NoProduct = Parts /\ NoProduct.body = "none" /\ NoProduct.segments = {}
  BY DEF NoProduct, Parts
<1>2. QED
  BY <1>1 DEF Parts

\* A product published at once.
LEMMA PublishStep ==
    ASSUME PipelineInv, stage = "arrives", NEW a \in BOOLEAN, NEW i, Publish(a, i)
    PROVE  Plain' /\ Shaped' /\ Asked' /\ Published'
<1>1. product' = [NoProduct EXCEPT !.artifact = a, !.issues = i]
  BY DEF Publish
<1>2. Shaped'
  BY <1>1, MadeSo DEF Shaped
<1>3. product'.artifact = a /\ product'.body = "none"
  BY <1>1, MadeSo
<1>4. stage' = "done" /\ UNCHANGED <<timeKnown, afos, plan, next, bodyVars>>
  BY DEF Publish
<1>5. Plain'
  BY <1>3, <1>4 DEF PipelineInv, Plain
<1>6. Asked'
  BY <1>4 DEF PipelineInv, Asked
<1>7. Published'
  BY <1>4, NothingRead DEF PipelineInv, Published
<1>8. QED
  BY <1>2, <1>5, <1>6, <1>7

\* A product that a strategy makes.
LEMMA CandidateStep ==
    ASSUME PipelineInv, stage \in {"text", "wmo"}, NEW a \in BOOLEAN, NEW r \in BOOLEAN, Candidate(a, r)
    PROVE  Plain' /\ Shaped' /\ Asked' /\ Published'
<1> DEFINE i == IF a THEN {} ELSE {"family"}
<1>1. product' = [NoProduct EXCEPT !.artifact = a, !.issues = i]
  BY DEF Candidate
<1> HIDE DEF i
<1>2. Shaped'
  BY <1>1, MadeSo DEF Shaped
<1>3. product'.artifact = a /\ product'.body = "none"
  BY <1>1, MadeSo
<1>4. /\ stage' \in {"body", "done"} /\ afos' = "generic" /\ next' = 1
      /\ UNCHANGED <<timeKnown, plan, bodyVars>>
  BY DEF Candidate
<1>5. Plain'
  BY <1>3, <1>4, Catalogue DEF PipelineInv, Plain
<1>6. Asked'
  BY <1>4 DEF Asked
<1>7. Published'
  BY <1>4, NothingRead DEF PipelineInv, Published
<1>8. QED
  BY <1>2, <1>5, <1>6, <1>7

\* A step before the body is read that makes no product.
LEMMA SameProduct ==
    ASSUME PipelineInv, product' = product, stage \notin {"body", "done"}, UNCHANGED bodyVars
    PROVE  Shaped' /\ Published'
<1>1. Shaped'
  BY DEF PipelineInv, Shaped
<1>2. Published'
  BY NothingRead DEF PipelineInv, Published
<1>3. QED
  BY <1>1, <1>2

\* What a body adds to the product.
LEMMA AddedSo ==
    ASSUME Shaped, NEW b, NEW t, NEW i
    PROVE  LET new == [product EXCEPT !.body = b, !.segments = t, !.issues = i]
           IN  /\ DOMAIN new = Parts
               /\ new.artifact = product.artifact /\ new.body = b /\ new.issues = i /\ new.segments = t
  BY DEF Shaped, Parts

LEMMA EnvelopeStep ==
    ASSUME PipelineInv, NotText \/ BrokenHeader \/ ReadTimes \/ AfosText \/ WmoOnly
    PROVE  Plain' /\ Shaped' /\ Asked' /\ Published'
<1> USE DEF PipelineInv
<1>1. CASE NotText
  BY <1>1, PublishStep DEF NotText
<1>2. CASE BrokenHeader
  BY <1>2, PublishStep DEF BrokenHeader
<1>3. CASE ReadTimes
  <2>1. /\ stage = "arrives" /\ stage' = "dated" /\ afos' = afos /\ plan' = plan /\ next' = next
        /\ product' = product /\ UNCHANGED bodyVars
    BY <1>3 DEF ReadTimes
  <2>2. timeKnown' = (clock'.header # None) \/ timeKnown' = timeKnown
    BY <1>3 DEF ReadTimes
  <2>3. timeKnown' \in BOOLEAN
    BY <2>2 DEF Plain
  <2>4. Shaped' /\ Published'
    BY <2>1, SameProduct
  <2>5. Plain' /\ Asked'
    BY <2>1, <2>3 DEF Plain, Asked
  <2>6. QED
    BY <2>4, <2>5
<1>4. CASE AfosText
  <2>1. /\ stage = "dated" /\ stage' = "text" /\ timeKnown' = timeKnown /\ next' = next
        /\ product' = product /\ UNCHANGED bodyVars
        /\ \E family \in Families \cup {"generic"} : afos' = family /\ plan' \in PlansOf(family)
    BY <1>4 DEF AfosText
  <2>2. Shaped' /\ Published'
    BY <2>1, SameProduct
  <2>3. plan' \in SUBSET {"vtec", "ugc", "latlon", "motion"} /\ afos' \in Families \cup {"generic"}
    BY <2>1, Catalogue
  <2>4. Plain' /\ Asked'
    BY <2>1, <2>3 DEF Plain, Asked
  <2>5. QED
    BY <2>2, <2>4
<1>5. CASE WmoOnly
  <2>1. /\ stage = "dated" /\ stage' = "wmo" /\ UNCHANGED <<timeKnown, afos, plan, next, product, bodyVars>>
    BY <1>5 DEF WmoOnly
  <2>2. Shaped' /\ Published'
    BY <2>1, SameProduct
  <2>3. Plain' /\ Asked'
    BY <2>1, Catalogue DEF Plain, Asked
  <2>4. QED
    BY <2>2, <2>3
<1>6. QED
  BY <1>1, <1>2, <1>3, <1>4, <1>5

LEMMA StrategyStep ==
    ASSUME PipelineInv, AskTextStrategy \/ GenericText \/ AskWmoStrategy
    PROVE  Plain' /\ Shaped' /\ Asked' /\ Published'
<1> USE DEF PipelineInv
<1>0. DOMAIN TextStrategies = 1..18
  BY DEF TextStrategies
<1>1. ASSUME Pass, \/ stage = "text" /\ next \in DOMAIN TextStrategies
                   \/ stage = "wmo" /\ next < Len(WmoStrategies)
      PROVE  Plain' /\ Shaped' /\ Asked' /\ Published'
  <2>1. next' = next + 1 /\ UNCHANGED <<stage, timeKnown, afos, plan, product, bodyVars>>
    BY <1>1 DEF Pass
  <2>2. Shaped' /\ Published'
    BY <1>1, <2>1, SameProduct
  <2>3. next' \in 1 .. Len(TextStrategies) + 1 /\ (stage = "wmo" => next' <= Len(WmoStrategies))
    BY <1>0, <1>1, <2>1, Catalogue DEF Plain
  <2>4. Plain' /\ Asked'
    BY <1>1, <2>1, <2>3 DEF Plain, Asked
  <2>5. QED
    BY <2>2, <2>4
<1>2. CASE AskTextStrategy
  BY <1>1, <1>2, CandidateStep DEF AskTextStrategy
<1>3. CASE GenericText
  <2>1. /\ stage = "text" /\ stage' \in {"body", "done"} /\ afos' = "generic" /\ next' = 1
        /\ UNCHANGED <<timeKnown, plan, product, bodyVars>>
    BY <1>3 DEF GenericText
  <2>2. Shaped' /\ Published'
    BY <2>1, SameProduct
  <2>3. Plain' /\ Asked'
    BY <2>1, Catalogue DEF Plain, Asked
  <2>4. QED
    BY <2>2, <2>3
<1>4. CASE AskWmoStrategy
  <2>1. WmoStrategies[next] # "unsupported" => next < Len(WmoStrategies)
    BY <1>4, Catalogue DEF AskWmoStrategy, Asked, Plain
  <2>2. QED
    BY <1>1, <1>4, <2>1, CandidateStep DEF AskWmoStrategy
<1>5. QED
  BY <1>2, <1>3, <1>4

LEMMA ExtractStep ==
    ASSUME PipelineInv, ExtractGeneric \/ ReadBody \/ ExtractEvents
    PROVE  Plain' /\ Shaped' /\ Asked' /\ Published'
<1> USE DEF PipelineInv
<1>1. ASSUME stage = "body", stage' = "done", plan' = {}, UNCHANGED <<timeKnown, afos, next>>,
             DOMAIN product' = Parts, product'.artifact = product.artifact,
             product'.body \in {"none", "events", "generic"}
      PROVE  Plain' /\ Shaped' /\ Asked'
  BY <1>1 DEF Plain, Asked, Shaped
<1>2. CASE ExtractGeneric
  <2>a. PICK found, bad :
            product' = [product EXCEPT
                !.body = IF found # {} THEN "generic" ELSE "none",
                !.issues = @ \cup bad
                    \cup (IF (IF timeKnown THEN {} ELSE plan \cap {"ugc", "motion"}) # {}
                          THEN {"missing_reference_time"} ELSE {})]
    BY <1>2 DEF ExtractGeneric
  <2> DEFINE b == IF found # {} THEN "generic" ELSE "none"
             i == product.issues \cup bad
                    \cup (IF (IF timeKnown THEN {} ELSE plan \cap {"ugc", "motion"}) # {}
                          THEN {"missing_reference_time"} ELSE {})
  <2>b. b \in {"none", "events", "generic"}
    OBVIOUS
  <2>1. product' = [product EXCEPT !.body = b, !.issues = i]
    BY <2>a
  <2> HIDE DEF b, i
  <2>2. DOMAIN product' = Parts /\ product'.artifact = product.artifact /\ product'.body = b
    BY <2>1 DEF Shaped, Parts
  <2>3. /\ stage = "body" /\ stage' = "done" /\ plan' = {} /\ "vtec" \notin plan
        /\ UNCHANGED <<timeKnown, afos, next>> /\ UNCHANGED bodyVars
    BY <1>2 DEF ExtractGeneric
  <2>4. Published'
    BY <2>3, NothingRead DEF Published
  <2>5. QED
    BY <1>1, <2>2, <2>3, <2>4, <2>b
<1>3. CASE ReadBody
  <2>1. /\ stage = "body" /\ "vtec" \in plan
        /\ UNCHANGED <<stage, timeKnown, afos, plan, next, product>>
    BY <1>3 DEF ReadBody, pipelineVars
  <2>2. Shaped' /\ Published'
    BY <2>1 DEF Shaped, Published
  <2>3. Plain' /\ Asked'
    BY <2>1 DEF Plain, Asked
  <2>4. QED
    BY <2>2, <2>3
<1>4. CASE ExtractEvents
  <2> DEFINE events == ParseVtecEventBody(timeKnown)
             b == IF events # {} THEN "events" ELSE "none"
             i == product.issues \cup UNION {event.issues : event \in events}
  <2>1. product' = [product EXCEPT !.body = b, !.segments = events, !.issues = i]
    BY <1>4 DEF ExtractEvents
  <2>2. b \in {"none", "events", "generic"}
    OBVIOUS
  <2>3. /\ stage = "body" /\ stage' = "done" /\ plan' = {}
        /\ UNCHANGED <<timeKnown, afos, next>> /\ UNCHANGED bodyVars
    BY <1>4 DEF ExtractEvents
  <2>4. events' = events
    BY <2>3, SameEvents
  <2> HIDE DEF b, i
  <2>5. /\ DOMAIN product' = Parts /\ product'.artifact = product.artifact /\ product'.body = b
        /\ product'.segments = events
    <3> HIDE DEF events
    <3> QED BY <2>1, AddedSo
  <2>6. Published'
    <3>1. product'.segments = ParseVtecEventBody(timeKnown)'
      BY <2>4, <2>5, Zenon
    <3>2. QED
      BY <2>3, <3>1, Zenon DEF Published
  <2>7. QED
    BY <1>1, <2>2, <2>3, <2>5, <2>6
<1>5. QED
  BY <1>2, <1>3, <1>4

\* Every state a parse can reach: the splitter has kept the lines of an event
\* together, and a product has the events of its text.
THEOREM PipelineInvariant == PipelineSpec => []PipelineInv
<1>1. PipelineInit => PipelineInv
  BY PipelineStart
<1>2. PipelineInv /\ [PipelineNext]_<<pipelineVars, bodyVars>> => PipelineInv'
  <2> SUFFICES ASSUME PipelineInv, [PipelineNext]_<<pipelineVars, bodyVars>> PROVE PipelineInv'
    OBVIOUS
  <2>1. SplitInv'
    BY BodyStep DEF PipelineInv
  <2>2. CASE UNCHANGED <<pipelineVars, bodyVars>>
    <3>1. UNCHANGED <<stage, timeKnown, afos, plan, next, product>> /\ UNCHANGED bodyVars
      BY <2>2 DEF pipelineVars
    <3>2. lines' = lines
      BY <3>1 DEF bodyVars
    <3>3. ParseVtecEventBody(timeKnown)' = ParseVtecEventBody(timeKnown)
      BY <3>1, SameEvents
    <3>4. Published'
      BY <3>1, <3>2, <3>3, Zenon DEF PipelineInv, Published
    <3>5. Shaped' /\ Plain' /\ Asked'
      BY <3>1 DEF PipelineInv, Plain, Asked, Shaped
    <3>6. QED
      BY <2>1, <3>4, <3>5 DEF PipelineInv
  <2>3. CASE PipelineNext
    BY <2>1, <2>3, EnvelopeStep, StrategyStep, ExtractStep DEF PipelineNext, PipelineInv
  <2>4. QED
    BY <2>2, <2>3
<1>3. QED
  BY <1>1, <1>2, PTL DEF PipelineSpec

\* However long a text is and however its lines mix, the split keeps every
\* event code, once, with the areas above it and the geography below it, and
\* keeps what belongs to another event out (split_vtec_segments).
THEOREM SegmentsCorrect == PipelineSpec => []SegmentsCorrelated
<1>1. PipelineInv => SegmentsCorrelated
  BY SplitIsRight DEF PipelineInv
<1>2. QED
  BY <1>1, PipelineInvariant, PTL

\* However long a text is and however its lines mix: every event code is in
\* exactly one event of the product, with the areas and polygons printed for it
\* or an issue that says what stood in the way, and nothing of another event
\* (enrich_product, split_vtec_segments, parse_vtec_event_body_with_issues,
\* validate_vtec_segment).
THEOREM EventsCorrect == PipelineSpec => []EventsPublished
<1>1. PipelineInv => EventsPublished
  <2> SUFFICES ASSUME PipelineInv PROVE EventsPublished
    OBVIOUS
  <2>1. BodyTypeOK
    <3>1. SplitTyped
      BY DEF PipelineInv, SplitInv
    <3>a. \A n \in Nat : At(n) # {} => n \in DOMAIN lines
      BY <3>1 DEF SplitTyped
    <3>2. \A i \in DOMAIN segments : i \in 1..Len(segments) /\ DOMAIN segments[i] = 1..Len(segments[i])
      BY <3>1 DEF SplitTyped
    <3>3. \A i \in DOMAIN segments : \A k \in DOMAIN segments[i] : segments[i][k] \in Nat
      BY <3>1 DEF SplitTyped
    <3>4. ASSUME NEW i \in DOMAIN segments, NEW k \in DOMAIN segments[i]
          PROVE  segments[i][k] \in DOMAIN lines
      <4>1. i \in At(segments[i][k])
        BY <3>1, <3>2, Places
      <4>2. QED
        BY <3>3, <3>a, <4>1, Zenon
    <3>5. ASSUME NEW k \in DOMAIN current PROVE current[k] \in DOMAIN lines
      <4>1. k \in 1..Len(current) /\ current[k] \in Nat
        BY <3>1 DEF SplitTyped
      <4>2. Cur \in At(current[k])
        BY <3>1, <4>1, Places
      <4>3. QED
        BY <3>a, <4>1, <4>2, Zenon
    <3>6. lines \in Seq(LineKinds) /\ currentHasVtec \in BOOLEAN /\ currentHasGeography \in BOOLEAN
      BY <3>1 DEF SplitTyped
    <3>7. QED
      BY <3>4, <3>5, <3>6 DEF BodyTypeOK
  <2>2. PipelineTypeOK
    BY <2>1 DEF PipelineInv, Plain, PipelineTypeOK
  <2>3. ASSUME stage = "done", NEW n \in DOMAIN lines, LineHasVtec(lines[n])
        PROVE  \E event \in product.segments :
                   /\ EventOf(n) = {event}
                   /\ AreasTold(event, n, timeKnown)
                   /\ PolygonsTold(event, n)
                   /\ timeKnown /\ MarineAbove(n) => "missing_polygon" \notin event.issues
    <3>1. SplitInv /\ timeKnown \in BOOLEAN /\ n \in 1..Len(lines)
      BY DEF PipelineInv, Plain, SplitInv, SplitTyped
    <3>2. product.segments = ParseVtecEventBody(timeKnown)
      <4>1. lines # <<>>
        BY <3>1
      <4>2. QED
        BY <2>3, <4>1 DEF PipelineInv, Published
    <3>3. PICK event \in ParseVtecEventBody(timeKnown) :
              /\ {e \in ParseVtecEventBody(timeKnown) : n \in e.vtec} = {event}
              /\ AreasTold(event, n, timeKnown) /\ PolygonsTold(event, n)
              /\ timeKnown /\ MarineAbove(n) => "missing_polygon" \notin event.issues
      BY <2>3, <3>1, EventRead, Zenon
    <3>4. EventOf(n) = {event}
      BY <3>2, <3>3, Zenon DEF EventOf
    <3>5. QED
      BY <3>2, <3>3, <3>4, Zenon
  <2>4. QED
    BY <2>2, <2>3, Zenon DEF EventsPublished
<1>2. QED
  BY <1>1, PipelineInvariant, PTL

-----------------------------------------------------------------------------
(* The calendar *)

\* The number of a month in the calendar, and the days of the n-th month.
Place(ym) == 12 * (ym[1] - FirstYear) + ym[2] - 1
DaysOf(n) == MonthLength(NthMonth(n)[1], NthMonth(n)[2])

\* f is the table of the days before each of the first n months.
Table(f, n) == f = [i \in 0..n |-> IF i = 0 THEN 0 ELSE f[i - 1] + DaysOf(i - 1)]

LEMMA TableExists == ASSUME NEW n \in Nat PROVE \E f : Table(f, n)
<1> DEFINE P == {k \in Nat : \E f : Table(f, k)}
<1>1. 0 \in P
  <2>1. Table([i \in 0..0 |-> 0], 0)
    BY DEF Table
  <2>2. QED
    BY <2>1
<1>2. ASSUME NEW k \in 0..(n - 1), k \in P PROVE k + 1 \in P
  <2>1. PICK f : Table(f, k)
    BY <1>2
  <2> DEFINE last == f[k] + DaysOf(k)
             g == [i \in 0..(k + 1) |-> IF i = k + 1 THEN last ELSE f[i]]
             h == [i \in 0..(k + 1) |-> IF i = 0 THEN 0 ELSE g[i - 1] + DaysOf(i - 1)]
  <2>2. \A i \in 0..k : f[i] = IF i = 0 THEN 0 ELSE f[i - 1] + DaysOf(i - 1)
    BY <2>1 DEF Table
  <2>3. ASSUME NEW i \in 0..(k + 1) PROVE g[i] = h[i]
    <3>1. CASE i = 0
      BY <2>2, <3>1
    <3>2. CASE i = k + 1
      <4>1. g[i] = last /\ g[i - 1] = f[k] /\ i - 1 = k
        BY <3>2
      <4>2. QED
        BY <3>2, <4>1
    <3>3. CASE i # 0 /\ i # k + 1
      <4>1. i \in 0..k /\ i - 1 \in 0..k /\ g[i] = f[i] /\ g[i - 1] = f[i - 1]
        BY <3>3
      <4>2. QED
        BY <2>2, <3>3, <4>1
    <3>4. QED
      BY <3>1, <3>2, <3>3
  <2> HIDE DEF last
  <2>4. g = h
    BY <2>3, Zenon
  <2>5. Table(g, k + 1)
    BY <2>4, Zenon DEF Table
  <2>6. QED
    BY <2>5
<1> HIDE DEF P
<1>3. \A k \in 0..n : k \in P
  BY <1>1, <1>2, UpTo
<1>4. QED
  BY <1>3 DEF P

LEMMA Bounds ==
    /\ FirstYear \in Nat /\ LastYear \in Nat /\ FirstYear < LastYear
    /\ TicksPerDay \in Nat /\ TicksPerDay > 0
    /\ MonthCount \in Nat /\ MonthCount = 12 * (LastYear - FirstYear + 1) /\ MonthCount > 0
  BY CalendarAssumption DEF MonthCount

LEMMA MonthLengths == \A year, month : MonthLength(year, month) \in 28..31
<1> SUFFICES ASSUME NEW year, NEW month PROVE MonthLength(year, month) \in 28..31
  OBVIOUS
<1>1. CASE month \in {4, 6, 9, 11}
  BY <1>1 DEF MonthLength
<1>2. CASE month = 2
  BY <1>2 DEF MonthLength
<1>3. CASE month \notin {2, 4, 6, 9, 11}
  BY <1>3 DEF MonthLength
<1>4. QED
  BY <1>1, <1>2, <1>3

\* The days before each month: none before the first, and then one month more.
LEMMA DaysAdd ==
    /\ DaysBefore[0] = 0
    /\ \A n \in 0..(MonthCount - 1) : DaysBefore[n + 1] = DaysBefore[n] + DaysOf(n) /\ DaysOf(n) \in 28..31
    /\ \A n \in 0..MonthCount : DaysBefore[n] \in Nat
<1> DEFINE D == CHOOSE f : Table(f, MonthCount)
<1>1. MonthCount \in Nat
  BY Bounds
<1>2. Table(D, MonthCount)
  BY <1>1, TableExists
<1>3. DaysBefore = D
  BY DEF DaysBefore, Table, DaysOf
<1> HIDE DEF D
<1>4. \A i \in 0..MonthCount : D[i] = IF i = 0 THEN 0 ELSE D[i - 1] + DaysOf(i - 1)
  BY <1>2 DEF Table
<1>5. D[0] = 0
  BY <1>1, <1>4
<1>6. ASSUME NEW n \in 0..(MonthCount - 1)
      PROVE  D[n + 1] = D[n] + DaysOf(n) /\ DaysOf(n) \in 28..31
  <2>1. n + 1 \in 0..MonthCount /\ n + 1 # 0 /\ (n + 1) - 1 = n
    BY <1>1
  <2>2. D[n + 1] = D[n] + DaysOf(n)
    BY <1>4, <2>1
  <2>3. QED
    BY <2>2, MonthLengths DEF DaysOf
<1> DEFINE P == {n \in Nat : D[n] \in Nat}
<1>7. 0 \in P
  BY <1>5
<1>8. ASSUME NEW i \in 0..(MonthCount - 1), i \in P PROVE i + 1 \in P
  BY <1>6, <1>8
<1> HIDE DEF P
<1>9. \A n \in 0..MonthCount : n \in P
  BY <1>1, <1>7, <1>8, UpTo
<1>10. QED
  BY <1>3, <1>5, <1>6, <1>9 DEF P

\* A later month starts at least 28 days later.
LEMMA DaysGrow ==
    ASSUME NEW i \in 0..MonthCount, NEW j \in 0..MonthCount, i < j
    PROVE  DaysBefore[j] >= DaysBefore[i] + 28
<1>1. MonthCount \in Nat
  BY Bounds
<1> DEFINE P == {n \in Nat : n <= i \/ n > MonthCount \/ DaysBefore[n] >= DaysBefore[i] + 28}
<1>2. 0 \in P
  OBVIOUS
<1>3. ASSUME NEW k \in 0..(MonthCount - 1), k \in P PROVE k + 1 \in P
  <2>1. /\ DaysBefore[k + 1] = DaysBefore[k] + DaysOf(k) /\ DaysOf(k) \in 28..31
        /\ DaysBefore[k] \in Nat /\ DaysBefore[i] \in Nat
    BY <1>1, DaysAdd
  <2>2. CASE k < i
    BY <1>1, <2>2
  <2>3. CASE k = i
    BY <1>1, <2>1, <2>3
  <2>4. CASE k > i
    BY <1>1, <1>3, <2>1, <2>4
  <2>5. QED
    BY <2>2, <2>3, <2>4
<1> HIDE DEF P
<1>4. j \in P
  BY <1>1, <1>2, <1>3, UpTo
<1>5. QED
  BY <1>1, <1>4 DEF P

\* Months and their places.
LEMMA MonthPlaces ==
    /\ \A n \in 0..(MonthCount - 1) : NthMonth(n) \in Calendar /\ Place(NthMonth(n)) = n
    /\ \A ym \in Calendar : Place(ym) \in 0..(MonthCount - 1) /\ NthMonth(Place(ym)) = ym
<1>1. ASSUME NEW n \in 0..(MonthCount - 1) PROVE NthMonth(n) \in Calendar /\ Place(NthMonth(n)) = n
  <2>1. n \in Nat /\ n \div 12 \in Nat /\ n % 12 \in 0..11 /\ n = 12 * (n \div 12) + (n % 12)
    BY Bounds
  <2>2. FirstYear + (n \div 12) \in FirstYear..LastYear
    BY <2>1, Bounds
  <2>3. QED
    BY <2>1, <2>2, Bounds DEF NthMonth, Calendar, Place
<1>2. ASSUME NEW ym \in Calendar PROVE Place(ym) \in 0..(MonthCount - 1) /\ NthMonth(Place(ym)) = ym
  <2>1. PICK y \in FirstYear..LastYear, m \in 1..12 : ym = <<y, m>>
    BY DEF Calendar
  <2>2. Place(ym) = 12 * (y - FirstYear) + (m - 1) /\ y \in Int /\ m \in Int
    BY <2>1, Bounds DEF Place
  <2>3. Place(ym) \div 12 = y - FirstYear /\ Place(ym) % 12 = m - 1
    BY <2>1, <2>2, Bounds
  <2>4. QED
    BY <2>1, <2>2, <2>3, Bounds DEF NthMonth
<1>3. QED
  BY <1>1, <1>2

LEMMA MonthStarts ==
    \A ym \in Calendar : /\ MonthStart[ym] = DaysBefore[Place(ym)]
                         /\ MonthLength(ym[1], ym[2]) = DaysOf(Place(ym))
                         /\ MonthStart[ym] + MonthLength(ym[1], ym[2]) = DaysBefore[Place(ym) + 1]
<1> SUFFICES ASSUME NEW ym \in Calendar
             PROVE  /\ MonthStart[ym] = DaysBefore[Place(ym)]
                    /\ MonthLength(ym[1], ym[2]) = DaysOf(Place(ym))
                    /\ MonthStart[ym] + MonthLength(ym[1], ym[2]) = DaysBefore[Place(ym) + 1]
  OBVIOUS
<1>1. MonthStart[ym] = DaysBefore[Place(ym)]
  BY DEF MonthStart, Place
<1>2. MonthLength(ym[1], ym[2]) = DaysOf(Place(ym))
  BY MonthPlaces DEF DaysOf
<1>3. QED
  BY <1>1, <1>2, MonthPlaces, DaysAdd

\* Products of numbers keep their order.
LEMMA Scaled ==
    ASSUME NEW a \in Int, NEW b \in Int, NEW c \in Nat, c > 0
    PROVE  /\ a <= b <=> a * c <= b * c
           /\ a < b <=> a * c < b * c
           /\ (a + b) * c = a * c + b * c /\ (a - b) * c = a * c - b * c /\ a * c \in Int
  BY SMT

LEMMA DaySplit ==
    ASSUME NEW t \in Int
    PROVE  /\ t \div TicksPerDay \in Int /\ t % TicksPerDay \in 0..(TicksPerDay - 1)
           /\ t = (t \div TicksPerDay) * TicksPerDay + (t % TicksPerDay)
  BY Bounds, SMT

\* The month of an instant is the one that its day falls into.
LEMMA MonthFound ==
    ASSUME NEW t \in Instants
    PROVE  LET n == t \div TicksPerDay
               k == Place(Month(t))
           IN  /\ Month(t) \in Calendar /\ k \in 0..(MonthCount - 1) /\ n \in Nat
               /\ DaysBefore[k] <= n /\ n < DaysBefore[k + 1]
               /\ DayOfMonth(t) = n - DaysBefore[k] + 1 /\ DayOfMonth(t) \in 1..DaysOf(k)
<1> DEFINE n == t \div TicksPerDay
           k == Place(Month(t))
           all == DaysBefore[MonthCount]
<1>0. MonthCount \in Nat /\ MonthCount > 0 /\ TicksPerDay \in Nat /\ TicksPerDay > 0 /\ all \in Nat
  BY Bounds, DaysAdd
<1>1. n \in Nat /\ n < all
  <2>1. t \in Int /\ t >= 0 /\ t < all * TicksPerDay
    BY <1>0 DEF Instants
  <2>2. n \in Int /\ n * TicksPerDay <= t /\ t < (n + 1) * TicksPerDay
    BY <1>0, <2>1, DaySplit, Scaled
  <2>3. n < all
    BY <1>0, <2>1, <2>2, Scaled
  <2>4. 0 < n + 1
    BY <1>0, <2>1, <2>2, Scaled
  <2>5. QED
    BY <2>2, <2>3, <2>4
<1>2. n \in Days
  BY <1>0, <1>1 DEF Days
<1> HIDE DEF n
<1>3. \E ym \in Calendar : MonthStart[ym] <= n /\ n < MonthStart[ym] + MonthLength(ym[1], ym[2])
  <2> DEFINE later == {i \in 0..MonthCount : n < DaysBefore[i]}
  <2>1. MonthCount \in later /\ later \in SUBSET Nat
    BY <1>0, <1>1
  <2>2. PICK j \in later : \A i \in later : j <= i
    BY <2>1, LeastElement
  <2>3. j # 0
    BY <1>1, <2>2, DaysAdd
  <2>4. j - 1 \in 0..(MonthCount - 1) /\ j - 1 \notin later /\ (j - 1) + 1 = j
    BY <1>0, <2>2, <2>3
  <2>5. DaysBefore[j - 1] \in Nat /\ ~(n < DaysBefore[j - 1]) /\ n < DaysBefore[(j - 1) + 1]
    BY <1>0, <2>2, <2>4, DaysAdd
  <2>6. NthMonth(j - 1) \in Calendar /\ Place(NthMonth(j - 1)) = j - 1
    BY <2>4, MonthPlaces
  <2>7. QED
    BY <1>1, <2>5, <2>6, MonthStarts
<1>4. /\ Month(t) \in Calendar /\ MonthStart[Month(t)] <= n
      /\ n < MonthStart[Month(t)] + MonthLength(Month(t)[1], Month(t)[2])
  <2>1. Month(t) = CHOOSE ym \in Calendar : MonthStart[ym] <= n /\ n < MonthStart[ym] + MonthLength(ym[1], ym[2])
    BY <1>2 DEF Month, MonthOfDay, n
  <2>2. QED
    BY <1>3, <2>1
<1>5. k \in 0..(MonthCount - 1) /\ DaysBefore[k] <= n /\ n < DaysBefore[k + 1]
  BY <1>4, MonthPlaces, MonthStarts
<1>6. DayOfMonth(t) = n - DaysBefore[k] + 1
  BY <1>4, MonthStarts DEF DayOfMonth, n
<1>7. DaysBefore[k] \in Nat /\ DaysBefore[k + 1] = DaysBefore[k] + DaysOf(k) /\ DaysOf(k) \in 28..31
  BY <1>0, <1>5, DaysAdd
<1> HIDE DEF k
<1>8. DayOfMonth(t) \in 1..DaysOf(k)
  BY <1>1, <1>5, <1>6, <1>7
<1>9. QED
  BY <1>1, <1>4, <1>5, <1>6, <1>8 DEF n, k

\* Less than 28 days away is at most a month away.
LEMMA MonthNear ==
    ASSUME NEW t \in Instants, NEW r \in Instants, t - r < 28 * TicksPerDay
    PROVE  Place(Month(t)) <= Place(Month(r)) + 1
<1> DEFINE n == t \div TicksPerDay
           k == Place(Month(t))
           m == r \div TicksPerDay
           l == Place(Month(r))
<1>1. /\ k \in 0..(MonthCount - 1) /\ n \in Nat /\ DaysBefore[k] <= n /\ n < DaysBefore[k + 1]
      /\ l \in 0..(MonthCount - 1) /\ m \in Nat /\ DaysBefore[l] <= m /\ m < DaysBefore[l + 1]
  BY MonthFound
<1>2. TicksPerDay \in Nat /\ TicksPerDay > 0 /\ MonthCount \in Nat /\ t \in Int /\ r \in Int
  BY Bounds DEF Instants
<1>t. PICK x \in 0..(TicksPerDay - 1) : t = n * TicksPerDay + x
  BY <1>2, DaySplit
<1>r. PICK y \in 0..(TicksPerDay - 1) : r = m * TicksPerDay + y
  BY <1>2, DaySplit
<1> HIDE DEF n, k, m, l
<1>3. n < m + 29
  <2>1. /\ (m + 29) * TicksPerDay = m * TicksPerDay + 29 * TicksPerDay
        /\ m * TicksPerDay \in Int /\ n * TicksPerDay \in Int
    BY <1>1, <1>2, Scaled
  <2>2. n * TicksPerDay < m * TicksPerDay + 29 * TicksPerDay
    BY <1>2, <1>t, <1>r, <2>1
  <2>3. QED
    BY <1>1, <1>2, <2>1, <2>2, Scaled
<1> SUFFICES ASSUME k > l + 1 PROVE FALSE
  BY <1>1 DEF k, l
<1>4. l + 1 \in 0..MonthCount /\ k \in 0..MonthCount /\ l + 1 < k
  BY <1>1, <1>2
<1>5. DaysBefore[k] >= DaysBefore[l + 1] + 28 /\ DaysBefore[k] \in Nat /\ DaysBefore[l + 1] \in Nat
  BY <1>4, DaysGrow, DaysAdd
<1>6. QED
  BY <1>1, <1>3, <1>5

\* The three months looked at are the neighbours of the reference's.
LEMMA Around ==
    ASSUME NEW ym \in Calendar, NEW k \in 0..(MonthCount - 1), k \in (Place(ym) - 1)..(Place(ym) + 1)
    PROVE  \E j \in 1..3 : SurroundingMonths(ym[1], ym[2])[j] = NthMonth(k)
<1>1. PICK y \in FirstYear..LastYear, m \in 1..12 : ym = <<y, m>>
  BY DEF Calendar
<1>2. ym[1] = y /\ ym[2] = m /\ y \in Int /\ m \in Int /\ FirstYear \in Int
  BY <1>1, Bounds
<1>3. Place(ym) = 12 * (y - FirstYear) + m - 1 /\ Place(ym) \in Int /\ k \in Int
  BY <1>2 DEF Place
<1> DEFINE around == SurroundingMonths(y, m)
<1>4. /\ around[1] = (IF m = 1 THEN <<y - 1, 12>> ELSE <<y, m - 1>>)
      /\ around[2] = <<y, m>>
      /\ around[3] = (IF m = 12 THEN <<y + 1, 1>> ELSE <<y, m + 1>>)
  BY DEF SurroundingMonths
<1> HIDE DEF around
<1>5. NthMonth(k) = <<FirstYear + (k \div 12), (k % 12) + 1>>
  BY DEF NthMonth
<1>6. CASE k = Place(ym)
  <2>1. k \div 12 = y - FirstYear /\ k % 12 = m - 1
    BY <1>2, <1>3, <1>6
  <2>2. QED
    BY <1>2, <1>4, <1>5, <2>1 DEF around
<1>7. CASE k = Place(ym) - 1
  <2>1. CASE m = 1
    <3>1. k \div 12 = y - FirstYear - 1 /\ k % 12 = 11
      BY <1>2, <1>3, <1>7, <2>1
    <3>2. QED
      BY <1>2, <1>4, <1>5, <2>1, <3>1 DEF around
  <2>2. CASE m # 1
    <3>1. k \div 12 = y - FirstYear /\ k % 12 = m - 2
      BY <1>2, <1>3, <1>7, <2>2
    <3>2. QED
      BY <1>2, <1>4, <1>5, <2>2, <3>1 DEF around
  <2>3. QED
    BY <2>1, <2>2
<1>8. CASE k = Place(ym) + 1
  <2>1. CASE m = 12
    <3>1. k \div 12 = y - FirstYear + 1 /\ k % 12 = 0
      BY <1>2, <1>3, <1>8, <2>1
    <3>2. QED
      BY <1>2, <1>4, <1>5, <2>1, <3>1 DEF around
  <2>2. CASE m # 12
    <3>1. k \div 12 = y - FirstYear /\ k % 12 = m
      BY <1>2, <1>3, <1>8, <2>2
    <3>2. QED
      BY <1>2, <1>4, <1>5, <2>2, <3>1 DEF around
  <2>3. QED
    BY <2>1, <2>2
<1>9. QED
  BY <1>3, <1>6, <1>7, <1>8

-----------------------------------------------------------------------------
(* The candidates of a partial time *)

\* The instant itself, or one with the same day and time in another month.
Apart28(v, t) == v = t \/ v <= t - 28 * TicksPerDay \/ v >= t + 28 * TicksPerDay

LEMMA CandidateOf ==
    ASSUME NEW t \in Instants, NEW ym
    PROVE  LET c == BuildCandidate(ym, DayOfMonth(t), TimeOfDay(t))
           IN  /\ c = <<>> \/ \E v \in Int : c = <<v>> /\ Apart28(v, t)
               /\ ym = Month(t) => c = <<t>>
<1> DEFINE n == t \div TicksPerDay
           k == Place(Month(t))
           x == t % TicksPerDay
           c == BuildCandidate(ym, DayOfMonth(t), TimeOfDay(t))
           v == (MonthStart[ym] + DayOfMonth(t) - 1) * TicksPerDay + TimeOfDay(t)
<1>1. /\ Month(t) \in Calendar /\ k \in 0..(MonthCount - 1) /\ n \in Nat
      /\ DayOfMonth(t) = n - DaysBefore[k] + 1 /\ DayOfMonth(t) \in 1..DaysOf(k)
  BY MonthFound
<1>2. t \in Int /\ TicksPerDay \in Nat /\ TicksPerDay > 0 /\ MonthCount \in Nat
  BY Bounds DEF Instants
<1>3. t = n * TicksPerDay + x /\ x \in Int /\ TimeOfDay(t) = x
  BY <1>2, DaySplit DEF TimeOfDay
<1> HIDE DEF n, k, x
<1>4. ASSUME ym \in Calendar PROVE v \in Int /\ Apart28(v, t) /\ (Place(ym) = k => v = t)
  <2> DEFINE j == Place(ym)
             d == DaysBefore[j] - DaysBefore[k]
  <2>1. j \in 0..MonthCount /\ k \in 0..MonthCount /\ MonthStart[ym] = DaysBefore[j]
    BY <1>1, <1>2, <1>4, MonthPlaces, MonthStarts
  <2>2. DaysBefore[j] \in Nat /\ DaysBefore[k] \in Nat
    BY <2>1, DaysAdd
  <2>3. j = k \/ d >= 28 \/ d <= -28
    BY <2>1, <2>2, DaysGrow
  <2>4. MonthStart[ym] + DayOfMonth(t) - 1 = n + d /\ d \in Int
    BY <1>1, <2>1, <2>2
  <2>5. j = k => d = 0
    BY <2>2
  <2> HIDE DEF d
  <2>6. v = (n + d) * TicksPerDay + x
    BY <1>3, <2>4
  <2>7. (n + d) * TicksPerDay = n * TicksPerDay + d * TicksPerDay /\ n * TicksPerDay \in Int
        /\ d * TicksPerDay \in Int
    BY <1>1, <1>2, <2>4, Scaled
  <2> DEFINE e == d * TicksPerDay
  <2>8. v = t + e /\ e \in Int
    BY <1>3, <2>6, <2>7
  <2>9. /\ d = 0 => e = 0
        /\ d >= 28 => e >= 28 * TicksPerDay
        /\ d <= -28 => e <= -(28 * TicksPerDay)
    <3>1. d >= 28 => e >= 28 * TicksPerDay
      BY <1>2, <2>4, Scaled
    <3>2. d <= -28 => e <= (-28) * TicksPerDay
      BY <1>2, <2>4, Scaled
    <3>3. QED
      BY <1>2, <2>4, <3>1, <3>2
  <2> HIDE DEF e, v
  <2>10. QED
    BY <1>2, <2>3, <2>5, <2>8, <2>9 DEF Apart28
<1>5. ASSUME ym = Month(t) PROVE ym \in Calendar /\ Place(ym) = k /\ DayOfMonth(t) <= MonthLength(ym[1], ym[2])
  <2>1. ym \in Calendar /\ Place(ym) = k
    BY <1>1, <1>5 DEF k
  <2>2. MonthLength(ym[1], ym[2]) = DaysOf(k)
    BY <2>1, MonthStarts
  <2>3. QED
    BY <1>1, <2>1, <2>2
<1>6. c = IF ym \in Calendar /\ DayOfMonth(t) <= MonthLength(ym[1], ym[2]) THEN <<v>> ELSE <<>>
  BY DEF BuildCandidate
<1> HIDE DEF c, v
<1>7. c = <<>> \/ \E w \in Int : c = <<w>> /\ Apart28(w, t)
  BY <1>4, <1>6
<1>8. ym = Month(t) => c = <<t>>
  BY <1>4, <1>5, <1>6
<1>9. QED
  BY <1>7, <1>8 DEF c

LEMMA Concatenated ==
    ASSUME NEW a \in Seq(Int), NEW b \in Seq(Int)
    PROVE  a \o b \in Seq(Int) /\ Members(a \o b) = Members(a) \cup Members(b)
<1>1. /\ a \o b \in Seq(Int) /\ Len(a \o b) = Len(a) + Len(b) /\ Len(a) \in Nat /\ Len(b) \in Nat
      /\ \A i \in 1..Len(a) : (a \o b)[i] = a[i]
      /\ \A i \in 1..Len(b) : (a \o b)[Len(a) + i] = b[i]
  OBVIOUS
<1>2. ASSUME NEW i \in 1..Len(a \o b) PROVE (a \o b)[i] \in Members(a) \cup Members(b)
  <2>1. CASE i <= Len(a)
    BY <1>1, <2>1 DEF Members
  <2>2. CASE i > Len(a)
    <3>1. i - Len(a) \in 1..Len(b) /\ Len(a) + (i - Len(a)) = i
      BY <1>1, <2>2
    <3>2. (a \o b)[i] = b[i - Len(a)]
      BY <1>1, <3>1
    <3>3. QED
      BY <3>1, <3>2 DEF Members
  <2>3. QED
    BY <1>1, <2>1, <2>2
<1>3. ASSUME NEW i \in 1..Len(a) PROVE a[i] \in Members(a \o b)
  BY <1>1 DEF Members
<1>4. ASSUME NEW i \in 1..Len(b) PROVE b[i] \in Members(a \o b)
  <2>1. Len(a) + i \in 1..Len(a \o b)
    BY <1>1
  <2>2. QED
    BY <1>1, <2>1 DEF Members
<1>5. QED
  BY <1>1, <1>2, <1>3, <1>4 DEF Members

LEMMA Candidates ==
    ASSUME NEW t \in Instants, NEW r \in Instants,
           Place(Month(t)) \in (Place(Month(r)) - 1)..(Place(Month(r)) + 1)
    PROVE  LET c == CandidateDatetimes(r, DayOfMonth(t), TimeOfDay(t))
           IN  /\ c \in Seq(Int) /\ t \in Members(c)
               /\ \A v \in Members(c) : Apart28(v, t)
<1> DEFINE day == DayOfMonth(t)
           tick == TimeOfDay(t)
           months == SurroundingMonths(Month(r)[1], Month(r)[2])
           B(j) == BuildCandidate(months[j], day, tick)
           c == CandidateDatetimes(r, day, tick)
<1>1. /\ Month(t) \in Calendar /\ Place(Month(t)) \in 0..(MonthCount - 1)
      /\ day \in 1..DaysOf(Place(Month(t))) /\ Month(r) \in Calendar
  BY MonthFound
<1>2. DaysOf(Place(Month(t))) \in 28..31
  BY <1>1, DaysAdd
<1>3. day \in 1..31 /\ tick \in 0..(TicksPerDay - 1)
  <2>1. t \in Int
    BY DEF Instants
  <2>2. tick \in 0..(TicksPerDay - 1)
    BY <2>1, DaySplit DEF TimeOfDay
  <2> HIDE DEF day, tick
  <2>3. day \in 1..31
    BY <1>1, <1>2
  <2>4. QED
    BY <2>2, <2>3
<1>4. c = B(1) \o B(2) \o B(3)
  BY <1>3 DEF CandidateDatetimes
<1>5. ASSUME NEW j \in 1..3
      PROVE  /\ B(j) \in Seq(Int) /\ \A v \in Members(B(j)) : Apart28(v, t)
             /\ months[j] = Month(t) => t \in Members(B(j))
  <2> DEFINE b == B(j)
  <2>1. /\ b = <<>> \/ \E v \in Int : b = <<v>> /\ Apart28(v, t)
        /\ months[j] = Month(t) => b = <<t>>
    BY CandidateOf
  <2> HIDE DEF b
  <2>2. Members(<<>>) = {} /\ <<>> \in Seq(Int)
    BY DEF Members
  <2>3. \A v \in Int : Members(<<v>>) = {v} /\ <<v>> \in Seq(Int)
    BY DEF Members
  <2>4. t \in Int
    BY DEF Instants
  <2>5. b \in Seq(Int) /\ \A v \in Members(b) : Apart28(v, t)
    BY <2>1, <2>2, <2>3
  <2>6. months[j] = Month(t) => t \in Members(b)
    BY <2>1, <2>3, <2>4
  <2>7. QED
    BY <2>5, <2>6 DEF b
<1>6. \E j \in 1..3 : months[j] = Month(t)
  <2>1. NthMonth(Place(Month(t))) = Month(t)
    BY <1>1, MonthPlaces
  <2>2. QED
    BY <1>1, <2>1, Around
<1> HIDE DEF B, months, c
<1>7. B(1) \in Seq(Int) /\ B(2) \in Seq(Int) /\ B(3) \in Seq(Int)
  BY <1>5
<1>8. B(1) \o B(2) \in Seq(Int) /\ Members(B(1) \o B(2)) = Members(B(1)) \cup Members(B(2))
  BY <1>7, Concatenated
<1>9. c \in Seq(Int) /\ Members(c) = Members(B(1)) \cup Members(B(2)) \cup Members(B(3))
  BY <1>4, <1>7, <1>8, Concatenated
<1>10. t \in Members(c)
  <2>1. PICK j \in 1..3 : months[j] = Month(t)
    BY <1>6
  <2>2. t \in Members(B(j))
    BY <1>5, <2>1
  <2>3. j = 1 \/ j = 2 \/ j = 3
    OBVIOUS
  <2>4. QED
    BY <1>9, <2>2, <2>3
<1>11. \A v \in Members(c) : Apart28(v, t)
  BY <1>5, <1>9
<1>12. QED
  BY <1>9, <1>10, <1>11 DEF c

\* What is nearer than everything else is the nearest (min_by_key).
LEMMA NearestUnique ==
    ASSUME NEW c \in Seq(Int), NEW ref \in Int, NEW t \in Members(c),
           \A v \in Members(c) : v = t \/ Distance(t, ref) < Distance(v, ref)
    PROVE  Nearest(c, ref) = t
<1> DEFINE closest == {i \in DOMAIN c : \A j \in DOMAIN c :
                          Distance(c[i], ref) <= Distance(c[j], ref)}
<1>1. DOMAIN c = 1..Len(c) /\ Len(c) \in Nat /\ \A i \in DOMAIN c : c[i] \in Int /\ c[i] \in Members(c)
  BY DEF Members
<1>2. \A v \in Int : Distance(v, ref) \in Nat
  BY DEF Distance
<1>3. PICK n \in DOMAIN c : c[n] = t
  BY <1>1 DEF Members
<1>a. /\ Distance(t, ref) \in Nat
      /\ \A j \in DOMAIN c : Distance(c[j], ref) \in Nat
      /\ \A j \in DOMAIN c : c[j] = t \/ Distance(t, ref) < Distance(c[j], ref)
  BY <1>1, <1>2, <1>3
<1>4. n \in closest
  <2>1. ASSUME NEW j \in DOMAIN c PROVE Distance(c[n], ref) <= Distance(c[j], ref)
    <3>1. CASE c[j] = t
      BY <1>3, <1>a, <3>1
    <3>2. CASE c[j] # t
      <4>1. Distance(c[n], ref) = Distance(t, ref)
        BY <1>3
      <4>2. Distance(t, ref) < Distance(c[j], ref)
        BY <1>a, <3>2
      <4>3. QED
        BY <1>a, <4>1, <4>2
    <3>3. QED
      BY <3>1, <3>2
  <2>2. QED
    BY <1>3, <2>1
<1>5. ASSUME NEW i \in closest PROVE c[i] = t
  <2>1. i \in DOMAIN c /\ Distance(c[i], ref) <= Distance(c[n], ref)
    BY <1>3
  <2>2. Distance(c[i], ref) <= Distance(t, ref)
    BY <1>3, <2>1
  <2>3. c[i] = t \/ Distance(t, ref) < Distance(c[i], ref)
    BY <1>a, <2>1
  <2>4. QED
    BY <1>a, <2>1, <2>2, <2>3
<1>6. closest \in SUBSET Nat
  BY <1>1
<1>7. \E i \in closest : \A j \in closest : i <= j
  <2> HIDE DEF closest
  <2>1. QED
    BY <1>4, <1>6, LeastElement
<1>8. c # <<>>
  BY <1>3
<1>9. Nearest(c, ref) = c[CHOOSE i \in closest : \A j \in closest : i <= j]
  BY <1>8 DEF Nearest
<1> HIDE DEF closest
<1>10. QED
  BY <1>5, <1>7, <1>9

\* A header read within fourteen days of its issue.
LEMMA HeaderTrue ==
    ASSUME NEW t \in Instants, NEW r \in Instants,
           t - r < 14 * TicksPerDay, r - t < 14 * TicksPerDay
    PROVE  ResolveDayTimeNearest(r, DayOfMonth(t), TimeOfDay(t)) = t
<1> DEFINE c == CandidateDatetimes(r, DayOfMonth(t), TimeOfDay(t))
           k == Place(Month(t))
           l == Place(Month(r))
<1>1. t \in Int /\ r \in Int /\ TicksPerDay \in Nat
  BY Bounds DEF Instants
<1>2. t - r < 28 * TicksPerDay /\ r - t < 28 * TicksPerDay
  BY <1>1
<1>3. k <= l + 1 /\ l <= k + 1 /\ k \in Int /\ l \in Int
  <2>1. k \in 0..(MonthCount - 1) /\ l \in 0..(MonthCount - 1)
    BY MonthFound
  <2>2. k <= l + 1 /\ l <= k + 1
    BY <1>2, MonthNear
  <2>3. QED
    BY <2>1, <2>2
<1>4. k \in (l - 1)..(l + 1)
  <2> HIDE DEF k, l
  <2>1. QED
    BY <1>3
<1>5. c \in Seq(Int) /\ t \in Members(c) /\ \A v \in Members(c) : Apart28(v, t)
  BY <1>4, Candidates
<1> HIDE DEF c
<1>6. ASSUME NEW v \in Members(c) PROVE v = t \/ Distance(t, r) < Distance(v, r)
  <2>1. v \in Int /\ Apart28(v, t)
    BY <1>5 DEF Members
  <2>2. QED
    BY <1>1, <2>1 DEF Distance, Apart28
<1>7. Nearest(c, r) = t
  BY <1>1, <1>5, <1>6, NearestUnique
<1>8. QED
  BY <1>7 DEF ResolveDayTimeNearest, c

\* An expiry less than four weeks after the issue.
LEMMA ExpiryTrue ==
    ASSUME NEW t \in Instants, NEW r \in Instants, r <= t, t - r < 28 * TicksPerDay
    PROVE  ResolveDayTimeNotBefore(r, DayOfMonth(t), TimeOfDay(t)) = t
<1> DEFINE c == CandidateDatetimes(r, DayOfMonth(t), TimeOfDay(t))
           k == Place(Month(t))
           l == Place(Month(r))
           all == {c[i] : i \in DOMAIN c}
           later == {v \in all : v >= r}
<1>1. t \in Int /\ r \in Int /\ TicksPerDay \in Nat /\ TicksPerDay > 0
  BY Bounds DEF Instants
<1>2. r - t < 28 * TicksPerDay
  BY <1>1
<1>3. k <= l + 1 /\ l <= k + 1 /\ k \in Int /\ l \in Int
  <2>1. k \in 0..(MonthCount - 1) /\ l \in 0..(MonthCount - 1)
    BY MonthFound
  <2>2. k <= l + 1 /\ l <= k + 1
    BY <1>2, MonthNear
  <2>3. QED
    BY <2>1, <2>2
<1>4. k \in (l - 1)..(l + 1)
  <2> HIDE DEF k, l
  <2>1. QED
    BY <1>3
<1>5. c \in Seq(Int) /\ t \in Members(c) /\ \A v \in Members(c) : Apart28(v, t)
  BY <1>4, Candidates
<1>6. ResolveDayTimeNotBefore(r, DayOfMonth(t), TimeOfDay(t)) =
          CASE all = {} -> None
            [] later # {} -> CHOOSE v \in later : \A u \in later : v <= u
            [] OTHER -> CHOOSE v \in all : \A u \in all : v >= u
  BY DEF ResolveDayTimeNotBefore
<1> HIDE DEF c
<1>7. all = Members(c) /\ all \subseteq Int
  BY <1>5 DEF Members
<1> HIDE DEF all
<1>8. t \in later /\ later \subseteq Int
  BY <1>1, <1>5, <1>7
<1>9. ASSUME NEW v \in later PROVE t <= v
  <2>1. v \in Int /\ Apart28(v, t) /\ v >= r
    BY <1>5, <1>7
  <2>2. QED
    BY <1>1, <2>1 DEF Apart28
<1>10. all # {} /\ later # {}
  BY <1>8
<1> HIDE DEF later
<1>11. (CHOOSE v \in later : \A u \in later : v <= u) = t
  <2> DEFINE w == CHOOSE v \in later : \A u \in later : v <= u
  <2>1. w \in later /\ \A u \in later : w <= u
    BY <1>8, <1>9
  <2>2. w <= t /\ t <= w /\ w \in Int
    BY <1>8, <1>9, <2>1
  <2> HIDE DEF w
  <2>3. w = t
    BY <1>1, <2>2
  <2>4. QED
    BY <2>3 DEF w
<1>12. QED
  BY <1>6, <1>10, <1>11

\* The time of a storm motion line less than half a day from the issue.
LEMMA MotionTrue ==
    ASSUME NEW t \in Int, NEW r \in Int,
           2 * (t - r) < TicksPerDay, 2 * (r - t) < TicksPerDay
    PROVE  ResolveClockTimeNearest(r, TimeOfDay(t)) = t
<1> DEFINE T == TicksPerDay
           n == t \div T
           m == r \div T
           tick == TimeOfDay(t)
           c == [k \in 1..3 |-> (m + k - 2) * T + tick]
<1>1. T \in Nat /\ T > 0 /\ n \in Int /\ m \in Int
  BY Bounds, DaySplit
<1>2. tick \in 0..(T - 1) /\ t = n * T + tick
  BY DaySplit DEF TimeOfDay
<1>3. PICK y \in 0..(T - 1) : r = m * T + y
  BY DaySplit
<1>4. ResolveClockTimeNearest(r, tick) = Nearest(c, r)
  BY <1>2 DEF ResolveClockTimeNearest
<1> HIDE DEF n, m, tick, T
<1>5. n \in (m - 1)..(m + 1)
  <2>1. n * T < (m + 2) * T /\ m * T < (n + 2) * T
    <3>1. /\ n * T \in Int /\ m * T \in Int
          /\ (m + 2) * T = m * T + 2 * T /\ (n + 2) * T = n * T + 2 * T
      BY <1>1, Scaled
    <3>2. QED
      BY <1>1, <1>2, <1>3, <3>1 DEF T
  <2>2. n < m + 2 /\ m < n + 2
    BY <1>1, <2>1, Scaled
  <2>3. QED
    BY <1>1, <2>2
<1>6. \A k \in 1..3 : (m + k - 2) * T \in Int /\ c[k] = (m + k - 2) * T + tick /\ c[k] \in Int
  BY <1>1, <1>2, Scaled
<1>7. c \in Seq(Int) /\ Len(c) = 3 /\ DOMAIN c = 1..3
  <2>1. c \in [1..3 -> Int]
    BY <1>6
  <2> HIDE DEF c
  <2>2. 3 \in Nat
    OBVIOUS
  <2>3. c \in Seq(Int)
    <3>1. Seq(Int) = UNION {[1..i -> Int] : i \in Nat}
      BY SeqDef, Zenon
    <3>2. [1..3 -> Int] \in {[1..i -> Int] : i \in Nat}
      BY <2>2, Zenon
    <3>3. QED
      BY <2>1, <3>1, <3>2, Zenon
  <2>4. QED
    BY <2>1, <2>3
<1> HIDE DEF c
<1>8. t \in Members(c)
  <2>1. (n - m) + 2 \in 1..3 /\ m + ((n - m) + 2) - 2 = n
    BY <1>1, <1>5
  <2>2. c[(n - m) + 2] = t
    BY <1>2, <1>6, <2>1
  <2>3. QED
    BY <1>7, <2>1, <2>2 DEF Members
<1>9. ASSUME NEW v \in Members(c) PROVE v = t \/ Distance(t, r) < Distance(v, r)
  <2>1. PICK k \in 1..3 : v = c[k]
    BY <1>7 DEF Members
  <2> DEFINE d == m + k - 2 - n
             e == d * T
  <2>2. d \in Int /\ n + d = m + k - 2
    BY <1>1
  <2>3. (n + d) * T = n * T + d * T /\ n * T \in Int /\ e \in Int
    BY <1>1, <2>2, Scaled
  <2>4. v = t + e
    <3>1. v = (n + d) * T + tick
      BY <1>6, <2>1, <2>2
    <3> HIDE DEF d
    <3>2. v = n * T + e + tick
      BY <2>3, <3>1
    <3> HIDE DEF e
    <3>3. QED
      BY <1>2, <2>3, <3>2
  <2>5. e = 0 \/ e >= T \/ e <= -T
    <3> HIDE DEF d
    <3>1. d = 0 \/ d >= 1 \/ d <= -1
      BY <2>2
    <3>2. d >= 1 => e >= 1 * T
      BY <1>1, <2>2, Scaled
    <3>3. d <= -1 => e <= (-1) * T
      BY <1>1, <2>2, Scaled
    <3>4. QED
      BY <1>1, <2>2, <3>1, <3>2, <3>3
  <2> HIDE DEF e
  <2>6. QED
    BY <1>1, <2>3, <2>4, <2>5 DEF Distance, T
<1>10. Nearest(c, r) = t
  BY <1>7, <1>8, <1>9, NearestUnique
<1>11. QED
  BY <1>4, <1>10 DEF tick

-----------------------------------------------------------------------------
(* The three times of a product *)

LEMMA DatedTrue ==
    ASSUME NEW issued \in Instants, NEW delay \in Int, NEW lifetime \in Int, NEW offset \in Int,
           delay > -(14 * TicksPerDay), delay < 14 * TicksPerDay, issued + delay \in Instants,
           lifetime >= 0, lifetime < 28 * TicksPerDay, issued + lifetime \in Instants,
           2 * offset > -TicksPerDay, 2 * offset < TicksPerDay
    PROVE  LET dated == Dated(issued, delay, lifetime, offset)
           IN  dated.header = dated.issued /\ dated.ugc = dated.expires /\ dated.motion = dated.seen
<1> DEFINE expires == issued + lifetime
           seen == issued + offset
           received == issued + delay
           header == ResolveDayTimeNearest(received, DayOfMonth(issued), TimeOfDay(issued))
           ugc == ResolveDayTimeNotBefore(header, DayOfMonth(expires), TimeOfDay(expires))
           motion == ResolveClockTimeNearest(header, TimeOfDay(seen))
           dated == Dated(issued, delay, lifetime, offset)
<1>1. issued \in Int /\ issued >= 0 /\ TicksPerDay \in Nat
  BY Bounds DEF Instants
<1>2. /\ issued - received < 14 * TicksPerDay /\ received - issued < 14 * TicksPerDay
      /\ issued <= expires /\ expires - issued < 28 * TicksPerDay
      /\ seen \in Int /\ 2 * (seen - issued) < TicksPerDay /\ 2 * (issued - seen) < TicksPerDay
  BY <1>1
<1>3. header = issued
  BY <1>2, HeaderTrue
<1>4. header # None
  BY <1>1, <1>3 DEF None
<1>5. ugc = expires
  BY <1>2, <1>3, ExpiryTrue
<1>6. motion = seen
  BY <1>1, <1>2, <1>3, MotionTrue
<1>7. dated = [issued |-> issued, expires |-> expires, seen |-> seen, header |-> header,
               ugc |-> IF header = None THEN None ELSE ugc,
               motion |-> IF header = None THEN None ELSE motion]
  BY Zenon DEF Dated
<1> HIDE DEF expires, seen, received, header, ugc, motion, dated
<1>8. dated.header = dated.issued /\ dated.ugc = dated.expires /\ dated.motion = dated.seen
  BY <1>3, <1>4, <1>5, <1>6, <1>7
<1>9. QED
  BY <1>8 DEF dated

\* The times a product is read with come back as its sender meant them.
LEMMA TimesRead ==
    ASSUME ReadTimes, TimesRecovered
    PROVE  TimesRecovered'
<1> DEFINE True(c) == c.header = c.issued /\ c.ugc = c.expires /\ c.motion = c.seen
<1>1. /\ TicksPerDay \in Nat /\ TicksPerDay > 0 /\ Issued \subseteq Instants
      /\ Instants \subseteq Int
  BY Bounds, TimesAssumption DEF Instants
<1>2. ASSUME NEW issued \in Issued, NEW delay \in Delays PROVE True(Dated(issued, delay, 0, 0))
  <2>1. /\ delay \in Int /\ delay > -(14 * TicksPerDay) /\ delay < 14 * TicksPerDay
        /\ issued + delay \in Instants /\ issued \in Instants
    BY <1>1, TimesAssumption
  <2>2. issued + 0 \in Instants
    BY <1>1, <2>1
  <2>3. 0 < 28 * TicksPerDay /\ 2 * 0 > -TicksPerDay /\ 2 * 0 < TicksPerDay
    BY <1>1
  <2>4. QED
    BY <2>1, <2>2, <2>3, DatedTrue
<1>3. ASSUME NEW issued \in Issued, NEW lifetime \in Lifetimes, NEW offset \in Offsets
      PROVE  True(Dated(issued, 0, lifetime, offset))
  <2>1. /\ lifetime \in Int /\ lifetime >= 0 /\ lifetime < 28 * TicksPerDay
        /\ issued + lifetime \in Instants /\ issued \in Instants
    BY <1>1, TimesAssumption
  <2>2. offset \in Int /\ 2 * offset > -TicksPerDay /\ 2 * offset < TicksPerDay
    BY <1>1, TimesAssumption
  <2>3. issued + 0 \in Instants
    BY <1>1, <2>1
  <2>4. 0 > -(14 * TicksPerDay) /\ 0 < 14 * TicksPerDay
    BY <1>1
  <2>5. QED
    BY <2>1, <2>2, <2>3, <2>4, DatedTrue
<1>4. clock' = clock \/ True(clock')
  <2> HIDE DEF True
  <2>1. QED
    BY <1>2, <1>3 DEF ReadTimes
<1>5. QED
  BY <1>4 DEF TimesRecovered

\* In whatever month a product is issued, within the calendar, and whatever
\* the resolution of its times: the header's day and time, the expiry of its
\* areas and the time of its motion line are resolved to the instants that
\* were printed (resolve_day_time_nearest, resolve_day_time_not_before,
\* resolve_clock_time_nearest).
THEOREM TimesCorrect == PipelineSpec => []TimesRecovered
<1>1. PipelineInit => TimesRecovered
  BY DEF PipelineInit, TimesRecovered
<1>2. TimesRecovered /\ [PipelineNext]_<<pipelineVars, bodyVars>> => TimesRecovered'
  <2> SUFFICES ASSUME TimesRecovered, [PipelineNext]_<<pipelineVars, bodyVars>>
               PROVE  TimesRecovered'
    OBVIOUS
  <2>1. CASE ReadTimes
    BY <2>1, TimesRead
  <2>2. ASSUME clock' = NoClock \/ clock' = clock PROVE TimesRecovered'
    BY <2>2, Zenon DEF TimesRecovered, NoClock
  <2>3. CASE NotText \/ BrokenHeader \/ AfosText \/ WmoOnly
    BY <2>2, <2>3 DEF NotText, BrokenHeader, Publish, AfosText, WmoOnly
  <2>4. CASE AskTextStrategy \/ GenericText \/ AskWmoStrategy
    BY <2>2, <2>4 DEF AskTextStrategy, GenericText, AskWmoStrategy, Pass, Candidate
  <2>5. CASE ExtractGeneric \/ ReadBody \/ ExtractEvents
    BY <2>2, <2>5 DEF ExtractGeneric, ReadBody, ExtractEvents, pipelineVars
  <2>6. CASE UNCHANGED <<pipelineVars, bodyVars>>
    BY <2>2, <2>6 DEF pipelineVars
  <2>7. QED
    BY <2>1, <2>3, <2>4, <2>5, <2>6 DEF PipelineNext
<1>3. QED
  BY <1>1, <1>2, PTL DEF PipelineSpec

=============================================================================
