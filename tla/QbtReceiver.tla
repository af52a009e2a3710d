----------------------------- MODULE QbtReceiver ----------------------------
(***************************************************************************)
(* The connection loop of the QBT receiver with its server-list manager    *)
(* and its watchdog (emwin-protocol qbt_receiver/client).  One run of the  *)
(* loop starts from the configured servers and, when it follows server     *)
(* lists, from the list saved by an earlier run; it picks an endpoint,     *)
(* connects, reads until the session ends, and picks the next one.         *)
(*                                                                         *)
(* A step ends at an await, or where a crash leaves different files behind *)
(* (save_atomic writes a temporary file and renames it).  The network is   *)
(* free: a connect or a read may have any outcome.  Server lists hold      *)
(* sequences, since the wire and the file may repeat an endpoint.          *)
(***************************************************************************)
EXTENDS Integers, Sequences, FiniteSets, Retaining

CONSTANTS
    Endpoints,    \* (host, port) pairs
    NoEndpoint,   \* no endpoint is in use
    Configs,      \* the configurations a receiver may be given
    Lists,        \* the server lists upstream may send
    NoFile,       \* the server list file does not exist
    Torn,         \* a file whose write was cut short
    WatchdogTimeout  \* config.watchdog_timeout_secs

ASSUME QbtAssumption ==
    /\ Configs \subseteq [servers : Seq(Endpoints) \ {<<>>}, follow : BOOLEAN]
    /\ Lists \subseteq [servers : Seq(Endpoints), sat : Seq(Endpoints)]
    /\ WatchdogTimeout \in Nat \ {0}
    /\ NoEndpoint \notin Endpoints
    /\ NoFile # Torn /\ {NoFile, Torn} \cap Lists = {}

VARIABLES
    config,     \* servers and follow_server_list_updates
    pc,         \* where the loop is
    shutdown,   \* the value of the shutdown watch
    current,    \* ServerListManager.current
    primary,    \* ServerListManager.primary_available
    satellite,  \* ServerListManager.satellite_available
    host,       \* the endpoint being connected to
    silence,    \* seconds since Watchdog.last_data
    told,       \* the last of Connected (TRUE) and Disconnected events
    file,       \* what the server list path holds
    tmp,        \* what its temporary file holds
    failed      \* history: endpoints marked bad since the lists were built

manager == <<current, primary, satellite>>
disk == <<file, tmp>>
vars == <<config, pc, shutdown, manager, host, silence, told, disk, failed>>

Without(seq, e) == Retain(seq, Endpoints \ {e})

\* shuffle_endpoints: every order is possible.
Shuffles(S) ==
    {seq \in [1..Cardinality(S) -> S] :
        \A i, j \in 1..Cardinality(S) : seq[i] = seq[j] => i = j}

Servers == config.servers
Follow == config.follow

Defaults == [servers |-> Servers, sat |-> <<>>]

IsEmpty(list) == list.servers = <<>> /\ list.sat = <<>>

Pcs == {"ended", "boot", "next", "wait", "connecting", "auth", "session",
        "saving", "renaming"}

TypeOK ==
    /\ config \in Configs
    /\ pc \in Pcs
    /\ shutdown \in BOOLEAN
    /\ current \in Lists \cup {Defaults}
    /\ primary \in Seq(Endpoints) /\ satellite \in Seq(Endpoints)
    /\ host \in Endpoints \cup {NoEndpoint}
    /\ silence \in 0..WatchdogTimeout
    /\ told \in BOOLEAN
    /\ file \in Lists \cup {NoFile, Torn}
    /\ tmp \in Lists \cup {NoFile, Torn}
    /\ failed \subseteq Endpoints

Init ==
    /\ config \in Configs
    /\ pc = "ended" /\ shutdown = TRUE
    /\ current = Defaults /\ primary = <<>> /\ satellite = <<>>
    /\ host = NoEndpoint
    /\ silence = 0
    /\ told = FALSE
    /\ file = NoFile /\ tmp = NoFile
    /\ failed = {}

-----------------------------------------------------------------------------

\* rebuild_available: sort and dedup reduce both lists to their members, and
\* these are shuffled.
RebuildAvailable(list) ==
    /\ current' = list
    /\ primary' \in Shuffles(Members(list.servers))
    /\ satellite' \in Shuffles(Members(list.sat))
    /\ failed' = {}

\* Seeded fault: the endpoint stays among the satellites.
MarkBadPrimary(e) ==
    /\ primary' = Without(primary, e)
    /\ failed' = failed \cup {e}
    /\ UNCHANGED <<current, satellite>>

\* mark_bad_endpoint.
MarkBadEndpoint(e) ==
    /\ primary' = Without(primary, e)
    /\ satellite' = Without(satellite, e)
    /\ failed' = failed \cup {e}
    /\ UNCHANGED current

\* The application starts a receiver: a manager over the configured servers.
Start ==
    /\ pc = "ended"
    /\ pc' = IF Follow THEN "boot" ELSE "next"
    /\ shutdown' = FALSE
    /\ RebuildAvailable(Defaults)
    /\ host' = NoEndpoint
    /\ silence' = 0
    /\ told' = FALSE
    /\ UNCHANGED disk

\* load: an empty list in the file is ignored, a missing file is fine.
Load ==
    /\ pc = "boot"
    /\ pc' = "next"
    /\ IF file # NoFile /\ ~IsEmpty(file)
       THEN RebuildAvailable(file)
       ELSE UNCHANGED <<manager, failed>>
    /\ UNCHANGED <<shutdown, host, silence, told, disk>>

\* The file cannot be read or parsed: an error event, the defaults stay.
LoadFails ==
    /\ pc = "boot" /\ file # NoFile
    /\ pc' = "next"
    /\ UNCHANGED <<shutdown, manager, host, silence, told, disk, failed>>

\* stop sends true into the watch.
Shutdown ==
    /\ pc # "ended" /\ ~shutdown
    /\ shutdown' = TRUE
    /\ UNCHANGED <<pc, manager, host, silence, told, disk, failed>>

\* The process dies; the files stay as they are.
Crash ==
    /\ pc # "ended"
    /\ pc' = "ended" /\ shutdown' = TRUE
    /\ UNCHANGED <<manager, host, silence, told, disk, failed>>

-----------------------------------------------------------------------------
\* The loop condition.
LoopEnds ==
    /\ pc = "next" /\ shutdown
    /\ pc' = "ended"
    /\ host' = NoEndpoint
    /\ UNCHANGED <<shutdown, manager, silence, told, disk, failed>>

\* next_endpoint: the primaries in turn, the satellites when none is left.
NextPrimary ==
    /\ primary # <<>>
    /\ host' = Head(primary)
    /\ primary' = Append(Tail(primary), Head(primary))
    /\ UNCHANGED <<current, satellite>>

NextSatellite ==
    /\ primary = <<>> /\ satellite # <<>>
    /\ host' = Head(satellite)
    /\ satellite' = Append(Tail(satellite), Head(satellite))
    /\ UNCHANGED <<current, primary>>

\* Seeded fault: the loop does not look at the watch.
PickEndpointAlways ==
    /\ pc = "next"
    /\ NextPrimary \/ NextSatellite
    /\ pc' = "connecting"
    /\ UNCHANGED <<shutdown, silence, told, disk, failed>>

PickEndpoint ==
    /\ pc = "next" /\ ~shutdown
    /\ NextPrimary \/ NextSatellite
    /\ pc' = "connecting"
    /\ UNCHANGED <<shutdown, silence, told, disk, failed>>

\* "no servers configured": an error event, then the reconnect delay.
NoServers ==
    /\ pc = "next" /\ ~shutdown
    /\ primary = <<>> /\ satellite = <<>>
    /\ pc' = "wait"
    /\ host' = NoEndpoint
    /\ UNCHANGED <<shutdown, manager, silence, told, disk, failed>>

\* The sleep is over, or the watch has changed.
WaitEnds ==
    /\ pc = "wait"
    /\ pc' = "next"
    /\ UNCHANGED <<shutdown, manager, host, silence, told, disk, failed>>

Connects ==
    /\ pc = "connecting"
    /\ pc' = "auth"
    /\ told' = TRUE
    /\ silence' = 0
    /\ UNCHANGED <<shutdown, manager, host, disk, failed>>

\* Refused, or connect_with_timeout has run out.
ConnectFails ==
    /\ pc = "connecting"
    /\ pc' = "next"
    /\ IF Follow THEN MarkBadEndpoint(host) ELSE UNCHANGED <<manager, failed>>
    /\ UNCHANGED <<shutdown, host, silence, told, disk>>

-----------------------------------------------------------------------------

\* What follows run_connected_session, whatever it returned.
Disconnect ==
    /\ pc' = "next"
    /\ told' = FALSE
    /\ IF Follow /\ ~shutdown
       THEN MarkBadEndpoint(host)
       ELSE UNCHANGED <<manager, failed>>

\* The first logon message is written, or the write fails.
AuthSent ==
    /\ pc = "auth"
    /\ pc' = "session"
    /\ UNCHANGED <<shutdown, manager, host, silence, told, disk, failed>>

AuthFails ==
    /\ pc = "auth"
    /\ Disconnect
    /\ UNCHANGED <<shutdown, host, silence, disk>>

\* End of file, a read error, or a later logon that cannot be written.
SessionLost ==
    /\ pc = "session"
    /\ Disconnect
    /\ UNCHANGED <<shutdown, host, silence, disk>>

SessionStops ==
    /\ pc = "session" /\ shutdown
    /\ Disconnect
    /\ UNCHANGED <<shutdown, host, silence, disk>>

\* Bytes arrive; the decoder recovers from anything it cannot decode, so the
\* frames in them do not matter here unless one is a server list.
ReadData ==
    /\ pc = "session"
    /\ silence' = 0
    /\ UNCHANGED <<pc, shutdown, manager, host, told, disk, failed>>

\* apply_server_list refuses a list without endpoints.
ReadEmptyList(list) ==
    /\ pc = "session" /\ Follow
    /\ IsEmpty(list)
    /\ silence' = 0
    /\ UNCHANGED <<pc, shutdown, manager, host, told, disk, failed>>

\* Seeded fault: the list is written over the file itself.
ReadListInPlace(list) ==
    /\ pc = "session" /\ Follow
    /\ ~IsEmpty(list)
    /\ silence' = 0
    /\ RebuildAvailable(list)
    /\ file' = Torn
    /\ pc' = "saving"
    /\ UNCHANGED <<shutdown, host, told, tmp>>

\* apply_server_list up to the point where the temporary file is truncated.
ReadList(list) ==
    /\ pc = "session" /\ Follow
    /\ ~IsEmpty(list)
    /\ silence' = 0
    /\ RebuildAvailable(list)
    /\ tmp' = Torn
    /\ pc' = "saving"
    /\ UNCHANGED <<shutdown, host, told, file>>

\* save_atomic cannot write or rename: an error event, the list is in use all
\* the same.  Without a path save does nothing, which looks like this too.
SaveFails ==
    /\ pc \in {"saving", "renaming"}
    /\ pc' = "session"
    /\ UNCHANGED <<shutdown, manager, host, silence, told, disk, failed>>

SaveWrites ==
    /\ pc = "saving"
    /\ tmp' = current
    /\ pc' = "renaming"
    /\ UNCHANGED <<shutdown, manager, host, silence, told, file, failed>>

SaveRenames ==
    /\ pc = "renaming"
    /\ file' = tmp
    /\ tmp' = NoFile
    /\ pc' = "session"
    /\ UNCHANGED <<shutdown, manager, host, silence, told, failed>>

\* A second passes without data; should_close compares with the timeout.
ShouldClose(seconds) == seconds > WatchdogTimeout

ReadTimesOut ==
    /\ pc = "session"
    /\ ~ShouldClose(silence + 1)
    /\ silence' = silence + 1
    /\ UNCHANGED <<pc, shutdown, manager, host, told, disk, failed>>

\* Seeded fault: the watchdog only warns, and counts anew.
WatchdogWarns ==
    /\ pc = "session"
    /\ ShouldClose(silence + 1)
    /\ silence' = 1
    /\ UNCHANGED <<pc, shutdown, manager, host, told, disk, failed>>

WatchdogCloses ==
    /\ pc = "session"
    /\ ShouldClose(silence + 1)
    /\ Disconnect
    /\ UNCHANGED <<shutdown, host, silence, disk>>

-----------------------------------------------------------------------------
Read ==
    \/ ReadData \/ ReadTimesOut \/ WatchdogCloses \/ SessionLost
    \/ \E list \in Lists : ReadEmptyList(list) \/ ReadList(list)

Loop ==
    \/ Load \/ LoadFails \/ LoopEnds \/ PickEndpoint \/ NoServers \/ WaitEnds
    \/ Connects \/ ConnectFails \/ AuthSent \/ AuthFails
    \/ SaveFails \/ SaveWrites \/ SaveRenames

Step == Start \/ Shutdown \/ Crash \/ Loop \/ Read \/ SessionStops

Next == Step /\ UNCHANGED config

\* The executor polls the loop, every await in it has a timer, and select
\* takes the branch of the changed watch in the end.
Fairness ==
    /\ WF_vars(Loop /\ UNCHANGED config) /\ WF_vars(Read /\ UNCHANGED config)
    /\ SF_vars(SessionStops /\ UNCHANGED config)

Spec == Init /\ [][Next]_vars /\ Fairness

-----------------------------------------------------------------------------
(* Correctness *)

\* While a receiver runs, the endpoints on offer are those of the list in use
\* without the ones that failed since it was installed, each exactly once:
\* an update replaces everything, and nothing is lost in the rotation.
AvailableIsCurrent ==
    pc # "ended" =>
        /\ Members(primary) = Members(current.servers) \ failed
        /\ Members(satellite) = Members(current.sat) \ failed
        /\ Len(primary) = Cardinality(Members(primary))
        /\ Len(satellite) = Cardinality(Members(satellite))

\* "Failed endpoints remain excluded until a fresh upstream server list
\* arrives": none is connected to again before that.
FailedNotRetried == (pc = "connecting" /\ Follow) => host \notin failed

\* The satellites stand in only once every primary server has failed.
PrimariesFirst ==
    (pc = "connecting" /\ host \notin Members(primary)) =>
        Members(current.servers) \subseteq failed

\* Connected and Disconnected events enclose each connection: the consumer is
\* told of a connection exactly while there is one.
EventsFollowConnection ==
    pc # "ended" => (told <=> pc \in {"auth", "session", "saving", "renaming"})

\* A crash never leaves a half-written list at the path, and a list gets
\* there whole.
FileIsWhole == file # Torn

-----------------------------------------------------------------------------
\* A receiver that is told to stop ends, wherever it is.
StopEnds == shutdown ~> (pc = "ended")

RunsOn == ~shutdown /\ pc # "ended"

Pinned(e) == RunsOn /\ ~Follow /\ e \in Members(Servers)

\* A receiver with pinned servers that keeps running and keeps having to
\* connect reaches every one of them, so that a server which refuses or drops
\* its connections cannot keep it from the others.
EveryServerTried ==
    \A e \in Endpoints :
        (<>[]Pinned(e) /\ []<>(pc = "connecting")) =>
            []<>(pc = "connecting" /\ host = e)

\* Every endpoint of the list in use has failed since it was installed.
Exhausted == Members(current.servers) \cup Members(current.sat) \subseteq failed

\* "Automatic reconnection with endpoint rotation": a receiver that is not
\* stopped and not in a session with data tries to connect again, out of a
\* session that has fallen silent too, unless it follows server lists and
\* every endpoint it knows has failed once.  In that state it waits for a list
\* that only a connection could bring.
KeepsTrying ==
    RunsOn ~> \/ ~RunsOn \/ pc = "connecting"
              \/ pc = "session" /\ silence = 0
              \/ Follow /\ Exhausted

\* The endpoint queues, the endpoints that failed, the choice of the next one
\* and the events about it stay in step through lists, failures and restarts.
EndpointsConsistent == /\ TypeOK
                       /\ AvailableIsCurrent
                       /\ FailedNotRetried
                       /\ PrimariesFirst
                       /\ EventsFollowConnection
=============================================================================
