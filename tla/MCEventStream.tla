---------------------------- MODULE MCEventStream ---------------------------
(* Small instances of the event stream: a warning and a statistics event;  *)
(* queries that let one of them through, or are refused.  And for the      *)
(* filter by itself every query of up to MaxFields fields, against the     *)
(* warning and a plain bulletin.                                           *)
EXTENDS EventStream, SampleEvents

CONSTANT MaxFields

VARIABLE query   \* the query that a client makes up

TheEvents == [warning |-> Warning, statistics |-> Statistics]

\* Every constraint is met, some by different segments.
Precise == [
    event |-> {"file_complete"},
    filename |-> <<"*", "a", "b">>,
    min_size |-> 1, max_size |-> 10,
    pil |-> {"TOR", "SVR"},
    afos |-> {"TORBOU"}, cccc |-> {"KBOU"},
    has_issues |-> "true", issue_code |-> {"invalid_latlon"},
    state |-> {"CO"}, county |-> {"COC013"},
    vtec_phenomena |-> {"TO"}, vtec_significance |-> {"W"}, etn |-> {-1, 7},
    hvtec_severity |-> {"minor"}, has_hvtec |-> "true", has_time_mot_loc |-> "false",
    wind_hail_kind |-> {"max_hail_size"}, min_wind_mph |-> 69, min_hail_inches |-> 1,
    lat |-> 42, lon |-> -105]

\* What cannot be read is no constraint.
Unread == [event |-> {"telemetry"}, has_vtec |-> "perhaps", etn |-> {-1}, pil |-> {}]

\* Files by their names, and the statistics besides.
Named == [event |-> {"telemetry", "file_complete"}, filename |-> <<"*", "b">>]

\* A place without a longitude, a distance without a place, sizes that cross.
TheQueries == [precise |-> Precise, unread |-> Unread,
               halved |-> [lat |-> 39], adrift |-> [distance_miles |-> 3],
               inverted |-> [min_size |-> 2, max_size |-> 1]]
TheNames == [named |-> Named]

-----------------------------------------------------------------------------
\* For every field values that the warning meets and values that it does not,
\* in one of its segments or in both.
Probes == [
    event |-> {{"file_complete"}, {"telemetry"}},
    filename |-> {<<"*", "a", "b">>, <<"a", "*", "a", "*">>, <<"*", "*">>, <<"a", "b">>},
    min_size |-> {3, 11}, max_size |-> {10},
    pil |-> {{"TOR", "SVR"}, {}}, office |-> {{"KBOU"}},
    cccc |-> {{"KBOU"}}, afos |-> {{"TORBOU"}}, bbb |-> {{"AAA"}},
    issue_kind |-> {{"latlon_parse"}}, issue_code |-> {{"missing_polygon"}},
    county |-> {{"COC013"}}, state |-> {{"CO", "WY"}}, zone |-> {{"COZ001"}},
    vtec_phenomena |-> {{"TO"}, {"FL"}}, vtec_significance |-> {{"W"}, {"A"}}, etn |-> {{-1, 7}, {-1}},
    hvtec_severity |-> {{"minor"}}, hvtec_cause |-> {{"ice_jam"}},
    has_issues |-> {"true", "perhaps"}, has_hvtec |-> {"true", "false"},
    has_time_mot_loc |-> {"false"},
    wind_hail_kind |-> {{"max_hail_size"}, {"legacy_wind"}},
    min_wind_mph |-> {69, 70}, min_hail_inches |-> {1, 2},
    lat |-> {39, 42}, lon |-> {-105}, distance_miles |-> {1, 2}]

Constrain(f, value) ==
    /\ f \notin DOMAIN query /\ Cardinality(DOMAIN query) < MaxFields
    /\ query' = [g \in DOMAIN query \cup {f} |-> IF g = f THEN value ELSE query[g]]

\* The next client's query.
Renew == query # NoQuery /\ query' = NoQuery

\* Queries are made up before the server has done anything: the filter is a
\* function of the query and the event, and nobody's stream is changed by it.
MakesUp ==
    /\ connected = 0 /\ nextEventId = 1 /\ ~shutdown
    /\ \A c \in Clients : stage[c] = "away" /\ stream[c] = NoStream /\ log[c] = NoLog
    /\ UNCHANGED vars
    /\ Renew \/ \E f \in DOMAIN Probes : \E value \in Probes[f] : Constrain(f, value)

Serves == query = NoQuery /\ Next /\ UNCHANGED query

ServerInit == Init /\ query = NoQuery

ServerSpec ==
    /\ ServerInit
    /\ [][MakesUp \/ Serves]_<<vars, query>>
    /\ Fairness

\* EventFilter::matches on files is what the client asked for, whatever it
\* combines: the greedy wildcard_match finds every match of the pattern, one
\* header, event code or gauge meets all the lists given for it, other lists
\* may be met by different things, and what cannot be read is no constraint.
FiltersExact ==
    ~RejectsQuery(query) =>
        \A event \in {Warning, Bulletin} :
            Matches(Compiled(query), event) = AskedFor(Compiled(query), event)
=============================================================================
