--------------------------- MODULE MCIngestReceiver -------------------------
(* Two primary endpoints, one satellite endpoint, and the lists upstream    *)
(* may send: one with a satellite, one that repeats an endpoint and names   *)
(* it in both parts, and one without endpoints.                             *)
EXTENDS IngestReceiver

CONSTANTS a, b, s

MCEndpoints == {a, b, s}
MCConfigs == {[servers |-> <<a, b>>, follow |-> TRUE],
              [servers |-> <<a, b, s>>, follow |-> FALSE]}
MCLists == {[servers |-> <<a, b>>, sat |-> <<s>>],
            [servers |-> <<b, b>>, sat |-> <<s, b>>],
            [servers |-> <<>>, sat |-> <<>>]}
=============================================================================
