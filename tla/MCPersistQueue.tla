--------------------------- MODULE MCPersistQueue ---------------------------
(* Small instances of the persistence runtime. *)
EXTENDS PersistQueue

\* Two payload files, one delivered twice under the same name; every request
\* also writes the .JSON sidecar beside its payload.
MCLocations == {"A.TXT", "A.JSON", "B.TXT", "B.JSON"}

MCFile == [n \in Requests |-> IF n = 2 THEN "B" ELSE "A"]

MCBlobsOf == [n \in Requests |->
                IF MCFile[n] = "A" THEN <<"A.TXT", "A.JSON">>
                                   ELSE <<"B.TXT", "B.JSON">>]

\* The first and the last delivery of A carry different timestamps.
MCRowOf == [n \in Requests |-> IF n = 2 THEN "B@1" ELSE IF n = 1 THEN "A@1" ELSE "A@2"]

MCRowKeys == {"A@1", "A@2", "B@1"}
=============================================================================
