----------------------------- MODULE FileFilter -----------------------------
(***************************************************************************)
(* The query of GET /events as a predicate on events (emwin-cli            *)
(* live/filter.rs and live/server/types.rs).                               *)
(*                                                                         *)
(* A query is a function on the fields the client gave.  A field with a    *)
(* list is the set of its values, in the case they are compared in; a      *)
(* number that cannot be read is -1, a Boolean that cannot be read is      *)
(* neither "true" nor "false".  An event has a name, and a "file_complete" *)
(* has the file: its name (a sequence of letters, in lower case as the     *)
(* pattern is), its size, product and header fields (an absent one is not  *)
(* in the domain), the issues of the parser and its body, a set of         *)
(* segments.                                                               *)
(***************************************************************************)
EXTENDS Integers, Sequences, FiniteSets

ProductFields == {"source", "pil", "family", "container", "wmo_prefix", "office",
                  "office_city", "office_state", "bbb_kind"}
HeaderFields  == {"cccc", "ttaaii", "afos", "bbb"}
IssueFields   == {"issue_kind", "issue_code"}
GeoFields     == {"state", "county", "zone", "fire_zone", "marine_zone"}
VtecFields    == {"vtec_phenomena", "vtec_significance", "vtec_action", "vtec_office", "etn"}
HvtecFields   == {"hvtec_nwslid", "hvtec_severity", "hvtec_cause", "hvtec_record"}
WindFields    == {"wind_hail_kind", "min_wind_mph", "min_hail_inches"}
ParsedParts   == {"has_vtec", "has_ugc", "has_hvtec", "has_latlon", "has_time_mot_loc",
                  "has_wind_hail"}
Flags         == ParsedParts \cup {"has_issues"}
Lists         == ProductFields \cup HeaderFields \cup IssueFields \cup GeoFields
                   \cup VtecFields \cup HvtecFields \cup {"event", "wind_hail_kind"}

NoQuery == <<>>

Gives(q, fields) == fields \cap DOMAIN q # {}

-----------------------------------------------------------------------------
(* try_from_query *)

\* LocationFilter::try_from_input, and the order of the sizes.
RejectsQuery(q) ==
    \/ Gives(q, {"lat"}) # Gives(q, {"lon"})
    \/ Gives(q, {"lat"}) /\ Gives(q, {"lon"})
         /\ (q["lat"] \notin -90..90 \/ q["lon"] \notin -180..180)
    \/ Gives(q, {"distance_miles"}) /\ (~Gives(q, {"lat"}) \/ q["distance_miles"] <= 0)
    \/ {"min_size", "max_size"} \subseteq DOMAIN q /\ q["min_size"] > q["max_size"]

\* csv_values, csv_numbers and parse_optional_bool: what cannot be read is
\* left out, and a field with nothing left is no constraint.  Without a
\* distance five miles are meant.
Compiled(q) ==
    LET Read(f) == IF f = "etn" THEN q[f] \ {-1} ELSE q[f]
        kept    == {f \in DOMAIN q : CASE f \in Lists -> Read(f) # {}
                                       [] f \in Flags -> q[f] = "true" \/ q[f] = "false"
                                       [] OTHER -> TRUE}
        fields  == IF "lat" \in kept THEN kept \cup {"distance_miles"} ELSE kept
    IN  [f \in fields |-> IF f \in kept THEN Read(f) ELSE 5]

-----------------------------------------------------------------------------
(* matches_metadata, one group of fields after the other *)

\* matches_option_set and its relatives: an absent value meets no list.
Allows(q, record, f) == f \in DOMAIN q => f \in DOMAIN record /\ record[f] \in q[f]

AllowsAll(q, record, fields) == \A f \in fields : Allows(q, record, f)

Flagged(q, f, present) == f \in DOMAIN q => (q[f] = "true") = present

\* The entries of one sort in all segments of the body.
Across(file, sort) == UNION {segment[sort] : segment \in file.body}

MatchesSize(q, file) ==
    /\ "min_size" \in DOMAIN q => file.size >= q["min_size"]
    /\ "max_size" \in DOMAIN q => file.size <= q["max_size"]

\* One header meets all of them; the WMO header has no AFOS code.
MatchesHeader(q, file) ==
    Gives(q, HeaderFields) => \E h \in file.headers : AllowsAll(q, h, HeaderFields)

\* Kind and code may come from different issues.
MatchesIssues(q, file) ==
    /\ Flagged(q, "has_issues", file.issues # {})
    /\ \A f \in IssueFields \cap DOMAIN q : \E issue \in file.issues : Allows(q, issue, f)

\* Each sort of area may come from a different section.
MatchesGeo(q, file) ==
    \A f \in GeoFields \cap DOMAIN q :
        \E section \in Across(file, "has_ugc") : section[f] \cap q[f] # {}

\* Seeded fault: each constraint may be met by another event code.
MatchesVtecApart(q, file) ==
    \A f \in VtecFields \cap DOMAIN q :
        \E code \in Across(file, "has_vtec") : Allows(q, code, f)

\* One event code meets all of them.
MatchesVtec(q, file) ==
    Gives(q, VtecFields) =>
        \E code \in Across(file, "has_vtec") : AllowsAll(q, code, VtecFields)

MatchesHvtec(q, file) ==
    Gives(q, HvtecFields) =>
        \E code \in Across(file, "has_hvtec") : AllowsAll(q, code, HvtecFields)

\* Hundred-thousandths of a mile per hour, from knots or miles per hour.
WindSpeed(entry) == entry.value * (IF entry.units = "KTS" THEN 115078 ELSE 100000)

\* Kind, wind and hail may come from different entries; a wind or hail
\* threat has no number to compare.
MatchesWindHail(q, file) ==
    LET entries == Across(file, "has_wind_hail")
    IN  /\ "wind_hail_kind" \in DOMAIN q => \E e \in entries : e.kind \in q["wind_hail_kind"]
        /\ "min_wind_mph" \in DOMAIN q =>
              \E e \in entries : /\ e.kind \in {"legacy_wind", "max_wind_gust"}
                                 /\ WindSpeed(e) >= q["min_wind_mph"] * 100000
        /\ "min_hail_inches" \in DOMAIN q =>
              \E e \in entries : /\ e.kind \in {"legacy_hail", "max_hail_size"}
                                 /\ e.value >= q["min_hail_inches"]

\* The globe is flat here, and distances are counted along its grid.
Miles(p, r) ==
    LET Gap(a, b) == IF a < b THEN b - a ELSE a - b
    IN  Gap(p[1], r[1]) + Gap(p[2], r[2])

\* Inside a polygon, or near a point of a motion line, an area or a gauge.
MatchesLocation(q, file) ==
    "lat" \in DOMAIN q =>
        LET center == <<q["lat"], q["lon"]>>
        IN  \/ \E polygon \in Across(file, "has_latlon") : center \in polygon
            \/ \E p \in Across(file, "points") : Miles(center, p) <= q["distance_miles"]

MatchesPresence(q, file) ==
    \A f \in ParsedParts : Flagged(q, f, Across(file, f) # {})

Star == "*"

\* wildcard_match: greedy, with one place to fall back to, the last star seen
\* and the letter it was last tried at.
WildcardMatch(p, t) ==
    LET from[pi \in 1..Len(p) + 1, ti \in 1..Len(t) + 1,
             star \in 0..Len(p), mark \in 0..Len(t) + 1] ==
            IF ti > Len(t)
                THEN \A i \in pi..Len(p) : p[i] = Star
            ELSE IF pi <= Len(p) /\ p[pi] = t[ti]
                THEN from[pi + 1, ti + 1, star, mark]
            ELSE IF pi <= Len(p) /\ p[pi] = Star
                THEN from[pi + 1, ti, pi, ti]
            ELSE IF star # 0
                THEN from[star + 1, mark + 1, star, mark + 1]
            ELSE FALSE
    IN  from[1, 1, 0, 0]

MatchesMetadata(q, file) ==
    /\ "filename" \in DOMAIN q => WildcardMatch(q["filename"], file.filename)
    /\ MatchesSize(q, file)
    /\ AllowsAll(q, file.product, ProductFields)
    /\ MatchesHeader(q, file)
    /\ MatchesIssues(q, file)
    /\ MatchesLocation(q, file)
    /\ MatchesPresence(q, file)
    /\ MatchesGeo(q, file)
    /\ MatchesVtec(q, file)
    /\ MatchesHvtec(q, file)
    /\ MatchesWindHail(q, file)

HasConstraints(q) ==
    Gives(q, {"filename", "min_size", "max_size", "lat"} \cup Flags \cup WindFields
               \cup (Lists \ {"event"}))

\* EventFilter::matches: with any constraint on files no other event passes.
Matches(q, event) ==
    /\ "event" \in DOMAIN q => event.name \in q["event"]
    /\ HasConstraints(q) =>
          event.name = "file_complete" /\ MatchesMetadata(q, event.file)

-----------------------------------------------------------------------------
(* What a client means by a query *)

\* A star stands for any letters, everything else for itself.
Glob(p, t) ==
    LET from[i \in 1..Len(p) + 1, j \in 1..Len(t) + 1] ==
            IF i > Len(p) THEN j > Len(t)
            ELSE IF p[i] = Star THEN \E k \in j..Len(t) + 1 : from[i + 1, k]
            ELSE j <= Len(t) /\ p[i] = t[j] /\ from[i + 1, j + 1]
    IN  from[1, 1]

\* The things in a file that have one of these fields, and the values a thing
\* has for a field: sections list many, other things have one or none.
ThingsWith(file, fields) ==
    UNION {CASE f \in ProductFields    -> {file.product}
             [] f \in HeaderFields     -> file.headers
             [] f \in IssueFields      -> file.issues
             [] f \in GeoFields        -> UNION {s.has_ugc : s \in file.body}
             [] f \in VtecFields       -> UNION {s.has_vtec : s \in file.body}
             [] f \in HvtecFields      -> UNION {s.has_hvtec : s \in file.body}
             [] f = "wind_hail_kind"   -> UNION {s.has_wind_hail : s \in file.body} : f \in fields}

ValuesOf(thing, f) ==
    CASE f \in GeoFields      -> thing[f]
      [] f = "wind_hail_kind" -> {thing.kind}
      [] OTHER                -> {thing[g] : g \in {f} \cap DOMAIN thing}

\* Lists that one and the same thing has to meet: a header, an event code, a
\* gauge.  Every other list is to be met by something.
Together == {HeaderFields, VtecFields, HvtecFields}
ListGroups == Together \cup {{f} : f \in Lists \ (UNION Together \cup {"event"})}

ListsMet(q, file) ==
    \A fields \in ListGroups : Gives(q, fields) =>
        \E thing \in ThingsWith(file, fields) :
            \A f \in fields \cap DOMAIN q : ValuesOf(thing, f) \cap q[f] # {}

\* A flag asks whether there is any of what it names.
Has(file, flag) ==
    IF flag = "has_issues" THEN file.issues # {} ELSE \E s \in file.body : s[flag] # {}

\* The strongest wind in knots or miles per hour, the largest hail, and how
\* near the file is: zero inside a polygon.
Bound(q, f, default) == IF f \in DOMAIN q THEN q[f] ELSE default
ListedIn(file, kinds) == {e \in UNION {s.has_wind_hail : s \in file.body} : e.kind \in kinds}

NumbersMet(q, file) ==
    /\ file.size \in Bound(q, "min_size", 0)..Bound(q, "max_size", file.size)
    /\ "min_wind_mph" \in DOMAIN q =>
          \E e \in ListedIn(file, {"legacy_wind", "max_wind_gust"}) :
              IF e.units = "KTS" THEN e.value * 115078 >= q["min_wind_mph"] * 100000
                                 ELSE e.value >= q["min_wind_mph"]
    /\ "min_hail_inches" \in DOMAIN q =>
          \E e \in ListedIn(file, {"legacy_hail", "max_hail_size"}) :
              e.value >= q["min_hail_inches"]
    /\ "lat" \in DOMAIN q =>
          \E s \in file.body :
              \/ \E polygon \in s.has_latlon : <<q["lat"], q["lon"]>> \in polygon
              \/ \E p \in s.points :
                    Miles(p, <<q["lat"], q["lon"]>>) <= Bound(q, "distance_miles", 5)

\* What the query asks of a file.
AskedOfFile(q, file) ==
    /\ "filename" \in DOMAIN q => Glob(q["filename"], file.filename)
    /\ ListsMet(q, file)
    /\ \A flag \in Flags \cap DOMAIN q : Has(file, flag) = (q[flag] = "true")
    /\ NumbersMet(q, file)

\* What the documentation says a query asks for: "non-file events only match by
\* `event=...`", a file by everything.
AskedFor(q, event) ==
    /\ "event" \in DOMAIN q => event.name \in q["event"]
    /\ event.name = "file_complete" => AskedOfFile(q, event.file)
=============================================================================
