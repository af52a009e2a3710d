------------------------------ MODULE VtecBody ------------------------------
(***************************************************************************)
(* The event body of a warning product (emwin-parser/src/body):            *)
(* vtec_events.rs splits the text into segments that keep an event code    *)
(* (VTEC) together with its areas (UGC) and its geography, then parses     *)
(* each segment and reports what it could not recover.  A line of text is  *)
(* one of a few kinds:                                                     *)
(*   end      the $$ separator                                             *)
(*   county   a complete UGC line of land areas, with its expiry           *)
(*   marine   a complete UGC line of marine zones                          *)
(*   open     a UGC line of land areas that goes on below                  *)
(*   tail     a continuation of a UGC line, with the expiry; elsewhere     *)
(*            plain text                                                   *)
(*   warning  a VTEC code of any significance but watch                    *)
(*   watch    a VTEC code of a watch                                       *)
(*   latlon   a LAT...LON block     motion   a TIME...MOT...LOC line       *)
(*   tag      a wind or hail line      hvtec    a hydrologic (HVTEC) code  *)
(*   blank    an empty line                                                *)
(***************************************************************************)
EXTENDS Integers, Sequences, FiniteSets, SequencesExt

CONSTANT MaxLines       \* bound: lines of one text

VARIABLES
    lines,              \* the lines read so far
    segments,           \* finished segments, each a sequence of line numbers
    current,            \* line numbers of the segment being collected
    currentHasVtec,
    currentHasGeography

bodyVars == <<lines, segments, current, currentHasVtec, currentHasGeography>>

LineKinds == {"end", "county", "marine", "open", "tail", "warning", "watch",
              "latlon", "motion", "tag", "hvtec", "blank"}

IsUgcStart(kind) == kind \in {"county", "marine", "open"}
LineHasVtec(kind) == kind \in {"warning", "watch"}
LineHasGeography(kind) == kind \in {"latlon", "motion"}

LooksLikeEventContent(kind) ==
    IsUgcStart(kind) \/ LineHasVtec(kind) \/ LineHasGeography(kind)
    \/ kind \in {"tag", "hvtec"}

BodyTypeOK ==
    /\ lines \in Seq(LineKinds)
    /\ \A s \in {segments[i] : i \in DOMAIN segments} \cup {current} :
          \A i \in DOMAIN s : s[i] \in DOMAIN lines
    /\ currentHasVtec \in BOOLEAN /\ currentHasGeography \in BOOLEAN

BodyInit ==
    /\ lines = <<>> /\ segments = <<>> /\ current = <<>>
    /\ currentHasVtec = FALSE /\ currentHasGeography = FALSE

-----------------------------------------------------------------------------
(* push_vtec_segment: a segment without an event code is thrown away. *)
Pushed ==
    IF \E i \in DOMAIN current : LineHasVtec(lines[current[i]])
    THEN Append(segments, current)
    ELSE segments

(* Seeded fault: a second event behind a polygon stays in the segment. *)
BoundaryAtAreasOnly(kind) ==
    current # <<>> /\ currentHasVtec /\ IsUgcStart(kind)

Boundary(kind) ==
    /\ current # <<>>
    /\ currentHasVtec
    /\ IsUgcStart(kind) \/ (LineHasVtec(kind) /\ currentHasGeography)

(* One turn of the loop of split_vtec_segments. *)
ReadLine(kind) ==
    LET cut  == kind = "end" \/ Boundary(kind)
        kept == IF cut THEN <<>> ELSE current
        skip == kind = "end" \/ (kept = <<>> /\ ~ LooksLikeEventContent(kind))
    IN  /\ Len(lines) < MaxLines
        /\ lines' = Append(lines, kind)
        /\ segments' = IF cut THEN Pushed ELSE segments
        /\ current' = IF skip THEN kept ELSE Append(kept, Len(lines) + 1)
        /\ currentHasVtec' = ((~ cut /\ currentHasVtec) \/ (~ skip /\ LineHasVtec(kind)))
        /\ currentHasGeography' =
              ((~ cut /\ currentHasGeography) \/ (~ skip /\ LineHasGeography(kind)))

-----------------------------------------------------------------------------
(* The areas of a segment (ugc.rs).  An unfinished UGC line takes in the   *)
(* lines below until one brings the expiry; a blank line, a section header *)
(* or the end of the segment breaks it off without a word, and a code of   *)
(* an event or of hydrology inside makes its own codes unreadable.         *)
NoAreas == [open |-> FALSE, dirty |-> FALSE, sections |-> <<>>, issues |-> {}]

CompleteUgc(scan, section) ==
    [open |-> FALSE, dirty |-> FALSE,
     sections |-> IF scan.dirty THEN scan.sections ELSE Append(scan.sections, section),
     issues |-> scan.issues \cup (IF scan.dirty THEN {"invalid_ugc_codes"} ELSE {})]

ScanUgc(scan, kind) ==
    CASE kind \in {"county", "marine"} ->
            CompleteUgc(scan, IF scan.open THEN "county" ELSE kind)
      [] kind = "open" -> [scan EXCEPT !.open = TRUE]
      [] kind = "tail" /\ scan.open -> CompleteUgc(scan, "county")
      [] (LineHasVtec(kind) \/ kind = "hvtec") /\ scan.open -> [scan EXCEPT !.dirty = TRUE]
      [] kind \in {"latlon", "motion", "tag", "blank"} /\ scan.open ->
            [scan EXCEPT !.open = FALSE, !.dirty = FALSE]
      [] OTHER -> scan

ParseUgcSections(kinds) ==
    LET scan[i \in 0..Len(kinds)] == IF i = 0 THEN NoAreas ELSE ScanUgc(scan[i - 1], kinds[i])
    IN  scan[Len(kinds)]

(* A polygon is lost, with an issue, when its block takes in a line of     *)
(* areas: only a blank line or a section header ends a LAT...LON block.    *)
Swallows(kinds, i) ==
    /\ kinds[i] = "latlon" /\ i + 1 \in DOMAIN kinds
    /\ kinds[i + 1] \in {"tail", "county", "marine", "open"}

Polygons(kinds) == {i \in DOMAIN kinds : kinds[i] = "latlon" /\ ~ Swallows(kinds, i)}

MarineOnly(sections) ==
    sections # <<>> /\ \A i \in DOMAIN sections : sections[i] = "marine"

WatchOnly(kinds) ==
    \A i \in DOMAIN kinds : LineHasVtec(kinds[i]) => kinds[i] = "watch"

(* validate_vtec_segment, without its check for repeated area codes. *)
ValidateSegment(kinds, sections, polygons, timeKnown) ==
    (IF sections = <<>> /\ (timeKnown \/ \A i \in DOMAIN kinds : ~ IsUgcStart(kinds[i]))
     THEN {"missing_ugc"} ELSE {})
    \cup (IF polygons = {} /\ ~ MarineOnly(sections) /\ ~ WatchOnly(kinds)
          THEN {"missing_polygon"} ELSE {})

(* One segment of parse_vtec_event_body_with_issues: without the time of   *)
(* the header neither areas nor storm motion can be parsed.  A code and a  *)
(* polygon are known by the lines they are printed in.                     *)
ParseSegment(segment, timeKnown) ==
    LET kinds    == [i \in DOMAIN segment |-> lines[segment[i]]]
        areas    == IF timeKnown THEN ParseUgcSections(kinds) ELSE NoAreas
        polygons == Polygons(kinds)
        blocked  == ~ timeKnown /\ \E i \in DOMAIN kinds :
                                       IsUgcStart(kinds[i]) \/ kinds[i] = "motion"
    IN  [vtec |-> {segment[i] : i \in {k \in DOMAIN segment : LineHasVtec(kinds[k])}},
         sections |-> areas.sections,
         polygons |-> {segment[i] : i \in polygons},
         issues |-> areas.issues
            \cup (IF blocked THEN {"missing_reference_time"} ELSE {})
            \cup (IF \E i \in DOMAIN kinds : Swallows(kinds, i) THEN {"invalid_latlon"} ELSE {})
            \cup ValidateSegment(kinds, areas.sections, polygons, timeKnown)]

(* Seeded fault: the segment at the end of the text is not pushed. *)
ParseFinishedSegments(timeKnown) ==
    {ParseSegment(segments[i], timeKnown) : i \in DOMAIN segments}

(* The whole text: the last segment is pushed as well. *)
ParseVtecEventBody(timeKnown) ==
    {ParseSegment(Pushed[i], timeKnown) : i \in DOMAIN Pushed}

-----------------------------------------------------------------------------
AllSegments == Append(segments, current)

Holds(s, n) == \E i \in DOMAIN AllSegments[s] : AllSegments[s][i] = n

Together(m, n) == \E s \in DOMAIN AllSegments : Holds(s, m) /\ Holds(s, n)

Between(m, n, Kind(_)) == \E k \in m + 1 .. n - 1 : Kind(lines[k])

(* What a reader of the product expects of the split: no event code is     *)
(* lost or in two segments; the areas above an event code, with no other   *)
(* event between, are in its segment; so is the geography below it, up to  *)
(* the next areas or $$; and neither areas below an event code nor a       *)
(* second event with a polygon or a motion line in between share its       *)
(* segment.                                                                *)
SegmentsCorrelated ==
    \A n \in DOMAIN lines :
      /\ LineHasVtec(lines[n]) =>
            Cardinality({s \in DOMAIN AllSegments : Holds(s, n)}) = 1
      /\ \A m \in 1 .. n - 1 :
            LET cut == Between(m, n, LAMBDA k : k = "end")
            IN  /\ IsUgcStart(lines[m]) /\ LineHasVtec(lines[n]) /\ ~ cut
                   /\ ~ Between(m, n, LineHasVtec)
                       => Together(m, n)
                /\ LineHasVtec(lines[m]) /\ LineHasGeography(lines[n]) /\ ~ cut
                   /\ ~ Between(m, n, LineHasVtec) /\ ~ Between(m, n, IsUgcStart)
                       => Together(m, n)
                /\ LineHasVtec(lines[m])
                   /\ (IsUgcStart(lines[n])
                       \/ (LineHasVtec(lines[n]) /\ Between(m, n, LineHasGeography)))
                       => ~ Together(m, n)

(* Nothing but plain text from line m to line n, as far as events go. *)
Reaches(m, n) ==
    ~ Between(m, n, LAMBDA k : k = "end") /\ ~ Between(m, n, LineHasVtec)

(* The event has what is printed above its code in line n: with complete   *)
(* areas there it has areas, or tells that they cannot be read or that the *)
(* time is missing, and does not blame the text for the time; without      *)
(* areas it always tells; and its areas are never those of an event before *)
(* it.                                                                     *)
AreasTold(event, n, timeKnown) ==
    /\ \A m \in 1 .. n - 1 : lines[m] \in {"county", "marine"} /\ Reaches(m, n) =>
          IF timeKnown
          THEN event.sections # <<>> \/ "invalid_ugc_codes" \in event.issues
          ELSE "missing_reference_time" \in event.issues /\ "missing_ugc" \notin event.issues
    /\ event.sections = <<>> =>
          {"missing_ugc", "missing_reference_time"} \cap event.issues # {}
    /\ event.sections # <<>> =>
          \E m \in 1 .. n - 1 :
              /\ IsUgcStart(lines[m]) /\ ~ Between(m, n, LAMBDA k : k = "end")
              /\ \A k \in m + 1 .. n - 1 : LineHasVtec(lines[k]) => ~ Between(k, n, LineHasGeography)

(* The event has the polygon printed below its code in line n, or tells    *)
(* that it cannot be read; a warning without one says so unless all its    *)
(* areas are marine; and none of its polygons is that of another event.    *)
PolygonsTold(event, n) ==
    /\ \A p \in n + 1 .. Len(lines) :
          lines[p] = "latlon" /\ Reaches(n, p) /\ ~ Between(n, p, IsUgcStart) =>
              IF p < Len(lines) /\ lines[p + 1] = "tail"
              THEN "invalid_latlon" \in event.issues
              ELSE p \in event.polygons
    /\ event.polygons = {} /\ lines[n] = "warning" =>
          "missing_polygon" \in event.issues \/ MarineOnly(event.sections)
    /\ \A p \in event.polygons :
          /\ lines[p] = "latlon"
          /\ p < n => Reaches(p, n)
          /\ p > n => ~ Between(n, p, LAMBDA k : k = "end") /\ ~ Between(n, p, IsUgcStart)

(* All areas above the event code in line n are marine, and there are some. *)
MarineAbove(n) ==
    LET above == {m \in 1 .. n - 1 : IsUgcStart(lines[m]) /\ Reaches(m, n)}
    IN  above # {} /\ \A m \in above : lines[m] = "marine"
=============================================================================
