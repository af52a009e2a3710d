--------------------------- MODULE ProductPipeline ---------------------------
(***************************************************************************)
(* enrich_product of emwin-parser: a file becomes an envelope, an ordered  *)
(* list of strategies classifies it, and assembly runs the extraction plan *)
(* of the product catalogue over its text.  What a recogniser or a parser  *)
(* of one family answers for a text is a free choice, within the AFOS and  *)
(* routing conditions the code puts on it; the event bodies of warnings    *)
(* are read line by line (VtecBody), the times by ProductTime.             *)
(***************************************************************************)
EXTENDS ProductTime, VtecBody

CONSTANTS Issued,       \* instants at which a product may be issued
          Delays,       \* ticks from there to the parser's clock
          Lifetimes,    \* ticks from there to the expiry of its areas
          Offsets       \* ticks from there to the time of a storm motion line

(* The times that can be recovered: a header received within fourteen days *)
(* of its issue, an expiry less than four weeks ahead and a motion line    *)
(* less than half a day away, all within the calendar.                     *)
ASSUME TimesAssumption ==
    /\ Issued \subseteq Instants
    /\ Delays \subseteq -(14 * TicksPerDay) + 1 .. 14 * TicksPerDay - 1
    /\ Lifetimes \subseteq 0 .. 28 * TicksPerDay - 1
    /\ \A offset \in Offsets : offset \in Int /\ 2 * offset \in -TicksPerDay + 1 .. TicksPerDay - 1
    /\ \A issued \in Issued, ticks \in Delays \cup Lifetimes : issued + ticks \in Instants

VARIABLES
    stage,              \* "arrives", "dated", "text", "wmo", "body" or "done"
    clock,              \* times just resolved, and the true ones (or NoClock)
    timeKnown,          \* reference_time is Some
    afos,               \* family the AFOS code stands for, or "generic"
    plan,               \* extractors of the catalogue's body plan
    next,               \* index of the next strategy
    product             \* the product as assembled so far

pipelineVars == <<stage, clock, timeKnown, afos, plan, next, product>>

-----------------------------------------------------------------------------
(* The strategies, in the order in which they are asked. *)
TextStrategies ==
    <<"fd", "metar", "taf", "pirep", "sigmet", "lsr", "cli", "cwa", "wwp", "saw", "sel",
      "cf6", "dsm", "hml", "mos", "mcd", "ero", "spc_outlook">>

WmoStrategies ==
    <<"fd", "pirep", "dsm", "metar", "taf", "dcp", "sigmet", "cwa", "unsupported">>

Families == {TextStrategies[i] : i \in DOMAIN TextStrategies}

(* Families whose strategy first asks the catalogue for the routing. *)
Routed == {"fd", "sigmet", "cli", "cwa", "wwp", "saw", "sel", "hml", "mcd", "ero", "spc_outlook"}

(* Families whose recogniser accepts the text of another AFOS code. *)
RecognizedByText == {"metar", "pirep", "cf6", "dsm"}

LooksLike(family) ==
    afos = family \/ (family \in RecognizedByText /\ family \notin Routed)

(* Families that need the time of the header, and the ones that step aside *)
(* without a word when it, or the parser, fails.                           *)
NeedsTime == {"fd", "lsr", "cwa", "mos", "saw", "mcd"}
StepsAside == {"cli", "saw", "sel", "mcd"}

(* The strategies for METAR and TAF hand no text to the body extraction. *)
Bodyless == {"metar", "taf"}

(* Extraction plans of the catalogue, by family of the AFOS code. *)
PlansOf(family) ==
    CASE family = "generic" -> {{}, {"vtec"}, {"ugc"}, {"latlon"}, {"ugc", "latlon"},
                                {"ugc", "latlon", "motion"}}
      [] family = "saw" -> {{"ugc", "latlon"}}
      [] family = "sel" -> {{"ugc"}}
      [] OTHER -> {{}}

NoClock == [issued |-> None]

NoProduct == [artifact |-> FALSE, body |-> "none", issues |-> {}, segments |-> {}]

PipelineTypeOK ==
    /\ stage \in {"arrives", "dated", "text", "wmo", "body", "done"}
    /\ timeKnown \in BOOLEAN
    /\ afos \in Families \cup {"generic"}
    /\ plan \in SUBSET {"vtec", "ugc", "latlon", "motion"}
    /\ next \in 1 .. Len(TextStrategies) + 1
    /\ product.artifact \in BOOLEAN /\ product.body \in {"none", "events", "generic"}
    /\ BodyTypeOK

PipelineInit ==
    /\ stage = "arrives" /\ clock = NoClock /\ timeKnown = FALSE
    /\ afos = "generic" /\ plan = {} /\ next = 1 /\ product = NoProduct
    /\ BodyInit

-----------------------------------------------------------------------------
(* Envelope *)

Publish(artifact, issues) ==
    /\ stage' = "done"
    /\ product' = [NoProduct EXCEPT !.artifact = artifact, !.issues = issues]
    /\ clock' = NoClock
    /\ UNCHANGED <<timeKnown, afos, plan, next, bodyVars>>

(* A file whose name is not a text product's, known or not; a text in a    *)
(* ZIP container is unknown as well.                                       *)
NotText == stage = "arrives" /\ Publish(FALSE, {})

(* A text with a broken header: it may still be a headerless daily summary *)
(* message; otherwise the error is kept.                                   *)
BrokenHeader ==
    /\ stage = "arrives"
    /\ \/ Publish(TRUE, {})
       \/ Publish(FALSE, {"family"})
       \/ Publish(FALSE, {"header"})

(* The header's time, the expiry of an area line and the time of a motion  *)
(* line, each printed in part and resolved again.                          *)
Dated(issued, delay, lifetime, offset) ==
    LET expires  == issued + lifetime
        seen     == issued + offset
        received == issued + delay
        header   == ResolveDayTimeNearest(received, DayOfMonth(issued), TimeOfDay(issued))
    IN  [issued |-> issued, expires |-> expires, seen |-> seen,
         header |-> header,
         ugc |-> IF header = None THEN None
                 ELSE ResolveDayTimeNotBefore(header, DayOfMonth(expires), TimeOfDay(expires)),
         motion |-> IF header = None THEN None
                    ELSE ResolveClockTimeNearest(header, TimeOfDay(seen))]

ReadTimes ==
    /\ stage = "arrives"
    /\ stage' = "dated"
    /\ \/ /\ \E issued \in Issued :
               \/ \E delay \in Delays : clock' = Dated(issued, delay, 0, 0)
               \/ \E lifetime \in Lifetimes, offset \in Offsets :
                     clock' = Dated(issued, 0, lifetime, offset)
          /\ timeKnown' = (clock'.header # None)
       \/ UNCHANGED <<clock, timeKnown>>     \* the field is not a day and time
    /\ UNCHANGED <<afos, plan, next, product, bodyVars>>

AfosText ==
    /\ stage = "dated"
    /\ stage' = "text" /\ clock' = NoClock
    /\ \E family \in Families \cup {"generic"} : afos' = family /\ plan' \in PlansOf(family)
    /\ UNCHANGED <<timeKnown, next, product, bodyVars>>

WmoOnly ==
    /\ stage = "dated"
    /\ stage' = "wmo" /\ clock' = NoClock
    /\ UNCHANGED <<timeKnown, afos, plan, next, product, bodyVars>>

-----------------------------------------------------------------------------
(* Classification *)

(* A candidate: the bulletin, or the issue of a malformed member of the    *)
(* family; the body is extracted next if the catalogue has a plan and the  *)
(* strategy asks for it.                                                   *)
Candidate(artifact, request) ==
    /\ product' = [NoProduct EXCEPT !.artifact = artifact,
                                    !.issues = IF artifact THEN {} ELSE {"family"}]
    /\ stage' = IF request /\ plan # {} THEN "body" ELSE "done"
    /\ afos' = "generic" /\ next' = 1
    /\ UNCHANGED <<clock, timeKnown, plan, bodyVars>>

Pass ==
    /\ next' = next + 1
    /\ UNCHANGED <<stage, clock, timeKnown, afos, plan, product, bodyVars>>

(* A strategy passes when its recogniser says no (which it may say of its  *)
(* own AFOS code too, when the text is not as expected), or when it steps  *)
(* aside; otherwise it returns a bulletin, or reports the malformed one.   *)
AskTextStrategy ==
    LET family == TextStrategies[next]
        able   == timeKnown \/ family \notin NeedsTime
    IN  /\ stage = "text" /\ next \in DOMAIN TextStrategies
        /\ \/ Pass
           \/ LooksLike(family) /\ able /\ Candidate(TRUE, family \notin Bodyless)
           \/ LooksLike(family) /\ family \notin StepsAside
                 /\ Candidate(FALSE, family \notin Bodyless)

(* No strategy took the text: a generic product. *)
GenericText ==
    /\ stage = "text" /\ next > Len(TextStrategies)
    /\ stage' = IF plan # {} THEN "body" ELSE "done"
    /\ afos' = "generic" /\ next' = 1
    /\ UNCHANGED <<clock, timeKnown, plan, product, bodyVars>>

(* Without an AFOS code only the text decides.  METAR, TAF and DCP are     *)
(* parsed before they are recognised; the last strategies report a valid   *)
(* but unsupported bulletin.                                               *)
AskWmoStrategy ==
    LET family == WmoStrategies[next]
        able   == timeKnown \/ family \notin NeedsTime
    IN  /\ stage = "wmo"
        /\ \/ family # "unsupported" /\ Pass
           \/ family # "unsupported" /\ able /\ Candidate(TRUE, FALSE)
           \/ family # "dcp" /\ Candidate(FALSE, FALSE)

-----------------------------------------------------------------------------
(* Body extraction *)

(* Without VTEC the extractors of the plan run over the whole text; the    *)
(* ones that need the header's time report its absence.                    *)
ExtractGeneric ==
    LET blocked == IF timeKnown THEN {} ELSE plan \cap {"ugc", "motion"}
    IN  /\ stage = "body" /\ "vtec" \notin plan
        /\ \E found \in SUBSET (plan \ blocked), bad \in SUBSET (plan \ blocked) :
              product' = [product EXCEPT
                  !.body = IF found # {} THEN "generic" ELSE "none",
                  !.issues = @ \cup bad
                      \cup (IF blocked # {} THEN {"missing_reference_time"} ELSE {})]
        /\ stage' = "done" /\ plan' = {}
        /\ UNCHANGED <<clock, timeKnown, afos, next, bodyVars>>

ReadBody ==
    /\ stage = "body" /\ "vtec" \in plan
    /\ \E kind \in LineKinds : ReadLine(kind)
    /\ UNCHANGED pipelineVars

ExtractEvents ==
    LET events == ParseVtecEventBody(timeKnown)
    IN  /\ stage = "body" /\ "vtec" \in plan
        /\ product' = [product EXCEPT
              !.body = IF events # {} THEN "events" ELSE "none",
              !.segments = events,
              !.issues = @ \cup UNION {event.issues : event \in events}]
        /\ stage' = "done" /\ plan' = {}
        /\ UNCHANGED <<clock, timeKnown, afos, next, bodyVars>>

PipelineNext ==
    \/ NotText \/ BrokenHeader \/ ReadTimes \/ AfosText \/ WmoOnly
    \/ AskTextStrategy \/ GenericText \/ AskWmoStrategy
    \/ ExtractGeneric \/ ReadBody \/ ExtractEvents

PipelineSpec == PipelineInit /\ [][PipelineNext]_<<pipelineVars, bodyVars>>

-----------------------------------------------------------------------------
(* A partial time printed by the sender comes back as the instant meant:   *)
(* the header's within fourteen days of the parser's clock, the expiry of  *)
(* areas up to four weeks ahead, the time of a motion line within half a   *)
(* day, across the ends of months, years and a leap February.              *)
TimesRecovered ==
    clock # NoClock =>
        /\ clock.header = clock.issued
        /\ clock.ugc = clock.expires
        /\ clock.motion = clock.seen

(* The event of the code in line n, in the product of a text. *)
EventOf(n) == {event \in product.segments : n \in event.vtec}

(* From the text to the product: every event code is published in exactly  *)
(* one event, that event has the areas and the polygons printed for it or  *)
(* an issue that says what stood in the way, and nothing of another one;   *)
(* once the time is known, a polygon is not asked of marine areas          *)
(* (enrich_product down to validate_vtec_segment).                         *)
EventsPublished ==
    /\ PipelineTypeOK
    /\ stage = "done" =>
        \A n \in DOMAIN lines : LineHasVtec(lines[n]) =>
            \E event \in product.segments :
                /\ EventOf(n) = {event}
                /\ AreasTold(event, n, timeKnown)
                /\ PolygonsTold(event, n)
                /\ timeKnown /\ MarineAbove(n) => "missing_polygon" \notin event.issues
=============================================================================
