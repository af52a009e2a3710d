----------------------------- MODULE ProductTime -----------------------------
(***************************************************************************)
(* Recovering full instants from the partial times that products carry     *)
(* (emwin-parser/src/time.rs): a WMO header and a UGC expiry give a day of *)
(* the month and a time of day, a storm motion line only a time of day.    *)
(* An instant is a number of ticks since the first of January of           *)
(* FirstYear; a day has TicksPerDay ticks, a time of day is one of them.   *)
(***************************************************************************)
EXTENDS Integers, Sequences, FiniteSets

CONSTANTS FirstYear,    \* the calendar of the model covers
          LastYear,     \* FirstYear .. LastYear
          TicksPerDay   \* times of day the model tells apart

(* The least that makes "half a day" and "two different times of day" mean *)
(* something, and a calendar with a year on both sides of a new year.      *)
ASSUME CalendarAssumption ==
    /\ FirstYear \in Nat /\ LastYear \in Nat /\ FirstYear < LastYear
    /\ TicksPerDay \in Nat \ {0}

-----------------------------------------------------------------------------
(* The civil calendar of the chrono crate. *)

IsLeap(year) == year % 4 = 0 /\ (year % 100 # 0 \/ year % 400 = 0)

MonthLength(year, month) ==
    CASE month \in {4, 6, 9, 11} -> 30
      [] month = 2 -> IF IsLeap(year) THEN 29 ELSE 28
      [] OTHER -> 31

Calendar == (FirstYear .. LastYear) \X (1 .. 12)

MonthCount == 12 * (LastYear - FirstYear + 1)

NthMonth(n) == <<FirstYear + (n \div 12), (n % 12) + 1>>

(* Days before the n-th month of the calendar. *)
DaysBefore[n \in 0 .. MonthCount] ==
    IF n = 0 THEN 0
    ELSE DaysBefore[n - 1] + MonthLength(NthMonth(n - 1)[1], NthMonth(n - 1)[2])

MonthStart == [ym \in Calendar |-> DaysBefore[12 * (ym[1] - FirstYear) + ym[2] - 1]]

Days == 0 .. DaysBefore[MonthCount] - 1
Instants == 0 .. (DaysBefore[MonthCount] * TicksPerDay) - 1

(* Year and month of every day of the calendar. *)
MonthOfDay ==
    [n \in Days |-> CHOOSE ym \in Calendar :
        MonthStart[ym] <= n /\ n < MonthStart[ym] + MonthLength(ym[1], ym[2])]

Month(t) == MonthOfDay[t \div TicksPerDay]

DayOfMonth(t) == (t \div TicksPerDay) - MonthStart[Month(t)] + 1

TimeOfDay(t) == t % TicksPerDay

-----------------------------------------------------------------------------
(* No instant could be recovered. *)
None == -1

Distance(a, b) == IF a < b THEN b - a ELSE a - b

(* min_by_key: the first of the candidates at the least distance. *)
Nearest(candidates, reference) ==
    LET closest == {i \in DOMAIN candidates : \A j \in DOMAIN candidates :
                        Distance(candidates[i], reference) <= Distance(candidates[j], reference)}
    IN  IF candidates = <<>> THEN None
        ELSE candidates[CHOOSE i \in closest : \A j \in closest : i <= j]

(* Seeded fault: the month after December keeps the year. *)
SurroundingMonthsSameYear(year, month) ==
    <<IF month = 1 THEN <<year - 1, 12>> ELSE <<year, month - 1>>,
      <<year, month>>,
      IF month = 12 THEN <<year, 1>> ELSE <<year, month + 1>> >>

SurroundingMonths(year, month) ==
    <<IF month = 1 THEN <<year - 1, 12>> ELSE <<year, month - 1>>,
      <<year, month>>,
      IF month = 12 THEN <<year + 1, 1>> ELSE <<year, month + 1>> >>

(* The day exists in the month (NaiveDate::from_ymd_opt). *)
BuildCandidate(ym, day, tick) ==
    IF ym \in Calendar /\ day <= MonthLength(ym[1], ym[2])
    THEN <<(MonthStart[ym] + day - 1) * TicksPerDay + tick>>
    ELSE <<>>

CandidateDatetimes(reference, day, tick) ==
    LET months == SurroundingMonths(Month(reference)[1], Month(reference)[2])
    IN  IF day \notin 1 .. 31 \/ tick \notin 0 .. TicksPerDay - 1
        THEN <<>>
        ELSE BuildCandidate(months[1], day, tick)
                \o BuildCandidate(months[2], day, tick)
                \o BuildCandidate(months[3], day, tick)

ResolveDayTimeNearest(reference, day, tick) ==
    Nearest(CandidateDatetimes(reference, day, tick), reference)

ResolveDayTimeNotBefore(reference, day, tick) ==
    LET candidates == CandidateDatetimes(reference, day, tick)
        all == {candidates[i] : i \in DOMAIN candidates}
        later == {t \in all : t >= reference}
    IN  CASE all = {} -> None
          [] later # {} -> CHOOSE t \in later : \A u \in later : t <= u
          [] OTHER -> CHOOSE t \in all : \A u \in all : t >= u

ResolveClockTimeNearest(reference, tick) ==
    LET today == reference \div TicksPerDay
    IN  IF tick \notin 0 .. TicksPerDay - 1
        THEN None
        ELSE Nearest([k \in 1 .. 3 |-> (today + k - 2) * TicksPerDay + tick], reference)
=============================================================================
