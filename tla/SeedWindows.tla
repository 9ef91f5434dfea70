------------------------------ MODULE SeedWindows ------------------------------
(***************************************************************************)
(* Seeding the cache, SeedCacheFile/seedCacheFile.ts: a range of days is   *)
(* asked for in windows, one request after the other, and each request     *)
(* fetches the periods that are not cached yet.                            *)
(***************************************************************************)
EXTENDS Periods

CONSTANTS
    Groupings,    \* the groupings to choose from
    FirstDays,    \* the days the range may begin on
    LastDays,     \* the days it may end on
    PerRequest,   \* the answers to "how many per request", 0 for a single request
    Zones,        \* the time zones the host may be in
    MaxSeedings   \* how often the command is run

ASSUME SeedWindowsAssumption ==
    /\ MonthStarts \subseteq Nat /\ 0 \in MonthStarts /\ IsFiniteSet(MonthStarts)
    /\ FirstWeekday \in 0 .. 6
    /\ Groupings \subseteq {"day", "week", "month"}
    /\ FirstDays \subseteq Days /\ LastDays \subseteq Days
    /\ PerRequest \subseteq Nat
    /\ \A z \in Zones : z.ahead \in -Minutes .. Minutes /\ z.summer \subseteq Int
    /\ MaxSeedings \in Nat \ {0}

\* The months of the calendar behind day d.
MonthsBehind(d) == {s \in MonthStarts : s > d}

\* A calendar does not end: it begins a month before the ranges, and what lies behind
\* them is longer than a window and than the range.
ASSUME CalendarAssumption ==
    \A first \in FirstDays, last \in LastDays, n \in PerRequest :
        /\ MonthStart(first) > 0
        /\ n < Cardinality(MonthsBehind(last))
        /\ Cardinality(MonthStarts \cap (first + 1 .. last)) + 1 < Cardinality(MonthsBehind(last))

VARIABLES
    groupBy,         \* the grouping
    start,           \* the first day of the range
    endDate,         \* the last day of the range
    timePerRequest,  \* the periods per window
    zone,            \* the time zone of the host
    currentDate,     \* the day the next window begins on
    seedings,        \* how often the command was run
    cached,          \* cached[p]: the days whose usage the entry of period p holds
    twice,           \* the days that were fetched more than once (history)
    bills            \* bills[m]: by months, how often Alibaba's bill of month m was asked for, 2 for more

vars == <<groupBy, start, endDate, timePerRequest, zone, currentDate, seedings, cached, twice, bills>>

\* Entries are dated at starts of periods and hold days of their period only.
TypeOK ==
    /\ groupBy \in Groupings
    /\ start \in Days /\ endDate \in Days
    /\ timePerRequest \in Nat \ {0}
    /\ zone \in Zones
    /\ currentDate \in Nat
    /\ seedings \in 1 .. MaxSeedings
    /\ DOMAIN cached \subseteq {StartOf(groupBy, d) : d \in Days}
    /\ \A p \in DOMAIN cached : cached[p] \subseteq DaysOf(groupBy, p)
    /\ twice \subseteq Days
    /\ bills \in [MonthStarts -> 0 .. 2]

\* The length of a window, in periods: as answered, or the whole range.
RequestLength(from, to, n) == IF n = 0 THEN Diff(groupBy, from, to) + 1 ELSE n

Init ==
    /\ groupBy \in Groupings
    /\ start \in FirstDays
    /\ endDate \in {d \in LastDays : start <= d}
    /\ \E n \in PerRequest : timePerRequest = RequestLength(start, endDate, n)
    /\ zone \in Zones
    /\ currentDate = start
    /\ seedings = 1
    /\ cached = [p \in {} |-> {}]
    /\ twice = {}
    /\ bills = [m \in MonthStarts |-> 0]

\* Mutant: the window ends on its first day.
WindowOfOneDay == <<currentDate, currentDate>>

\* The first and the last day of the window that begins on the current date.
Window ==
    LET nextDate == Add(groupBy, currentDate, timePerRequest - 1)
    IN <<currentDate, IF nextDate > endDate THEN endDate ELSE nextDate>>

\* Mutant: the dates found in the cache are fetched again.
FetchAll(missing, requested) == FetchWindows(groupBy, requested)

\* The windows fetched: only those of missing periods.
FetchMissing(missing, requested) == FetchWindows(groupBy, missing)

(* getEstimates of AliCostAndUsageService: one bill for each date of each    *)
(* window, whatever part of the month the window is.  Counted by months only. *)
BillsAfter(windows) ==
    LET asked == UNION {{<<w, BilledMonth(zone, t)>> : t \in BillDates(zone, w[1], w[2])} :
                           w \in windows}
    IN  IF groupBy # "month" THEN bills
        ELSE [m \in MonthStarts |->
                 Min({2, bills[m] + Cardinality({x \in asked : x[2] = m})})]

\* One turn of the loop: request a window, fetch what is missing, cache it.
SeedWindow ==
    LET requested == PeriodsWithin(groupBy, Window[1], Window[2])
        missing == requested \ DOMAIN cached
        windows == FetchMissing(missing, requested)
        fetched == UNION {w[1] .. w[2] : w \in windows}
    IN /\ currentDate <= endDate
       /\ cached' = [p \in DOMAIN cached \cup missing |->
                        IF p \in DOMAIN cached THEN cached[p]
                        ELSE fetched \cap DaysOf(groupBy, p)]
       /\ twice' = twice \cup {d \in fetched \cap Days : \E p \in DOMAIN cached : d \in cached[p]}
       /\ bills' = BillsAfter(windows)
       /\ currentDate' = Add(groupBy, currentDate, timePerRequest)
       /\ UNCHANGED <<groupBy, start, endDate, timePerRequest, zone, seedings>>

\* The command is run again, for another range of the same grouping.
SeedAgain ==
    /\ currentDate > endDate
    /\ seedings < MaxSeedings
    /\ seedings' = seedings + 1
    /\ start' \in FirstDays
    /\ endDate' \in {d \in LastDays : start' <= d}
    /\ \E n \in PerRequest : timePerRequest' = RequestLength(start', endDate', n)
    /\ currentDate' = start'
    /\ UNCHANGED <<groupBy, zone, cached, twice, bills>>

Next == SeedWindow \/ SeedAgain

Spec == Init /\ [][Next]_vars
-----------------------------------------------------------------------------
(* Properties.                                                              *)

(* However ranges are split and repeated, no day's usage is fetched by two  *)
(* requests: the windows a request fetches stay clear of cached periods.    *)
NoDayTwice == twice = {}

(* The entry of a period holds the usage of all its days, also when only a  *)
(* part of the period was asked for.                                        *)
PeriodsWhole == \A p \in DOMAIN cached : cached[p] = DaysOf(groupBy, p)

(* Days and months are cached as a whole, whatever part of them the windows *)
(* that were asked for touched first.                                       *)
DaysAndMonthsWhole == groupBy # "week" => PeriodsWhole

(* When the loop has ended, every day of a range that began with a whole    *)
(* period belongs to a cached period, however the range was split.          *)
AlignedRangeCovered ==
    currentDate > endDate /\ start = StartOf(groupBy, start) =>
        \A d \in start .. endDate : StartOf(groupBy, d) \in DOMAIN cached

\* The clock of a host in zone z is never behind UTC, and is not put forward in summer.
SteadilyAhead(z) == z.ahead \in 0 .. Minutes - 1 /\ z.summer = {}

(* By months, and on a host that is steadily ahead of UTC, Alibaba's bill   *)
(* of every cached month was asked for exactly once, and no other month's,  *)
(* however the ranges were split and repeated.  On other hosts a window     *)
(* asks for the bill of the month before or behind it, and by days or weeks *)
(* one is asked for with every window (README).                             *)
MonthsBilledOnce ==
    groupBy = "month" /\ SteadilyAhead(zone) =>
        \A m \in MonthStarts : bills[m] = IF m \in DOMAIN cached THEN 1 ELSE 0
=============================================================================
