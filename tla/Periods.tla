-------------------------------- MODULE Periods --------------------------------
(***************************************************************************)
(* Calendar days and the periods of a grouping, as common/helpers.ts and   *)
(* Cache.ts compute them with moment.  Days are numbered from the first    *)
(* day of the calendar; a period is named by its first day.                *)
(***************************************************************************)
EXTENDS Integers, FiniteSets, FiniteSetsExt

CONSTANTS
    MonthStarts,   \* the first days of the months, one beyond the last day included
    FirstWeekday   \* the weekday of day 0, 0 for Monday to 6 for Sunday

LastDay == Max(MonthStarts) - 1
Days == 0 .. LastDay

Weekday(d) == (d + FirstWeekday) % 7

\* The first day of the month d lies in, and of the month after it.
MonthStart(d) == Max({s \in MonthStarts : s <= d})
NextMonth(d) == Min({s \in MonthStarts : s > d})

\* The month that begins n months after the one that begins at s.
MonthAfter(s, n) ==
    CHOOSE t \in MonthStarts : Cardinality({u \in MonthStarts : u <= t})
                                 = Cardinality({u \in MonthStarts : u <= s}) + n

\* moment's add: a day that the target month does not have becomes its last.
Add(grouping, d, n) ==
    CASE grouping = "day" -> d + n
      [] grouping = "week" -> d + 7 * n
      [] grouping = "month" ->
            LET target == MonthAfter(MonthStart(d), n)
            IN Min({target + (d - MonthStart(d)), NextMonth(target) - 1})

\* moment's diff: the whole units from day a to day b.
Diff(grouping, a, b) ==
    CASE grouping = "day" -> b - a
      [] grouping = "week" -> (b - a) \div 7
      [] grouping = "month" ->
            Max({n \in 0 .. Cardinality(MonthStarts \cap (a + 1 .. b)) : Add("month", a, n) <= b})

\* moment's startOf, with weeks from Monday (isoWeek).
StartOf(grouping, d) ==
    CASE grouping = "day" -> d
      [] grouping = "week" -> d - Weekday(d)
      [] grouping = "month" -> MonthStart(d)

\* moment's endOf, with weeks up to Saturday (week, of the default locale).
EndOf(grouping, d) ==
    CASE grouping = "day" -> d
      [] grouping = "week" -> d + ((5 - Weekday(d)) % 7)
      [] grouping = "month" -> NextMonth(d) - 1

\* The days of the calendar in the period that begins at p.
DaysOf(grouping, p) == {d \in Days : StartOf(grouping, d) = p}

\* Mutant: the periods begin on the request's days.
PeriodsUnaligned(grouping, a, b) == a .. b

\* getDatesWithinRequestTimeFrame: the periods from the one day a lies in to b.
PeriodsWithin(grouping, a, b) == {StartOf(grouping, d) : d \in a .. b}

(* The runs of consecutive missing periods, each as its first and last.      *)
Runs(grouping, missing) ==
    LET first == {p \in missing : StartOf(grouping, p - 1) \notin missing}
        last == {p \in missing : \A q \in missing : StartOf(grouping, q - 1) # p}
    IN {<<p, Min({q \in last : q >= p})>> : p \in first}

\* Mutant: the window ends where the last period begins.
FetchWindowsToLastStart(grouping, missing) == Runs(grouping, missing)

(* getMissingDataRequests: a window of days for each run of missing periods, *)
(* from the first one's start to the last one's end.                         *)
FetchWindows(grouping, missing) ==
    {<<run[1], EndOf(grouping, run[2])>> : run \in Runs(grouping, missing)}

-----------------------------------------------------------------------------
(* Alibaba's bills are asked for by the clock of the host.  Moments are the  *)
(* minutes of UTC since the calendar begins; zone.ahead is how many minutes  *)
(* the host is ahead of UTC, and on the days of zone.summer an hour more.    *)

Minutes == 1440

Ahead(zone, d) == zone.ahead + (IF d \in zone.summer THEN 60 ELSE 0)

\* What the host's clock shows at a moment, and the moment at which it shows that.
LocalTime(zone, t) == t + Ahead(zone, t \div Minutes)
Moment(zone, w) == w - Ahead(zone, (w - zone.ahead) \div Minutes)

\* JavaScript's setMonth one month on: a day that month does not have runs into the next one.
SameDayNextMonth(d) ==
    IF d > LastDay \/ NextMonth(d) > LastDay THEN LastDay + 1 ELSE NextMonth(d) + (d - MonthStart(d))

\* setMonth keeps the time of the day, by the host's clock as well.
MonthLater(zone, t) ==
    LET now == LocalTime(zone, t)
    IN  Moment(zone, SameDayNextMonth(now \div Minutes) * Minutes + (now % Minutes))

\* Mutant: the first day of the next window is asked for as well.
BillDatesPastTheEnd(zone, a, b) == {a * Minutes, (b + 1) * Minutes}

(* Alibaba's getDates: the moments in the window from day a to day b, a      *)
(* month from one to the next, at which a bill is asked for.                 *)
BillDates(zone, a, b) ==
    LET date[n \in 0 .. Cardinality(MonthStarts)] ==
            IF n = 0 THEN a * Minutes ELSE MonthLater(zone, date[n - 1])
    IN  {date[n] : n \in DOMAIN date} \cap (a * Minutes .. (b + 1) * Minutes - 1)

\* billingCycle: the month it is on the host.
BilledMonth(zone, t) == MonthStart(LocalTime(zone, t) \div Minutes)
=============================================================================
