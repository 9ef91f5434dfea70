----------------------------- MODULE MissingDates -----------------------------
(***************************************************************************)
(* The date arithmetic the estimate cache shares: common/helpers.ts and    *)
(* the tail of Cache.ts.  A date is the index of a period of the request's *)
(* grouping, so "one period later" is + 1; how calendar days fall into     *)
(* periods is the subject of module Periods.                               *)
(***************************************************************************)
EXTENDS Integers

\* Mutant: the loop over the periods runs once too often.
DatesPastTheEnd(q) == q.from .. q.to + 1

\* getDatesWithinRequestTimeFrame: every period from the one the start date
\* lies in up to the end date.
DatesWithinRequestTimeFrame(q) == q.from .. q.to

\* Mutant: one missing date makes the whole window missing.
WindowIfAnyMissing(cachedDates, q) ==
    IF DatesWithinRequestTimeFrame(q) \subseteq cachedDates THEN {}
    ELSE DatesWithinRequestTimeFrame(q)

\* getMissingDates: the requested periods no cached estimate is dated at.
DatesMissing(cachedDates, q) == DatesWithinRequestTimeFrame(q) \ cachedDates

\* getMissingDataRequests: one sub-request for each maximal run of
\* consecutive missing dates.
MissingDataRequests(missing) ==
    LET starts == {d \in missing : d - 1 \notin missing}
        ends   == {d \in missing : d + 1 \notin missing}
    IN {run \in {a..b : a \in starts, b \in ends} : run # {} /\ run \subseteq missing}

\* fillDates: the fetched estimates by date, with an estimate that holds no
\* services for every missing date nothing was fetched for.
FillDates(missing, fetched) ==
    [d \in missing \cup {f.date : f \in fetched} |-> {f \in fetched : f.date = d}]
=============================================================================
