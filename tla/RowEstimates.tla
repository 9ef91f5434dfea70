------------------------------ MODULE RowEstimates ------------------------------
(***************************************************************************)
(* From the rows of a bill to estimates: the loop of getEstimates in       *)
(* CostAndUsageReports.ts, BillingExportTable.ts and                       *)
(* ConsumptionManagement.ts, which differ in RowDispatch only. Requests    *)
(* are served in one process and interleave at the await of every row's    *)
(* emissions factor. They share two stores that live as long as the        *)
(* process: the kilowatt-hour totals, from which unknown usage is          *)
(* estimated, and the carbon intensities of electricity zones.             *)
(***************************************************************************)
EXTENDS Integers, Sequences, FiniteSets, FiniteSetsExt, SequencesExt, Functions, RowDispatch

CONSTANTS
    Requests,     \* the requests
    Providers,    \* the providers asked, of "AWS", "GCP" and "AZURE"
    BillRows,     \* BillRows[p]: the rows p's bill may have
    MaxRows,      \* the most rows of one answer
    Zones,        \* the electricity zones of the rows' regions
    Intensities   \* the carbon intensities the zone service reports

NoZone == "no zone"           \* a region that belongs to no electricity zone
Published == "published"      \* the factor published for the region, used by default

\* What rowestimates take of a row; "day" is its period, "key" its account, service and tags.
Rows == [kind: Kinds, unit: Units, day: Nat, service: {"A", "B"}, zone: Zones \cup {NoZone},
         kwh: Nat, memory: Nat, embodied: Nat, usage: Nat, cost: Nat]

\* The energy of a row's estimate, and what of it counts towards the average.
RowKwh(p, row) == Estimate(p, row).kwh
CountedKwh(p, row) == Estimate(p, row).counted

ASSUME RowEstimatesAssumption ==
    /\ Providers \subseteq {"AWS", "GCP", "AZURE"}
    /\ \A p \in Providers : BillRows[p] \subseteq Rows
    /\ MaxRows \in Nat
    /\ NoZone \notin Zones
    /\ Published \notin Intensities

VARIABLES
    command,     \* what the process was started for: "serve", or "lookup" for lookup tables
    totals,      \* KILOWATT_HOURS_BY_SERVICE_AND_USAGE_UNIT of each provider
    zones,       \* zoneIntensityFactors
    pc,          \* pc[r]: where request r is
    provider,    \* provider[r]: the provider it asks
    rows,        \* rows[r]: the rows of the bill
    next,        \* next[r]: the row it is at
    unknownRows, \* unknownRows[r]: the rows put aside
    results,     \* results[r]: its estimates
    order,       \* the requests in the order they began (history)
    overlapped,  \* the requests that ran beside another one (history)
    factors,     \* factors[r]: which factor was used in which zone (history)
    guesses      \* guesses[r]: how unknown rows were estimated (history)

processVars == <<totals, zones>>
historyVars == <<command, order, overlapped>>
vars == <<command, totals, zones, pc, provider, rows, next, unknownRows, results,
          order, overlapped, factors, guesses>>

(***************************************************************************)
(* Fractions, for a ratio times an amount. A denominator of 0 is the       *)
(* program's NaN or Infinity.                                              *)
(***************************************************************************)
Fraction == Int \X Int
Plus(a, b) == IF a[2] = b[2] THEN <<a[1] + b[1], a[2]>>
                             ELSE <<a[1] * b[2] + b[1] * a[2], a[2] * b[2]>>
SumOfFractions(first, others) == FoldFunction(Plus, first, others)
SameFraction(a, b) == a[1] * b[2] = b[1] * a[2] /\ (a[2] = 0 <=> b[2] = 0)

-----------------------------------------------------------------------------
(***************************************************************************)
(* The totals: one entry per service and unit, one per unit for all.       *)
(***************************************************************************)
Entry(table, k) == IF k \in DOMAIN table THEN table[k] ELSE [amount |-> 0, kwh |-> 0]

\* A table whose entry for k is set, whether there was one or not.
Set(table, k, entry) == [e \in DOMAIN table \cup {k} |-> IF e = k THEN entry ELSE table[e]]

Raised(table, k, amount, kwh) ==
    Set(table, k, [amount |-> Entry(table, k).amount + amount, kwh |-> Entry(table, k).kwh + kwh])

\* Mutant: only the service's entry is kept up to date after it was made.
AccumulateServiceOnly(table, p, row) ==
    IF <<row.service, row.unit>> \in DOMAIN table
    THEN Raised(table, <<row.service, row.unit>>, Amount(p, row), CountedKwh(p, row))
    ELSE Raised(Raised(table, <<row.service, row.unit>>, Amount(p, row), CountedKwh(p, row)),
                <<"total", row.unit>>, Amount(p, row), CountedKwh(p, row))

\* Mutant: the energy is added up and the amount is that of the last row.
AccumulateEnergyOnly(table, p, row) ==
    LET set(t, k) == Set(t, k, [amount |-> Amount(p, row), kwh |-> Entry(t, k).kwh + CountedKwh(p, row)])
    IN set(set(table, <<row.service, row.unit>>), <<"total", row.unit>>)

AccumulateKilowattHours(table, p, row) ==
    Raised(Raised(table, <<row.service, row.unit>>, Amount(p, row), CountedKwh(p, row)),
           <<"total", row.unit>>, Amount(p, row), CountedKwh(p, row))

\* Mutant: the average is not scaled by the row's own amount.
EstimateUnscaled(table, p, row) ==
    LET k == <<"total", row.unit>> IN
    IF k \in DOMAIN table THEN <<table[k].kwh, table[k].amount>> ELSE <<0, 1>>

\* The average of the row's unit, over all services: no caller names the service.
EstimateUnknown(table, p, row) ==
    LET k == <<"total", row.unit>> IN
    IF k \in DOMAIN table THEN <<table[k].kwh * UnknownAmount(p, row), table[k].amount>> ELSE <<0, 1>>

\* Mutant: a second estimate of a day replaces the first one's cost.
AppendOverCost(res, row, kwh) ==
    LET k == <<row.day, row.zone, row.service>> IN
    Set(res, k, IF k \in DOMAIN res THEN [kwh |-> Plus(res[k].kwh, kwh), cost |-> row.cost]
                                    ELSE [kwh |-> kwh, cost |-> row.cost])

\* An estimate joins the entry of its day, region, service and account, or makes one.
AppendOrAccumulate(res, row, kwh) ==
    LET k == <<row.day, row.zone, row.service>> IN
    Set(res, k, IF k \in DOMAIN res THEN [kwh |-> Plus(res[k].kwh, kwh), cost |-> res[k].cost + row.cost]
                                    ELSE [kwh |-> kwh, cost |-> row.cost])

-----------------------------------------------------------------------------
Nothing == [k \in {} |-> 0]

Init ==
    /\ command \in {"serve", "lookup"}
    /\ totals = [p \in Providers |-> Nothing]
    /\ zones = [z \in {} |-> 0]
    /\ pc = [r \in Requests |-> "new"]
    /\ provider \in [Requests -> Providers]
    /\ rows = [r \in Requests |-> << >>]
    /\ next = [r \in Requests |-> 1]
    /\ unknownRows = [r \in Requests |-> << >>]
    /\ results = [r \in Requests |-> Nothing]
    /\ order = << >>
    /\ overlapped = {}
    /\ factors = [r \in Requests |-> {}]
    /\ guesses = [r \in Requests |-> << >>]

Running == {r \in Requests : pc[r] \in {"row", "fetching", "estimate"}}

\* Rows to estimate; without any there are no estimates.
Begin(r, bill) ==
    /\ pc[r] = "new"
    /\ rows' = [rows EXCEPT ![r] = bill]
    /\ pc' = [pc EXCEPT ![r] = IF bill = << >> THEN "done" ELSE "row"]
    /\ order' = Append(order, r)
    /\ overlapped' = IF Running = {} THEN overlapped ELSE overlapped \cup Running \cup {r}
    /\ UNCHANGED <<command, processVars, provider, next, unknownRows, results, factors, guesses>>

\* The bill's rows arrive.
UsageArrives(r, bill) == command = "serve" /\ Begin(r, bill)

(***************************************************************************)
(* Lookup tables are made by a command of their own, from the rows of one  *)
(* file per provider, the providers one after the other. Each row is a     *)
(* unit of usage at a cost of 1, at the instant it is estimated, and gets  *)
(* a line of its own: "day" stands for both.                               *)
(***************************************************************************)
LookupRows(p, input) ==
    [i \in DOMAIN input |-> [input[i] EXCEPT !.day = i, !.cost = 1, !.usage = IF p = "GCP" THEN 3600 ELSE 1]]

LookupOrder == [p \in {"AWS", "GCP", "AZURE"} |-> CASE p = "AWS" -> 1 [] p = "GCP" -> 2 [] p = "AZURE" -> 3]

LookupArrives(r, input) ==
    /\ command = "lookup"
    /\ \A q \in Requests : pc[q] # "new" =>
          pc[q] = "done" /\ LookupOrder[provider[q]] < LookupOrder[provider[r]]
    /\ Begin(r, LookupRows(provider[r], input))

Row(r) == rows[r][next[r]]

UseFactor(r, f) ==
    /\ pc' = [pc EXCEPT ![r] = "estimate"]
    /\ factors' = [factors EXCEPT ![r] = @ \cup {<<Row(r).zone, Row(r).day, f>>}]

\* getEmissionsFactors: the published factor, the intensity in store, or a request for it.
GetEmissionsFactors(r) ==
    /\ pc[r] = "row"
    /\ \/ Row(r).zone = NoZone /\ UseFactor(r, Published)
       \/ /\ <<Row(r).zone, Row(r).day>> \in DOMAIN zones
          /\ UseFactor(r, zones[<<Row(r).zone, Row(r).day>>])
       \/ /\ Row(r).zone # NoZone
          /\ <<Row(r).zone, Row(r).day>> \notin DOMAIN zones
          /\ pc' = [pc EXCEPT ![r] = "fetching"]
          /\ UNCHANGED factors
    /\ UNCHANGED <<processVars, provider, rows, next, unknownRows, results, historyVars, guesses>>

\* Mutant: what is stored is the factor the region falls back to.
StorePublished(z, d, i) == Set(zones, <<z, d>>, Published)

\* Mutant: the intensity is used and not stored.
ForgetIntensity(z, d, i) == zones

StoreIntensity(z, d, i) == Set(zones, <<z, d>>, i)

\* The zone service answers with an intensity.
IntensityArrives(r, i) ==
    /\ pc[r] = "fetching"
    /\ zones' = StoreIntensity(Row(r).zone, Row(r).day, i)
    /\ UseFactor(r, i)
    /\ UNCHANGED <<totals, provider, rows, next, unknownRows, results, historyVars, guesses>>

\* It answers without one, or with an intensity of 0.
IntensityUnknown(r) ==
    /\ pc[r] = "fetching"
    /\ UseFactor(r, Published)
    /\ UNCHANGED <<processVars, provider, rows, next, unknownRows, results, historyVars, guesses>>

\* The call fails, and with it the request: what it added to the totals stays.
IntensityFails(r) ==
    /\ pc[r] = "fetching"
    /\ pc' = [pc EXCEPT ![r] = "failed"]
    /\ UNCHANGED <<processVars, provider, rows, next, unknownRows, results, historyVars, factors, guesses>>

-----------------------------------------------------------------------------
\* The totals after a row.
TotalsAfter(r) ==
    IF Outcome(provider[r], Row(r)) = "counted"
    THEN [totals EXCEPT ![provider[r]] = AccumulateKilowattHours(@, provider[r], Row(r))]
    ELSE totals

\* The estimates after a row, unknown rows left out.
ResultsAfter(r) ==
    CASE Outcome(provider[r], Row(r)) \in {"counted", "uncounted"} ->
             AppendOrAccumulate(results[r], Row(r), <<RowKwh(provider[r], Row(r)), 1>>)
      [] Outcome(provider[r], Row(r)) = "zero" -> AppendOrAccumulate(results[r], Row(r), <<0, 1>>)
      [] OTHER -> results[r]

UnknownAfter(r) ==
    IF Outcome(provider[r], Row(r)) = "unknown" THEN Append(unknownRows[r], Row(r)) ELSE unknownRows[r]

\* After the last row, the rows put aside are estimated - if there is any estimate at all.
WithUnknown(res, aside, table, p) ==
    IF res = Nothing THEN res
    ELSE FoldLeft(LAMBDA acc, row : AppendOrAccumulate(acc, row, EstimateUnknown(table, p, row)), res, aside)

\* The synchronous part of an iteration; after the last one the unknown rows follow at once.
EstimateRow(r) ==
    /\ pc[r] = "estimate"
    /\ totals' = TotalsAfter(r)
    /\ unknownRows' = [unknownRows EXCEPT ![r] = UnknownAfter(r)]
    /\ next' = [next EXCEPT ![r] = @ + 1]
    /\ IF next[r] < Len(rows[r])
       THEN /\ pc' = [pc EXCEPT ![r] = "row"]
            /\ results' = [results EXCEPT ![r] = ResultsAfter(r)]
            /\ UNCHANGED guesses
       ELSE LET table == totals'[provider[r]] IN
            /\ pc' = [pc EXCEPT ![r] = "done"]
            /\ results' = [results EXCEPT ![r] =
                              WithUnknown(ResultsAfter(r), UnknownAfter(r), table, provider[r])]
            /\ guesses' = [guesses EXCEPT ![r] =
                  IF ResultsAfter(r) = Nothing THEN @
                  ELSE [i \in DOMAIN UnknownAfter(r) |->
                          [row |-> UnknownAfter(r)[i], table |-> table,
                           kwh |-> EstimateUnknown(table, provider[r], UnknownAfter(r)[i])]]]
    /\ UNCHANGED <<zones, provider, rows, historyVars, factors>>

Step(r) ==
    \/ GetEmissionsFactors(r)
    \/ \E i \in Intensities : IntensityArrives(r, i)
    \/ IntensityUnknown(r)
    \/ IntensityFails(r)
    \/ EstimateRow(r)

Bills(p) == BoundedSeq(BillRows[p], MaxRows)

Next ==
    \E r \in Requests :
        \/ \E bill \in Bills(provider[r]) : UsageArrives(r, bill) \/ LookupArrives(r, bill)
        \/ Step(r)

Spec == Init /\ [][Next]_vars
-----------------------------------------------------------------------------
Done(r) == pc[r] = "done"

\* A request is at a row of its bill, and the stores hold what they are meant for.
TypeOK ==
    /\ pc \in [Requests -> {"new", "row", "fetching", "estimate", "done", "failed"}]
    /\ \A p \in Providers : \A k \in DOMAIN totals[p] :
          k[1] \in {"A", "B", "total"} /\ k[2] \in Units /\ totals[p][k] \in [amount: Nat, kwh: Nat]
    /\ \A k \in DOMAIN zones : k[1] \in Zones /\ zones[k] \in Intensities
    /\ \A r \in Requests :
          /\ rows[r] \in Seq(Rows)
          /\ next[r] \in 1 .. Len(rows[r]) + 1
          /\ \A k \in DOMAIN results[r] : results[r][k].kwh \in Fraction /\ results[r][k].cost \in Nat

OutcomeAt(r, i) == Outcome(provider[r], rows[r][i])
Estimated == {"counted", "uncounted", "zero"}

(***************************************************************************)
(* No cost is lost and none is counted twice: an answer's costs add up to  *)
(* those of the bill's rows, except the rows without any estimate - and    *)
(* except unknown usage when there is nothing else on the bill, which then *)
(* has no estimates at all.                                                *)
(***************************************************************************)
CostConserved ==
    \A r \in Requests : Done(r) =>
        SumFunction([k \in DOMAIN results[r] |-> results[r][k].cost])
        = IF \E i \in DOMAIN rows[r] : OutcomeAt(r, i) \in Estimated
          THEN SumFunction([i \in {j \in DOMAIN rows[r] : OutcomeAt(r, j) # "dropped"} |-> rows[r][i].cost])
          ELSE 0

CountedOf(r, u, upTo) ==
    {i \in 1 .. upTo : OutcomeAt(r, i) = "counted" /\ rows[r][i].unit = u}

\* The rows of a unit that requests at a provider have counted so far.
Passed(p, u) ==
    UNION {{r} \X CountedOf(r, u, next[r] - 1) : r \in {q \in Requests : provider[q] = p}}

(***************************************************************************)
(* The totals miss no row and count none twice, whatever order requests    *)
(* interleave or fail in: a unit's total is the sum of its services'       *)
(* entries, and the sum over every counted row that was passed.            *)
(***************************************************************************)
TotalsAddUp ==
    \A p \in Providers :
        /\ \A k \in DOMAIN totals[p] : Passed(p, k[2]) # {}
        /\ \A u \in Units :
              LET total == Entry(totals[p], <<"total", u>>)
                  passed == Passed(p, u)
              IN /\ total.kwh = Entry(totals[p], <<"A", u>>).kwh + Entry(totals[p], <<"B", u>>).kwh
                 /\ total.kwh = SumFunction([x \in passed |-> CountedKwh(p, rows[x[1]][x[2]])])
                 /\ total.amount = SumFunction([x \in passed |-> Amount(p, rows[x[1]][x[2]])])

(***************************************************************************)
(* The reference for a process's first request: an entry's energy is that  *)
(* of its estimated rows, and for every unknown row its amount times the   *)
(* average over the whole bill. It does not speak of the rows' order.      *)
(***************************************************************************)
ReferenceKwh(r, k) ==
    LET p == provider[r]
        of == {i \in DOMAIN rows[r] : <<rows[r][i].day, rows[r][i].zone, rows[r][i].service>> = k}
        known == SumFunction([i \in {j \in of : OutcomeAt(r, j) \in {"counted", "uncounted"}} |->
                                 RowKwh(p, rows[r][i])])
        counted(i) == CountedOf(r, rows[r][i].unit, Len(rows[r]))
        guess(i) == IF counted(i) = {} THEN <<0, 1>>
                    ELSE <<SumFunction([j \in counted(i) |-> CountedKwh(p, rows[r][j])]) * Amount(p, rows[r][i]),
                           SumFunction([j \in counted(i) |-> Amount(p, rows[r][j])])>>
    IN SumOfFractions(<<known, 1>>, [i \in {j \in of : OutcomeAt(r, j) = "unknown"} |-> guess(i)])

\* The first request of a process, served alone, does not depend on the order of the rows.
FirstAnswerByBill ==
    \A r \in Requests : (Done(r) /\ order # << >> /\ Head(order) = r /\ r \notin overlapped) =>
        \A k \in DOMAIN results[r] : SameFraction(results[r][k].kwh, ReferenceKwh(r, k))

(***************************************************************************)
(* Repeating a request gives the same answer although the totals grew in   *)
(* between - as long as only that request was made, one at a time, and     *)
(* none failed half way.                                                   *)
(***************************************************************************)
RepeatedAnswerSame ==
    \A r, q \in Requests :
        (/\ Done(r) /\ Done(q) /\ provider[r] = provider[q] /\ overlapped = {}
         /\ \A x \in {order[i] : i \in DOMAIN order} : rows[x] = rows[r] /\ pc[x] # "failed")
        => \A k \in DOMAIN results[r] :
              /\ k \in DOMAIN results[q]
              /\ SameFraction(results[r][k].kwh, results[q][k].kwh)

(***************************************************************************)
(* As long as requests do not run beside each other, every row of a zone   *)
(* and day that is given a live intensity is given the same one.           *)
(***************************************************************************)
OneIntensity ==
    overlapped = {} =>
        \A r, q \in Requests : \A a \in factors[r], b \in factors[q] :
            (a[1] = b[1] /\ a[2] = b[2] /\ Published \notin {a[3], b[3]}) => a[3] = b[3]

(***************************************************************************)
(* ClassifyingUsageTypes.md on unknown rows: where a ratio of the same     *)
(* service and usage unit is known, it is that ratio that is applied.      *)
(***************************************************************************)
EstimatedByService ==
    \A r \in Requests : \A i \in DOMAIN guesses[r] :
        LET g == guesses[r][i]
            k == <<g.row.service, g.row.unit>>
        IN (k \in DOMAIN g.table /\ g.table[k].amount > 0)
           => SameFraction(g.kwh, <<g.table[k].kwh * Amount(provider[r], g.row), g.table[k].amount>>)
=============================================================================
