------------------------------ MODULE RowDispatch ------------------------------
(***************************************************************************)
(* What becomes of one row of a bill. Every provider's service asks the    *)
(* same questions of a row - unsupported, unknown, and else the estimator  *)
(* of its unit - but not in the same order and not with the same answers.  *)
(*                                                                         *)
(* A row's "kind" is the list its usage type or service is found on, its   *)
(* "unit" the group its usage unit belongs to:                             *)
(*   hours    compute units           months   storage units               *)
(*   seconds  seconds of compute      gb       networking units            *)
(*   memory   memory units, bytes times seconds for Google                 *)
(*   requests a unit of Google's that is listed as unknown                 *)
(*   near     contains a listed unit without being one (Azure)             *)
(*   odd      no listed unit                                               *)
(***************************************************************************)
EXTENDS Naturals

Kinds == {"unsupported", "unknown", "compute", "noProcessor", "memory", "disk", "net", "other"}
Units == {"hours", "months", "seconds", "gb", "memory", "requests", "near", "odd"}

(***************************************************************************)
(* What a service does with a row:                                         *)
(*   counted    estimates it, and counts it towards the average            *)
(*   uncounted  estimates it, and does not count it                        *)
(*   zero       gives it an estimate of nothing                            *)
(*   unknown    puts it aside, to estimate it from the average             *)
(*   dropped    gives it no estimate at all                                *)
(* "kwh" is the energy of its estimate, "counted" what the average gets    *)
(* of it. What the estimators compute is data of the row: "kwh" by the     *)
(* estimator of its unit, "memory" and "embodied" by the two that add to   *)
(* it for instances they know.                                             *)
(***************************************************************************)
Outcomes == {"counted", "uncounted", "zero", "unknown", "dropped"}

Counted(kwh) == [outcome |-> "counted", kwh |-> kwh, counted |-> kwh]
Uncounted(kwh) == [outcome |-> "uncounted", kwh |-> kwh, counted |-> 0]
Zero == [outcome |-> "zero", kwh |-> 0, counted |-> 0]
Unknown == [outcome |-> "unknown", kwh |-> 0, counted |-> 0]
Dropped == [outcome |-> "dropped", kwh |-> 0, counted |-> 0]

-----------------------------------------------------------------------------
\* AWS, CostAndUsageReports.ts. Compute without known processors has no energy that is a number.
AwsHours(row) ==
    IF row.kind = "noProcessor" THEN Zero ELSE Counted(row.kwh + row.memory + row.embodied)

AwsSeconds(row) == Uncounted(row.kwh)
AwsStorage(row) == IF row.kind = "disk" THEN Counted(row.kwh) ELSE Dropped
AwsNetworking(row) == IF row.kind = "net" THEN Counted(row.kwh) ELSE Dropped

AwsByUnit(row) ==
    CASE row.unit = "hours"   -> AwsHours(row)
      [] row.unit = "months"  -> AwsStorage(row)
      [] row.unit = "seconds" -> AwsSeconds(row)
      [] row.unit = "gb"      -> AwsNetworking(row)
      [] OTHER                -> Zero

AwsIsUnknown(row) ==
    row.kind = "unknown" \/ row.unit \notin {"hours", "months", "seconds", "gb"}

Aws(row) ==
    CASE row.kind = "unsupported" -> Dropped
      [] AwsIsUnknown(row)        -> Unknown
      [] OTHER                    -> AwsByUnit(row)

-----------------------------------------------------------------------------
\* Google Cloud, BillingExportTable.ts. Embodied energy is estimated, and left out of the average.
GcpCompute(row) == [Counted(row.kwh) EXCEPT !.kwh = @ + row.embodied]
GcpStorage(row) == Counted(row.kwh)
GcpMemory(row) == Counted(row.kwh)
GcpNetworking(row) == Counted(row.kwh)

\* Seconds that are not compute, and bytes that are not networking, are put aside after all.
GcpByUnit(row) ==
    CASE row.unit = "seconds" ->
             IF row.kind \in {"compute", "noProcessor"} THEN GcpCompute(row) ELSE Unknown
      [] row.unit = "memory" -> IF row.kind = "memory" THEN GcpMemory(row) ELSE GcpStorage(row)
      [] row.unit = "gb"     -> IF row.kind = "net" THEN GcpNetworking(row) ELSE Unknown
      [] OTHER               -> Dropped

GcpIsUnknown(row) == row.kind = "unknown" \/ row.unit = "requests"

Gcp(row) ==
    CASE row.kind = "unsupported" -> Dropped
      [] GcpIsUnknown(row)        -> Unknown
      [] OTHER                    -> GcpByUnit(row)

-----------------------------------------------------------------------------
\* Azure, ConsumptionManagement.ts. Memory sold by the hour is estimated as memory alone.
AzureMemory(row, withCompute) == IF withCompute THEN Uncounted(row.memory) ELSE Counted(row.memory)

AzureHours(row) ==
    IF row.kind = "memory" THEN AzureMemory(row, TRUE)
    ELSE Counted(row.kwh + AzureMemory(row, TRUE).kwh + row.embodied)

AzureStorage(row) == IF row.kind = "disk" THEN Counted(row.kwh) ELSE Dropped
AzureNetworking(row) == IF row.kind = "net" THEN Counted(row.kwh) ELSE Dropped

AzureByUnit(row) ==
    CASE row.unit = "hours"  -> AzureHours(row)
      [] row.unit = "months" -> AzureStorage(row)
      [] row.unit = "gb"     -> AzureNetworking(row)
      [] row.unit = "memory" -> AzureMemory(row, FALSE)
      [] OTHER               -> Zero

\* A unit counts as listed when it contains a listed one.
AzureIsUnknown(row) ==
    row.kind = "unknown" \/ row.unit \notin {"hours", "months", "gb", "memory", "near"}

Azure(row) ==
    CASE row.kind = "unsupported" -> Dropped
      [] AzureIsUnknown(row)      -> Unknown
      [] OTHER                    -> AzureByUnit(row)

-----------------------------------------------------------------------------
Estimate(provider, row) ==
    CASE provider = "AWS"   -> Aws(row)
      [] provider = "GCP"   -> Gcp(row)
      [] provider = "AZURE" -> Azure(row)

Outcome(provider, row) == Estimate(provider, row).outcome

\* The quantity the average is taken over: the cost, or the usage amount.
Amount(provider, row) == IF provider = "AWS" THEN row.cost ELSE row.usage

\* What the average is multiplied with for a row put aside.
UnknownAmount(provider, row) == IF provider = "AWS" THEN row.cost ELSE row.usage
=============================================================================
