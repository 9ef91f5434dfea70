----------------------------- MODULE ProviderQueries -----------------------------
(***************************************************************************)
(* One call of App.getCostAndEstimates: the providers are asked one after  *)
(* the other for the usage between two dates, each by its own protocol,    *)
(* and the first one that rejects rejects the call. Or one call of         *)
(* App.getRecommendations, which asks them for recommendations.            *)
(***************************************************************************)
EXTENDS AthenaQuery, LambdaQueries, AzureConsumption, Recommendations

CONSTANTS
    Enabled,      \* the sets of providers that may be included, of "AWS", "GCP", "AZURE", "ALI"
    BillingCycles \* the months Alibaba is asked for

ASSUME ProviderQueriesAssumption == BillingCycles \in Nat

VARIABLES
    included,     \* the providers the configuration includes
    useBilling,   \* AWS.USE_BILLING_DATA: Athena, or the services of each region
    stage,        \* the provider that is asked for usage; "none" without such a call
    bigQuery,     \* where the BigQuery job for Google's billing export is
    cycles        \* the months Alibaba was asked for

appVars == <<included, useBilling, stage>>
estimateVars == <<athenaVars, lambdaVars, azureVars, appVars, bigQuery, cycles>>
vars == <<estimateVars, recVars>>

\* A call for usage or one for recommendations, with the parameters it reads.
Init ==
    /\ AthenaInit /\ LambdaInit /\ AzureInit /\ RecInit
    /\ \/ /\ stage = "AWS" /\ included \in Enabled /\ useBilling \in BOOLEAN
          /\ recStage = "none" /\ recService = "Rightsizing" /\ ~azureBilling
       \/ /\ stage = "none" /\ included = {} /\ useBilling = TRUE
          /\ recStage = "AWS"
    /\ bigQuery = "idle"
    /\ cycles = << >>

-----------------------------------------------------------------------------
AfterStage == [AWS |-> "GCP", GCP |-> "AZURE", AZURE |-> "ALI", ALI |-> "answered"]

Aws == stage = "AWS" /\ "AWS" \in included
Gcp == stage = "GCP" /\ "GCP" \in included
Azure == stage = "AZURE" /\ "AZURE" \in included
Ali == stage = "ALI" /\ "ALI" \in included

\* A stage begins its queries.
Begin ==
    /\ \/ Aws /\ useBilling /\ AthenaBegin /\ UNCHANGED <<lambdaVars, azureVars, bigQuery>>
       \/ Aws /\ ~useBilling /\ LambdaBegin /\ UNCHANGED <<athenaVars, azureVars, bigQuery>>
       \/ Gcp /\ bigQuery = "idle" /\ bigQuery' = "create" /\ UNCHANGED <<athenaVars, lambdaVars, azureVars>>
       \/ Azure /\ AzureBegin /\ UNCHANGED <<athenaVars, lambdaVars, bigQuery>>
    /\ UNCHANGED <<appVars, cycles>>

\* createQueryJob and getQueryResults.
BigQueryStep ==
    /\ \/ bigQuery = "create" /\ bigQuery' \in {"results", "failed"}
       \/ bigQuery = "results" /\ bigQuery' \in {"done", "failed"}
    /\ UNCHANGED <<athenaVars, lambdaVars, azureVars, appVars, cycles>>

\* One month's bill; a call that fails rejects the whole request.
BillingCycle ==
    /\ Ali /\ Len(cycles) < BillingCycles
    /\ cycles' = Append(cycles, Len(cycles) + 1)
    /\ UNCHANGED <<athenaVars, lambdaVars, azureVars, appVars, bigQuery>>

BillingCycleFails ==
    /\ Ali /\ Len(cycles) < BillingCycles
    /\ stage' = "rejected"
    /\ UNCHANGED <<athenaVars, lambdaVars, azureVars, included, useBilling, bigQuery, cycles>>

\* The outcome of a stage: its own, or none to wait for when it is not included.
Outcome ==
    CASE stage \notin included -> "done"
      [] stage = "AWS"   -> IF useBilling THEN athenaPc ELSE lambdaPc
      [] stage = "GCP"   -> bigQuery
      [] stage = "AZURE" -> azurePc
      [] stage = "ALI"   -> IF Len(cycles) = BillingCycles THEN "done" ELSE "asking"

\* Mutant: a provider that failed is passed over.
StageAfterAnyway(outcome) == AfterStage[stage]

StageAfter(outcome) == IF outcome = "failed" THEN "rejected" ELSE AfterStage[stage]

\* The next provider is asked, or the call ends.
StageEnds ==
    /\ stage \in DOMAIN AfterStage
    /\ Outcome \in {"done", "failed"}
    /\ stage' = StageAfter(Outcome)
    /\ UNCHANGED <<athenaVars, lambdaVars, azureVars, included, useBilling, bigQuery, cycles>>

Athena == (AthenaStep \/ ExecutionMoves) /\ UNCHANGED <<lambdaVars, azureVars, appVars, bigQuery, cycles>>
Lambda == /\ LambdaStep \/ \E q \in Queries : LogQueryMoves(q)
          /\ UNCHANGED <<athenaVars, azureVars, appVars, bigQuery, cycles>>
AzureQueries == AzureStep /\ UNCHANGED <<athenaVars, lambdaVars, appVars, bigQuery, cycles>>

EstimatesNext == \/ Begin \/ BigQueryStep \/ BillingCycle \/ BillingCycleFails \/ StageEnds
                 \/ Athena \/ Lambda \/ AzureQueries

Next == \/ EstimatesNext /\ UNCHANGED recVars
        \/ RecNext /\ UNCHANGED estimateVars

Fairness ==
    /\ AthenaFairness /\ LambdaFairness /\ AzureFairness
    /\ WF_estimateVars(Begin \/ BigQueryStep \/ BillingCycle \/ StageEnds)
    /\ RecFairness

Spec == Init /\ [][Next]_vars /\ Fairness
-----------------------------------------------------------------------------
\* Every stage is typed, and the call is in one of them or over.
TypeOK ==
    /\ AthenaTypeOK /\ LambdaTypeOK /\ AzureTypeOK /\ RecTypeOK
    /\ stage \in DOMAIN AfterStage \cup {"none", "answered", "rejected"}
    /\ bigQuery \in {"idle", "create", "results", "done", "failed"}
    /\ cycles \in Seq(1 .. BillingCycles)

(***************************************************************************)
(* The rows of the Athena query are those of all its result pages, each    *)
(* taken once and in order, however the polls fall between the states of   *)
(* the query.                                                              *)
(***************************************************************************)
PagesOnce == athenaPc = "done" => resultSets = [p \in 1 .. ResultPages |-> p]

(***************************************************************************)
(* When the Lambda estimates are ready, the result of every log query was  *)
(* taken, and none was taken while the query could still add to it.        *)
(***************************************************************************)
EveryLogQueryRead ==
    lambdaPc = "done" =>
        /\ {r[1] : r \in logResults} = Queries
        /\ \A r \in logResults : r[2] \in {"Complete", "Failed"}

(***************************************************************************)
(* Whatever the limit refuses and however subscriptions share it, the      *)
(* usage of a subscription is taken whole, each detail once: the slices    *)
(* leave none out that lies in the range, and repeat none.                 *)
(***************************************************************************)
UsageTakenOnce ==
    \A s \in Subs : subPc[s] = "done" =>
        usage[s] = [u \in UsageDetails |->
                       IF u.sub = s /\ u.start >= Start /\ u.end <= End THEN 1 ELSE 0]

(***************************************************************************)
(* A call is answered only when every provider that is included gave all   *)
(* it was asked for; what Azure subscriptions lost is the one exception.   *)
(* One for recommendations is answered when no service owes any, of the    *)
(* projects that were found, and with the best of AWS's two services.      *)
(***************************************************************************)
AnsweredInFull ==
    /\ stage = "answered" =>
        /\ "AWS" \in included => (IF useBilling THEN athenaPc ELSE lambdaPc) = "done"
        /\ "GCP" \in included => bigQuery = "done"
        /\ "AZURE" \in included => azurePc = "done" /\ \A s \in found : subPc[s] \in {"done", "lost"}
        /\ "ALI" \in included => cycles = [c \in 1 .. BillingCycles |-> c]
    /\ recStage = "answered" => RecommendedInFull

(***************************************************************************)
(* Every call comes to an end, also when the tenant's rate limit is never  *)
(* renewed - unless its Athena query is cancelled: the condition that      *)
(* names 'CANCELLED' compares with 'FAILED' alone, and polls go on.        *)
(***************************************************************************)
CallEnds ==
    <>({stage, recStage} \cap {"answered", "rejected"} # {} \/ execution = "CANCELLED")
=============================================================================
