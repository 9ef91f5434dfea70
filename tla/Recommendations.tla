--------------------------- MODULE Recommendations ---------------------------
(***************************************************************************)
(* One call of App.getRecommendations with billing data: AWS is asked,     *)
(* then Google Cloud, whether they are included or not, and then the       *)
(* advisor of every Azure subscription, all at once.                       *)
(***************************************************************************)
EXTENDS AwsRecommendations, GcpRecommendations

CONSTANTS
    Advised  \* the Azure subscriptions the request is about

VARIABLES
    recStage,     \* the provider that is asked for recommendations; "none" without such a call
    azureBilling, \* AZURE.USE_BILLING_DATA: without it Azure is not asked
    advisor,      \* where AzureAccount is with its subscriptions
    advice        \* advice[s]: whether the advisor of s has answered

recCallVars == <<recStage, azureBilling>>
advisorVars == <<advisor, advice>>
recVars == <<awsRecVars, gcpRecVars, recCallVars, advisorVars>>

RecTypeOK ==
    /\ AwsRecTypeOK /\ GcpRecTypeOK
    /\ recStage \in {"none", "AWS", "GCP", "AZURE", "answered", "rejected"}
    /\ azureBilling \in BOOLEAN
    /\ advisor \in {"idle", "account", "subscriptions", "asking", "failed"}
    /\ advice \in [Advised -> {"waiting", "given", "lost"}]

RecInit ==
    /\ AwsRecInit /\ GcpRecInit
    /\ azureBilling \in BOOLEAN
    /\ advisor = "idle"
    /\ advice = [s \in Advised |-> "waiting"]

RecBegin ==
    /\ \/ recStage = "AWS" /\ AwsRecBegin /\ UNCHANGED <<gcpRecVars, advisorVars>>
       \/ recStage = "GCP" /\ GcpRecBegin /\ UNCHANGED <<awsRecVars, advisorVars>>
       \/ /\ recStage = "AZURE" /\ azureBilling
          /\ advisor = "idle" /\ advisor' = "account"
          /\ UNCHANGED <<awsRecVars, gcpRecVars, advice>>
    /\ UNCHANGED recCallVars

\* initializeAccount and getSubscriptions, both of which may reject the request.
AccountStep ==
    /\ \/ advisor = "account" /\ advisor' \in {"subscriptions", "failed"}
       \/ advisor = "subscriptions" /\ advisor' \in {"asking", "failed"}
    /\ UNCHANGED <<awsRecVars, gcpRecVars, recCallVars, advice>>

\* A subscription whose advisor cannot be read has no recommendations.
AdvisorAnswers(s) ==
    /\ advisor = "asking" /\ advice[s] = "waiting"
    /\ \E answer \in {"given", "lost"} : advice' = [advice EXCEPT ![s] = answer]
    /\ UNCHANGED <<awsRecVars, gcpRecVars, recCallVars, advisor>>

AllAdvised == advisor = "asking" /\ \A s \in Advised : advice[s] # "waiting"

\* The next provider is asked, or the call is over.
RecStageEnds ==
    /\ \/ recStage = "AWS" /\ awsRecPc = "done" /\ recStage' = "GCP"
       \/ recStage = "GCP" /\ gcpRecPc = "done" /\ recStage' = "AZURE"
       \/ recStage = "AZURE" /\ (~azureBilling \/ AllAdvised) /\ recStage' = "answered"
       \/ recStage \in {"AWS", "GCP", "AZURE"} /\ "failed" \in {awsRecPc, gcpRecPc, advisor}
          /\ recStage' = "rejected"
    /\ UNCHANGED <<awsRecVars, gcpRecVars, advisorVars, azureBilling>>

RecCall == RecBegin \/ AccountStep \/ (\E s \in Advised : AdvisorAnswers(s)) \/ RecStageEnds
AwsRecs == AwsRecStep /\ UNCHANGED <<gcpRecVars, recCallVars, advisorVars>>
GcpRec == GcpRecStep /\ UNCHANGED <<awsRecVars, recCallVars, advisorVars>>

RecNext == RecCall \/ AwsRecs \/ GcpRec
RecFairness == AwsRecFairness /\ GcpRecFairness /\ WF_recVars(RecCall)

\* Each provider has said all it says, of every project that was found.
RecommendedInFull ==
    /\ BestOfBoth
    /\ \A p \in Projects : projectPc[p] = "skipped" \/ Of(p) \subseteq DOMAIN gcpSavings
    /\ azureBilling => \A s \in Advised : advice[s] # "waiting"
=============================================================================
