--------------------------- MODULE AwsRecommendations ---------------------------
(***************************************************************************)
(* AWS's recommendations for one account (lib/Recommendations of           *)
(* packages/aws): those of the Compute Optimizer, exported to a bucket,    *)
(* and those of the rightsizing API, read page by page. Where both speak   *)
(* of a resource, one of them is kept.                                     *)
(***************************************************************************)
EXTENDS Integers, Sequences, FiniteSets, SequencesExt

CONSTANTS
    Resources,         \* what recommendations are about
    BucketObjects,     \* the exports in the bucket, in the order of the listing
    RightsizingPages   \* the pages of rightsizing recommendations

Finding == [resource: Resources, finding: BOOLEAN, saves: BOOLEAN, now: Int, target: Int, cost: Int]
Rightsizing == [resource: Resources, now: Int, cost: Int, targets: Seq([co2e: Int, cost: Int])]

\* The first response is a page, if only of no recommendation.
ASSUME AwsRecommendationsAssumption ==
    /\ BucketObjects \in Seq([fresh: BOOLEAN, service: STRING, recs: Seq(Finding)])
    /\ RightsizingPages \in Seq(Seq(Rightsizing)) /\ RightsizingPages # << >>

\* A recommendation of the answer.
Saving == [resource: Resources, co2e: Int, cost: Int]

Services == {"Rightsizing", "ComputeOptimizer", "All"}

VARIABLES
    awsRecPc,       \* where getRecommendations is
    recService,     \* RECOMMENDATIONS_SERVICE
    objectsRead,    \* the exports that were gone through
    rightsizing,    \* the pages read
    awsRecs         \* the recommendations collected, in the end the answer

awsRecVars == <<awsRecPc, recService, objectsRead, rightsizing, awsRecs>>

AwsRecTypeOK ==
    /\ awsRecPc \in {"idle", "list", "objects", "pages", "done", "failed"}
    /\ recService \in Services
    /\ objectsRead \in 0 .. Len(BucketObjects)
    /\ rightsizing \in 0 .. Len(RightsizingPages)
    /\ awsRecs \in Seq(Saving)

AwsRecInit ==
    /\ awsRecPc = "idle" /\ recService \in Services
    /\ objectsRead = 0 /\ rightsizing = 0 /\ awsRecs = << >>

AwsRecBegin ==
    /\ awsRecPc = "idle"
    /\ awsRecPc' = IF recService = "Rightsizing" THEN "pages" ELSE "list"
    /\ UNCHANGED <<recService, objectsRead, rightsizing, awsRecs>>

\* Any failure of either service rejects the request.
AwsRecFails ==
    /\ awsRecPc \in {"list", "objects", "pages"}
    /\ awsRecPc' = "failed"
    /\ UNCHANGED <<recService, objectsRead, rightsizing, awsRecs>>

ListBucketObjects ==
    /\ awsRecPc = "list" /\ awsRecPc' = "objects"
    /\ UNCHANGED <<recService, objectsRead, rightsizing, awsRecs>>

\* A recommendation to change something saves what it costs now less what it will cost.
Savings(resource, now, target, cost) == [resource |-> resource, co2e |-> now - target, cost |-> cost]

\* Of an export, the findings to change something that save money.
FromOptimizer(recs) ==
    FlattenSeq([i \in DOMAIN recs |->
        IF recs[i].finding /\ recs[i].saves
        THEN <<Savings(recs[i].resource, recs[i].now, recs[i].target, recs[i].cost)>> ELSE << >>])

\* Exports of other days and of auto scaling groups are passed over.
FromObject(object) ==
    IF object.fresh /\ object.service # "asg" THEN FromOptimizer(object.recs) ELSE << >>

ReadObject ==
    /\ awsRecPc = "objects" /\ objectsRead < Len(BucketObjects)
    /\ objectsRead' = objectsRead + 1
    /\ awsRecs' = awsRecs \o FromObject(BucketObjects[objectsRead'])
    /\ UNCHANGED <<awsRecPc, recService, rightsizing>>

-----------------------------------------------------------------------------
(***************************************************************************)
(* The instance to change to: of those that save most, the last - but the  *)
(* last of the list, which is taken off before, stays only when no other   *)
(* is left.                                                                *)
(***************************************************************************)
TargetInstance(targets) ==
    LET others == 1 .. Len(targets) - 1
        best == {i \in others : targets[i].cost >= 0 /\ \A j \in others : targets[j].cost <= targets[i].cost}
    IN IF best = {} THEN targets[Len(targets)]
       ELSE targets[CHOOSE i \in best : \A j \in best : j <= i]

FromRightsizing(recs) ==
    [i \in DOMAIN recs |->
        IF recs[i].targets = << >> THEN Savings(recs[i].resource, recs[i].now, 0, recs[i].cost)
        ELSE LET t == TargetInstance(recs[i].targets)
             IN Savings(recs[i].resource, recs[i].now, t.co2e, t.cost)]

\* Mutant: what saves more money is kept.
HighestByCost(recs) == IF recs[2].cost > recs[1].cost THEN recs[2] ELSE recs[1]

\* Of the first two for a resource: what saves more carbon, and at a tie what saves more money.
HighestSavings(recs) ==
    IF \/ recs[2].co2e > recs[1].co2e
       \/ recs[2].co2e = recs[1].co2e /\ recs[2].cost > recs[1].cost
    THEN recs[2] ELSE recs[1]

\* The positions of the recommendations for a resource.
ForResource(recs, resource) == {i \in DOMAIN recs : recs[i].resource = resource}

First(positions) == CHOOSE i \in positions : \A j \in positions : i <= j

\* The one that is kept of those at some positions.
KeptOf(recs, same) ==
    LET one == First(same)
    IN IF same = {one} THEN recs[one]
       ELSE HighestSavings(<<recs[one], recs[First(same \ {one})]>>)

UniquesWithHighestSavings(recs) ==
    LET resources == SetToSeq({recs[i].resource : i \in DOMAIN recs})
    IN [i \in DOMAIN resources |-> KeptOf(recs, ForResource(recs, resources[i]))]

\* What is collected becomes the answer.
AwsRecAnswer(recs) ==
    /\ awsRecPc' = "done"
    /\ awsRecs' = IF recService = "All" THEN UniquesWithHighestSavings(recs) ELSE recs

ObjectsDone ==
    /\ awsRecPc = "objects" /\ objectsRead = Len(BucketObjects)
    /\ IF recService = "ComputeOptimizer" THEN AwsRecAnswer(awsRecs)
       ELSE awsRecPc' = "pages" /\ UNCHANGED awsRecs
    /\ UNCHANGED <<recService, objectsRead, rightsizing>>

\* A page of rightsizing recommendations; the last one carries no token.
ReadPage ==
    /\ awsRecPc = "pages"
    /\ rightsizing' = rightsizing + 1
    /\ LET recs == awsRecs \o FromRightsizing(RightsizingPages[rightsizing'])
       IN IF rightsizing' = Len(RightsizingPages) THEN AwsRecAnswer(recs)
          ELSE awsRecs' = recs /\ UNCHANGED awsRecPc
    /\ UNCHANGED <<recService, objectsRead>>

AwsRecAnswers == ListBucketObjects \/ ReadObject \/ ObjectsDone \/ ReadPage
AwsRecStep == AwsRecAnswers \/ AwsRecFails
AwsRecFairness == WF_awsRecVars(AwsRecAnswers)

-----------------------------------------------------------------------------
\* What both services recommend for a resource, saving money or carbon.
Collected ==
    LET optimizer == FlattenSeq([i \in DOMAIN BucketObjects |-> FromObject(BucketObjects[i])])
        pages == FlattenSeq([i \in DOMAIN RightsizingPages |-> FromRightsizing(RightsizingPages[i])])
    IN CASE recService = "Rightsizing"      -> pages
         [] recService = "ComputeOptimizer" -> optimizer
         [] recService = "All"              -> optimizer \o pages

(***************************************************************************)
(* Every resource that any service speaks of is in the answer, once when   *)
(* both are asked, and with the most carbon that either of them saves, as  *)
(* Recommendations.md promises - as long as each of them speaks of it once.*)
(***************************************************************************)
BestOfBoth ==
    awsRecPc = "done" =>
        /\ {awsRecs[i].resource : i \in DOMAIN awsRecs} = {Collected[i].resource : i \in DOMAIN Collected}
        /\ recService = "All" =>
              \A i \in DOMAIN awsRecs :
                 LET same == ForResource(Collected, awsRecs[i].resource)
                 IN /\ ForResource(awsRecs, awsRecs[i].resource) = {i}
                    /\ Cardinality(same) <= 2 => \A j \in same : Collected[j].co2e <= awsRecs[i].co2e
=============================================================================
