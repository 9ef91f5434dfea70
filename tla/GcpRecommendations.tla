--------------------------- MODULE GcpRecommendations ---------------------------
(***************************************************************************)
(* Google Cloud's recommendations (Recommendations.ts and ServiceWrapper.ts*)
(* of packages/gcp). The zones of all projects are looked up first; then   *)
(* every project goes its own way at once: its zones list what each        *)
(* recommender says, everything listed is estimated at once, and last come *)
(* the addresses, one by one. The energy of an address is unknown: it is   *)
(* its cost times the average of the recommendations estimated so far, of  *)
(* whatever project - the totals are one object for all of them.           *)
(***************************************************************************)
EXTENDS Integers, FiniteSets, Functions

CONSTANTS
    Projects,      \* the active projects
    ComputeZones,  \* the zones of a project that has any; "global" counts as one
    Recommenders,  \* how many recommenders are asked in each zone
    GcpRecs        \* what they recommend; a move to a larger machine type saves a negative energy

ASSUME GcpRecommendationsAssumption ==
    /\ Recommenders \in Nat
    /\ GcpRecs \subseteq [project: Projects, zone: ComputeZones, recommender: 1 .. Recommenders,
                          address: BOOLEAN, cost: Nat, kwh: Int]

VARIABLES
    gcpRecPc,    \* where getRecommendations is
    projectPc,   \* projectPc[p]: where getFilteredRecommendations of p is
    listed,      \* listed[p][z]: the recommenders that were asked
    recommended, \* the recommendations listed
    gcpSavings,  \* gcpSavings[rec]: the energy it saves, a fraction
    recTotals    \* costAndCo2eTotals

gcpRecVars == <<gcpRecPc, projectPc, listed, recommended, gcpSavings, recTotals>>

GcpRecTypeOK ==
    /\ gcpRecPc \in {"idle", "zones", "projects", "done", "failed"}
    /\ projectPc \in [Projects -> {"zones", "found", "skipped", "listing", "estimating", "addresses", "done"}]
    /\ listed \in [Projects -> [ComputeZones -> 0 .. Recommenders]]
    /\ recommended \subseteq GcpRecs
    /\ DOMAIN gcpSavings \subseteq recommended
    /\ \A rec \in DOMAIN gcpSavings : gcpSavings[rec] \in Int \X (Nat \ {0})
    /\ recTotals \in [cost: Nat, kwh: Int]

GcpRecInit ==
    /\ gcpRecPc = "idle"
    /\ projectPc = [p \in Projects |-> "zones"]
    /\ listed = [p \in Projects |-> [z \in ComputeZones |-> 0]]
    /\ recommended = {}
    /\ gcpSavings = [rec \in {} |-> <<0, 1>>]
    /\ recTotals = [cost |-> 0, kwh |-> 0]

GcpRecBegin ==
    /\ gcpRecPc = "idle" /\ gcpRecPc' = "zones"
    /\ UNCHANGED <<projectPc, listed, recommended, gcpSavings, recTotals>>

\* The search for projects may fail, a factor for an address, or a recommendation be malformed.
GcpRecFails ==
    /\ gcpRecPc \in {"zones", "projects"}
    /\ gcpRecPc' = "failed"
    /\ UNCHANGED <<projectPc, listed, recommended, gcpSavings, recTotals>>

\* A project whose zones cannot be looked up is left out.
ZonesForProject(p) ==
    /\ gcpRecPc = "zones" /\ projectPc[p] = "zones"
    /\ projectPc' = [projectPc EXCEPT ![p] = "found"] \/ projectPc' = [projectPc EXCEPT ![p] = "skipped"]
    /\ UNCHANGED <<gcpRecPc, listed, recommended, gcpSavings, recTotals>>

ZonesKnown ==
    /\ gcpRecPc = "zones" /\ \A p \in Projects : projectPc[p] # "zones"
    /\ gcpRecPc' = "projects"
    /\ projectPc' = [p \in Projects |-> IF projectPc[p] = "found" THEN "listing" ELSE "skipped"]
    /\ UNCHANGED <<listed, recommended, gcpSavings, recTotals>>

InProject(p, pc) == gcpRecPc = "projects" /\ projectPc[p] = pc

ListedBy(p, z, n) ==
    {rec \in GcpRecs : rec.project = p /\ rec.zone = z /\ rec.recommender = n}

(***************************************************************************)
(* A recommender of a zone answers, or fails and is passed over. When the  *)
(* quota is exceeded it is asked again after a while: a stuttering step.   *)
(***************************************************************************)
ListRecommendations(p, z) ==
    /\ InProject(p, "listing") /\ listed[p][z] < Recommenders
    /\ listed' = [listed EXCEPT ![p][z] = @ + 1]
    /\ recommended' = recommended \cup ListedBy(p, z, listed'[p][z]) \/ UNCHANGED recommended
    /\ UNCHANGED <<gcpRecPc, projectPc, gcpSavings, recTotals>>

Of(p) == {rec \in recommended : rec.project = p}
KnownOf(p) == {rec \in Of(p) : ~rec.address}
Open(recs) == recs \ DOMAIN gcpSavings

\* Every zone of the project has answered.
AllZonesListed(p) ==
    /\ InProject(p, "listing")
    /\ \A z \in ComputeZones : listed[p][z] = Recommenders
    /\ projectPc' = [projectPc EXCEPT ![p] = IF Of(p) = {} THEN "done" ELSE "estimating"]
    /\ UNCHANGED <<gcpRecPc, listed, recommended, gcpSavings, recTotals>>

Saved(rec, kwh) == [r \in DOMAIN gcpSavings \cup {rec} |-> IF r = rec THEN kwh ELSE gcpSavings[r]]

\* A look-up that fails leaves the estimate at nothing; its cost counts towards the average all the same.
EstimateRecommendation(rec, kwh) ==
    /\ InProject(rec.project, "estimating") /\ rec \in Open(KnownOf(rec.project))
    /\ gcpSavings' = Saved(rec, <<kwh, 1>>)
    /\ recTotals' = [cost |-> recTotals.cost + rec.cost, kwh |-> recTotals.kwh + kwh]
    /\ UNCHANGED <<gcpRecPc, projectPc, listed, recommended>>

\* Mutant: the addresses do not wait for the project's own recommendations.
AnyEstimated(p) == TRUE

AllEstimated(p) == Open(KnownOf(p)) = {}

AddressesBegin(p) ==
    /\ InProject(p, "estimating") /\ AllEstimated(p)
    /\ projectPc' = [projectPc EXCEPT ![p] = "addresses"]
    /\ UNCHANGED <<gcpRecPc, listed, recommended, gcpSavings, recTotals>>

EstimateAddress(rec) ==
    /\ InProject(rec.project, "addresses") /\ rec \in Open(Of(rec.project))
    /\ gcpSavings' = Saved(rec, IF recTotals.cost = 0 THEN <<0, 1>>
                                ELSE <<rec.cost * recTotals.kwh, recTotals.cost>>)
    /\ UNCHANGED <<gcpRecPc, projectPc, listed, recommended, recTotals>>

ProjectDone(p) ==
    /\ InProject(p, "addresses") /\ Open(Of(p)) = {}
    /\ projectPc' = [projectPc EXCEPT ![p] = "done"]
    /\ UNCHANGED <<gcpRecPc, listed, recommended, gcpSavings, recTotals>>

AllProjectsDone ==
    /\ gcpRecPc = "projects" /\ \A p \in Projects : projectPc[p] \in {"done", "skipped"}
    /\ gcpRecPc' = "done"
    /\ UNCHANGED <<projectPc, listed, recommended, gcpSavings, recTotals>>

GcpRecAnswers ==
    \/ ZonesKnown \/ AllProjectsDone
    \/ \E p \in Projects : ZonesForProject(p) \/ AllZonesListed(p) \/ AddressesBegin(p) \/ ProjectDone(p)
    \/ \E p \in Projects, z \in ComputeZones : ListRecommendations(p, z)
    \/ \E rec \in recommended : \/ EstimateRecommendation(rec, rec.kwh) \/ EstimateRecommendation(rec, 0)
                                \/ EstimateAddress(rec)

GcpRecStep == GcpRecAnswers \/ GcpRecFails

\* Calls are answered; a quota is renewed before a recommender is refused for ever.
GcpRecFairness == WF_gcpRecVars(GcpRecAnswers)

(***************************************************************************)
(* However the projects overtake one another, an address is estimated with *)
(* the average over recommendations that include all known ones of its own *)
(* project, each counted once - or as nothing when none of them costs.     *)
(***************************************************************************)
SavingsByKnown ==
    \A rec \in DOMAIN gcpSavings : rec.address =>
        \E known \in SUBSET {r \in DOMAIN gcpSavings : ~r.address} :
            LET cost == SumFunction([r \in known |-> r.cost])
                kwh == SumFunction([r \in known |-> gcpSavings[r][1]])
            IN /\ KnownOf(rec.project) \subseteq known
               /\ IF cost = 0 THEN gcpSavings[rec][1] = 0
                  ELSE gcpSavings[rec] = <<rec.cost * kwh, cost>>
=============================================================================
