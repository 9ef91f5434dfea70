---------------------------- MODULE EstimateStore ----------------------------
(***************************************************************************)
(* What an estimate cache promises, whatever keeps it: every tenant has a  *)
(* set of recorded facts, "on this date this source was estimated from     *)
(* this version of its usage".  A fact is recorded only once the usage     *)
(* exists, it is never changed or forgotten, and a request is answered     *)
(* once, with facts of its own tenant.                                     *)
(***************************************************************************)
EXTENDS Integers

CONSTANTS
    Requests,   \* the footprint requests of a behaviour
    Tenants,    \* the tenants estimates are kept for
    MaxDate,    \* dates are the periods 1..MaxDate of the grouping
    Sources,    \* who is billed: a provider's account or subscription
    MaxVersion, \* how often the usage of a date may be revised
    InitialUsage, \* the usage the behaviours start from
    LateDates,  \* the dates whose usage is still being billed
    NoReply     \* a request that has not been answered

VARIABLES
    usage,  \* usage[t][d][s]: version of the billed usage, 0 when there is none
    store,  \* store[t]: the facts recorded for tenant t
    reply   \* reply[r]: the tenant and the facts r was answered for and with, or NoReply

storeVars == <<usage, store, reply>>

Dates == 1..MaxDate
Versions == 0..MaxVersion

Fact == [date: Dates, src: Sources, ver: Versions]

\* The facts the usage of tenant t, up to now, supports.
Billed(t) == {f \in Fact : f.ver > 0 /\ f.ver <= usage[t][f.date][f.src]}

Init ==
    /\ usage \in InitialUsage
    /\ store = [t \in Tenants |-> {}]
    /\ reply = [r \in Requests |-> NoReply]

\* The provider bills more usage for a date that is not closed yet.
Publish(t, d, s) ==
    /\ d \in LateDates
    /\ usage[t][d][s] < MaxVersion
    /\ usage' = [usage EXCEPT ![t][d][s] = @ + 1]
    /\ UNCHANGED <<store, reply>>

Record(t, f) ==
    /\ f \in Billed(t)
    /\ store' = [store EXCEPT ![t] = @ \cup {f}]
    /\ UNCHANGED <<usage, reply>>

Answer(r, t, facts) ==
    /\ reply[r] = NoReply
    /\ reply' = [reply EXCEPT ![r] = [tenant |-> t, facts |-> facts]]
    /\ UNCHANGED <<usage, store>>

\* Answered from what is recorded for the tenant.
ReplyFromStore(r, t) == \E facts \in SUBSET store[t] : Answer(r, t, facts)

\* Answered, on request, from estimates that are not recorded.
ReplyFresh(r, t) == \E facts \in SUBSET Billed(t) : Answer(r, t, facts)

Next ==
    \/ \E t \in Tenants, d \in Dates, s \in Sources : Publish(t, d, s)
    \/ \E t \in Tenants, f \in Fact : Record(t, f)
    \/ \E r \in Requests, t \in Tenants : ReplyFromStore(r, t) \/ ReplyFresh(r, t)

Spec == Init /\ [][Next]_storeVars
=============================================================================
