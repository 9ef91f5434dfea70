----------------------------- MODULE MCMongoCache -----------------------------
(***************************************************************************)
(* Instances of MongoCache for TLC.                                        *)
(***************************************************************************)
EXTENDS MongoCache, TLC

CONSTANTS r1, r2, r3, t1, t2, aws, az1, az2, ali

OneTenant == {t1}
TwoTenants == {t1, t2}

AzureOnly == [s \in Sources |-> "AZURE"]
AwsAndAzure == [s \in Sources |-> IF s = aws THEN "AWS" ELSE "AZURE"]

AllProviders == {"AWS", "GCP", "AZURE", "ALI"}
SeedableProviders == {"AWS", "GCP", "AZURE"}

\* Every pattern of dates and sources with and without usage.
AnyUsage == [Tenants -> [Dates -> [Sources -> {0, 1}]]]

PageLimit == 50000

Plain(t, a, b) ==
    [tenant |-> t, from |-> a, to |-> b, accounts |-> Sources, seed |-> NoSeed,
     asStored |-> TRUE, ignoreCache |-> FALSE, skip |-> 0, limit |-> PageLimit]

Windows == {w \in Dates \X Dates : w[1] <= w[2]}

PlainRequests == {Plain(t, w[1], w[2]) : t \in Tenants, w \in Windows}

SeedRequests ==
    {[q EXCEPT !.seed = p, !.limit = 1] : q \in PlainRequests, p \in SeedableProviders}

\* The provider is typed the way the prompt shows it.
AsPrompted == [Plain(t1, 1, MaxDate) EXCEPT !.seed = "AWS", !.limit = 1, !.asStored = FALSE]

\* Every plain request, and the whole calendar seeded for one provider.
PlainOrSeed == {AsPrompted} \cup PlainRequests \cup
                   {q \in SeedRequests : q.from = 1 /\ q.to = MaxDate /\ q.seed = "AWS"}

\* One request of every shape over all dates, and a plain one over the second.
Whole(t) == Plain(t, 1, MaxDate)
MixedRequests ==
    UNION {{Whole(t), Plain(t, 2, 2),
            [Whole(t) EXCEPT !.ignoreCache = TRUE],
            [Whole(t) EXCEPT !.skip = 1, !.limit = 1],
            [Whole(t) EXCEPT !.accounts = {CHOOSE s \in Sources : TRUE}]} : t \in Tenants}

\* Usage of the second date is still to come, the other dates are closed.
SecondDateOpen ==
    {[t \in Tenants |-> [d \in Dates |-> [s \in Sources |-> IF d = 2 THEN 0 ELSE 1]]]}

\* Sound for the safety runs: nothing tells one request's identity from another's.
RequestSymmetry == Permutations(Requests)
=============================================================================
