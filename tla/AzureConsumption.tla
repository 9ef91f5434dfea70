---------------------------- MODULE AzureConsumption ----------------------------
(***************************************************************************)
(* Azure usage: the subscriptions of an account are asked for their        *)
(* consumption a chunk of subscriptions at a time, those of a chunk at     *)
(* once; each is asked slice by slice of the request's time range, and a   *)
(* slice is asked for again when the tenant's rate limit was exceeded      *)
(* (AzureAccount.ts and ConsumptionManagement.ts of packages/azure).       *)
(*                                                                         *)
(* Moments are numbered three to a day: its first millisecond, some        *)
(* moment in it, and its last millisecond.                                 *)
(***************************************************************************)
EXTENDS Integers, FiniteSets

CONSTANTS
    Subscriptions,        \* the number of subscriptions
    ById,                 \* whether the request or the configuration names them
    SubscriptionChunk,    \* SUBSCRIPTION_CHUNKS, 0 for all at once
    Start, End,           \* the moments between which usage is asked for
    ConsumptionDays,      \* CONSUMPTION_CHUNKS_DAYS, 0 for a single slice
    MaxRetries,           \* maxRetries
    RateLimit,            \* the queries a tenant has before the limit is exceeded
    UsageDetails          \* usage details: [sub, start, end]

ASSUME AzureConsumptionAssumption ==
    /\ Subscriptions \in Nat /\ SubscriptionChunk \in Nat /\ ConsumptionDays \in Nat
    /\ ById \in BOOLEAN
    /\ Start \in Nat /\ End \in Nat /\ MaxRetries \in Nat /\ RateLimit \in Nat
    /\ UsageDetails \subseteq [sub: 1 .. Subscriptions, start: Nat, end: Nat]

\* Ranges go from the begin of a day to the end of one (Cache.ts), and usage is billed by the day.
ASSUME UsageByDay ==
    /\ Start % 3 = 0 /\ End % 3 = 2
    /\ \A u \in UsageDetails : u.start % 3 = 0 /\ u.end \in u.start .. (u.start + 1)

Subs == 1 .. Subscriptions
Step == 3 * ConsumptionDays

VARIABLES
    azurePc,     \* where getDataFromConsumptionManagement is
    found,       \* the subscriptions that were found
    subPc,       \* subPc[s]: where the subscription's request is
    sliceStart,  \* sliceStart[s]: currentStartDate
    tries,       \* tries[s]: currentTry
    paged,       \* paged[s]: the usage read by this try
    usage,       \* usage[s]: how often each usage detail was taken
    remaining    \* the queries the tenant has left

azureVars == <<azurePc, found, subPc, sliceStart, tries, paged, usage, remaining>>
slices == <<sliceStart, tries, paged, usage>>

None == [u \in UsageDetails |-> 0]

AzureTypeOK ==
    /\ azurePc \in {"idle", "account", "subscriptions", "usage", "done", "failed"}
    /\ found \subseteq Subs
    /\ subPc \in [Subs -> {"off", "try", "page", "wait", "done", "lost"}]
    /\ tries \in [Subs -> 0 .. MaxRetries + 1]
    /\ remaining \in 0 .. RateLimit
    /\ sliceStart \in [Subs -> Nat]
    /\ paged \in [Subs -> SUBSET UsageDetails]
    /\ usage \in [Subs -> [UsageDetails -> Nat]]

AzureInit ==
    /\ azurePc = "idle" /\ found = {} /\ remaining = RateLimit
    /\ subPc = [s \in Subs |-> "off"]
    /\ sliceStart = [s \in Subs |-> Start]
    /\ tries = [s \in Subs |-> 0]
    /\ paged = [s \in Subs |-> {}]
    /\ usage = [s \in Subs |-> None]

AzureBegin ==
    /\ azurePc = "idle" /\ azurePc' = "account"
    /\ UNCHANGED <<found, subPc, slices, remaining>>

\* initializeAccount and getSubscriptions: credentials and the list may fail the request.
InitializeAccount ==
    /\ azurePc = "account" /\ azurePc' = "subscriptions"
    /\ UNCHANGED <<found, subPc, slices, remaining>>

AzureFails ==
    /\ azurePc = "account" \/ (azurePc = "subscriptions" /\ ~ById)
    /\ azurePc' = "failed"
    /\ UNCHANGED <<found, subPc, slices, remaining>>

\* The subscriptions that are asked together with the one at position "at" of those found.
Position(s) == Cardinality({t \in found : t <= s})
InChunk(s, at) ==
    SubscriptionChunk = 0 \/ (Position(s) - 1) \div SubscriptionChunk = (at - 1) \div SubscriptionChunk

\* A subscription named by its id is left out when it cannot be fetched; a list is complete.
GetSubscriptions ==
    /\ azurePc = "subscriptions"
    /\ IF ById THEN found' \in SUBSET Subs ELSE found' = Subs
    /\ azurePc' = IF found' = {} THEN "done" ELSE "usage"
    /\ UNCHANGED <<subPc, slices, remaining>>

\* The next chunk begins when all requests of the last one have an answer.
NextChunk ==
    /\ azurePc = "usage"
    /\ \A s \in found : subPc[s] \in {"off", "done", "lost"}
    /\ LET waiting == {s \in found : subPc[s] = "off"}
           first == CHOOSE s \in waiting : \A t \in waiting : s <= t
       IN IF waiting = {} THEN azurePc' = "done" /\ UNCHANGED subPc
          ELSE /\ subPc' = [s \in Subs |-> IF s \in waiting /\ InChunk(s, Position(first))
                                           THEN "try" ELSE subPc[s]]
               /\ UNCHANGED azurePc
    /\ UNCHANGED <<found, slices, remaining>>

-----------------------------------------------------------------------------
\* Mutant: usage belongs to a slice by its start, up to the start of the next slice.
SliceByStart(s) ==
    LET next == sliceStart[s] + Step
    IN {u \in UsageDetails : u.sub = s /\ u.start >= sliceStart[s] /\ u.start <= next /\ u.end <= End}

\* The usage a query for the slice returns: it must have begun and ended in it.
\* A millisecond is taken off every end but the last, which alone is included.
Slice(s) ==
    LET next == sliceStart[s] + Step
    IN {u \in UsageDetails :
           /\ u.sub = s /\ u.start >= sliceStart[s]
           /\ IF ConsumptionDays # 0 /\ next < End THEN u.end < next - 1 ELSE u.end <= End}

\* Mutant: there is always another try.
AlwaysAnotherTry(s) == TRUE

AnotherTry(s) == tries[s] <= MaxRetries

\* What was found so far is lost with the request of the subscription: its answer is [].
Lose(s) ==
    /\ subPc' = [subPc EXCEPT ![s] = "lost"]
    /\ usage' = [usage EXCEPT ![s] = None]
    /\ paged' = [paged EXCEPT ![s] = {}]
    /\ UNCHANGED <<sliceStart, tries>>

\* A try: the query is admitted, or refused because nothing remains.
QueryUsage(s) ==
    /\ subPc[s] = "try"
    /\ IF AnotherTry(s)
       THEN /\ tries' = [tries EXCEPT ![s] = IF @ > MaxRetries THEN @ ELSE @ + 1]
            /\ subPc' = [subPc EXCEPT ![s] = IF remaining = 0 THEN "wait" ELSE "page"]
            /\ remaining' = IF remaining = 0 THEN 0 ELSE remaining - 1
            /\ paged' = [paged EXCEPT ![s] = {}]
            /\ UNCHANGED <<sliceStart, usage>>
       ELSE Lose(s) /\ UNCHANGED remaining
    /\ UNCHANGED <<azurePc, found>>

\* The wait the service asked for is over.
RetryAfter(s) ==
    /\ subPc[s] = "wait"
    /\ subPc' = [subPc EXCEPT ![s] = "try"]
    /\ UNCHANGED <<azurePc, found, slices, remaining>>

\* The next row of the try; its page is refused where nothing remains.
NextUsageRow(s) ==
    /\ subPc[s] = "page"
    /\ \E u \in Slice(s) \ paged[s] : paged' = [paged EXCEPT ![s] = @ \cup {u}]
    /\ UNCHANGED <<azurePc, found, subPc, sliceStart, tries, usage, remaining>>

PageRefused(s) ==
    /\ subPc[s] = "page" /\ remaining = 0
    /\ subPc' = [subPc EXCEPT ![s] = "wait"]
    /\ UNCHANGED <<azurePc, found, slices, remaining>>

Take(s) == [u \in UsageDetails |-> usage[s][u] + IF u \in paged[s] THEN 1 ELSE 0]

\* The rows end: the slice is complete, the next one begins a step later, up to the end.
SliceDone(s) ==
    /\ subPc[s] = "page"
    /\ paged[s] = Slice(s)
    /\ usage' = [usage EXCEPT ![s] = Take(s)]
    /\ sliceStart' = [sliceStart EXCEPT ![s] = @ + Step]
    /\ subPc' = [subPc EXCEPT ![s] =
                    IF ConsumptionDays # 0 /\ sliceStart[s] + Step <= End THEN "try" ELSE "done"]
    /\ tries' = [tries EXCEPT ![s] = 0]
    /\ paged' = [paged EXCEPT ![s] = {}]
    /\ UNCHANGED <<azurePc, found, remaining>>

\* Any other error ends the subscription's request, and is swallowed there.
SubscriptionFails(s) ==
    /\ subPc[s] = "page"
    /\ Lose(s)
    /\ UNCHANGED <<azurePc, found, remaining>>

\* The tenant's limit is renewed, by the clock of the service.
RenewLimit ==
    /\ azurePc = "usage"
    /\ remaining' = RateLimit
    /\ UNCHANGED <<azurePc, found, subPc, slices>>

AzureProgress ==
    \/ InitializeAccount \/ GetSubscriptions \/ NextChunk
    \/ \E s \in Subs : QueryUsage(s) \/ RetryAfter(s) \/ NextUsageRow(s) \/ SliceDone(s)

AzureStep ==
    \/ AzureProgress \/ AzureFails \/ RenewLimit
    \/ \E s \in Subs : PageRefused(s) \/ SubscriptionFails(s)

\* Calls are answered and waits end. Nothing promises that the limit is ever renewed.
AzureFairness ==
    /\ WF_azureVars(InitializeAccount \/ GetSubscriptions \/ NextChunk)
    /\ \A s \in Subs :
          WF_azureVars(QueryUsage(s) \/ RetryAfter(s) \/ NextUsageRow(s) \/ SliceDone(s))
=============================================================================
