------------------------------ MODULE MongoCache ------------------------------
(***************************************************************************)
(* The estimate cache in its MONGODB mode: the cache() decorator of        *)
(* Cache.ts around App.getCostAndEstimates, with MongoDbCacheManager.ts    *)
(* behind it.  Requests run concurrently (the API server, and the CLI that *)
(* seeds the cache); an action is what one of them does between two        *)
(* awaits.  A document is one service estimate of one source on one date;  *)
(* every tenant has a collection of its own for the grouping.              *)
(***************************************************************************)
EXTENDS MissingDates, FiniteSets

CONSTANTS
    Requests,       \* the requests of a behaviour, each served once
    Tenants,        \* the tenants; a request without one has its own member
    MaxDate,        \* dates are the periods 1..MaxDate of the grouping
    Sources,        \* who is billed: a cloud provider's account
    Providers,      \* the cloud providers
    ProviderOf,     \* the provider of each source
    Seedable,       \* the providers includeCloudProviders switches on and off
    AccountScoped,  \* the sources the accounts parameter selects (Azure)
    MaxVersion,     \* how often the usage of a date may be revised
    InitialUsage,   \* the usage the behaviours start from
    LateDates,      \* the dates whose usage is still being billed
    Faults,         \* the failures the environment may show, see FaultKinds
    RequestSpace,   \* the requests that may be made
    MaxInFlight,    \* how many requests may be in progress together
    NoSeed,         \* a request that seeds no provider
    NoRequest,      \* the request of an identity that has not arrived
    NoReply         \* the reply of a request that has not been answered

Dates == 1..MaxDate
Versions == 0..MaxVersion

(* fetch: a provider call rejects; drop: an Azure subscription fails and    *)
(* is left out; check, insert, read: the database fails in that operation.  *)
FaultKinds == {"fetch", "drop", "check", "insert", "read"}

Request ==
    [tenant: Tenants, from: Dates, to: Dates, accounts: SUBSET Sources,
     seed: Providers \cup {NoSeed}, asStored: BOOLEAN, ignoreCache: BOOLEAN,
     skip: Nat, limit: Nat]

ASSUME MongoCacheAssumption ==
    /\ MaxDate \in Nat /\ MaxVersion \in Nat /\ MaxInFlight \in Nat
    /\ ProviderOf \in [Sources -> Providers]
    /\ AccountScoped \subseteq Sources
    /\ LateDates \subseteq Dates
    /\ InitialUsage \subseteq [Tenants -> [Dates -> [Sources -> Versions]]]
    /\ Faults \subseteq FaultKinds
    /\ RequestSpace \subseteq {q \in Request : q.from <= q.to}
    /\ NoSeed \notin Providers
    /\ NoRequest \notin Request

VARIABLES
    usage,    \* usage[t][d][s]: version of the billed usage, 0 for none
    docs,     \* docs[t]: the documents of the tenant's collection
    exists,   \* the tenants whose collection has been created
    pc,       \* pc[r]: what r is waiting for
    req,      \* req[r]: the parameters of r
    missing,  \* missing[r]: the dates getMissingDates returned to r
    pending,  \* pending[r]: the missing dates whose sub-request is still out
    fetched,  \* fetched[r]: the service estimates r's sub-requests returned
    unsent,   \* unsent[r]: the documents of r's insertMany still to be stored
    answer,   \* answer[r]: the service estimates r was answered with
    known     \* known[r]: the documents there were when r checked (history)

vars == <<usage, docs, exists, pc, req, missing, pending, fetched, unsent,
          answer, known>>

Phases == {"idle", "checking", "fetching", "inserting", "reading",
           "aggregating", "creating", "done", "failed"}

(* "by" is the request that stored the document: it stands for the          *)
(* document's _id, since a request stores a date and source once.           *)
Doc == [date: Dates, src: Sources, ver: Versions, by: Requests]

\* The state is typed; a request that has arrived has parameters.
TypeOK ==
    /\ usage \in [Tenants -> [Dates -> [Sources -> Versions]]]
    /\ docs \in [Tenants -> SUBSET Doc]
    /\ exists \subseteq Tenants
    /\ pc \in [Requests -> Phases]
    /\ req \in [Requests -> RequestSpace \cup {NoRequest}]
    /\ missing \in [Requests -> SUBSET Dates]
    /\ pending \in [Requests -> SUBSET Dates]
    /\ fetched \in [Requests -> SUBSET Doc]
    /\ unsent \in [Requests -> SUBSET Doc]
    /\ answer \in [Requests -> SUBSET Doc]
    /\ known \in [Requests -> SUBSET Doc]
    /\ \A r \in Requests : pc[r] # "idle" => req[r] \in RequestSpace

Init ==
    /\ usage \in InitialUsage
    /\ docs = [t \in Tenants |-> {}]
    /\ exists = {}
    /\ pc = [r \in Requests |-> "idle"]
    /\ req = [r \in Requests |-> NoRequest]
    /\ missing = [r \in Requests |-> {}]
    /\ pending = [r \in Requests |-> {}]
    /\ fetched = [r \in Requests |-> {}]
    /\ unsent = [r \in Requests |-> {}]
    /\ answer = [r \in Requests |-> {}]
    /\ known = [r \in Requests |-> {}]

-----------------------------------------------------------------------------
(* The environment.                                                         *)

\* A provider bills more usage for a date that is not closed yet.
Publish(t, d, s) ==
    /\ d \in LateDates
    /\ usage[t][d][s] < MaxVersion
    /\ usage' = [usage EXCEPT ![t][d][s] = @ + 1]
    /\ UNCHANGED <<docs, exists, pc, req, missing, pending, fetched, unsent,
                   answer, known>>

InFlight == {r \in Requests : pc[r] \notin {"idle", "done", "failed"}}

\* A validated request reaches the decorator.
Arrive(r, q) ==
    /\ pc[r] = "idle"
    /\ Cardinality(InFlight) < MaxInFlight
    /\ req' = [req EXCEPT ![r] = q]
    /\ pc' = [pc EXCEPT ![r] = "checking"]
    /\ UNCHANGED <<usage, docs, exists, missing, pending, fetched, unsent,
                   answer, known>>

-----------------------------------------------------------------------------
(* Looking for missing dates.                                               *)

\* Mutant: a seeding request takes any provider's document for cached.
AnyCountsAsCached(q, x) == TRUE

\* Mutant: a seeding request takes no document for cached.
NoneCountsForSeed(q, x) == q.seed = NoSeed

(* Whether a document makes its date a cached one for request q: a request  *)
(* that seeds a provider counts that provider's documents only, and only if *)
(* it spells the provider as the documents do.                              *)
CountsAsCached(q, x) ==
    q.seed = NoSeed \/ (q.asStored /\ q.seed = ProviderOf[x.src])

CachedDates(q, stored) == {x.date : x \in {y \in stored : CountsAsCached(q, y)}}

(* What the decorator does next with the missing dates.                     *)
Proceed(r, dates) ==
    /\ missing' = [missing EXCEPT ![r] = dates]
    /\ pending' = [pending EXCEPT ![r] = dates]
    /\ pc' = [pc EXCEPT ![r] = IF dates = {} THEN "reading" ELSE "fetching"]
    /\ UNCHANGED <<usage, docs, exists, req, fetched, unsent, answer>>

GetMissingDates(r) ==
    LET q == req[r]
    IN /\ pc[r] = "checking"
       /\ known' = [known EXCEPT ![r] = docs[q.tenant]]
       /\ \/ /\ q.ignoreCache
             /\ Proceed(r, DatesWithinRequestTimeFrame(q))
          \/ /\ ~q.ignoreCache
             /\ Proceed(r, DatesMissing(CachedDates(q, docs[q.tenant]), q))

\* The check fails: the error is logged and no date counts as missing.
CheckFails(r) ==
    /\ "check" \in Faults
    /\ pc[r] = "checking"
    /\ ~req[r].ignoreCache
    /\ Proceed(r, {})
    /\ UNCHANGED known

-----------------------------------------------------------------------------
(* Fetching the missing dates from the providers.                           *)

(* The sources App.getCostAndEstimates asks: seeding leaves out the other   *)
(* providers it can switch off, the accounts parameter the other Azure      *)
(* subscriptions.                                                           *)
FetchScope(q) ==
    {s \in Sources :
        /\ \/ q.seed = NoSeed
           \/ ProviderOf[s] = q.seed
           \/ ProviderOf[s] \notin Seedable
        /\ s \in AccountScoped => s \in q.accounts}

Estimates(r, dates, sources) ==
    {x \in Doc : /\ x.date \in dates /\ x.src \in sources /\ x.by = r
                 /\ x.ver = usage[req[r].tenant][x.date][x.src] /\ x.ver > 0}

(* Promise.all has every sub-request: an ignoring request is answered with  *)
(* them, otherwise what there is of them is stored.                         *)
AllFetched(r, got) ==
    LET persist == FillDates(missing[r], got)
    IN IF req[r].ignoreCache
       THEN /\ pc' = [pc EXCEPT ![r] = "done"]
            /\ answer' = [answer EXCEPT ![r] = got]
            /\ UNCHANGED unsent
       ELSE /\ pc' = [pc EXCEPT ![r] = IF got = {} THEN "reading" ELSE "inserting"]
            /\ unsent' = [unsent EXCEPT ![r] = IF got = {} THEN {}
                                               ELSE UNION {persist[d] : d \in DOMAIN persist}]
            /\ UNCHANGED answer

\* One sub-request answers; Azure subscriptions that failed are left out.
FetchGroup(r, run, lost) ==
    LET got == fetched[r] \cup Estimates(r, run, FetchScope(req[r]) \ lost)
    IN /\ pc[r] = "fetching"
       /\ run \in MissingDataRequests(pending[r])
       /\ lost \in SUBSET (IF "drop" \in Faults THEN AccountScoped ELSE {})
       /\ fetched' = [fetched EXCEPT ![r] = got]
       /\ pending' = [pending EXCEPT ![r] = @ \ run]
       /\ IF pending[r] = run
          THEN AllFetched(r, got)
          ELSE UNCHANGED <<pc, unsent, answer>>
       /\ UNCHANGED <<usage, docs, exists, req, missing, known>>

\* A sub-request rejects, and with it the whole request.
FetchFails(r) ==
    /\ "fetch" \in Faults
    /\ pc[r] = "fetching"
    /\ pc' = [pc EXCEPT ![r] = "failed"]
    /\ UNCHANGED <<usage, docs, exists, req, missing, pending, fetched, unsent,
                   answer, known>>

-----------------------------------------------------------------------------
(* setEstimates: insertMany stores the documents one by one, in the order   *)
(* of their dates, and creates the collection if there is none.             *)

\* Mutant: the tenant is not part of the collection's name.
InsertUntenanted(r, x) ==
    LET t == CHOOSE u \in Tenants : TRUE
    IN /\ pc[r] = "inserting" /\ x \in unsent[r]
       /\ docs' = [docs EXCEPT ![t] = @ \cup {x}]
       /\ exists' = exists \cup {t}
       /\ unsent' = [unsent EXCEPT ![r] = @ \ {x}]
       /\ pc' = IF unsent[r] = {x} THEN [pc EXCEPT ![r] = "reading"] ELSE pc
       /\ UNCHANGED <<usage, req, missing, pending, fetched, answer, known>>

\* Mutant: the date's documents are deleted before new ones are stored.
InsertReplacingDate(r, x) ==
    LET t == req[r].tenant
    IN /\ pc[r] = "inserting" /\ x \in unsent[r]
       /\ docs' = [docs EXCEPT ![t] = {y \in @ : y.date # x.date} \cup {x}]
       /\ exists' = exists \cup {t}
       /\ unsent' = [unsent EXCEPT ![r] = @ \ {x}]
       /\ pc' = IF unsent[r] = {x} THEN [pc EXCEPT ![r] = "reading"] ELSE pc
       /\ UNCHANGED <<usage, req, missing, pending, fetched, answer, known>>

\* Mutant: a collection that insertMany has created is not listed.
InsertUnlisted(r, x) ==
    LET t == req[r].tenant
    IN /\ pc[r] = "inserting" /\ x \in unsent[r]
       /\ docs' = [docs EXCEPT ![t] = @ \cup {x}]
       /\ unsent' = [unsent EXCEPT ![r] = @ \ {x}]
       /\ pc' = IF unsent[r] = {x} THEN [pc EXCEPT ![r] = "reading"] ELSE pc
       /\ UNCHANGED <<usage, exists, req, missing, pending, fetched, answer, known>>

InsertOne(r, x) ==
    LET t == req[r].tenant
    IN /\ pc[r] = "inserting"
       /\ x \in unsent[r]
       /\ \A y \in unsent[r] : x.date <= y.date
       /\ docs' = [docs EXCEPT ![t] = @ \cup {x}]
       /\ exists' = exists \cup {t}
       /\ unsent' = [unsent EXCEPT ![r] = @ \ {x}]
       /\ pc' = IF unsent[r] = {x} THEN [pc EXCEPT ![r] = "reading"] ELSE pc
       /\ UNCHANGED <<usage, req, missing, pending, fetched, answer, known>>

\* insertMany fails part of the way; the error is logged.
InsertFails(r) ==
    /\ "insert" \in Faults
    /\ pc[r] = "inserting"
    /\ unsent' = [unsent EXCEPT ![r] = {}]
    /\ pc' = [pc EXCEPT ![r] = "reading"]
    /\ UNCHANGED <<usage, docs, exists, req, missing, pending, fetched, answer,
                   known>>

-----------------------------------------------------------------------------
(* getEstimates: the answer is read back from the collection.               *)

\* Mutant: $gt for $gte, the first date of the window is left out.
MatchesAfterStart(q, x) ==
    x.date \in DatesWithinRequestTimeFrame(q) \ {q.from} /\ x.src \in q.accounts

Matches(q, x) ==
    /\ x.date \in DatesWithinRequestTimeFrame(q)
    /\ x.src \in q.accounts

PageSize(q, found) ==
    LET left == Cardinality(found) - q.skip
    IN IF left < 0 THEN 0 ELSE IF left < q.limit THEN left ELSE q.limit

(* $skip and $limit come before $sort: a page is any choice of that many    *)
(* matching documents; a $limit of 0 is an error, answered with nothing.    *)
Pages(q, stored) ==
    LET found == {x \in stored : Matches(q, x)}
    IN IF q.skip = 0 /\ Cardinality(found) <= q.limit /\ q.limit > 0
       THEN {found}
       ELSE {page \in SUBSET found : Cardinality(page) = PageSize(q, found)}

ListCollections(r) ==
    /\ pc[r] = "reading"
    /\ pc' = [pc EXCEPT ![r] = IF req[r].tenant \in exists THEN "aggregating"
                                                          ELSE "creating"]
    /\ UNCHANGED <<usage, docs, exists, req, missing, pending, fetched, unsent,
                   answer, known>>

Aggregate(r) ==
    /\ pc[r] = "aggregating"
    /\ \E page \in Pages(req[r], docs[req[r].tenant]) :
           answer' = [answer EXCEPT ![r] = page]
    /\ pc' = [pc EXCEPT ![r] = "done"]
    /\ UNCHANGED <<usage, docs, exists, req, missing, pending, fetched, unsent,
                   known>>

\* An empty answer, also when another request has created it meanwhile.
CreateCollection(r) ==
    /\ pc[r] = "creating"
    /\ exists' = exists \cup {req[r].tenant}
    /\ pc' = [pc EXCEPT ![r] = "done"]
    /\ UNCHANGED <<usage, docs, req, missing, pending, fetched, unsent, answer,
                   known>>

\* Reading fails: the error is logged and the answer is empty.
ReadFails(r) ==
    /\ "read" \in Faults
    /\ pc[r] \in {"reading", "aggregating", "creating"}
    /\ pc' = [pc EXCEPT ![r] = "done"]
    /\ UNCHANGED <<usage, docs, exists, req, missing, pending, fetched, unsent,
                   answer, known>>

-----------------------------------------------------------------------------
Step(r) ==
    \/ GetMissingDates(r)
    \/ CheckFails(r)
    \/ \E run \in SUBSET Dates, lost \in SUBSET AccountScoped : FetchGroup(r, run, lost)
    \/ FetchFails(r)
    \/ \E x \in unsent[r] : InsertOne(r, x)
    \/ InsertFails(r)
    \/ ListCollections(r)
    \/ Aggregate(r)
    \/ CreateCollection(r)
    \/ ReadFails(r)

Next ==
    \/ \E t \in Tenants, d \in Dates, s \in Sources : Publish(t, d, s)
    \/ \E r \in Requests, q \in RequestSpace : Arrive(r, q)
    \/ \E r \in Requests : Step(r)

Spec == Init /\ [][Next]_vars
-----------------------------------------------------------------------------
(* Properties.                                                              *)

IsGenuine(t, x) == x.ver > 0 /\ x.ver <= usage[t][x.date][x.src]

(* Every estimate that is stored for a tenant, on its way to the store, or  *)
(* in an answer was made from usage that tenant's provider had billed by    *)
(* then: nothing crosses from one tenant's collection into another's or is  *)
(* made up, whatever the interleaving and whatever fails.                   *)
Genuine ==
    /\ \A t \in Tenants : \A x \in docs[t] : IsGenuine(t, x) /\ req[x.by].tenant = t
    /\ \A r \in Requests :
          \A x \in fetched[r] \cup unsent[r] \cup answer[r] \cup known[r] :
              IsGenuine(req[r].tenant, x)

(* A request never stores a date it had seen cached when it checked: two    *)
(* documents of a date that a check counts can only come from requests      *)
(* whose check and insert overlapped.                                       *)
NoRewriteOfSeen ==
    \A t \in Tenants : \A y \in docs[t] :
        y.date \notin CachedDates(req[y.by], known[y.by])

Unpaged(r) ==
    /\ req[r].skip = 0
    /\ req[r].limit > 0
    /\ Cardinality(docs[req[r].tenant]) <= req[r].limit

Served(r) == pc[r] = "done" /\ ~req[r].ignoreCache

(* An unpaged answer holds every matching estimate that was stored when the *)
(* request checked for missing dates, and all it has stored itself: the     *)
(* collection is created, filled and read back in separate steps, and none  *)
(* of them may lose what the check relied on or what the request added.     *)
AnswerCoversSeen ==
    "read" \notin Faults =>
        \A r \in Requests : Served(r) /\ Unpaged(r) =>
            \A x \in known[r] \cup (fetched[r] \cap docs[req[r].tenant]) :
                Matches(req[r], x) => x \in answer[r]

Answers(r, d, s) == \E x \in answer[r] : x.date = d /\ x.src = s

Requested(r) == DatesWithinRequestTimeFrame(req[r]) \X req[r].accounts

Used(r, d, s) == usage[req[r].tenant][d][s] > 0

(* When r checked, it saw some but not all of what another request fetched  *)
(* for date d.                                                              *)
Torn(r, d) ==
    \E x \in known[r] :
        x.date = d /\ \E y \in fetched[x.by] : y.date = d /\ y \notin known[r]

\* A date r had seen was stored by a request that seeds one provider.
SeededOnly(r, d) == \E x \in known[r] : x.date = d /\ req[x.by].seed # NoSeed

\* r fetched estimates of date d that it could not store.
Unstored(r, d) == \E x \in fetched[r] : x \notin docs[req[r].tenant] /\ x.date = d

(* Requests in parallel, with inserts that may fail: the only estimates an  *)
(* answer can lack are of a date some other request had stored in part, for *)
(* one provider, or that the request fetched and could not store.           *)
IncompleteOnlyIfTorn ==
    \A r \in Requests : Served(r) /\ Unpaged(r) /\ req[r].seed = NoSeed =>
        \A ds \in Requested(r) :
            Used(r, ds[1], ds[2]) =>
                \/ Answers(r, ds[1], ds[2])
                \/ Torn(r, ds[1]) \/ SeededOnly(r, ds[1]) \/ Unstored(r, ds[1])

(* Once a request has stored what it fetched, the dates it found missing    *)
(* are cached, the ones without estimates included.                         *)
EmptyDatesCached ==
    \A r \in Requests : Served(r) /\ fetched[r] # {} =>
        missing[r] \subseteq {x.date : x \in docs[req[r].tenant]}

\* Of one provider: when r checked, it saw some but not all of what another request fetched.
TornOf(r, d, provider) ==
    \E x \in known[r] :
        /\ x.date = d /\ ProviderOf[x.src] = provider
        /\ \E y \in fetched[x.by] : y.date = d /\ ProviderOf[y.src] = provider /\ y \notin known[r]

(* After a request that seeds a provider, every requested date that         *)
(* provider has usage on is stored, whatever other providers' estimates the *)
(* dates held before, unless the request could not store the date or had    *)
(* seen some but not all of that provider's estimates of it.                *)
SeedCovers ==
    \A r \in Requests : Served(r) /\ req[r].seed # NoSeed =>
        \A d \in DatesWithinRequestTimeFrame(req[r]), s \in Sources :
            ProviderOf[s] = req[r].seed /\ Used(r, d, s) =>
                \/ Unstored(r, d) \/ TornOf(r, d, req[r].seed)
                \/ \E x \in docs[req[r].tenant] : x.date = d /\ x.src = s

(* Seeding only appends what is missing: a request that seeds a provider,   *)
(* spelled as the documents spell it, does not store a date and source it   *)
(* had seen stored. A source whose provider cannot be switched off is       *)
(* fetched by every request that seeds, whatever is stored of it.           *)
SeedAppendsOnlyMissing ==
    \A t \in Tenants : \A x, y \in docs[t] :
        (/\ req[y.by].seed # NoSeed /\ req[y.by].asStored /\ ProviderOf[y.src] \in Seedable
         /\ x.date = y.date /\ x.src = y.src /\ x # y)
            => x \notin known[y.by]

-----------------------------------------------------------------------------
(* The inductive invariant behind Genuine and NoRewriteOfSeen.              *)

\* r has made its check for missing dates.
Checked(r) == pc[r] \notin {"idle", "checking"}

(* Before its check a request has left no trace.                            *)
FreshInv ==
    /\ \A r \in Requests : ~Checked(r) =>
          /\ fetched[r] = {} /\ unsent[r] = {} /\ answer[r] = {}
          /\ known[r] = {} /\ pending[r] = {}
    /\ \A t \in Tenants : \A x \in docs[t] : Checked(x.by)

(* What a request fetched and has yet to store is its own, for dates it     *)
(* found missing; only a request that uses the cache has anything to store. *)
OwnInv ==
    \A r \in Requests :
        /\ pending[r] \subseteq missing[r]
        /\ \A x \in fetched[r] \cup unsent[r] : x.by = r /\ x.date \in missing[r]
        /\ unsent[r] # {} => ~req[r].ignoreCache

(* The missing dates of a request that uses the cache were not cached when  *)
(* it checked.                                                              *)
MissingInv ==
    \A r \in Requests : Checked(r) /\ ~req[r].ignoreCache =>
        \A d \in missing[r] : d \notin CachedDates(req[r], known[r])

\* There is no answer before the request is done.
UnansweredInv == \A r \in Requests : pc[r] # "done" => answer[r] = {}

IInv == Genuine /\ FreshInv /\ OwnInv /\ MissingInv /\ NoRewriteOfSeen

-----------------------------------------------------------------------------
(* What the collections promise: the facts of EstimateStore.                *)

FactOf(x) == [date |-> x.date, src |-> x.src, ver |-> x.ver]

storedFacts == [t \in Tenants |-> {FactOf(x) : x \in docs[t]}]

replies ==
    [r \in Requests |->
        IF pc[r] = "done"
        THEN [tenant |-> req[r].tenant, facts |-> {FactOf(x) : x \in answer[r]}]
        ELSE NoReply]

Store == INSTANCE EstimateStore WITH store <- storedFacts, reply <- replies

(* The decorator and MongoDbCacheManager keep the promise of EstimateStore. *)
StoreSpec == Store!Spec
=============================================================================
