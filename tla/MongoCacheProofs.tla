--------------------------- MODULE MongoCacheProofs ---------------------------
(***************************************************************************)
(* Theorems about MongoCache, for every number of requests, tenants,       *)
(* sources and dates, every set of requests and every set of faults.       *)
(***************************************************************************)
EXTENDS MongoCache, TLAPS, FiniteSetTheorems

-----------------------------------------------------------------------------
(* What the helpers return.                                                 *)

\* A request's window holds dates only.
LEMMA WindowInDates ==
    ASSUME NEW q \in RequestSpace
    PROVE  DatesWithinRequestTimeFrame(q) \subseteq Dates
  BY MongoCacheAssumption DEF DatesWithinRequestTimeFrame, Dates, Request

\* A request asks for a tenant the cache knows.
LEMMA RequestFields ==
    ASSUME NEW q \in RequestSpace
    PROVE  /\ q \in Request
           /\ q.tenant \in Tenants
           /\ q.ignoreCache \in BOOLEAN
  BY MongoCacheAssumption DEF Request

\* A page is a choice among the stored documents that match.
LEMMA PageMatches ==
    ASSUME NEW q, NEW stored, NEW page \in Pages(q, stored)
    PROVE  /\ page \subseteq stored
           /\ \A x \in page : Matches(q, x)
  BY DEF Pages

\* All fetched estimates are persisted, filed under their dates.
LEMMA FillDatesKeepsAll ==
    ASSUME NEW dates, NEW got,
           NEW persist, persist = FillDates(dates, got)
    PROVE  UNION {persist[d] : d \in DOMAIN persist} = got
  BY DEF FillDates

-----------------------------------------------------------------------------
(* Type correctness.                                                        *)

(* Every step of the decorator and of MongoDbCacheManager keeps the state   *)
(* typed: dates in the calendar, documents whole, requests with parameters. *)
THEOREM TypeCorrect == Spec => []TypeOK
  <1>1. Init => TypeOK
    BY MongoCacheAssumption DEF Init, TypeOK, Phases
  <1>2. TypeOK /\ [Next]_vars => TypeOK'
    <2> SUFFICES ASSUME TypeOK, [Next]_vars PROVE TypeOK'
      OBVIOUS
    <2> USE DEF TypeOK, Phases
    <2>1. ASSUME NEW t \in Tenants, NEW d \in Dates, NEW s \in Sources, Publish(t, d, s)
          PROVE  TypeOK'
      <3>1. usage[t][d][s] + 1 \in Versions
        BY <2>1, MongoCacheAssumption DEF Publish, Versions
      <3>2. usage' \in [Tenants -> [Dates -> [Sources -> Versions]]]
        BY <2>1, <3>1 DEF Publish
      <3> QED
        BY <2>1, <3>2 DEF Publish
    <2>2. ASSUME NEW r \in Requests, NEW q \in RequestSpace, Arrive(r, q)
          PROVE  TypeOK'
      BY <2>2 DEF Arrive
    <2>3. ASSUME NEW r \in Requests, Step(r)
          PROVE  TypeOK'
      <3> USE <2>3
      <3>1. CASE GetMissingDates(r)
        <4>1. req[r] \in RequestSpace /\ req[r].tenant \in Tenants
          BY <3>1, RequestFields DEF GetMissingDates
        <4>2. DatesWithinRequestTimeFrame(req[r]) \subseteq Dates
          BY <4>1, WindowInDates
        <4>3. ASSUME NEW dates \in SUBSET Dates, Proceed(r, dates)
              PROVE  /\ pc' \in [Requests -> Phases]
                     /\ missing' \in [Requests -> SUBSET Dates]
                     /\ pending' \in [Requests -> SUBSET Dates]
                     /\ \A p \in Requests : pc'[p] # "idle" => req[p] \in RequestSpace
          BY <4>1, <4>3 DEF Proceed
        <4>4. known' \in [Requests -> SUBSET Doc]
          BY <3>1, <4>1 DEF GetMissingDates
        <4>5. PICK dates \in SUBSET Dates : Proceed(r, dates)
          BY <3>1, <4>2 DEF GetMissingDates, DatesMissing
        <4> QED
          BY <4>3, <4>4, <4>5 DEF Proceed
      <3>2. CASE CheckFails(r)
        BY <3>2 DEF CheckFails, Proceed
      <3>3. CASE \E run \in SUBSET Dates, lost \in SUBSET AccountScoped : FetchGroup(r, run, lost)
        <4>1. PICK run \in SUBSET Dates, lost \in SUBSET AccountScoped : FetchGroup(r, run, lost)
          BY <3>3
        <4> DEFINE got == fetched[r] \cup Estimates(r, run, FetchScope(req[r]) \ lost)
        <4>2. got \in SUBSET Doc
          BY DEF Estimates
        <4> HIDE DEF got
        <4>3. \/ AllFetched(r, got)
              \/ UNCHANGED <<pc, unsent, answer>>
          BY <4>1 DEF FetchGroup, got
        <4>4. UNCHANGED <<usage, docs, exists, req, missing, known>>
          BY <4>1 DEF FetchGroup
        <4>5. fetched' \in [Requests -> SUBSET Doc] /\ pending' \in [Requests -> SUBSET Dates]
          BY <4>1, <4>2 DEF FetchGroup, got
        <4>6. pc[r] = "fetching"
          BY <4>1 DEF FetchGroup
        <4>7. CASE AllFetched(r, got)
          BY <4>2, <4>4, <4>5, <4>6, <4>7, FillDatesKeepsAll DEF AllFetched
        <4>8. CASE UNCHANGED <<pc, unsent, answer>>
          BY <4>4, <4>5, <4>8
        <4> QED
          BY <4>3, <4>7, <4>8
      <3>4. CASE FetchFails(r)
        BY <3>4 DEF FetchFails
      <3>5. CASE \E x \in unsent[r] : InsertOne(r, x)
        <4>1. PICK x \in unsent[r] : InsertOne(r, x)
          BY <3>5
        <4>2. req[r].tenant \in Tenants /\ x \in Doc
          BY <4>1, RequestFields DEF InsertOne
        <4> QED
          BY <4>1, <4>2 DEF InsertOne
      <3>6. CASE InsertFails(r)
        BY <3>6 DEF InsertFails
      <3>7. CASE ListCollections(r)
        BY <3>7 DEF ListCollections
      <3>8. CASE Aggregate(r)
        <4>1. PICK page \in Pages(req[r], docs[req[r].tenant]) : answer' = [answer EXCEPT ![r] = page]
          BY <3>8 DEF Aggregate
        <4>2. page \in SUBSET Doc
          BY <3>8, <4>1, PageMatches, RequestFields DEF Aggregate
        <4> QED
          BY <3>8, <4>1, <4>2 DEF Aggregate
      <3>9. CASE CreateCollection(r)
        BY <3>9, RequestFields DEF CreateCollection
      <3>10. CASE ReadFails(r)
        BY <3>10 DEF ReadFails
      <3> QED
        BY <2>3, <3>1, <3>2, <3>3, <3>4, <3>5, <3>6, <3>7, <3>8, <3>9, <3>10 DEF Step
    <2>4. CASE UNCHANGED vars
      BY <2>4 DEF vars
    <2> QED
      BY <2>1, <2>2, <2>3, <2>4 DEF Next
  <1> QED
    BY <1>1, <1>2, PTL DEF Spec

-----------------------------------------------------------------------------
(* Genuine and NoRewriteOfSeen, by the inductive invariant IInv.            *)

\* Usage is only ever billed, never taken back: genuine stays genuine.
LEMMA PublishKeepsGenuine ==
    ASSUME TypeOK, NEW t \in Tenants, NEW d \in Dates, NEW s \in Sources,
           Publish(t, d, s),
           NEW u \in Tenants, NEW x \in Doc, IsGenuine(u, x)
    PROVE  IsGenuine(u, x)'
  <1>1. usage[u][x.date][x.src] \in Nat /\ x.ver \in Nat
    BY MongoCacheAssumption DEF TypeOK, Doc, Versions
  <1>2. usage'[u][x.date][x.src] >= usage[u][x.date][x.src]
    BY <1>1 DEF Publish, TypeOK, Doc
  <1> QED
    BY <1>1, <1>2 DEF IsGenuine, Publish, TypeOK, Doc, Versions

\* A request whose parameters are known asks for one of the tenants.
LEMMA CheckedTenant ==
    ASSUME TypeOK, NEW r \in Requests, pc[r] # "idle"
    PROVE  req[r] \in RequestSpace /\ req[r].tenant \in Tenants /\ req[r].ignoreCache \in BOOLEAN
  BY RequestFields DEF TypeOK

\* Nothing is stored, fetched or known at the start.
LEMMA InitIInv == Init => IInv
  BY DEF Init, IInv, Genuine, FreshInv, OwnInv, MissingInv, NoRewriteOfSeen, Checked

\* Usage only grows, so what was genuine before more is billed stays so.
LEMMA PublishIInv ==
    ASSUME TypeOK, IInv, NEW t \in Tenants, NEW d \in Dates, NEW s \in Sources, Publish(t, d, s)
    PROVE  IInv'
  <1>1. UNCHANGED <<docs, exists, pc, req, missing, pending, fetched, unsent, answer, known>>
    BY DEF Publish
  <1>2. Genuine'
    <2>1. ASSUME NEW u \in Tenants, NEW x \in docs[u]
          PROVE  IsGenuine(u, x)' /\ req'[x.by].tenant = u
      BY <1>1, <2>1, PublishKeepsGenuine DEF IInv, Genuine, TypeOK
    <2>2. ASSUME NEW r \in Requests,
                 NEW x \in fetched[r] \cup unsent[r] \cup answer[r] \cup known[r]
          PROVE  IsGenuine(req[r].tenant, x)'
      <3>1. pc[r] # "idle"
        BY DEF IInv, FreshInv, Checked
      <3>2. req[r].tenant \in Tenants
        BY <3>1, CheckedTenant
      <3>3. x \in Doc /\ IsGenuine(req[r].tenant, x)
        BY DEF IInv, Genuine, TypeOK
      <3> QED
        BY <1>1, <3>2, <3>3, PublishKeepsGenuine DEF IsGenuine
    <2> QED
      BY <1>1, <2>1, <2>2 DEF Genuine
  <1>3. FreshInv' /\ OwnInv' /\ MissingInv' /\ NoRewriteOfSeen'
    BY <1>1 DEF IInv, FreshInv, OwnInv, MissingInv, NoRewriteOfSeen, Checked, CachedDates
  <1> QED
    BY <1>2, <1>3 DEF IInv

\* A request that arrives has left no trace yet.
LEMMA ArriveIInv ==
    ASSUME TypeOK, IInv, NEW r \in Requests, NEW q \in RequestSpace, Arrive(r, q)
    PROVE  IInv'
  <1> USE DEF Arrive, TypeOK
  <1>1. ~Checked(r) /\ pc'[r] = "checking"
    BY DEF Checked
  <1>2. \A t \in Tenants : \A x \in docs[t] : x.by # r
    BY <1>1 DEF IInv, FreshInv
  <1>3. Genuine'
    BY <1>1, <1>2 DEF IInv, Genuine, FreshInv, IsGenuine, Doc
  <1>4. FreshInv'
    BY <1>1, <1>2 DEF IInv, FreshInv, Checked, Doc
  <1>5. OwnInv'
    BY <1>1 DEF IInv, OwnInv, FreshInv, Doc
  <1>6. MissingInv'
    BY <1>1 DEF IInv, MissingInv, Checked, CachedDates
  <1>7. NoRewriteOfSeen'
    BY <1>2 DEF IInv, NoRewriteOfSeen, CachedDates, Doc
  <1> QED
    BY <1>3, <1>4, <1>5, <1>6, <1>7 DEF IInv

\* What the decorator's next step with the missing dates leaves true.
LEMMA ProceedIInv ==
    ASSUME TypeOK, IInv, NEW r \in Requests, pc[r] = "checking",
           NEW dates \in SUBSET Dates, Proceed(r, dates),
           known' = [known EXCEPT ![r] = docs[req[r].tenant]] \/ UNCHANGED known,
           ~req[r].ignoreCache => \A d \in dates : d \notin CachedDates(req[r], known'[r])
    PROVE  IInv'
  <1> USE DEF Proceed, TypeOK
  <1>1. req[r].tenant \in Tenants
    BY CheckedTenant
  <1>2. ~Checked(r) /\ pc'[r] \in {"reading", "fetching"} /\ known'[r] \subseteq docs[req[r].tenant]
    BY <1>1 DEF Checked, IInv, FreshInv
  <1>3. \A t \in Tenants : \A x \in docs[t] : x.by # r
    BY <1>2 DEF IInv, FreshInv
  <1>4. Genuine'
    BY <1>1, <1>2 DEF IInv, Genuine, IsGenuine
  <1>5. FreshInv'
    BY <1>2, <1>3 DEF IInv, FreshInv, Checked
  <1>6. OwnInv'
    BY <1>2 DEF IInv, OwnInv, FreshInv
  <1>7. MissingInv'
    BY <1>2 DEF IInv, MissingInv, Checked, CachedDates
  <1>8. NoRewriteOfSeen'
    BY <1>3 DEF IInv, NoRewriteOfSeen, CachedDates, Doc
  <1> QED
    BY <1>4, <1>5, <1>6, <1>7, <1>8 DEF IInv

\* The check: what it takes down of the store fits the dates it reports missing.
LEMMA GetMissingDatesIInv ==
    ASSUME TypeOK, IInv, NEW r \in Requests, GetMissingDates(r)
    PROVE  IInv'
  <1>1. pc[r] = "checking" /\ known' = [known EXCEPT ![r] = docs[req[r].tenant]]
    BY DEF GetMissingDates
  <1>2. req[r] \in RequestSpace /\ req[r].ignoreCache \in BOOLEAN
    BY <1>1, CheckedTenant
  <1>3. known'[r] = docs[req[r].tenant]
    BY <1>1 DEF TypeOK
  <1>4. DatesWithinRequestTimeFrame(req[r]) \subseteq Dates
    BY <1>2, WindowInDates
  <1>5. CASE req[r].ignoreCache
    BY <1>1, <1>4, <1>5, ProceedIInv DEF GetMissingDates
  <1>6. CASE ~req[r].ignoreCache
    <2> DEFINE dates == DatesMissing(CachedDates(req[r], docs[req[r].tenant]), req[r])
    <2>1. dates \in SUBSET Dates /\ Proceed(r, dates)
      BY <1>4, <1>6 DEF GetMissingDates, DatesMissing
    <2>2. \A d \in dates : d \notin CachedDates(req[r], known'[r])
      BY <1>3 DEF DatesMissing
    <2> HIDE DEF dates
    <2> QED
      BY <1>1, <2>1, <2>2, ProceedIInv
  <1> QED
    BY <1>5, <1>6

\* A failed check reports no missing dates and so promises nothing.
LEMMA CheckFailsIInv ==
    ASSUME TypeOK, IInv, NEW r \in Requests, CheckFails(r)
    PROVE  IInv'
  <1>1. pc[r] = "checking" /\ Proceed(r, {}) /\ UNCHANGED known
    BY DEF CheckFails
  <1> QED
    BY <1>1, ProceedIInv

\* What a sub-request returned is genuine, r's own and of the dates asked for.
LEMMA EstimatesGenuine ==
    ASSUME TypeOK, NEW r \in Requests, NEW dates, NEW sources,
           NEW x \in Estimates(r, dates, sources)
    PROVE  x \in Doc /\ x.by = r /\ x.date \in dates /\ IsGenuine(req[r].tenant, x)
  <1>1. x \in Doc /\ x.by = r /\ x.date \in dates /\ x.ver > 0
        /\ x.ver = usage[req[r].tenant][x.date][x.src]
    BY DEF Estimates
  <1>2. x.ver \in Int
    BY <1>1, MongoCacheAssumption DEF Doc, Versions
  <1> QED
    BY <1>1, <1>2 DEF IsGenuine

\* A sub-request adds genuine estimates of its own missing dates.
LEMMA FetchGroupIInv ==
    ASSUME TypeOK, IInv, NEW r \in Requests,
           NEW run \in SUBSET Dates, NEW lost \in SUBSET AccountScoped,
           FetchGroup(r, run, lost)
    PROVE  IInv'
  <1> DEFINE got == fetched[r] \cup Estimates(r, run, FetchScope(req[r]) \ lost)
  <1>1. /\ pc[r] = "fetching" /\ run \subseteq pending[r]
        /\ fetched' = [fetched EXCEPT ![r] = got]
        /\ pending' = [pending EXCEPT ![r] = @ \ run]
        /\ UNCHANGED <<usage, docs, exists, req, missing, known>>
        /\ AllFetched(r, got) \/ UNCHANGED <<pc, unsent, answer>>
    BY DEF FetchGroup, MissingDataRequests
  <1>2. \A x \in got : x.by = r /\ x.date \in missing[r] /\ IsGenuine(req[r].tenant, x)
    BY <1>1, EstimatesGenuine DEF IInv, OwnInv, Genuine
  <1> HIDE DEF got
  <1>3. /\ pc'[r] \notin {"idle", "checking"}
        /\ \A p \in Requests : p # r =>
              pc'[p] = pc[p] /\ unsent'[p] = unsent[p] /\ answer'[p] = answer[p]
        /\ unsent'[r] \subseteq got \cup unsent[r] /\ answer'[r] \subseteq got \cup answer[r]
        /\ unsent'[r] # {} => ~req[r].ignoreCache
    <2>1. CASE AllFetched(r, got)
      <3>1. UNION {FillDates(missing[r], got)[d] : d \in DOMAIN FillDates(missing[r], got)} = got
        BY FillDatesKeepsAll
      <3> QED
        BY <2>1, <3>1 DEF AllFetched, TypeOK, IInv, OwnInv
    <2>2. CASE UNCHANGED <<pc, unsent, answer>>
      BY <1>1, <2>2 DEF IInv, OwnInv
    <2> QED
      BY <1>1, <2>1, <2>2
  <1>4. /\ fetched'[r] = got /\ pending'[r] \subseteq pending[r]
        /\ \A p \in Requests : p # r => fetched'[p] = fetched[p] /\ pending'[p] = pending[p]
    BY <1>1 DEF TypeOK
  <1>5. Genuine'
    BY <1>1, <1>2, <1>3, <1>4 DEF IInv, Genuine, IsGenuine
  <1>6. FreshInv'
    BY <1>1, <1>3, <1>4 DEF IInv, FreshInv, Checked, TypeOK, Doc
  <1>7. OwnInv'
    BY <1>1, <1>2, <1>3, <1>4 DEF IInv, OwnInv
  <1>8. MissingInv'
    BY <1>1, <1>3 DEF IInv, MissingInv, Checked, CachedDates
  <1>9. NoRewriteOfSeen'
    BY <1>1 DEF IInv, NoRewriteOfSeen, CachedDates
  <1> QED
    BY <1>5, <1>6, <1>7, <1>8, <1>9 DEF IInv

\* A document that is stored is of a date its request had not seen cached.
LEMMA InsertOneIInv ==
    ASSUME TypeOK, IInv, NEW r \in Requests, NEW x \in unsent[r], InsertOne(r, x)
    PROVE  IInv'
  <1>1. /\ pc[r] = "inserting" /\ req[r].tenant \in Tenants
        /\ UNCHANGED <<usage, req, missing, pending, fetched, answer, known>>
        /\ pc' \in {pc, [pc EXCEPT ![r] = "reading"]}
    BY CheckedTenant DEF InsertOne
  <1>2. /\ \A t \in Tenants : \A y \in docs'[t] :
              y \in docs[t] \/ (y = x /\ t = req[r].tenant)
        /\ \A p \in Requests : unsent'[p] \subseteq unsent[p]
    BY DEF InsertOne, TypeOK
  <1>3. x.by = r /\ x.date \in missing[r] /\ IsGenuine(req[r].tenant, x) /\ ~req[r].ignoreCache
    BY DEF IInv, OwnInv, Genuine
  <1>4. \A p \in Requests : Checked(p)' <=> Checked(p)
    BY <1>1 DEF Checked, TypeOK
  <1>5. Genuine'
    BY <1>1, <1>2, <1>3 DEF IInv, Genuine, IsGenuine
  <1>6. FreshInv'
    <2>1. Checked(r)
      BY <1>1 DEF Checked
    <2>2. \A t \in Tenants : \A y \in docs'[t] : y.by \in Requests /\ Checked(y.by)
      BY <1>2, <1>3, <2>1 DEF IInv, FreshInv, TypeOK, Doc
    <2>3. \A t \in Tenants : \A y \in docs'[t] : Checked(y.by)'
      BY <1>4, <2>2 DEF Checked
    <2> QED
      BY <1>1, <1>2, <1>4, <2>3 DEF IInv, FreshInv, Checked
  <1>7. OwnInv'
    BY <1>1, <1>2 DEF IInv, OwnInv
  <1>8. MissingInv'
    BY <1>1, <1>4 DEF IInv, MissingInv, Checked, CachedDates
  <1>9. NoRewriteOfSeen'
    <2>1. x.date \notin CachedDates(req[x.by], known[x.by])
      BY <1>1, <1>3 DEF IInv, MissingInv, Checked
    <2> QED
      BY <1>1, <1>2, <2>1 DEF IInv, NoRewriteOfSeen, CachedDates
  <1> QED
    BY <1>5, <1>6, <1>7, <1>8, <1>9 DEF IInv

\* A step that only moves r on, and may drop what it has yet to store.
LEMMA MoveOnIInv ==
    ASSUME TypeOK, IInv, NEW r \in Requests, Checked(r),
           UNCHANGED <<usage, docs, req, missing, pending, fetched, known>>,
           \A p \in Requests : Checked(p)' <=> Checked(p),
           \A p \in Requests : unsent'[p] \subseteq unsent[p],
           \A p \in Requests : \A x \in answer'[p] : x \in answer[p] \/ (p = r /\ x \in docs[req[r].tenant])
    PROVE  IInv'
  <1>1. req[r].tenant \in Tenants
    BY CheckedTenant DEF Checked
  <1>2. Genuine'
    BY <1>1 DEF IInv, Genuine, IsGenuine
  <1>3. FreshInv'
    BY DEF IInv, FreshInv, Checked, TypeOK, Doc
  <1>4. OwnInv'
    BY DEF IInv, OwnInv
  <1>5. MissingInv'
    BY DEF IInv, MissingInv, Checked, CachedDates
  <1>6. NoRewriteOfSeen'
    BY DEF IInv, NoRewriteOfSeen, CachedDates
  <1> QED
    BY <1>2, <1>3, <1>4, <1>5, <1>6 DEF IInv

\* Every step a request takes keeps the invariant.
LEMMA StepIInv ==
    ASSUME TypeOK, IInv, NEW r \in Requests, Step(r)
    PROVE  IInv'
  <1>1. CASE GetMissingDates(r)
    BY <1>1, GetMissingDatesIInv
  <1>2. CASE CheckFails(r)
    BY <1>2, CheckFailsIInv
  <1>3. CASE \E run \in SUBSET Dates, lost \in SUBSET AccountScoped : FetchGroup(r, run, lost)
    BY <1>3, FetchGroupIInv
  <1>4. CASE \E x \in unsent[r] : InsertOne(r, x)
    BY <1>4, InsertOneIInv
  <1>5. CASE FetchFails(r)
    BY <1>5, MoveOnIInv DEF FetchFails, Checked, TypeOK
  <1>6. CASE InsertFails(r)
    BY <1>6, MoveOnIInv DEF InsertFails, Checked, TypeOK
  <1>7. CASE ListCollections(r)
    BY <1>7, MoveOnIInv DEF ListCollections, Checked, TypeOK
  <1>8. CASE Aggregate(r)
    <2>1. \A p \in Requests : \A x \in answer'[p] : x \in answer[p] \/ (p = r /\ x \in docs[req[r].tenant])
      BY <1>8, PageMatches DEF Aggregate, TypeOK
    <2> QED
      BY <1>8, <2>1, MoveOnIInv DEF Aggregate, Checked, TypeOK
  <1>9. CASE CreateCollection(r)
    BY <1>9, MoveOnIInv DEF CreateCollection, Checked, TypeOK
  <1>10. CASE ReadFails(r)
    BY <1>10, MoveOnIInv DEF ReadFails, Checked, TypeOK
  <1> QED
    BY <1>1, <1>2, <1>3, <1>4, <1>5, <1>6, <1>7, <1>8, <1>9, <1>10 DEF Step

(* The inductive invariant: what each request has fetched, has yet to store *)
(* and knew when it checked, together with the two properties it yields.    *)
THEOREM IInvHolds == Spec => []IInv
  <1>1. TypeOK /\ IInv /\ [Next]_vars => IInv'
    <2> SUFFICES ASSUME TypeOK, IInv, [Next]_vars PROVE IInv'
      OBVIOUS
    <2>1. CASE UNCHANGED vars
      BY <2>1 DEF vars, IInv, Genuine, IsGenuine, FreshInv, OwnInv, MissingInv,
                  NoRewriteOfSeen, Checked, CachedDates
    <2> QED
      BY <2>1, PublishIInv, ArriveIInv, StepIInv DEF Next
  <1> QED
    BY <1>1, InitIInv, TypeCorrect, PTL DEF Spec

(* Whatever is stored for a tenant or answered to a request was estimated   *)
(* from that tenant's own, billed usage.                                    *)
THEOREM GenuineHolds == Spec => []Genuine
  <1>1. IInv => Genuine
    BY DEF IInv
  <1> QED
    BY <1>1, IInvHolds, PTL

(* No request stores a date it had seen cached when it checked.             *)
THEOREM NoRewriteOfSeenHolds == Spec => []NoRewriteOfSeen
  <1>1. IInv => NoRewriteOfSeen
    BY DEF IInv
  <1> QED
    BY <1>1, IInvHolds, PTL

-----------------------------------------------------------------------------
(* The Mongo cache implements EstimateStore.                                *)

\* No request has an answer before it is done.
LEMMA UnansweredHolds == Spec => []UnansweredInv
  <1>1. Init => UnansweredInv
    BY DEF Init, UnansweredInv
  <1>2. TypeOK /\ UnansweredInv /\ [Next]_vars => UnansweredInv'
    <2> SUFFICES ASSUME TypeOK, UnansweredInv, [Next]_vars PROVE UnansweredInv'
      OBVIOUS
    <2> USE DEF UnansweredInv, TypeOK
    <2>1. ASSUME NEW t \in Tenants, NEW d \in Dates, NEW s \in Sources, Publish(t, d, s)
          PROVE  UnansweredInv'
      BY <2>1 DEF Publish
    <2>2. ASSUME NEW r \in Requests, NEW q \in RequestSpace, Arrive(r, q)
          PROVE  UnansweredInv'
      BY <2>2 DEF Arrive
    <2>3. ASSUME NEW r \in Requests, Step(r)
          PROVE  UnansweredInv'
      <3>1. CASE GetMissingDates(r) \/ CheckFails(r)
        BY <3>1 DEF GetMissingDates, CheckFails, Proceed
      <3>2. CASE \E run \in SUBSET Dates, lost \in SUBSET AccountScoped : FetchGroup(r, run, lost)
        BY <3>2 DEF FetchGroup, AllFetched
      <3>3. CASE \E x \in unsent[r] : InsertOne(r, x)
        BY <3>3 DEF InsertOne
      <3>4. CASE FetchFails(r) \/ InsertFails(r) \/ ListCollections(r)
        BY <3>4 DEF FetchFails, InsertFails, ListCollections
      <3>5. CASE Aggregate(r) \/ CreateCollection(r) \/ ReadFails(r)
        BY <3>5 DEF Aggregate, CreateCollection, ReadFails
      <3> QED
        BY <2>3, <3>1, <3>2, <3>3, <3>4, <3>5 DEF Step
    <2>4. CASE UNCHANGED vars
      BY <2>4 DEF vars
    <2> QED
      BY <2>1, <2>2, <2>3, <2>4 DEF Next
  <1> QED
    BY <1>1, <1>2, TypeCorrect, PTL DEF Spec

\* The fact of a genuine document is one the tenant's usage supports.
LEMMA GenuineIsBilled ==
    ASSUME TypeOK, NEW t \in Tenants, NEW x \in Doc, IsGenuine(t, x)
    PROVE  FactOf(x) \in Store!Billed(t)
  BY DEF IsGenuine, FactOf, Doc, Store!Billed, Store!Fact, Store!Dates, Store!Versions,
         Dates, Versions

\* A request that becomes done is answered, once, for its own tenant.
LEMMA DoneIsAnswer ==
    ASSUME TypeOK, NEW r \in Requests, pc[r] # "done", NEW S,
           pc' = [pc EXCEPT ![r] = "done"],
           answer' = [answer EXCEPT ![r] = S],
           UNCHANGED <<usage, docs, req>>
    PROVE  Store!Answer(r, req[r].tenant, {FactOf(x) : x \in S})
  <1>1. replies[r] = NoReply
    BY DEF replies
  <1>2. replies' = [replies EXCEPT ![r] = [tenant |-> req[r].tenant, facts |-> {FactOf(x) : x \in S}]]
    BY DEF replies, TypeOK
  <1> QED
    BY <1>1, <1>2 DEF Store!Answer, storedFacts

\* A step that stores nothing and answers nobody is invisible in the store.
LEMMA SilentStep ==
    ASSUME TypeOK, UNCHANGED <<usage, docs>>,
           \A p \in Requests : pc'[p] = "done" <=> pc[p] = "done",
           \A p \in Requests : pc[p] = "done" => req'[p] = req[p] /\ answer'[p] = answer[p]
    PROVE  UNCHANGED Store!storeVars
  BY DEF Store!storeVars, storedFacts, replies

\* Storing a document records its fact in the store.
LEMMA RecordStep ==
    ASSUME TypeOK, IInv, NEW r \in Requests, NEW x \in unsent[r], InsertOne(r, x)
    PROVE  Store!Record(req[r].tenant, FactOf(x))
  <1> DEFINE t == req[r].tenant
  <1>1. t \in Tenants /\ x \in Doc /\ IsGenuine(t, x)
    BY CheckedTenant DEF InsertOne, IInv, Genuine, TypeOK
  <1>2. storedFacts' = [storedFacts EXCEPT ![t] = @ \cup {FactOf(x)}]
    BY <1>1 DEF InsertOne, storedFacts, TypeOK
  <1>3. replies' = replies
    BY DEF InsertOne, replies, TypeOK
  <1> QED
    BY <1>1, <1>2, <1>3, GenuineIsBilled DEF Store!Record, InsertOne

\* Every step a request takes is a step of the store, or invisible in it.
LEMMA StepRefines ==
    ASSUME TypeOK, IInv, UnansweredInv, NEW r \in Requests, Step(r)
    PROVE  [Store!Next]_(Store!storeVars)
  <1> DEFINE facts(S) == {FactOf(x) : x \in S}
             t == req[r].tenant
  <1>1. CASE GetMissingDates(r) \/ CheckFails(r)
    BY <1>1, SilentStep DEF GetMissingDates, CheckFails, Proceed, TypeOK
  <1>2. CASE FetchFails(r) \/ InsertFails(r) \/ ListCollections(r)
    BY <1>2, SilentStep DEF FetchFails, InsertFails, ListCollections, TypeOK
  <1>3. CASE \E x \in unsent[r] : InsertOne(r, x)
    <2>1. PICK x \in unsent[r] : InsertOne(r, x)
      BY <1>3
    <2>2. t \in Tenants /\ FactOf(x) \in Store!Fact
      <3>1. t \in Tenants
        BY <2>1, CheckedTenant DEF InsertOne
      <3>2. x \in Doc
        BY DEF TypeOK
      <3>3. FactOf(x) \in Store!Fact
        BY <3>2 DEF FactOf, Doc, Store!Fact, Store!Dates, Store!Versions, Dates, Versions
      <3> QED
        BY <3>1, <3>3
    <2> QED
      BY <2>1, <2>2, RecordStep DEF Store!Next
  <1>4. CASE \E run \in SUBSET Dates, lost \in SUBSET AccountScoped : FetchGroup(r, run, lost)
    <2>1. PICK run \in SUBSET Dates, lost \in SUBSET AccountScoped : FetchGroup(r, run, lost)
      BY <1>4
    <2> DEFINE got == fetched[r] \cup Estimates(r, run, FetchScope(req[r]) \ lost)
    <2>2. /\ pc[r] = "fetching" /\ t \in Tenants
          /\ UNCHANGED <<usage, docs, req>>
          /\ AllFetched(r, got) \/ UNCHANGED <<pc, unsent, answer>>
      BY <2>1, CheckedTenant DEF FetchGroup
    <2>3. \A x \in got : x \in Doc /\ IsGenuine(t, x)
      BY EstimatesGenuine DEF IInv, Genuine, TypeOK
    <2> HIDE DEF got
    <2>4. CASE req[r].ignoreCache /\ AllFetched(r, got)
      <3>1. Store!Answer(r, t, facts(got))
        BY <2>2, <2>4, DoneIsAnswer DEF AllFetched
      <3>2. facts(got) \in SUBSET Store!Billed(t)
        BY <2>2, <2>3, GenuineIsBilled
      <3>3. Store!ReplyFresh(r, t)
        BY <3>1, <3>2 DEF Store!ReplyFresh
      <3> QED
        BY <2>2, <3>3 DEF Store!Next
    <2>5. CASE ~req[r].ignoreCache /\ AllFetched(r, got)
      BY <2>2, <2>5, SilentStep DEF AllFetched, TypeOK
    <2>6. CASE UNCHANGED <<pc, unsent, answer>>
      BY <2>2, <2>6, SilentStep
    <2> QED
      BY <2>2, <2>4, <2>5, <2>6
  <1>5. CASE Aggregate(r) \/ CreateCollection(r) \/ ReadFails(r)
    <2>1. t \in Tenants /\ pc[r] # "done"
      BY <1>5, CheckedTenant DEF Aggregate, CreateCollection, ReadFails
    <2>2. PICK S \in SUBSET docs[t] : answer' = [answer EXCEPT ![r] = S]
      <3>1. CASE Aggregate(r)
        <4>1. PICK page \in Pages(req[r], docs[t]) : answer' = [answer EXCEPT ![r] = page]
          BY <3>1 DEF Aggregate
        <4>2. page \in SUBSET docs[t]
          BY <4>1, PageMatches
        <4> QED
          BY <4>1, <4>2
      <3>2. CASE CreateCollection(r) \/ ReadFails(r)
        <4>1. answer' = [answer EXCEPT ![r] = {}]
          BY <2>1, <3>2 DEF CreateCollection, ReadFails, UnansweredInv, TypeOK
        <4>2. {} \in SUBSET docs[t]
          OBVIOUS
        <4> QED
          BY <4>1, <4>2
      <3> QED
        BY <1>5, <3>1, <3>2
    <2>3. Store!Answer(r, t, facts(S))
      BY <1>5, <2>1, <2>2, DoneIsAnswer DEF Aggregate, CreateCollection, ReadFails
    <2>4. facts(S) \in SUBSET storedFacts[t]
      BY <2>1, <2>2 DEF storedFacts
    <2>5. Store!ReplyFromStore(r, t)
      BY <2>3, <2>4 DEF Store!ReplyFromStore
    <2> QED
      BY <2>1, <2>5 DEF Store!Next
  <1> QED
    BY <1>1, <1>2, <1>3, <1>4, <1>5 DEF Step

(* The decorator with MongoDbCacheManager implements EstimateStore: facts   *)
(* are recorded once billed, never changed or lost, and each request is     *)
(* answered once with facts of its own tenant.                              *)
THEOREM Refinement == Spec => StoreSpec
  <1>1. Init => Store!Init
    BY DEF Init, Store!Init, storedFacts, replies
  <1>2. TypeOK /\ IInv /\ UnansweredInv /\ [Next]_vars => [Store!Next]_(Store!storeVars)
    <2> SUFFICES ASSUME TypeOK, IInv, UnansweredInv, [Next]_vars
                 PROVE  [Store!Next]_(Store!storeVars)
      OBVIOUS
    <2>1. ASSUME NEW t \in Tenants, NEW d \in Dates, NEW s \in Sources, Publish(t, d, s)
          PROVE  Store!Next
      <3>1. Store!Publish(t, d, s)
        BY <2>1 DEF Publish, Store!Publish, storedFacts, replies
      <3> QED
        BY <3>1 DEF Store!Next, Store!Dates, Dates
    <2>2. ASSUME NEW r \in Requests, NEW q \in RequestSpace, Arrive(r, q)
          PROVE  UNCHANGED Store!storeVars
      BY <2>2, SilentStep DEF Arrive, TypeOK
    <2>3. CASE UNCHANGED vars
      BY <2>3, SilentStep DEF vars
    <2> QED
      BY <2>1, <2>2, <2>3, StepRefines DEF Next
  <1> QED
    BY <1>1, <1>2, TypeCorrect, IInvHolds, UnansweredHolds, PTL DEF Spec, StoreSpec, Store!Spec
-----------------------------------------------------------------------------
(* What the answers cover, and what seeding appends.                        *)

\* What a request has stored itself.
OwnStored(r) == {x \in docs[req[r].tenant] : x.by = r}

\* What an answer has to hold, of what the request knew and stored.
Covered(r) == \A x \in known[r] \cup OwnStored(r) : Matches(req[r], x) => x \in answer[r]

CollectionsInv ==
    \A t \in Tenants : IsFiniteSet(docs[t]) /\ (docs[t] # {} => t \in exists)

KnownStoredInv == \A r \in Requests : Checked(r) => known[r] \subseteq docs[req[r].tenant]

\* Who finds no collection knows of no document and has stored none.
NoCollectionInv ==
    \A r \in Requests : pc[r] = "creating" => known[r] = {} /\ OwnStored(r) = {}

CoveredInv == "read" \notin Faults => \A r \in Requests : Served(r) /\ Unpaged(r) => Covered(r)

CoverInv == CollectionsInv /\ KnownStoredInv /\ NoCollectionInv /\ CoveredInv

\* A step that stores nothing keeps what the other requests rely on.
LEMMA MoveCovers ==
    ASSUME TypeOK, CoverInv, NEW r \in Requests, pc[r] # "idle",
           UNCHANGED <<docs, req>>, exists \subseteq exists',
           \A p \in Requests : p # r => pc'[p] = pc[p] /\ known'[p] = known[p] /\ answer'[p] = answer[p],
           Checked(r)' => known'[r] \subseteq docs[req[r].tenant],
           pc'[r] = "creating" => known'[r] = {} /\ OwnStored(r) = {},
           "read" \notin Faults /\ Served(r)' /\ Unpaged(r) => Covered(r)'
    PROVE  CoverInv'
  <1>1. CollectionsInv'
    BY DEF CoverInv, CollectionsInv
  <1>2. \A p \in Requests : OwnStored(p)' = OwnStored(p) /\ (Unpaged(p)' <=> Unpaged(p))
    BY DEF OwnStored, Unpaged
  <1>3. KnownStoredInv'
    BY DEF CoverInv, KnownStoredInv, Checked
  <1>4. NoCollectionInv'
    BY <1>2 DEF CoverInv, NoCollectionInv
  <1>5. CoveredInv'
    BY <1>2 DEF CoverInv, CoveredInv, Served, Covered
  <1> QED
    BY <1>1, <1>3, <1>4, <1>5 DEF CoverInv

\* The check takes down what is stored, or nothing when it fails.
LEMMA CheckCovers ==
    ASSUME TypeOK, IInv, CoverInv, NEW r \in Requests, GetMissingDates(r) \/ CheckFails(r)
    PROVE  CoverInv'
  <1>1. /\ pc[r] = "checking" /\ UNCHANGED <<docs, req, exists, answer>>
        /\ pc'[r] \in {"reading", "fetching"}
        /\ \A p \in Requests : p # r => pc'[p] = pc[p] /\ known'[p] = known[p]
        /\ known'[r] = docs[req[r].tenant] \/ known'[r] = known[r]
    BY DEF GetMissingDates, CheckFails, Proceed, TypeOK
  <1>2. known[r] = {}
    BY <1>1 DEF IInv, FreshInv, Checked
  <1> QED
    BY <1>1, <1>2, MoveCovers DEF Served

\* Fetching stores and answers nothing, unless the cache is ignored.
LEMMA FetchCovers ==
    ASSUME TypeOK, CoverInv, NEW r \in Requests,
           \/ \E run \in SUBSET Dates, lost \in SUBSET AccountScoped : FetchGroup(r, run, lost)
           \/ FetchFails(r) \/ InsertFails(r)
    PROVE  CoverInv'
  <1>1. /\ pc[r] \in {"fetching", "inserting"} /\ UNCHANGED <<docs, req, exists, known>>
        /\ pc'[r] \in {"fetching", "inserting", "reading", "failed", "done"}
        /\ pc'[r] = "done" => req[r].ignoreCache
        /\ \A p \in Requests : p # r => pc'[p] = pc[p] /\ answer'[p] = answer[p]
    <2>1. ASSUME NEW run \in SUBSET Dates, NEW lost \in SUBSET AccountScoped, FetchGroup(r, run, lost)
          PROVE  /\ pc[r] = "fetching" /\ UNCHANGED <<docs, req, exists, known>>
                 /\ pc'[r] \in {"fetching", "inserting", "reading", "done"}
                 /\ pc'[r] = "done" => req[r].ignoreCache
                 /\ \A p \in Requests : p # r => pc'[p] = pc[p] /\ answer'[p] = answer[p]
      <3>1. CASE pending[r] = run
        <4> PICK got : pc[r] = "fetching" /\ UNCHANGED <<docs, req, exists, known>> /\ AllFetched(r, got)
          BY <2>1, <3>1, Zenon DEF FetchGroup
        <4> QED
          BY DEF AllFetched, TypeOK
      <3>2. CASE pending[r] # run
        BY <2>1, <3>2 DEF FetchGroup
      <3> QED
        BY <3>1, <3>2
    <2>2. CASE FetchFails(r)
      BY <2>2 DEF FetchFails, TypeOK
    <2>3. CASE InsertFails(r)
      BY <2>3 DEF InsertFails, TypeOK
    <2> QED
      BY <2>1, <2>2, <2>3
  <1>2. known[r] \subseteq docs[req[r].tenant]
    BY <1>1 DEF CoverInv, KnownStoredInv, Checked
  <1> QED
    BY <1>1, <1>2, MoveCovers DEF Served

\* One document more: it is its request's own, and who has been answered stores none any more.
LEMMA InsertCovers ==
    ASSUME TypeOK, IInv, CoverInv, NEW r \in Requests, NEW x \in unsent[r], InsertOne(r, x)
    PROVE  CoverInv'
  <1> DEFINE t == req[r].tenant
  <1>1. /\ pc[r] = "inserting" /\ t \in Tenants /\ x.by = r
        /\ docs' = [docs EXCEPT ![t] = @ \cup {x}] /\ exists' = exists \cup {t}
        /\ UNCHANGED <<req, answer, known>>
        /\ pc'[r] \in {"inserting", "reading"}
        /\ \A p \in Requests : p # r => pc'[p] = pc[p]
    BY CheckedTenant DEF InsertOne, IInv, OwnInv, TypeOK
  <1> HIDE DEF t
  <1>2. /\ docs'[t] = docs[t] \cup {x}
        /\ \A u \in Tenants : u # t => docs'[u] = docs[u]
    BY <1>1 DEF TypeOK
  <1>3. \A u \in Tenants : /\ IsFiniteSet(docs'[u]) /\ docs[u] \subseteq docs'[u]
                           /\ Cardinality(docs[u]) <= Cardinality(docs'[u])
    <2> SUFFICES ASSUME NEW u \in Tenants
                 PROVE  /\ IsFiniteSet(docs'[u]) /\ docs[u] \subseteq docs'[u]
                        /\ Cardinality(docs[u]) <= Cardinality(docs'[u])
      OBVIOUS
    <2>1. IsFiniteSet(docs[u])
      BY DEF CoverInv, CollectionsInv
    <2>2. IsFiniteSet(docs'[u]) /\ docs[u] \subseteq docs'[u]
      BY <1>2, <2>1, FS_AddElement
    <2> QED
      BY <2>2, FS_Subset
  <1>4. CollectionsInv'
    BY <1>1, <1>2, <1>3 DEF CoverInv, CollectionsInv
  <1>5. \A p \in Requests : pc[p] # "idle" => req[p] \in RequestSpace /\ req[p].tenant \in Tenants
    BY CheckedTenant
  <1>6. KnownStoredInv'
    BY <1>1, <1>3, <1>5 DEF CoverInv, KnownStoredInv, Checked
  <1>7. \A p \in Requests : p # r /\ pc[p] # "idle" => OwnStored(p)' = OwnStored(p)
    BY <1>1, <1>2, <1>5 DEF OwnStored
  <1>8. NoCollectionInv'
    BY <1>1, <1>7 DEF CoverInv, NoCollectionInv
  <1>9. \A p \in Requests : pc[p] = "done" /\ Unpaged(p)' => Unpaged(p)
    <2> SUFFICES ASSUME NEW p \in Requests, pc[p] = "done", Unpaged(p)'
                 PROVE  Unpaged(p)
      OBVIOUS
    <2>1. req[p] \in Request /\ req[p].tenant \in Tenants
      BY <1>5, RequestFields
    <2>2. req[p].limit \in Nat
      BY <2>1 DEF Request
    <2>3. /\ Cardinality(docs[req[p].tenant]) \in Nat
          /\ Cardinality(docs'[req[p].tenant]) \in Nat
          /\ Cardinality(docs[req[p].tenant]) <= Cardinality(docs'[req[p].tenant])
      BY <1>3, <2>1, FS_CardinalityType DEF CoverInv, CollectionsInv
    <2> QED
      BY <1>1, <2>2, <2>3 DEF Unpaged
  <1>10. CoveredInv'
    <2> SUFFICES ASSUME "read" \notin Faults, NEW p \in Requests, Served(p)', Unpaged(p)'
                 PROVE  Covered(p)'
      BY DEF CoveredInv
    <2>1. p # r /\ pc[p] = "done" /\ Served(p)
      BY <1>1 DEF Served
    <2>2. Covered(p)
      BY <1>9, <2>1 DEF CoverInv, CoveredInv
    <2> QED
      BY <1>1, <1>7, <2>1, <2>2 DEF Covered
  <1> QED
    BY <1>4, <1>6, <1>8, <1>10 DEF CoverInv

\* Without a collection there is nothing stored that the request could know of.
LEMMA ListCovers ==
    ASSUME TypeOK, CoverInv, NEW r \in Requests, ListCollections(r)
    PROVE  CoverInv'
  <1>1. /\ pc[r] = "reading" /\ UNCHANGED <<docs, req, exists, known, answer>>
        /\ pc'[r] = IF req[r].tenant \in exists THEN "aggregating" ELSE "creating"
        /\ \A p \in Requests : p # r => pc'[p] = pc[p]
    BY DEF ListCollections, TypeOK
  <1>2. known[r] \subseteq docs[req[r].tenant] /\ req[r].tenant \in Tenants
    BY <1>1, CheckedTenant DEF CoverInv, KnownStoredInv, Checked
  <1>3. pc'[r] = "creating" => docs[req[r].tenant] = {}
    BY <1>1, <1>2 DEF CoverInv, CollectionsInv
  <1>4. pc'[r] = "creating" => known'[r] = {} /\ OwnStored(r) = {}
    BY <1>1, <1>2, <1>3 DEF OwnStored
  <1> QED
    BY <1>1, <1>2, <1>4, MoveCovers DEF Served

\* An unpaged answer is all that matches.
LEMMA UnpagedPage ==
    ASSUME NEW q \in Request, NEW stored, IsFiniteSet(stored),
           q.skip = 0, q.limit > 0, Cardinality(stored) <= q.limit,
           NEW page \in Pages(q, stored), NEW x \in stored, Matches(q, x)
    PROVE  x \in page
  <1> DEFINE matching == {y \in stored : Matches(q, y)}
  <1>1. /\ Cardinality(matching) <= Cardinality(stored)
        /\ Cardinality(matching) \in Nat /\ Cardinality(stored) \in Nat
    BY FS_Subset, FS_CardinalityType
  <1>2. q.limit \in Nat
    BY DEF Request
  <1>3. Cardinality(matching) <= q.limit
    BY <1>1, <1>2
  <1>4. page = matching
    BY <1>3 DEF Pages
  <1> QED
    BY <1>4

\* The page that is read holds all that the request knew and stored.
LEMMA AggregateCovers ==
    ASSUME TypeOK, CoverInv, NEW r \in Requests, Aggregate(r)
    PROVE  CoverInv'
  <1>1. PICK page \in Pages(req[r], docs[req[r].tenant]) : answer' = [answer EXCEPT ![r] = page]
    BY DEF Aggregate
  <1>2. /\ pc[r] = "aggregating" /\ pc'[r] = "done" /\ answer'[r] = page
        /\ UNCHANGED <<docs, req, exists, known>>
        /\ \A p \in Requests : p # r => pc'[p] = pc[p] /\ answer'[p] = answer[p]
    BY <1>1 DEF Aggregate, TypeOK
  <1>3. /\ known[r] \subseteq docs[req[r].tenant]
        /\ req[r].tenant \in Tenants /\ req[r] \in Request
    BY <1>2, CheckedTenant, RequestFields DEF CoverInv, KnownStoredInv, Checked
  <1>4. IsFiniteSet(docs[req[r].tenant])
    BY <1>3 DEF CoverInv, CollectionsInv
  <1>5. Unpaged(r) => \A x \in docs[req[r].tenant] : Matches(req[r], x) => x \in page
    BY <1>3, <1>4, UnpagedPage DEF Unpaged
  <1>6. Unpaged(r) => Covered(r)'
    BY <1>2, <1>3, <1>5 DEF Covered, OwnStored, Matches
  <1> QED
    BY <1>2, <1>3, <1>6, MoveCovers

\* The collection is created by now, or reading has failed, which the property excludes.
LEMMA EndCovers ==
    ASSUME TypeOK, CoverInv, NEW r \in Requests, CreateCollection(r) \/ ReadFails(r)
    PROVE  CoverInv'
  <1>1. /\ pc[r] # "idle" /\ Checked(r) /\ pc'[r] = "done"
        /\ UNCHANGED <<docs, req, known, answer>> /\ exists \subseteq exists'
        /\ \A p \in Requests : p # r => pc'[p] = pc[p]
    BY DEF CreateCollection, ReadFails, Checked, TypeOK
  <1>2. known[r] \subseteq docs[req[r].tenant]
    BY <1>1 DEF CoverInv, KnownStoredInv
  <1>3. "read" \notin Faults => Covered(r)'
    <2>1. "read" \notin Faults => known[r] = {} /\ OwnStored(r) = {}
      BY DEF CreateCollection, ReadFails, CoverInv, NoCollectionInv
    <2> QED
      BY <1>1, <2>1 DEF Covered, OwnStored
  <1> QED
    BY <1>1, <1>2, <1>3, MoveCovers

\* Usage that is billed and a request that arrives change nothing of it.
LEMMA OutsideCovers ==
    ASSUME TypeOK, CoverInv,
           \/ \E t \in Tenants, d \in Dates, s \in Sources : Publish(t, d, s)
           \/ \E r \in Requests, q \in RequestSpace : Arrive(r, q)
           \/ UNCHANGED vars
    PROVE  CoverInv'
  <1>1. /\ UNCHANGED <<docs, exists, known, answer>>
        /\ \A p \in Requests :
              (pc'[p] = pc[p] /\ req'[p] = req[p]) \/ pc'[p] = "checking"
    BY DEF Publish, Arrive, TypeOK, vars
  <1>2. \A p \in Requests : req'[p] = req[p] =>
           OwnStored(p)' = OwnStored(p) /\ (Unpaged(p)' <=> Unpaged(p)) /\ (Covered(p)' <=> Covered(p))
    BY <1>1 DEF OwnStored, Unpaged, Covered
  <1>3. CollectionsInv' /\ KnownStoredInv' /\ NoCollectionInv'
    BY <1>1, <1>2 DEF CoverInv, CollectionsInv, KnownStoredInv, NoCollectionInv, Checked
  <1>4. CoveredInv'
    BY <1>1, <1>2 DEF CoverInv, CoveredInv, Served
  <1> QED
    BY <1>3, <1>4 DEF CoverInv

LEMMA CoverInvHolds == Spec => []CoverInv
  <1>1. Init => CoverInv
    BY FS_EmptySet DEF Init, CoverInv, CollectionsInv, KnownStoredInv, NoCollectionInv, CoveredInv, Checked, Served
  <1>2. TypeOK /\ IInv /\ CoverInv /\ [Next]_vars => CoverInv'
    BY CheckCovers, FetchCovers, InsertCovers, ListCovers, AggregateCovers, EndCovers, OutsideCovers
    DEF Next, Step
  <1> QED
    BY <1>1, <1>2, TypeCorrect, IInvHolds, PTL DEF Spec

(* An unpaged answer holds every matching estimate that was stored when its *)
(* request checked for missing dates, and all it has stored itself, whatever*)
(* runs beside it and fails, except reading the answer                      *)
(* (MongoDbCacheManager.ts, getMissingDates to getEstimates).               *)
THEOREM AnswerCoversSeenHolds == Spec => []AnswerCoversSeen
  <1>1. IInv /\ CoverInv => AnswerCoversSeen
    BY DEF IInv, OwnInv, CoverInv, CoveredInv, Covered, OwnStored, AnswerCoversSeen
  <1> QED
    BY <1>1, IInvHolds, CoverInvHolds, PTL

-----------------------------------------------------------------------------
(* What a request fetches and stores is of the sources it asks for.         *)

ScopeInv ==
    /\ \A r \in Requests : \A x \in fetched[r] \cup unsent[r] : x.src \in FetchScope(req[r])
    /\ \A t \in Tenants : \A x \in docs[t] : x.by \in Requests /\ x.src \in FetchScope(req[x.by])

\* A request that arrives has nothing fetched or stored that its parameters could belie.
LEMMA ArriveScope ==
    ASSUME TypeOK, IInv, ScopeInv, NEW r \in Requests, NEW q \in RequestSpace, Arrive(r, q)
    PROVE  ScopeInv'
  <1>1. /\ UNCHANGED <<docs, fetched, unsent>>
        /\ \A p \in Requests : p # r => req'[p] = req[p]
        /\ ~Checked(r)
    BY DEF Arrive, Checked, TypeOK
  <1>2. fetched[r] = {} /\ unsent[r] = {} /\ \A t \in Tenants : \A x \in docs[t] : x.by # r
    BY <1>1 DEF IInv, FreshInv
  <1> QED
    BY <1>1, <1>2 DEF ScopeInv

\* A sub-request returns estimates of the sources that are asked, and all of them are to be stored.
LEMMA FetchScoped ==
    ASSUME TypeOK, ScopeInv, NEW r \in Requests,
           NEW run \in SUBSET Dates, NEW lost \in SUBSET AccountScoped, FetchGroup(r, run, lost)
    PROVE  ScopeInv'
  <1> DEFINE got == fetched[r] \cup Estimates(r, run, FetchScope(req[r]) \ lost)
  <1>1. /\ fetched' = [fetched EXCEPT ![r] = got] /\ UNCHANGED <<docs, req, missing>>
        /\ AllFetched(r, got) \/ UNCHANGED <<pc, unsent, answer>>
    BY DEF FetchGroup
  <1>2. \A x \in got : x.src \in FetchScope(req[r])
    BY DEF Estimates, ScopeInv
  <1> HIDE DEF got
  <1>3. UNION {FillDates(missing[r], got)[d] : d \in DOMAIN FillDates(missing[r], got)} = got
    BY FillDatesKeepsAll
  <1>4. /\ unsent'[r] \subseteq got \cup unsent[r]
        /\ \A p \in Requests : p # r => unsent'[p] = unsent[p]
    BY <1>1, <1>3 DEF AllFetched, TypeOK
  <1>5. fetched'[r] = got /\ \A p \in Requests : p # r => fetched'[p] = fetched[p]
    BY <1>1 DEF TypeOK
  <1> QED
    BY <1>1, <1>2, <1>4, <1>5 DEF ScopeInv

\* A document that is stored was fetched.
LEMMA InsertScope ==
    ASSUME TypeOK, IInv, ScopeInv, NEW r \in Requests, NEW x \in unsent[r], InsertOne(r, x)
    PROVE  ScopeInv'
  <1>1. /\ UNCHANGED <<req, fetched>>
        /\ \A p \in Requests : unsent'[p] \subseteq unsent[p]
        /\ \A t \in Tenants : docs'[t] \subseteq docs[t] \cup {x}
    BY DEF InsertOne, TypeOK
  <1>2. x.by = r /\ x.src \in FetchScope(req[r])
    BY DEF IInv, OwnInv, ScopeInv
  <1> QED
    BY <1>1, <1>2 DEF ScopeInv

LEMMA ScopeInvHolds == Spec => []ScopeInv
  <1>1. Init => ScopeInv
    BY DEF Init, ScopeInv
  <1>2. TypeOK /\ IInv /\ ScopeInv /\ [Next]_vars => ScopeInv'
    <2> SUFFICES ASSUME TypeOK, IInv, ScopeInv, [Next]_vars
                 PROVE  ScopeInv'
      OBVIOUS
    <2>1. ASSUME UNCHANGED <<docs, req, fetched>>, \A p \in Requests : unsent'[p] \subseteq unsent[p]
          PROVE  ScopeInv'
      BY <2>1 DEF ScopeInv
    <2>2. ASSUME NEW r \in Requests, Step(r)
          PROVE  ScopeInv'
      <3>1. CASE GetMissingDates(r) \/ CheckFails(r)
        BY <2>1, <3>1 DEF GetMissingDates, CheckFails, Proceed
      <3>2. CASE FetchFails(r) \/ ListCollections(r) \/ Aggregate(r) \/ CreateCollection(r) \/ ReadFails(r)
        BY <2>1, <3>2 DEF FetchFails, ListCollections, Aggregate, CreateCollection, ReadFails
      <3>3. CASE InsertFails(r)
        BY <2>1, <3>3 DEF InsertFails, TypeOK
      <3> QED
        BY <2>2, <3>1, <3>2, <3>3, FetchScoped, InsertScope DEF Step
    <2>3. CASE \E t \in Tenants, d \in Dates, s \in Sources : Publish(t, d, s)
      BY <2>1, <2>3 DEF Publish
    <2>4. CASE UNCHANGED vars
      BY <2>1, <2>4 DEF vars
    <2> QED
      BY <2>2, <2>3, <2>4, ArriveScope DEF Next
  <1> QED
    BY <1>1, <1>2, TypeCorrect, IInvHolds, PTL DEF Spec

(* A request that seeds a provider stores no date and source it had seen    *)
(* stored (includeCloudProviders and getMissingDates).                      *)
THEOREM SeedAppendsOnlyMissingHolds == Spec => []SeedAppendsOnlyMissing
  <1>1. IInv /\ ScopeInv => SeedAppendsOnlyMissing
    <2> SUFFICES ASSUME IInv, ScopeInv, NEW t \in Tenants, NEW x \in docs[t], NEW y \in docs[t],
                        req[y.by].seed # NoSeed, req[y.by].asStored, ProviderOf[y.src] \in Seedable,
                        x.date = y.date, x.src = y.src, x \in known[y.by]
                 PROVE  FALSE
      BY DEF SeedAppendsOnlyMissing
    <2>1. ProviderOf[y.src] = req[y.by].seed
      BY DEF ScopeInv, FetchScope
    <2>2. y.date \in CachedDates(req[y.by], known[y.by])
      BY <2>1 DEF CachedDates, CountsAsCached
    <2> QED
      BY <2>2 DEF IInv, NoRewriteOfSeen
  <1> QED
    BY <1>1, IInvHolds, ScopeInvHolds, PTL
-----------------------------------------------------------------------------
(* What a request that is past its fetch holds, while usage is closed and   *)
(* only fetches and inserts may fail.                                       *)

Settled == LateDates = {} /\ "drop" \notin Faults /\ "check" \notin Faults

\* r is past its fetch.
Fetched(r) == pc[r] \notin {"idle", "checking", "fetching", "failed"}

\* Of the missing dates no sub-request is out for, every estimate has been fetched.
FetchedInv ==
    \A r \in Requests :
        /\ Fetched(r) => pending[r] = {}
        /\ Checked(r) => \A d \in missing[r] \ pending[r], s \in FetchScope(req[r]) :
              Used(r, d, s) => \E x \in fetched[r] : x.date = d /\ x.src = s

\* The missing dates are exactly those that were not cached.
MissingExactInv ==
    \A r \in Requests : Checked(r) /\ ~req[r].ignoreCache =>
        missing[r] = DatesMissing(CachedDates(req[r], known[r]), req[r])

\* What is stored was fetched by its request.
StoredInv ==
    /\ \A r \in Requests : unsent[r] \subseteq fetched[r]
    /\ \A t \in Tenants : \A x \in docs[t] : Fetched(x.by) /\ x \in fetched[x.by]

WholeInv == FetchedInv /\ MissingExactInv /\ StoredInv

LEMMA UsageFixed ==
    ASSUME Settled, [Next]_vars
    PROVE  usage' = usage
  <1>1. ASSUME NEW r \in Requests, Step(r) PROVE usage' = usage
    BY <1>1 DEF Step, GetMissingDates, CheckFails, Proceed, FetchGroup, FetchFails, InsertOne, InsertFails,
                ListCollections, Aggregate, CreateCollection, ReadFails
  <1> QED
    BY <1>1 DEF Settled, Next, Publish, Arrive, vars

\* A step that only moves a request on.
LEMMA MoveWhole ==
    ASSUME TypeOK, WholeInv, NEW r \in Requests,
           UNCHANGED <<usage, docs, req, missing, pending, fetched, known>>,
           \A p \in Requests : unsent'[p] \subseteq unsent[p],
           \A p \in Requests : p # r => pc'[p] = pc[p],
           Fetched(r)' <=> Fetched(r), Checked(r)' <=> Checked(r)
    PROVE  WholeInv'
  <1>1. \A p \in Requests : (Fetched(p)' <=> Fetched(p)) /\ (Checked(p)' <=> Checked(p))
    BY DEF Fetched, Checked
  <1>2. FetchedInv'
    BY <1>1 DEF WholeInv, FetchedInv, Used
  <1>3. MissingExactInv'
    BY <1>1 DEF WholeInv, MissingExactInv
  <1>4. StoredInv'
    <2>1. \A t \in Tenants : \A x \in docs[t] : x.by \in Requests /\ Fetched(x.by)
      BY DEF WholeInv, StoredInv, TypeOK, Doc
    <2> QED
      BY <1>1, <2>1 DEF WholeInv, StoredInv
  <1> QED
    BY <1>2, <1>3, <1>4 DEF WholeInv

LEMMA CheckWhole ==
    ASSUME TypeOK, IInv, WholeInv, NEW r \in Requests, GetMissingDates(r)
    PROVE  WholeInv'
  <1>1. PICK dates :
            /\ pc[r] = "checking" /\ UNCHANGED <<usage, docs, req, fetched, unsent>>
            /\ missing' = [missing EXCEPT ![r] = dates] /\ pending' = [pending EXCEPT ![r] = dates]
            /\ pc' = [pc EXCEPT ![r] = IF dates = {} THEN "reading" ELSE "fetching"]
            /\ known' = [known EXCEPT ![r] = docs[req[r].tenant]]
            /\ ~req[r].ignoreCache => dates = DatesMissing(CachedDates(req[r], docs[req[r].tenant]), req[r])
    BY DEF GetMissingDates, Proceed
  <1>2. /\ missing'[r] = dates /\ pending'[r] = dates /\ known'[r] = docs[req[r].tenant]
        /\ pc'[r] = IF dates = {} THEN "reading" ELSE "fetching"
        /\ \A p \in Requests : p # r =>
              pc'[p] = pc[p] /\ missing'[p] = missing[p] /\ pending'[p] = pending[p] /\ known'[p] = known[p]
    BY <1>1 DEF TypeOK
  <1>3. FetchedInv'
    <2> SUFFICES ASSUME NEW p \in Requests
                 PROVE  /\ Fetched(p)' => pending'[p] = {}
                        /\ Checked(p)' => \A d \in missing'[p] \ pending'[p], s \in FetchScope(req[p]) :
                              Used(p, d, s) => \E x \in fetched[p] : x.date = d /\ x.src = s
      BY <1>1 DEF FetchedInv, Used
    <2>1. CASE p # r
      BY <1>2, <2>1 DEF WholeInv, FetchedInv, Fetched, Checked
    <2>2. CASE p = r
      BY <1>2, <2>2 DEF Fetched
    <2> QED
      BY <2>1, <2>2
  <1>4. MissingExactInv'
    BY <1>1, <1>2 DEF WholeInv, MissingExactInv, Checked
  <1>5. StoredInv'
    <2>1. ASSUME NEW t \in Tenants, NEW x \in docs[t]
          PROVE  Fetched(x.by)'
      <3>1. Fetched(x.by) /\ x.by # r /\ x.by \in Requests
        BY <1>1, <2>1 DEF WholeInv, StoredInv, Fetched, TypeOK, Doc
      <3> QED
        BY <1>2, <3>1 DEF Fetched
    <2> QED
      BY <1>1, <2>1 DEF WholeInv, StoredInv
  <1> QED
    BY <1>3, <1>4, <1>5 DEF WholeInv

\* A sub-request that answers brings every estimate of its dates.
LEMMA FetchWhole ==
    ASSUME Settled, TypeOK, IInv, WholeInv, NEW r \in Requests,
           NEW run \in SUBSET Dates, NEW lost \in SUBSET AccountScoped, FetchGroup(r, run, lost)
    PROVE  WholeInv'
  <1> DEFINE got == fetched[r] \cup Estimates(r, run, FetchScope(req[r]))
  <1>1. /\ pc[r] = "fetching" /\ UNCHANGED <<usage, docs, req, missing, known>>
        /\ fetched' = [fetched EXCEPT ![r] = got]
        /\ pending' = [pending EXCEPT ![r] = @ \ run]
        /\ IF pending[r] = run THEN AllFetched(r, got) ELSE UNCHANGED <<pc, unsent, answer>>
    <2>1. FetchScope(req[r]) \ lost = FetchScope(req[r])
      BY DEF FetchGroup, Settled
    <2> QED
      BY <2>1 DEF FetchGroup
  <1>2. \A d \in run, s \in FetchScope(req[r]) :
            Used(r, d, s) => \E x \in got : x.date = d /\ x.src = s
    <2> SUFFICES ASSUME NEW d \in run, NEW s \in FetchScope(req[r]), Used(r, d, s)
                 PROVE  \E x \in got : x.date = d /\ x.src = s
      OBVIOUS
    <2> DEFINE x == [date |-> d, src |-> s, ver |-> usage[req[r].tenant][d][s], by |-> r]
    <2>1. req[r].tenant \in Tenants /\ d \in Dates /\ s \in Sources
      BY <1>1, CheckedTenant DEF FetchScope
    <2>2. usage[req[r].tenant][d][s] \in Versions
      BY <2>1 DEF TypeOK
    <2>3. x \in Doc /\ x.date = d /\ x.src = s /\ x.by = r /\ x.ver = usage[req[r].tenant][d][s]
      BY <2>1, <2>2 DEF Doc
    <2> HIDE DEF x
    <2>4. x \in Estimates(r, run, FetchScope(req[r]))
      BY <2>3 DEF Estimates, Used
    <2> QED
      BY <2>3, <2>4
  <1>3. fetched[r] \subseteq got
    OBVIOUS
  <1>4. UNION {FillDates(missing[r], got)[d] : d \in DOMAIN FillDates(missing[r], got)} = got
    BY FillDatesKeepsAll
  <1> HIDE DEF got
  <1>5. /\ fetched'[r] = got /\ pending'[r] = pending[r] \ run
        /\ \A p \in Requests : p # r =>
              pc'[p] = pc[p] /\ unsent'[p] = unsent[p] /\ fetched'[p] = fetched[p] /\ pending'[p] = pending[p]
        /\ pc'[r] # "fetching" => pending[r] = run
        /\ pc'[r] \in {"fetching", "done", "reading", "inserting"}
        /\ unsent'[r] \subseteq got \cup unsent[r]
    BY <1>1, <1>4 DEF AllFetched, TypeOK
  <1>6. FetchedInv'
    <2> SUFFICES ASSUME NEW p \in Requests
                 PROVE  /\ Fetched(p)' => pending'[p] = {}
                        /\ Checked(p)' => \A d \in missing[p] \ pending'[p], s \in FetchScope(req[p]) :
                              Used(p, d, s) => \E x \in fetched'[p] : x.date = d /\ x.src = s
      BY <1>1 DEF FetchedInv, Used
    <2>1. CASE p # r
      BY <1>5, <2>1 DEF WholeInv, FetchedInv, Fetched, Checked
    <2>2. CASE p = r
      <3>1. \A d \in missing[r] \ (pending[r] \ run), s \in FetchScope(req[r]) :
                Used(r, d, s) => \E x \in got : x.date = d /\ x.src = s
        BY <1>1, <1>2, <1>3 DEF WholeInv, FetchedInv, Checked
      <3>2. Fetched(r)' => pending'[r] = {}
        BY <1>5 DEF Fetched
      <3> QED
        BY <1>5, <2>2, <3>1, <3>2
    <2> QED
      BY <2>1, <2>2
  <1>7. MissingExactInv'
    BY <1>1, <1>5 DEF WholeInv, MissingExactInv, Checked
  <1>8. StoredInv'
    <2>1. ASSUME NEW t \in Tenants, NEW x \in docs[t]
          PROVE  Fetched(x.by)' /\ x \in fetched'[x.by]
      <3>1. Fetched(x.by) /\ x \in fetched[x.by] /\ x.by # r /\ x.by \in Requests
        BY <1>1, <2>1 DEF WholeInv, StoredInv, Fetched, TypeOK, Doc
      <3> QED
        BY <1>5, <3>1 DEF Fetched
    <2>2. \A p \in Requests : unsent'[p] \subseteq fetched'[p]
      BY <1>3, <1>5 DEF WholeInv, StoredInv
    <2> QED
      BY <1>1, <2>1, <2>2 DEF StoredInv
  <1> QED
    BY <1>6, <1>7, <1>8 DEF WholeInv

LEMMA InsertWhole ==
    ASSUME TypeOK, IInv, WholeInv, NEW r \in Requests, NEW x \in unsent[r], InsertOne(r, x)
    PROVE  WholeInv'
  <1>1. /\ pc[r] = "inserting" /\ UNCHANGED <<usage, req, missing, pending, fetched, known>>
        /\ pc'[r] \in {"inserting", "reading"}
        /\ \A p \in Requests : p # r => pc'[p] = pc[p]
        /\ \A p \in Requests : unsent'[p] \subseteq unsent[p]
        /\ \A t \in Tenants : docs'[t] \subseteq docs[t] \cup {x}
    BY DEF InsertOne, TypeOK
  <1>2. \A p \in Requests : (Fetched(p)' <=> Fetched(p)) /\ (Checked(p)' <=> Checked(p))
    BY <1>1 DEF Fetched, Checked
  <1>3. FetchedInv'
    BY <1>1, <1>2 DEF WholeInv, FetchedInv, Used
  <1>4. MissingExactInv'
    BY <1>1, <1>2 DEF WholeInv, MissingExactInv
  <1>5. StoredInv'
    <2>1. x.by = r /\ x \in fetched[r] /\ Fetched(r)'
      BY <1>1 DEF IInv, OwnInv, WholeInv, StoredInv, Fetched
    <2>2. \A t \in Tenants : \A y \in docs[t] : y.by \in Requests /\ Fetched(y.by)
      BY DEF WholeInv, StoredInv, TypeOK, Doc
    <2> QED
      BY <1>1, <1>2, <2>1, <2>2 DEF WholeInv, StoredInv
  <1> QED
    BY <1>3, <1>4, <1>5 DEF WholeInv

LEMMA ArriveWhole ==
    ASSUME TypeOK, IInv, WholeInv, NEW r \in Requests, NEW q \in RequestSpace, Arrive(r, q)
    PROVE  WholeInv'
  <1>1. /\ pc[r] = "idle" /\ pc'[r] = "checking"
        /\ UNCHANGED <<usage, docs, missing, pending, fetched, unsent, known>>
        /\ \A p \in Requests : p # r => pc'[p] = pc[p] /\ req'[p] = req[p]
    BY DEF Arrive, TypeOK
  <1>2. FetchedInv'
    BY <1>1 DEF WholeInv, FetchedInv, Used, Fetched, Checked
  <1>3. MissingExactInv'
    BY <1>1 DEF WholeInv, MissingExactInv, Checked
  <1>4. StoredInv'
    <2>1. ASSUME NEW t \in Tenants, NEW x \in docs[t]
          PROVE  Fetched(x.by)'
      <3>1. Fetched(x.by) /\ x.by # r /\ x.by \in Requests
        BY <1>1, <2>1 DEF WholeInv, StoredInv, Fetched, TypeOK, Doc
      <3> QED
        BY <1>1, <3>1 DEF Fetched
    <2> QED
      BY <1>1, <2>1 DEF WholeInv, StoredInv
  <1> QED
    BY <1>2, <1>3, <1>4 DEF WholeInv

LEMMA StepWhole ==
    ASSUME Settled, TypeOK, IInv, WholeInv, NEW r \in Requests, Step(r)
    PROVE  WholeInv'
  <1>1. CASE GetMissingDates(r)
    BY <1>1, CheckWhole
  <1>2. ~CheckFails(r)
    BY DEF CheckFails, Settled
  <1>3. ASSUME NEW run \in SUBSET Dates, NEW lost \in SUBSET AccountScoped, FetchGroup(r, run, lost)
        PROVE  WholeInv'
    BY <1>3, FetchWhole
  <1>4. ASSUME NEW x \in unsent[r], InsertOne(r, x)
        PROVE  WholeInv'
    BY <1>4, InsertWhole
  <1>5. CASE FetchFails(r) \/ InsertFails(r) \/ ListCollections(r) \/ Aggregate(r) \/ CreateCollection(r) \/ ReadFails(r)
    <2>1. /\ UNCHANGED <<usage, docs, req, missing, pending, fetched, known>>
          /\ \A p \in Requests : unsent'[p] \subseteq unsent[p]
          /\ \A p \in Requests : p # r => pc'[p] = pc[p]
          /\ \/ pc[r] = "fetching" /\ pc'[r] = "failed"
             \/ pc[r] \in {"inserting", "reading", "aggregating", "creating"}
                /\ pc'[r] \in {"reading", "aggregating", "creating", "done"}
      BY <1>5 DEF FetchFails, InsertFails, ListCollections, Aggregate, CreateCollection, ReadFails, TypeOK
    <2>2. (Fetched(r)' <=> Fetched(r)) /\ (Checked(r)' <=> Checked(r))
      BY <2>1 DEF Fetched, Checked
    <2> QED
      BY <2>1, <2>2, MoveWhole
  <1> QED
    BY <1>1, <1>2, <1>3, <1>4, <1>5 DEF Step

LEMMA WholeInvHolds ==
    ASSUME Settled
    PROVE  Spec => []WholeInv
  <1>1. Init => WholeInv
    BY DEF Init, WholeInv, FetchedInv, MissingExactInv, StoredInv, Fetched, Checked
  <1>2. TypeOK /\ IInv /\ WholeInv /\ [Next]_vars => WholeInv'
    <2> SUFFICES ASSUME TypeOK, IInv, WholeInv, [Next]_vars
                 PROVE  WholeInv'
      OBVIOUS
    <2>1. CASE \E t \in Tenants, d \in Dates, s \in Sources : Publish(t, d, s)
      BY <2>1 DEF Publish, Settled
    <2>2. CASE UNCHANGED vars
      BY <2>2 DEF vars, WholeInv, FetchedInv, MissingExactInv, StoredInv, Fetched, Checked, Used
    <2> QED
      BY <2>1, <2>2, ArriveWhole, StepWhole DEF Next
  <1> QED
    BY <1>1, <1>2, TypeCorrect, IInvHolds, PTL DEF Spec

-----------------------------------------------------------------------------
(* Which estimates can be missing.                                          *)

\* Every request selects every source the accounts parameter can select.
AllAccounts == \A q \in RequestSpace : AccountScoped \subseteq q.accounts

\* What a request seeds is among what it fetches; without seeding it fetches everything.
LEMMA ScopeOf ==
    ASSUME AllAccounts, NEW q \in RequestSpace, NEW s \in Sources,
           q.seed = NoSeed \/ ProviderOf[s] = q.seed \/ ProviderOf[s] \notin Seedable
    PROVE  s \in FetchScope(q)
  BY DEF AllAccounts, FetchScope

(* A request knows a document of a date: it knows its provider's others, or *)
(* the date is torn.                                                        *)
LEMMA KnownOrTorn ==
    ASSUME TypeOK, IInv, CoverInv, ScopeInv, WholeInv, AllAccounts,
           NEW r \in Requests, Fetched(r), NEW x \in known[r],
           NEW s \in Sources, Used(r, x.date, s),
           req[x.by].seed = NoSeed \/ ProviderOf[s] = ProviderOf[x.src]
    PROVE  \E y \in fetched[x.by] : y.date = x.date /\ y.src = s
  <1>1. req[r].tenant \in Tenants /\ x \in docs[req[r].tenant]
    BY CheckedTenant DEF Fetched, Checked, CoverInv, KnownStoredInv
  <1>2. /\ x.by \in Requests /\ Fetched(x.by) /\ x \in fetched[x.by]
        /\ req[x.by].tenant = req[r].tenant /\ x.src \in FetchScope(req[x.by])
    BY <1>1 DEF WholeInv, StoredInv, IInv, Genuine, ScopeInv
  <1>3. x.date \in missing[x.by] /\ pending[x.by] = {} /\ Checked(x.by)
    BY <1>2 DEF IInv, OwnInv, WholeInv, FetchedInv, Fetched, Checked
  <1>4. req[x.by] \in RequestSpace
    BY <1>2 DEF TypeOK, Fetched
  <1>5. s \in FetchScope(req[x.by])
    BY <1>2, <1>4, ScopeOf DEF FetchScope
  <1>6. Used(x.by, x.date, s)
    BY <1>2 DEF Used
  <1> QED
    BY <1>2, <1>3, <1>5, <1>6 DEF WholeInv, FetchedInv

(* The only estimates a plain, unpaged answer can lack are of a date that   *)
(* was stored in part, for one provider, or fetched and not stored, once    *)
(* usage is closed, every request selects all accounts, and the check and   *)
(* the read succeed (getMissingDates, insertMany and getEstimates of        *)
(* MongoDbCacheManager.ts).                                                 *)
THEOREM IncompleteOnlyIfTornHolds ==
    ASSUME Settled, "read" \notin Faults, AllAccounts
    PROVE  Spec => []IncompleteOnlyIfTorn
  <1>1. TypeOK /\ IInv /\ CoverInv /\ ScopeInv /\ WholeInv /\ AnswerCoversSeen => IncompleteOnlyIfTorn
    <2> SUFFICES ASSUME TypeOK, IInv, CoverInv, ScopeInv, WholeInv, AnswerCoversSeen,
                        NEW r \in Requests, Served(r), Unpaged(r), req[r].seed = NoSeed,
                        NEW d \in DatesWithinRequestTimeFrame(req[r]), NEW s \in req[r].accounts,
                        Used(r, d, s), ~Torn(r, d), ~SeededOnly(r, d), ~Unstored(r, d)
                 PROVE  Answers(r, d, s)
      <3>1. ASSUME NEW r \in Requests, NEW ds \in Requested(r)
            PROVE  ds[1] \in DatesWithinRequestTimeFrame(req[r]) /\ ds[2] \in req[r].accounts
        BY <3>1 DEF Requested
      <3> QED
        BY <3>1 DEF IncompleteOnlyIfTorn
    <2>1. /\ pc[r] = "done" /\ ~req[r].ignoreCache /\ Fetched(r) /\ Checked(r)
          /\ req[r] \in RequestSpace /\ req[r] \in Request /\ req[r].tenant \in Tenants
      BY RequestFields, CheckedTenant DEF Served, Fetched, Checked, TypeOK
    <2>2. s \in Sources
      BY <2>1 DEF Request
    <2>3. ASSUME NEW x \in known[r] \cup (fetched[r] \cap docs[req[r].tenant]), x.date = d, x.src = s
          PROVE  Answers(r, d, s)
      <3>1. Matches(req[r], x)
        BY <2>3 DEF Matches
      <3>2. x \in answer[r]
        BY <2>3, <3>1 DEF AnswerCoversSeen
      <3> QED
        BY <2>3, <3>2 DEF Answers
    <2>4. CASE d \in missing[r]
      <3>1. pending[r] = {} /\ s \in FetchScope(req[r])
        BY <2>1, <2>2, ScopeOf DEF WholeInv, FetchedInv
      <3>2. PICK x \in fetched[r] : x.date = d /\ x.src = s
        BY <2>1, <2>4, <3>1 DEF WholeInv, FetchedInv
      <3>3. x \in docs[req[r].tenant]
        BY <3>2 DEF Unstored
      <3> QED
        BY <2>3, <3>2, <3>3
    <2>5. CASE d \notin missing[r]
      <3>1. d \in CachedDates(req[r], known[r])
        BY <2>1, <2>5 DEF WholeInv, MissingExactInv, DatesMissing
      <3>2. PICK x \in known[r] : x.date = d
        BY <3>1 DEF CachedDates
      <3>3. req[x.by].seed = NoSeed
        BY <3>2 DEF SeededOnly
      <3>4. PICK y \in fetched[x.by] : y.date = d /\ y.src = s
        BY <2>1, <2>2, <3>2, <3>3, KnownOrTorn
      <3>5. y \in known[r]
        BY <3>2, <3>4 DEF Torn
      <3> QED
        BY <2>3, <3>4, <3>5
    <2> QED
      BY <2>4, <2>5
  <1> QED
    BY <1>1, TypeCorrect, IInvHolds, CoverInvHolds, ScopeInvHolds, WholeInvHolds, AnswerCoversSeenHolds, PTL

(* Seeding a provider leaves every requested date that it has usage on      *)
(* stored, unless storing failed or the provider's estimates of the date    *)
(* were seen in part: under the same conditions, the read apart             *)
(* (seedCacheFile.ts, over includeCloudProviders and getMissingDates).      *)
THEOREM SeedCoversHolds ==
    ASSUME Settled, AllAccounts
    PROVE  Spec => []SeedCovers
  <1>1. TypeOK /\ IInv /\ CoverInv /\ ScopeInv /\ WholeInv => SeedCovers
    <2> SUFFICES ASSUME TypeOK, IInv, CoverInv, ScopeInv, WholeInv,
                        NEW r \in Requests, Served(r), req[r].seed # NoSeed,
                        NEW d \in DatesWithinRequestTimeFrame(req[r]), NEW s \in Sources,
                        ProviderOf[s] = req[r].seed, Used(r, d, s),
                        ~Unstored(r, d), ~TornOf(r, d, req[r].seed)
                 PROVE  \E x \in docs[req[r].tenant] : x.date = d /\ x.src = s
      BY DEF SeedCovers
    <2>1. /\ pc[r] = "done" /\ ~req[r].ignoreCache /\ Fetched(r) /\ Checked(r)
          /\ req[r] \in RequestSpace /\ req[r].tenant \in Tenants
      BY CheckedTenant DEF Served, Fetched, Checked, TypeOK
    <2>2. CASE d \in missing[r]
      <3>1. pending[r] = {} /\ s \in FetchScope(req[r])
        BY <2>1, ScopeOf DEF WholeInv, FetchedInv
      <3>2. PICK x \in fetched[r] : x.date = d /\ x.src = s
        BY <2>1, <2>2, <3>1 DEF WholeInv, FetchedInv
      <3> QED
        BY <3>2 DEF Unstored
    <2>3. CASE d \notin missing[r]
      <3>1. d \in CachedDates(req[r], known[r])
        BY <2>1, <2>3 DEF WholeInv, MissingExactInv, DatesMissing
      <3>2. PICK x \in known[r] : x.date = d /\ ProviderOf[x.src] = req[r].seed
        BY <3>1 DEF CachedDates, CountsAsCached
      <3>3. PICK y \in fetched[x.by] : y.date = d /\ y.src = s
        BY <2>1, <3>2, KnownOrTorn
      <3>4. y \in known[r]
        BY <3>2, <3>3 DEF TornOf
      <3> QED
        BY <2>1, <3>3, <3>4 DEF CoverInv, KnownStoredInv
    <2> QED
      BY <2>2, <2>3
  <1> QED
    BY <1>1, TypeCorrect, IInvHolds, CoverInvHolds, ScopeInvHolds, WholeInvHolds, PTL
================================================================================
