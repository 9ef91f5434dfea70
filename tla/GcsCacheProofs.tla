----------------------------- MODULE GcsCacheProofs -----------------------------
(***************************************************************************)
(* Theorems about GcsCache, for every number of requests, groupings and    *)
(* dates, every length of the periods and every set of faults.             *)
(***************************************************************************)
EXTENDS GcsCache, ListManagerProofs

-----------------------------------------------------------------------------
(* Who runs, and what is stored.                                            *)

\* An upload belongs to a request that is answered, with nothing it does not hold.
UploadInv ==
    \A r \in Requests :
        /\ pc[r] = "download" => object[req[r].grp] # NoFile
        /\ uploads[r] # NoFile => pc[r] = "done" /\ Range(answer[r]) \subseteq Range(uploads[r])

StateInv == ManagerInv /\ TypeOK /\ UploadInv

\* The requests that look for missing dates, and what they look through.
FindsFrom(r, entries) ==
    /\ r \in InFlight /\ pc[r] # "fetch"
    /\ FindMissingDates(r, entries)
    /\ entries = <<>> \/ entries = StoredEntries(req[r].grp)
    /\ object' = object \/ object' = [object EXCEPT ![req[r].grp] = <<>>]
    /\ UNCHANGED <<usage, req, crashes, overlapped, uploads>>

LEMMA StoredType ==
    ASSUME TypeOK, NEW g \in Groupings
    PROVE  StoredEntries(g) \in Seq(Entry)
  BY DEF TypeOK, StoredEntries

LEMMA FindingSteps ==
    ASSUME StateInv, NEW r \in Requests, SaveEmpty(r) \/ Download(r) \/ AccessFails(r)
    PROVE  \E entries \in Seq(Entry) : FindsFrom(r, entries)
  <1>1. r \in InFlight /\ pc[r] # "fetch"
    BY DEF SaveEmpty, Download, AccessFails, InFlight
  <1>2. req[r].grp \in Groupings
    BY <1>1, InFlightAsks DEF StateInv
  <1>3. <<>> \in Seq(Entry) /\ StoredEntries(req[r].grp) \in Seq(Entry)
    BY <1>2, StoredType DEF StateInv
  <1>4. CASE SaveEmpty(r)
    BY <1>1, <1>3, <1>4 DEF SaveEmpty, FindsFrom
  <1>5. CASE Download(r)
    <2>1. object[req[r].grp] = StoredEntries(req[r].grp)
      BY <1>5 DEF Download, StateInv, UploadInv, StoredEntries
    <2> QED
      BY <1>1, <1>3, <1>5, <2>1 DEF Download, FindsFrom
  <1>6. CASE AccessFails(r)
    BY <1>1, <1>3, <1>6 DEF AccessFails, FindsFrom
  <1> QED
    BY <1>4, <1>5, <1>6

\* A request that stores: what it persists, uploads and is answered with.
Stores(r, persist, list) ==
    /\ r \in InFlight /\ pc[r] = "fetch" /\ ~req[r].ignoreCache
    /\ persist = ToPersist(r, AllFetched(r))
    /\ OfDifferentDates(persist)
    /\ AllFetched(r) \subseteq Range(persist)
    /\ \A e \in Range(persist) : /\ e.grp = req[r].grp /\ e.date \in call[r].missing
                                 /\ Genuine(usage, e)
    /\ fetchedEstimates' = persist /\ cachedEstimates' = cachedEstimates
    /\ uploads' = [uploads EXCEPT ![r] = cachedEstimates \o persist]
    /\ cachedEstimates \o persist \in Seq(Entry)
    /\ Range(cachedEstimates \o persist) = Range(cachedEstimates) \cup Range(persist)
    /\ Range(list) = {e \in Range(cachedEstimates) \cup Range(persist) : e.ver # 0}
    /\ answer' = [answer EXCEPT ![r] = list]
    /\ pc' = [pc EXCEPT ![r] = "done"]
    /\ call' = [call EXCEPT ![r] = NoCall]
    /\ AnswerFrom(r, cachedEstimates, persist)
    /\ UNCHANGED <<usage, req, crashes, overlapped, object>>

LEMMA StoringStep ==
    ASSUME StateInv, NEW r \in Requests, SetEstimates(r)
    PROVE  \E persist \in Seq(Entry), list \in Seq(Entry) : Stores(r, persist, list)
  <1> DEFINE persist == ToPersist(r, AllFetched(r))
  <1>1. /\ LastFetch(r) /\ ~req[r].ignoreCache
        /\ fetchedEstimates' = persist /\ cachedEstimates' = cachedEstimates
        /\ uploads' = [uploads EXCEPT ![r] = cachedEstimates \o persist]
        /\ AnswerFrom(r, cachedEstimates, persist)
        /\ UNCHANGED <<usage, req, crashes, overlapped, object>>
    BY DEF SetEstimates
  <1>2. /\ r \in InFlight /\ pc[r] = "fetch"
        /\ HoldsUsageOf(usage, req[r].grp, call[r].missing, AllFetched(r))
    BY <1>1, AllFetchedHolds DEF StateInv, LastFetch
  <1>3. req[r] \in RequestSpace /\ ManagerTypeOK /\ cachedEstimates \in Seq(Entry)
    BY <1>2, InFlightAsks DEF StateInv, ManagerInv
  <1>4. /\ persist \in Seq(Entry)
        /\ OfDifferentDates(persist)
        /\ AllFetched(r) \subseteq Range(persist)
        /\ \A e \in Range(persist) :
               e.grp = req[r].grp /\ e.date \in call[r].missing /\ Genuine(usage, e)
    BY <1>2, <1>3, PersistElements
  <1> HIDE DEF persist
  <1>5. /\ cachedEstimates \o persist \in Seq(Entry)
        /\ Range(cachedEstimates \o persist) = Range(cachedEstimates) \cup Range(persist)
    BY <1>3, <1>4, ConcatElements
  <1>6. PICK list \in Seq(Entry) :
            /\ Range(list) = {e \in Range(cachedEstimates) \cup Range(persist) : e.ver # 0}
            /\ answer' = [answer EXCEPT ![r] = list]
            /\ pc' = [pc EXCEPT ![r] = "done"]
            /\ call' = [call EXCEPT ![r] = NoCall]
    BY <1>1, <1>3, <1>4, AnswerElements
  <1>7. Stores(r, persist, list)
    BY <1>1, <1>2, <1>4, <1>5, <1>6 DEF Stores, persist
  <1> QED
    BY <1>4, <1>7

-----------------------------------------------------------------------------
(* The state invariant is kept by every step.                               *)

LEMMA StateInitially == Init => StateInv
  <1> SUFFICES ASSUME Init PROVE StateInv
    OBVIOUS
  <1>1. ManagerInv
    BY ManagerInitially DEF Init
  <1>2. pc \in [Requests -> Phases] /\ \A r \in Requests : pc[r] = "idle"
    BY DEF Init, ManagerInit, Phases
  <1>3. TypeOK
    BY <1>1, <1>2 DEF Init, TypeOK, ManagerInv
  <1>4. UploadInv
    BY <1>2 DEF Init, UploadInv
  <1> QED
    BY <1>1, <1>3, <1>4 DEF StateInv

LEMMA ArriveKeepsState ==
    ASSUME StateInv, NEW r \in Requests, NEW q \in RequestSpace, Arrive(r, q)
    PROVE  StateInv'
  <1>1. /\ Admit(r, q, "exists") /\ UNCHANGED <<object, uploads>>
        /\ pc[r] = "idle" /\ pc' = [pc EXCEPT ![r] = "exists"] /\ UNCHANGED answer
    BY DEF Arrive, Admit
  <1>2. ManagerInv' /\ \A p \in Requests : p # r => req'[p] = req[p] /\ pc'[p] = pc[p]
    BY <1>1, AdmitKeeps DEF StateInv
  <1>3. pc' \in [Requests -> Phases] /\ pc'[r] = "exists"
    BY <1>1 DEF StateInv, TypeOK, Phases
  <1>4. TypeOK'
    BY <1>1, <1>2, <1>3 DEF StateInv, TypeOK, ManagerInv
  <1>5. UploadInv'
    BY <1>1, <1>2, <1>3 DEF StateInv, UploadInv
  <1> QED
    BY <1>2, <1>4, <1>5 DEF StateInv

LEMMA EndKeepsState ==
    ASSUME StateInv, ProcessEnds
    PROVE  StateInv'
  <1>1. LoseMemory /\ uploads' = [r \in Requests |-> NoFile] /\ UNCHANGED object /\ UNCHANGED <<req, answer>>
    BY DEF ProcessEnds, LoseMemory
  <1>2. ManagerInv' /\ \A r \in Requests : pc'[r] \in {pc[r], "failed"}
    BY <1>1, LoseMemoryKeeps DEF StateInv
  <1>3. pc' \in [Requests -> Phases]
    BY <1>2 DEF StateInv, TypeOK, Phases, ManagerInv
  <1>4. TypeOK'
    BY <1>1, <1>2, <1>3 DEF StateInv, TypeOK, ManagerInv
  <1>5. UploadInv'
    BY <1>1, <1>2 DEF StateInv, UploadInv
  <1> QED
    BY <1>2, <1>4, <1>5 DEF StateInv

\* A request in progress goes on: others are where they were, and so are their uploads.
LEMMA MoveKeepsState ==
    ASSUME StateInv, ManagerInv', NEW r \in InFlight, UNCHANGED req,
           NEW phase \in Phases, pc' = [pc EXCEPT ![r] = phase],
           \A p \in Requests : p # r => answer'[p] = answer[p] /\ uploads'[p] = uploads[p],
           \A g \in Groupings : object[g] # NoFile => object'[g] # NoFile,
           object' \in [Groupings -> Seq(Entry) \cup {NoFile}],
           uploads' \in [Requests -> Seq(Entry) \cup {NoFile}],
           phase = "download" => object'[req[r].grp] # NoFile,
           uploads'[r] # NoFile => phase = "done" /\ Range(answer'[r]) \subseteq Range(uploads'[r])
    PROVE  StateInv'
  <1>1. r \in Requests
    BY DEF InFlight
  <1>2. pc' \in [Requests -> Phases] /\ pc'[r] = phase /\ \A p \in Requests : p # r => pc'[p] = pc[p]
    BY <1>1 DEF StateInv, TypeOK
  <1>3. TypeOK'
    BY <1>2 DEF TypeOK, ManagerInv
  <1>4. ASSUME NEW p \in Requests, p # r
        PROVE  /\ pc'[p] = "download" => object'[req'[p].grp] # NoFile
               /\ uploads'[p] # NoFile =>
                      pc'[p] = "done" /\ Range(answer'[p]) \subseteq Range(uploads'[p])
    <2>1. pc[p] = "download" => req[p] \in RequestSpace
      BY DEF StateInv, ManagerInv
    <2>2. pc[p] = "download" => req[p].grp \in Groupings
      BY <2>1, RequestFields
    <2> QED
      BY <1>2, <1>4, <2>2 DEF StateInv, UploadInv
  <1>5. UploadInv'
    BY <1>2, <1>4 DEF UploadInv
  <1> QED
    BY <1>3, <1>5 DEF StateInv

LEMMA FindKeepsState ==
    ASSUME StateInv, NEW r \in Requests, NEW entries \in Seq(Entry), FindsFrom(r, entries)
    PROVE  StateInv'
  <1>1. /\ r \in InFlight /\ pc[r] # "fetch" /\ FindMissingDates(r, entries)
        /\ object' = object \/ object' = [object EXCEPT ![req[r].grp] = <<>>]
        /\ UNCHANGED <<usage, req, crashes, overlapped, uploads>>
    BY DEF FindsFrom
  <1>2. req[r] \in RequestSpace /\ req[r].grp \in Groupings /\ fetchedEstimates \in Seq(Entry)
    BY <1>1, InFlightAsks DEF StateInv
  <1>3. PICK found \in Seq(Entry), dates \in SUBSET DatesWithinRequestTimeFrame(req[r]) :
            Finds(r, entries, found, dates)
    BY <1>1, <1>2, FoundElements
  <1>4. ManagerInv'
    BY <1>1, FindKeeps DEF StateInv
  <1>5. PICK phase \in {"fetch", "done"} : pc' = [pc EXCEPT ![r] = phase]
    BY <1>3 DEF Finds
  <1>6. \A p \in Requests : p # r => answer'[p] = answer[p] /\ uploads'[p] = uploads[p]
    BY <1>1, <1>3 DEF Finds, StateInv, ManagerInv, ManagerTypeOK
  <1>7. /\ object' \in [Groupings -> Seq(Entry) \cup {NoFile}]
        /\ \A g \in Groupings : object[g] # NoFile => object'[g] # NoFile
    <2>1. object \in [Groupings -> Seq(Entry) \cup {NoFile}] /\ <<>> \in Seq(Entry)
      BY DEF StateInv, TypeOK
    <2>2. <<>> # NoFile
      BY <2>1, GcsCacheAssumption
    <2> QED
      BY <1>1, <1>2, <2>1, <2>2
  <1>8. uploads[r] = NoFile
    BY <1>1 DEF StateInv, UploadInv, InFlight
  <1>9. phase \in Phases /\ phase # "download" /\ uploads' \in [Requests -> Seq(Entry) \cup {NoFile}]
    BY <1>1, <1>5 DEF Phases, StateInv, TypeOK
  <1> QED
    BY <1>1, <1>4, <1>5, <1>6, <1>7, <1>8, <1>9, MoveKeepsState

LEMMA FetchKeepsState ==
    ASSUME StateInv, NEW r \in Requests, Fetch(r)
    PROVE  StateInv'
  <1>1. object' = object /\ uploads' = uploads
    BY DEF Fetch
  <1>2. /\ object \in [Groupings -> Seq(Entry) \cup {NoFile}]
        /\ uploads \in [Requests -> Seq(Entry) \cup {NoFile}]
        /\ answer \in [Requests -> Seq(Entry)] /\ pc \in [Requests -> Phases]
        /\ cachedEstimates \in Seq(Entry) /\ fetchedEstimates \in Seq(Entry)
    BY DEF StateInv, TypeOK, ManagerTypeOK
  <1>3. CASE \E run \in SUBSET Dates : FetchSome(r, run)
    <2>1. PICK run \in SUBSET Dates : FetchSome(r, run)
      BY <1>3
    <2>2. UNCHANGED <<pc, req, answer>> /\ pc[r] = "fetch"
      BY <2>1 DEF FetchSome
    <2>3. ManagerInv'
      BY <2>1, FetchSomeKeeps DEF StateInv
    <2> QED
      BY <1>1, <2>2, <2>3 DEF StateInv, TypeOK, ManagerInv, UploadInv
  <1>4. CASE FetchUnstored(r)
    <2>1. ManagerInv' /\ r \in InFlight /\ UNCHANGED req
      BY <1>4, FetchUnstoredKeeps, AllFetchedHolds DEF StateInv, FetchUnstored
    <2>2. HoldsUsageOf(usage, req[r].grp, call[r].missing, AllFetched(r))
      BY <1>4, AllFetchedHolds DEF StateInv, FetchUnstored
    <2>3. ByDate(AllFetched(r)) \in Seq(Entry) /\ <<>> \in Seq(Entry)
      BY <2>2, ByDateElements DEF HoldsUsageOf
    <2>4. PICK cached \in Seq(Entry), fetched \in Seq(Entry) : AnswerFrom(r, cached, fetched)
      BY <1>2, <1>4, <2>3 DEF FetchUnstored, AnswerUnstored
    <2>5. PICK list \in Seq(Entry) :
              answer' = [answer EXCEPT ![r] = list] /\ pc' = [pc EXCEPT ![r] = "done"]
      BY <2>4, AnswerElements
    <2>6. uploads[r] = NoFile
      BY <2>1 DEF StateInv, UploadInv, InFlight
    <2>7. \A p \in Requests : p # r => answer'[p] = answer[p]
      BY <1>2, <2>5
    <2>8. "done" \in Phases
      BY DEF Phases
    <2> QED
      BY <1>1, <1>2, <2>1, <2>5, <2>6, <2>7, <2>8, MoveKeepsState
  <1>5. CASE FetchFails(r)
    <2>1. Reject(r) /\ r \in InFlight
      BY <1>5 DEF FetchFails, InFlight
    <2>2. UNCHANGED <<req, answer>> /\ pc' = [pc EXCEPT ![r] = "failed"]
      BY <2>1 DEF Reject
    <2>3. ManagerInv'
      BY <2>1, RejectKeeps DEF StateInv
    <2>4. uploads[r] = NoFile
      BY <2>1 DEF StateInv, UploadInv, InFlight
    <2>5. "failed" \in Phases
      BY DEF Phases
    <2> QED
      BY <1>1, <1>2, <2>1, <2>2, <2>3, <2>4, <2>5, MoveKeepsState
  <1> QED
    BY <1>3, <1>4, <1>5 DEF Fetch

LEMMA SetKeepsState ==
    ASSUME StateInv, NEW r \in Requests, NEW persist \in Seq(Entry), NEW list \in Seq(Entry),
           Stores(r, persist, list)
    PROVE  StateInv'
  <1>1. /\ r \in InFlight /\ fetchedEstimates' = persist /\ cachedEstimates' = cachedEstimates
        /\ uploads' = [uploads EXCEPT ![r] = cachedEstimates \o persist]
        /\ answer' = [answer EXCEPT ![r] = list]
        /\ pc' = [pc EXCEPT ![r] = "done"] /\ call' = [call EXCEPT ![r] = NoCall]
        /\ AnswerFrom(r, cachedEstimates, persist)
        /\ UNCHANGED <<usage, req, crashes, overlapped, object>>
    BY DEF Stores
  <1>2. Range(list) \subseteq Range(cachedEstimates \o persist) /\ cachedEstimates \o persist \in Seq(Entry)
    BY DEF Stores
  <1>3. /\ object \in [Groupings -> Seq(Entry) \cup {NoFile}] /\ cachedEstimates \in Seq(Entry)
        /\ uploads \in [Requests -> Seq(Entry) \cup {NoFile}] /\ answer \in [Requests -> Seq(Entry)]
    BY DEF StateInv, TypeOK, ManagerTypeOK
  <1>4. ManagerInv'
    BY <1>1, <1>3, AnswerKeeps DEF StateInv
  <1> DEFINE content == cachedEstimates \o persist
  <1>5. content \in Seq(Entry) /\ Range(list) \subseteq Range(content)
        /\ uploads' = [uploads EXCEPT ![r] = content]
    BY <1>1, <1>2
  <1> HIDE DEF content
  <1>6. /\ uploads' \in [Requests -> Seq(Entry) \cup {NoFile}]
        /\ uploads'[r] = content /\ answer'[r] = list
        /\ \A p \in Requests : p # r => answer'[p] = answer[p] /\ uploads'[p] = uploads[p]
    BY <1>1, <1>3, <1>5
  <1>7. "done" \in Phases
    BY DEF Phases
  <1> QED
    BY <1>1, <1>3, <1>4, <1>5, <1>6, <1>7, MoveKeepsState

LEMMA UploadKeepsState ==
    ASSUME StateInv, NEW r \in Requests, UploadEnds(r) \/ UploadFails(r)
    PROVE  StateInv'
  <1>1. /\ uploads[r] # NoFile /\ uploads' = [uploads EXCEPT ![r] = NoFile]
        /\ UNCHANGED managerVars
        /\ object' = object \/ object' = [object EXCEPT ![req[r].grp] = uploads[r]]
    BY DEF UploadEnds, UploadFails
  <1>2. UNCHANGED <<usage, lists, pc, req, call, answer, crashes, overlapped>>
    BY <1>1 DEF managerVars
  <1>3. ManagerInv'
    BY <1>2 DEF StateInv, ManagerInv, ManagerTypeOK, InFlight, Consistent, lists
  <1>4. /\ object \in [Groupings -> Seq(Entry) \cup {NoFile}]
        /\ uploads \in [Requests -> Seq(Entry) \cup {NoFile}]
    BY DEF StateInv, TypeOK
  <1>5. object' \in [Groupings -> Seq(Entry) \cup {NoFile}]
        /\ \A g \in Groupings : object[g] # NoFile => object'[g] # NoFile
    BY <1>1, <1>4
  <1>6. TypeOK'
    BY <1>1, <1>2, <1>3, <1>4, <1>5 DEF StateInv, TypeOK, ManagerInv
  <1>7. UploadInv'
    <2>1. \A p \in Requests : pc[p] = "download" => req[p].grp \in Groupings
      BY RequestFields DEF StateInv, ManagerInv
    <2>2. \A p \in Requests : uploads'[p] # NoFile => uploads'[p] = uploads[p] /\ uploads[p] # NoFile
      BY <1>1, <1>4
    <2> QED
      BY <1>2, <1>5, <2>1, <2>2 DEF StateInv, UploadInv
  <1> QED
    BY <1>3, <1>6, <1>7 DEF StateInv

LEMMA StateKept == StateInv /\ [Next]_vars => StateInv'
  <1> SUFFICES ASSUME StateInv, [Next]_vars PROVE StateInv'
    OBVIOUS
  <1>1. ASSUME NEW g \in Groupings, NEW d \in Dates, Publish(g, d)
        PROVE  StateInv'
    <2>1. ManagerInv'
      BY <1>1, PublishKeeps DEF StateInv, Publish
    <2>2. UNCHANGED <<pc, req, answer, object, uploads>>
      BY <1>1 DEF Publish, PublishUsage
    <2> QED
      BY <2>1, <2>2 DEF StateInv, TypeOK, ManagerInv, UploadInv
  <1>2. ASSUME NEW r \in Requests, NEW q \in RequestSpace, Arrive(r, q)
        PROVE  StateInv'
    BY <1>2, ArriveKeepsState
  <1>3. CASE ProcessEnds
    BY <1>3, EndKeepsState
  <1>4. ASSUME NEW r \in Requests, Step(r)
        PROVE  StateInv'
    <2>1. CASE CheckExists(r)
      <3>1. /\ pc[r] = "exists" /\ r \in InFlight
            /\ UNCHANGED <<usage, lists, req, call, answer, crashes, overlapped, object, uploads>>
        BY <2>1 DEF CheckExists, InFlight
      <3>2. PICK phase \in {"save", "download"} :
                /\ pc' = [pc EXCEPT ![r] = phase]
                /\ phase = "download" => object[req[r].grp] # NoFile
        BY <2>1 DEF CheckExists
      <3>3. RequestsTyped' /\ pc'[r] = phase /\ \A p \in Requests : p # r => pc'[p] = pc[p]
        BY <3>1, <3>2 DEF StateInv, ManagerInv, ManagerTypeOK, RequestsTyped, lists
      <3>4. ManagerInv'
        BY <3>1, <3>3, MoveKeeps DEF StateInv, ManagerInv, ManagerTypeOK, lists
      <3>5. uploads[r] = NoFile
        BY <3>1 DEF StateInv, UploadInv
      <3>6. phase \in Phases
        BY DEF Phases
      <3> QED
        BY <3>1, <3>2, <3>4, <3>5, <3>6, MoveKeepsState DEF StateInv, TypeOK
    <2>2. CASE SaveEmpty(r) \/ Download(r) \/ AccessFails(r)
      BY <2>2, FindingSteps, FindKeepsState
    <2>3. CASE Fetch(r)
      BY <2>3, FetchKeepsState
    <2>4. CASE SetEstimates(r)
      BY <2>4, StoringStep, SetKeepsState
    <2> QED
      BY <1>4, <2>1, <2>2, <2>3, <2>4 DEF Step
  <1>5. ASSUME NEW r \in Requests, UploadEnds(r) \/ UploadFails(r)
        PROVE  StateInv'
    BY <1>5, UploadKeepsState
  <1>6. ASSUME NEW r \in Requests, ReadStreamFails(r)
        PROVE  StateInv'
    BY <1>3, <1>6 DEF ReadStreamFails
  <1>7. CASE UNCHANGED vars
    <2>1. UNCHANGED <<usage, lists, pc, req, call, answer, crashes, overlapped, object, uploads>>
      BY <1>7 DEF vars, managerVars
    <2> QED
      BY <2>1 DEF StateInv, TypeOK, UploadInv, ManagerInv, ManagerTypeOK, InFlight, Consistent, lists
  <1> QED
    BY <1>1, <1>2, <1>3, <1>4, <1>5, <1>6, <1>7 DEF Next, Crash

\* Every step of the requests, the bucket and the environment keeps the state typed.
THEOREM TypeCorrect == Spec => []TypeOK
  <1>1. StateInv => TypeOK
    BY DEF StateInv
  <1> QED
    BY <1>1, StateInitially, StateKept, PTL DEF Spec

(* What a request uploads in the object's place holds every date of its own *)
(* window that the request was answered on, whatever overlaps and fails.    *)
THEOREM UploadCoversAnswerHolds == Spec => []UploadCoversAnswer
  <1>1. StateInv => UploadCoversAnswer
    BY DEF StateInv, UploadInv, UploadCoversAnswer, AnswersDate, Range
  <1> QED
    BY <1>1, StateInitially, StateKept, PTL DEF Spec

-----------------------------------------------------------------------------
(* What the entries say: the invariants behind the completeness of answers. *)

\* Entries of closed dates, wherever they are kept, were made from the usage billed.
GenuineInv ==
    /\ \A e \in Range(cachedEstimates) : Genuine(usage, e)
    /\ \A g \in Groupings : \A e \in Range(StoredEntries(g)) : Genuine(usage, e)
    /\ \A r \in Requests : uploads[r] # NoFile => \A e \in Range(uploads[r]) : Genuine(usage, e)

\* Entries lie in the object of their grouping, and so does what a request found there.
FiledInv ==
    OneGroupingOverlapped =>
        /\ \A g \in Groupings : OfGrouping(StoredEntries(g), g)
        /\ \A r \in Requests : uploads[r] # NoFile => OfGrouping(uploads[r], req[r].grp)
        /\ \A r \in Requests : pc[r] = "fetch" => OfGrouping(cachedEstimates, req[r].grp)

\* A request by itself has found the dates of its window it does not fetch.
CoveredInv ==
    OneGroupingOverlapped =>
        \A r \in Requests \ overlapped : pc[r] = "fetch" =>
            \A d \in DatesWithinRequestTimeFrame(req[r]) \ call[r].missing :
                \E e \in Range(cachedEstimates) : e.date = d

\* Without overlap no date is stored twice, nor found and fetched.
OnceInv ==
    overlapped = {} =>
        /\ \A g \in Groupings : OfDifferentDates(StoredEntries(g))
        /\ \A r \in Requests : uploads[r] # NoFile => OfDifferentDates(uploads[r])
        /\ \A r \in Requests : pc[r] = "fetch" =>
              /\ OfDifferentDates(cachedEstimates)
              /\ \A e \in Range(cachedEstimates) : e.date \notin call[r].missing

EntriesInv == GenuineInv /\ FiledInv /\ CoveredInv /\ OnceInv /\ AloneComplete

LEMMA EntriesInitially == Init => EntriesInv
  <1> SUFFICES ASSUME Init PROVE EntriesInv
    OBVIOUS
  <1>1. /\ cachedEstimates = <<>> /\ overlapped = {}
        /\ \A g \in Groupings : StoredEntries(g) = <<>>
        /\ \A r \in Requests : uploads[r] = NoFile /\ pc[r] = "idle"
    BY DEF Init, ManagerInit, StoredEntries
  <1>2. AloneComplete
    BY <1>1 DEF AloneComplete, Served
  <1> QED
    BY <1>1, <1>2, EmptyList DEF EntriesInv, GenuineInv, FiledInv, CoveredInv, OnceInv

\* A step that fetches, finds and stores nothing, and ends no request with an answer.
LEMMA QuietKeepsEntries ==
    ASSUME EntriesInv, UNCHANGED <<usage, req, overlapped, cachedEstimates, object>>,
           \A r \in Requests : uploads'[r] # NoFile => uploads'[r] = uploads[r],
           \A r \in Requests : pc'[r] = "fetch" => pc[r] = "fetch" /\ call'[r].missing = call[r].missing,
           \A r \in Requests : pc'[r] = "done" => pc[r] = "done" /\ answer'[r] = answer[r]
    PROVE  EntriesInv'
  <1>1. OneGroupingOverlapped' <=> OneGroupingOverlapped
    BY DEF OneGroupingOverlapped
  <1>2. \A g \in Groupings : StoredEntries(g)' = StoredEntries(g)
    BY DEF StoredEntries
  <1>3. GenuineInv'
    BY <1>2 DEF EntriesInv, GenuineInv
  <1>4. FiledInv'
    BY <1>1, <1>2 DEF EntriesInv, FiledInv
  <1>5. CoveredInv'
    BY <1>1 DEF EntriesInv, CoveredInv
  <1>6. OnceInv'
    BY <1>2 DEF EntriesInv, OnceInv
  <1>7. AloneComplete'
    BY <1>1 DEF EntriesInv, AloneComplete, Served, Complete, AnswersDate
  <1> QED
    BY <1>3, <1>4, <1>5, <1>6, <1>7 DEF EntriesInv

LEMMA PublishKeepsEntries ==
    ASSUME StateInv, EntriesInv, NEW g \in Groupings, NEW d \in Dates, Publish(g, d)
    PROVE  EntriesInv'
  <1>1. UNCHANGED <<cachedEstimates, pc, req, call, answer, overlapped, object, uploads>>
    BY DEF Publish, PublishUsage, lists
  <1>2. \A h \in Groupings, c \in Dates \ LateDates : usage'[h][c] = usage[h][c]
    BY PublishKeeps DEF StateInv, Publish
  <1>3. OneGroupingOverlapped' <=> OneGroupingOverlapped
    BY <1>1 DEF OneGroupingOverlapped
  <1>4. \A h \in Groupings : StoredEntries(h)' = StoredEntries(h) /\ StoredEntries(h) \in Seq(Entry)
    BY <1>1, StoredType DEF StoredEntries, StateInv
  <1>5. \A e \in Entry : Genuine(usage, e) => Genuine(usage', e)
    BY <1>2 DEF Genuine, Entry
  <1>6. GenuineInv'
    <2>1. \A e \in Range(cachedEstimates) : e \in Entry
      BY DEF StateInv, TypeOK, ManagerTypeOK, Range
    <2>2. \A h \in Groupings : \A e \in Range(StoredEntries(h)) : e \in Entry
      BY <1>4 DEF Range
    <2>3. \A r \in Requests : uploads[r] # NoFile => \A e \in Range(uploads[r]) : e \in Entry
      BY DEF StateInv, TypeOK, Range
    <2> QED
      BY <1>1, <1>4, <1>5, <2>1, <2>2, <2>3 DEF EntriesInv, GenuineInv
  <1>7. FiledInv'
    BY <1>1, <1>3, <1>4 DEF EntriesInv, FiledInv
  <1>8. CoveredInv'
    BY <1>1, <1>3 DEF EntriesInv, CoveredInv
  <1>9. OnceInv'
    BY <1>1, <1>4 DEF EntriesInv, OnceInv
  <1>10. AloneComplete'
    <2> SUFFICES ASSUME OneGroupingOverlapped, NEW r \in Requests, Served(r), r \notin overlapped
                 PROVE  Complete(r)'
      BY <1>1, <1>3 DEF AloneComplete, Served
    <2>1. Complete(r)
      BY DEF EntriesInv, AloneComplete
    <2>2. req[r].grp \in Groupings /\ DatesWithinRequestTimeFrame(req[r]) \subseteq Dates
      BY RequestFields DEF StateInv, ManagerInv, Served
    <2> QED
      BY <1>1, <1>2, <2>1, <2>2 DEF Complete, AnswersDate
  <1> QED
    BY <1>6, <1>7, <1>8, <1>9, <1>10 DEF EntriesInv

LEMMA ArriveKeepsEntries ==
    ASSUME StateInv, EntriesInv, NEW r \in Requests, NEW q \in RequestSpace, Arrive(r, q)
    PROVE  EntriesInv'
  <1>1. /\ UNCHANGED <<usage, cachedEstimates, call, answer, object, uploads>>
        /\ pc[r] = "idle" /\ pc' = [pc EXCEPT ![r] = "exists"]
        /\ overlapped \subseteq overlapped'
    BY DEF Arrive, Admit, lists
  <1>2. /\ \A p \in overlapped : req'[p] = req[p]
        /\ \A p \in Requests : p # r => req'[p] = req[p] /\ pc'[p] = pc[p]
    BY AdmitKeeps DEF StateInv, Arrive
  <1>3. pc'[r] = "exists"
    BY <1>1 DEF StateInv, ManagerInv
  <1>4. OneGroupingOverlapped' => OneGroupingOverlapped
    BY <1>1, <1>2, GroupingStays
  <1>5. \A g \in Groupings : StoredEntries(g)' = StoredEntries(g)
    BY <1>1 DEF StoredEntries
  <1>6. uploads[r] = NoFile
    BY <1>1 DEF StateInv, UploadInv
  <1>7. GenuineInv'
    BY <1>1, <1>5 DEF EntriesInv, GenuineInv
  <1>8. FiledInv'
    BY <1>1, <1>2, <1>3, <1>4, <1>5, <1>6 DEF EntriesInv, FiledInv
  <1>9. CoveredInv'
    BY <1>1, <1>2, <1>3, <1>4 DEF EntriesInv, CoveredInv
  <1>10. OnceInv'
    <2>1. overlapped' = {} => overlapped = {}
      BY <1>1
    <2> QED
      BY <1>1, <1>2, <1>3, <1>5, <2>1 DEF EntriesInv, OnceInv
  <1>11. AloneComplete'
    BY <1>1, <1>2, <1>3, <1>4 DEF EntriesInv, AloneComplete, Served, Complete, AnswersDate
  <1> QED
    BY <1>7, <1>8, <1>9, <1>10, <1>11 DEF EntriesInv

LEMMA EndKeepsEntries ==
    ASSUME StateInv, EntriesInv, ProcessEnds
    PROVE  EntriesInv'
  <1>1. /\ UNCHANGED <<usage, req, answer, overlapped, object>> /\ LoseMemory
        /\ cachedEstimates' = <<>> /\ \A r \in Requests : uploads'[r] = NoFile
    BY DEF ProcessEnds, LoseMemory
  <1>2. InFlight' = {} /\ \A r \in Requests : pc'[r] \in {pc[r], "failed"}
    BY <1>1, LoseMemoryKeeps DEF StateInv
  <1>3. \A r \in Requests : pc'[r] # "fetch" /\ (pc'[r] = "done" => pc[r] = "done")
    BY <1>2 DEF InFlight
  <1>4. OneGroupingOverlapped' <=> OneGroupingOverlapped
    BY <1>1 DEF OneGroupingOverlapped
  <1>5. \A g \in Groupings : StoredEntries(g)' = StoredEntries(g)
    BY <1>1 DEF StoredEntries
  <1>6. AloneComplete'
    BY <1>1, <1>3, <1>4 DEF EntriesInv, AloneComplete, Served, Complete, AnswersDate
  <1> QED
    BY <1>1, <1>3, <1>4, <1>5, <1>6, EmptyList DEF EntriesInv, GenuineInv, FiledInv, CoveredInv, OnceInv

LEMMA FindKeepsEntries ==
    ASSUME StateInv, EntriesInv, NEW r \in Requests, NEW entries \in Seq(Entry), FindsFrom(r, entries)
    PROVE  EntriesInv'
  <1>1. /\ r \in InFlight /\ pc[r] # "fetch" /\ FindMissingDates(r, entries)
        /\ entries = <<>> \/ entries = StoredEntries(req[r].grp)
        /\ object' = object \/ object' = [object EXCEPT ![req[r].grp] = <<>>]
        /\ UNCHANGED <<usage, req, crashes, overlapped, uploads>>
    BY DEF FindsFrom
  <1>2. /\ req[r] \in RequestSpace /\ req[r].grp \in Groupings /\ fetchedEstimates \in Seq(Entry)
        /\ DatesWithinRequestTimeFrame(req[r]) \subseteq Dates /\ ManagerInv
    BY <1>1, InFlightAsks DEF StateInv
  <1>3. PICK found \in Seq(Entry), dates \in SUBSET DatesWithinRequestTimeFrame(req[r]) :
            Finds(r, entries, found, dates)
    BY <1>1, <1>2, FoundElements
  <1>4. OneGroupingOverlapped' <=> OneGroupingOverlapped
    BY <1>1 DEF OneGroupingOverlapped
  <1>5. \A g \in Groupings : StoredEntries(g)' = StoredEntries(g) \/ StoredEntries(g)' = <<>>
    BY <1>1, <1>2 DEF StoredEntries, StateInv, TypeOK
  <1>6. \A e \in Range(entries) : Genuine(usage, e)
    BY <1>1, <1>2, EmptyList DEF EntriesInv, GenuineInv
  <1>7. cachedEstimates' = found /\ Range(found) \subseteq Range(entries)
    BY <1>3 DEF Finds
  <1>8. OneGroupingOverlapped => OfGrouping(entries, req[r].grp) /\ OfGrouping(found, req[r].grp)
    BY <1>1, <1>2, <1>7, EmptyList DEF EntriesInv, FiledInv, OfGrouping
  <1>9. OneGroupingOverlapped =>
            /\ \A d \in DatesWithinRequestTimeFrame(req[r]) \ dates : \E e \in Range(found) : e.date = d
            /\ \A e \in Range(found) : e.date \notin dates
    BY <1>3, <1>8 DEF Finds
  <1>10. \A p \in Requests : p # r => pc'[p] = pc[p] /\ call'[p] = call[p] /\ answer'[p] = answer[p]
    BY <1>3 DEF Finds, StateInv, ManagerInv, ManagerTypeOK
  <1>11. pc'[r] = "fetch" => call'[r].missing = dates
    <2>1. /\ pc = [p \in Requests |-> pc[p]]
          /\ call \in [Requests -> [missing: SUBSET Dates, pending: SUBSET Dates, got: SUBSET Entry]]
      BY DEF StateInv, ManagerInv, ManagerTypeOK
    <2>2. \/ call' = [call EXCEPT ![r] = [missing |-> dates, pending |-> dates, got |-> {}]]
          \/ pc' = [pc EXCEPT ![r] = "done"]
      BY <1>3 DEF Finds
    <2> QED
      BY <2>1, <2>2
  <1>12. \A p \in Requests : pc'[p] = "fetch" =>
             p = r \/ (p \in InFlight /\ p \in overlapped /\ r \in overlapped)
    BY <1>1, <1>2, <1>10, InFlightTogether DEF InFlight
  <1>13. GenuineInv'
    BY <1>1, <1>5, <1>6, <1>7, EmptyList DEF EntriesInv, GenuineInv
  <1>14. FiledInv'
    <2> SUFFICES ASSUME OneGroupingOverlapped PROVE
                 /\ \A g \in Groupings : OfGrouping(StoredEntries(g)', g)
                 /\ \A p \in Requests : uploads'[p] # NoFile => OfGrouping(uploads'[p], req'[p].grp)
                 /\ \A p \in Requests : pc'[p] = "fetch" => OfGrouping(cachedEstimates', req'[p].grp)
      BY <1>4 DEF FiledInv
    <2>1. \A g \in Groupings : OfGrouping(StoredEntries(g)', g)
      BY <1>5, EmptyList DEF EntriesInv, FiledInv
    <2>2. \A p \in Requests : pc'[p] = "fetch" => req[p].grp = req[r].grp
      BY <1>1, <1>2, <1>12, InFlightTogether
    <2> QED
      BY <1>1, <1>7, <1>8, <2>1, <2>2 DEF EntriesInv, FiledInv
  <1>15. CoveredInv'
    <2> SUFFICES ASSUME OneGroupingOverlapped, NEW p \in Requests, p \notin overlapped, pc'[p] = "fetch"
                 PROVE  \A d \in DatesWithinRequestTimeFrame(req[p]) \ call'[p].missing :
                            \E e \in Range(found) : e.date = d
      BY <1>1, <1>4, <1>7 DEF CoveredInv
    <2> QED
      BY <1>9, <1>11, <1>12
  <1>16. OnceInv'
    <2> SUFFICES ASSUME overlapped = {} PROVE OnceInv'
      BY <1>1 DEF OnceInv
    <2>1. OneGroupingOverlapped
      BY DEF OneGroupingOverlapped
    <2>2. OfDifferentDates(entries) /\ OfDifferentDates(found)
      BY <1>1, <1>2, <1>3, EmptyList DEF EntriesInv, OnceInv, Finds
    <2>3. \A g \in Groupings : OfDifferentDates(StoredEntries(g)')
      BY <1>5, EmptyList DEF EntriesInv, OnceInv
    <2>4. \A p \in Requests : pc'[p] = "fetch" =>
              OfDifferentDates(found) /\ \A e \in Range(found) : e.date \notin call'[p].missing
      BY <1>9, <1>11, <1>12, <2>1, <2>2
    <2> QED
      BY <1>1, <1>7, <2>3, <2>4 DEF EntriesInv, OnceInv
  <1>17. AloneComplete'
    <2> SUFFICES ASSUME OneGroupingOverlapped, NEW p \in Requests, Served(p)', p \notin overlapped
                 PROVE  Complete(p)'
      BY <1>1, <1>4 DEF AloneComplete
    <2>1. CASE p # r
      BY <1>1, <1>10, <2>1 DEF EntriesInv, AloneComplete, Served, Complete, AnswersDate
    <2>2. CASE p = r
      <3>1. pc'[r] = "done" /\ ~req[r].ignoreCache
        BY <1>1, <2>2 DEF Served
      <3>2. dates = {} /\ Range(answer'[r]) = {e \in Range(found) \cup Range(fetchedEstimates) : e.ver # 0}
        <4>1. pc' # [pc EXCEPT ![r] = "fetch"]
          BY <3>1 DEF StateInv, ManagerInv
        <4>2. PICK list \in Seq(Entry) :
                  /\ dates = {} /\ answer' = [answer EXCEPT ![r] = list]
                  /\ Range(list) = {e \in Range(found) \cup Range(fetchedEstimates) : e.ver # 0}
          BY <1>3, <3>1, <4>1 DEF Finds
        <4>3. answer'[r] = list
          BY <4>2 DEF StateInv, ManagerInv, ManagerTypeOK
        <4> QED
          BY <4>2, <4>3
      <3>3. ASSUME NEW d \in DatesWithinRequestTimeFrame(req[r]) \ LateDates, usage[req[r].grp][d] > 0
            PROVE  \E e \in Range(answer'[r]) : e.grp = req[r].grp /\ e.date = d
        <4>1. PICK e \in Range(found) : e.date = d
          BY <1>9, <3>2
        <4>2. e.grp = req[r].grp /\ Genuine(usage, e)
          BY <1>6, <1>7, <1>8 DEF OfGrouping
        <4>3. e.ver = usage[req[r].grp][d]
          BY <4>1, <4>2 DEF Genuine
        <4>4. e.ver # 0
          BY <3>3, <4>3
        <4> QED
          BY <3>2, <4>1, <4>2, <4>4
      <3> QED
        BY <1>1, <2>2, <3>3, CompleteEntries DEF Complete, AnswersDate, Range
    <2> QED
      BY <2>1, <2>2
  <1> QED
    BY <1>13, <1>14, <1>15, <1>16, <1>17 DEF EntriesInv

\* A request by itself that has fetched all its missing dates is answered completely
\* from what it found and fetched.
LEMMA EndsComplete ==
    ASSUME StateInv, EntriesInv, OneGroupingOverlapped,
           NEW r \in Requests, LastFetch(r), r \notin overlapped,
           NEW list \in Seq(Entry), answer' = [answer EXCEPT ![r] = list],
           UNCHANGED <<usage, req>>,
           \A e \in Range(cachedEstimates) \cup AllFetched(r) : e.ver # 0 => e \in Range(list)
    PROVE  Complete(r)'
  <1>1. /\ r \in InFlight /\ pc[r] = "fetch"
        /\ HoldsUsageOf(usage, req[r].grp, call[r].missing, AllFetched(r))
    BY AllFetchedHolds DEF StateInv, LastFetch
  <1>2. answer'[r] = list
    BY DEF StateInv, ManagerInv, ManagerTypeOK
  <1>3. ASSUME NEW d \in DatesWithinRequestTimeFrame(req[r]) \ LateDates, usage[req[r].grp][d] > 0
        PROVE  \E e \in Range(list) : e.grp = req[r].grp /\ e.date = d
    <2>1. CASE d \in call[r].missing
      BY <1>1, <1>3, <2>1 DEF HoldsUsageOf
    <2>2. CASE d \notin call[r].missing
      <3>1. PICK e \in Range(cachedEstimates) : e.date = d
        BY <1>1, <2>2 DEF EntriesInv, CoveredInv
      <3>2. e.grp = req[r].grp /\ Genuine(usage, e)
        BY <1>1 DEF EntriesInv, FiledInv, GenuineInv, OfGrouping
      <3>3. e.ver # 0
        BY <1>3, <3>1, <3>2 DEF Genuine
      <3> QED
        BY <3>1, <3>2, <3>3
    <2> QED
      BY <2>1, <2>2
  <1> QED
    BY <1>2, <1>3 DEF Complete, AnswersDate, Range

LEMMA FetchUnstoredKeepsEntries ==
    ASSUME StateInv, EntriesInv, NEW r \in Requests, FetchUnstored(r), UNCHANGED <<object, uploads>>
    PROVE  EntriesInv'
  <1>1. /\ LastFetch(r) /\ AnswerUnstored(r, AllFetched(r))
        /\ UNCHANGED <<usage, req, crashes, overlapped, cachedEstimates, fetchedEstimates>>
    BY DEF FetchUnstored, AnswerUnstored, lists
  <1>2. /\ r \in InFlight /\ pc[r] = "fetch"
        /\ HoldsUsageOf(usage, req[r].grp, call[r].missing, AllFetched(r))
    BY <1>1, AllFetchedHolds DEF StateInv, LastFetch
  <1>3. /\ cachedEstimates \in Seq(Entry) /\ fetchedEstimates \in Seq(Entry) /\ <<>> \in Seq(Entry)
        /\ ByDate(AllFetched(r)) \in Seq(Entry)
    <2>1. ByDate(AllFetched(r)) \in Seq(Entry)
      BY <1>2, ByDateElements DEF HoldsUsageOf
    <2> QED
      BY <2>1 DEF StateInv, ManagerInv, ManagerTypeOK
  <1>4. PICK list \in Seq(Entry) :
            /\ answer' = [answer EXCEPT ![r] = list]
            /\ pc' = [pc EXCEPT ![r] = "done"] /\ call' = [call EXCEPT ![r] = NoCall]
            /\ ~req[r].ignoreCache =>
                  /\ AllFetched(r) = {}
                  /\ Range(list) = {e \in Range(cachedEstimates) \cup Range(fetchedEstimates) : e.ver # 0}
    <2>1. CASE req[r].ignoreCache
      <3>1. AnswerFrom(r, <<>>, ByDate(AllFetched(r)))
        BY <1>1, <2>1 DEF AnswerUnstored
      <3> QED
        BY <1>3, <2>1, <3>1, AnswerElements
    <2>2. CASE ~req[r].ignoreCache
      <3>1. AllFetched(r) = {} /\ AnswerFrom(r, cachedEstimates, fetchedEstimates)
        BY <1>1, <2>2 DEF AnswerUnstored
      <3> QED
        BY <1>3, <3>1, AnswerElements
    <2> QED
      BY <2>1, <2>2
  <1>5. /\ \A p \in Requests : p # r => pc'[p] = pc[p] /\ call'[p] = call[p] /\ answer'[p] = answer[p]
        /\ pc'[r] = "done"
    BY <1>4 DEF StateInv, ManagerInv, ManagerTypeOK
  <1>6. OneGroupingOverlapped' <=> OneGroupingOverlapped
    BY <1>1 DEF OneGroupingOverlapped
  <1>7. \A g \in Groupings : StoredEntries(g)' = StoredEntries(g)
    BY DEF StoredEntries
  <1>8. GenuineInv'
    BY <1>1, <1>7 DEF EntriesInv, GenuineInv
  <1>9. FiledInv'
    BY <1>1, <1>5, <1>6, <1>7 DEF EntriesInv, FiledInv
  <1>10. CoveredInv'
    BY <1>1, <1>5, <1>6 DEF EntriesInv, CoveredInv
  <1>11. OnceInv'
    BY <1>1, <1>5, <1>7 DEF EntriesInv, OnceInv
  <1>12. AloneComplete'
    <2> SUFFICES ASSUME OneGroupingOverlapped, NEW p \in Requests, Served(p)', p \notin overlapped
                 PROVE  Complete(p)'
      BY <1>1, <1>6 DEF AloneComplete
    <2>1. CASE p # r
      BY <1>1, <1>5, <2>1 DEF EntriesInv, AloneComplete, Served, Complete, AnswersDate
    <2>2. CASE p = r
      BY <1>1, <1>4, <2>2, EndsComplete DEF Served
    <2> QED
      BY <2>1, <2>2
  <1> QED
    BY <1>8, <1>9, <1>10, <1>11, <1>12 DEF EntriesInv

LEMMA SetKeepsEntries ==
    ASSUME StateInv, EntriesInv, NEW r \in Requests, NEW persist \in Seq(Entry), NEW list \in Seq(Entry),
           Stores(r, persist, list), LastFetch(r)
    PROVE  EntriesInv'
  <1> DEFINE content == cachedEstimates \o persist
  <1>1. /\ r \in InFlight /\ pc[r] = "fetch"
        /\ cachedEstimates' = cachedEstimates
        /\ uploads' = [uploads EXCEPT ![r] = content]
        /\ Range(content) = Range(cachedEstimates) \cup Range(persist)
        /\ Range(list) = {e \in Range(cachedEstimates) \cup Range(persist) : e.ver # 0}
        /\ answer' = [answer EXCEPT ![r] = list]
        /\ pc' = [pc EXCEPT ![r] = "done"] /\ call' = [call EXCEPT ![r] = NoCall]
        /\ UNCHANGED <<usage, req, overlapped, object>>
    BY DEF Stores
  <1>2. /\ OfDifferentDates(persist) /\ AllFetched(r) \subseteq Range(persist)
        /\ \A e \in Range(persist) : /\ e.grp = req[r].grp /\ e.date \in call[r].missing
                                     /\ Genuine(usage, e)
    BY DEF Stores
  <1>3. /\ \A p \in Requests : p # r => /\ pc'[p] = pc[p] /\ call'[p] = call[p]
                                        /\ answer'[p] = answer[p] /\ uploads'[p] = uploads[p]
        /\ pc'[r] = "done" /\ uploads'[r] = content
    BY <1>1 DEF StateInv, ManagerInv, ManagerTypeOK, TypeOK
  <1>4. OneGroupingOverlapped' <=> OneGroupingOverlapped
    BY <1>1 DEF OneGroupingOverlapped
  <1>5. \A g \in Groupings : StoredEntries(g)' = StoredEntries(g)
    BY <1>1 DEF StoredEntries
  <1>6. cachedEstimates \in Seq(Entry)
    BY DEF StateInv, TypeOK, ManagerTypeOK
  <1>7. overlapped = {} => OfDifferentDates(content)
    <2> SUFFICES ASSUME overlapped = {} PROVE OfDifferentDates(content)
      OBVIOUS
    <2>1. OfDifferentDates(cachedEstimates) /\ \A e \in Range(cachedEstimates) : e.date \notin call[r].missing
      BY <1>1 DEF EntriesInv, OnceInv
    <2> QED
      BY <1>2, <1>6, <2>1, ConcatElements
  <1>8. \A e \in Range(content) : Genuine(usage, e)
    BY <1>1, <1>2 DEF EntriesInv, GenuineInv
  <1>9. OneGroupingOverlapped => OfGrouping(content, req[r].grp)
    BY <1>1, <1>2 DEF EntriesInv, FiledInv, OfGrouping
  <1> HIDE DEF content
  <1>10. GenuineInv'
    BY <1>1, <1>3, <1>5, <1>8 DEF EntriesInv, GenuineInv
  <1>11. FiledInv'
    BY <1>1, <1>3, <1>4, <1>5, <1>9 DEF EntriesInv, FiledInv
  <1>12. CoveredInv'
    BY <1>1, <1>3, <1>4 DEF EntriesInv, CoveredInv
  <1>13. OnceInv'
    BY <1>1, <1>3, <1>5, <1>7 DEF EntriesInv, OnceInv
  <1>14. AloneComplete'
    <2> SUFFICES ASSUME OneGroupingOverlapped, NEW p \in Requests, Served(p)', p \notin overlapped
                 PROVE  Complete(p)'
      BY <1>1, <1>4 DEF AloneComplete
    <2>1. CASE p # r
      BY <1>1, <1>3, <2>1 DEF EntriesInv, AloneComplete, Served, Complete, AnswersDate
    <2>2. CASE p = r
      BY <1>1, <1>2, <2>2, EndsComplete
    <2> QED
      BY <2>1, <2>2
  <1> QED
    BY <1>10, <1>11, <1>12, <1>13, <1>14 DEF EntriesInv

LEMMA UploadKeepsEntries ==
    ASSUME StateInv, EntriesInv, NEW r \in Requests, UploadEnds(r)
    PROVE  EntriesInv'
  <1>1. /\ uploads[r] # NoFile /\ uploads' = [uploads EXCEPT ![r] = NoFile]
        /\ object' = [object EXCEPT ![req[r].grp] = uploads[r]]
        /\ UNCHANGED <<usage, cachedEstimates, pc, req, call, answer, overlapped>>
    BY DEF UploadEnds, managerVars, lists
  <1>2. pc[r] = "done" /\ req[r].grp \in Groupings /\ uploads[r] \in Seq(Entry)
    BY <1>1, RequestFields DEF StateInv, UploadInv, ManagerInv, TypeOK
  <1>3. OneGroupingOverlapped' <=> OneGroupingOverlapped
    BY <1>1 DEF OneGroupingOverlapped
  <1>4. /\ StoredEntries(req[r].grp)' = uploads[r]
        /\ \A g \in Groupings : g # req[r].grp => StoredEntries(g)' = StoredEntries(g)
    BY <1>1, <1>2 DEF StoredEntries, StateInv, TypeOK
  <1>5. \A p \in Requests : uploads'[p] # NoFile => uploads'[p] = uploads[p]
    BY <1>1 DEF StateInv, TypeOK
  <1>6. GenuineInv'
    BY <1>1, <1>2, <1>4, <1>5 DEF EntriesInv, GenuineInv
  <1>7. FiledInv'
    BY <1>1, <1>2, <1>3, <1>4, <1>5 DEF EntriesInv, FiledInv
  <1>8. CoveredInv'
    BY <1>1, <1>3 DEF EntriesInv, CoveredInv
  <1>9. OnceInv'
    BY <1>1, <1>2, <1>4, <1>5 DEF EntriesInv, OnceInv
  <1>10. AloneComplete'
    BY <1>1, <1>3 DEF EntriesInv, AloneComplete, Served, Complete, AnswersDate
  <1> QED
    BY <1>6, <1>7, <1>8, <1>9, <1>10 DEF EntriesInv

LEMMA EntriesKept == StateInv /\ EntriesInv /\ [Next]_vars => EntriesInv'
  <1> SUFFICES ASSUME StateInv, EntriesInv, [Next]_vars PROVE EntriesInv'
    OBVIOUS
  <1>1. ASSUME NEW g \in Groupings, NEW d \in Dates, Publish(g, d)
        PROVE  EntriesInv'
    BY <1>1, PublishKeepsEntries
  <1>2. ASSUME NEW r \in Requests, NEW q \in RequestSpace, Arrive(r, q)
        PROVE  EntriesInv'
    BY <1>2, ArriveKeepsEntries
  <1>3. CASE ProcessEnds
    BY <1>3, EndKeepsEntries
  <1>4. ASSUME NEW r \in Requests, Step(r)
        PROVE  EntriesInv'
    <2>1. CASE CheckExists(r)
      <3>1. /\ pc[r] = "exists"
            /\ UNCHANGED <<usage, cachedEstimates, req, call, answer, overlapped, object, uploads>>
            /\ \E phase \in {"save", "download"} : pc' = [pc EXCEPT ![r] = phase]
        BY <2>1 DEF CheckExists, lists
      <3>2. \A p \in Requests : pc'[p] \in {"fetch", "done"} => pc'[p] = pc[p]
        BY <3>1 DEF StateInv, ManagerInv
      <3> QED
        BY <3>1, <3>2, QuietKeepsEntries
    <2>2. CASE SaveEmpty(r) \/ Download(r) \/ AccessFails(r)
      BY <2>2, FindingSteps, FindKeepsEntries
    <2>3. CASE Fetch(r)
      <3>1. UNCHANGED <<object, uploads>>
        BY <2>3 DEF Fetch
      <3>2. ASSUME NEW run \in SUBSET Dates, FetchSome(r, run)
            PROVE  EntriesInv'
        <4>1. UNCHANGED <<usage, cachedEstimates, req, pc, answer, overlapped>>
          BY <3>2 DEF FetchSome, lists
        <4>2. \A p \in Requests : call'[p].missing = call[p].missing
          <5>1. /\ call \in [Requests -> [missing: SUBSET Dates, pending: SUBSET Dates, got: SUBSET Entry]]
                /\ call' = [call EXCEPT ![r].pending = @ \ run, ![r].got = @ \cup EntriesFetched(r, run)]
            BY <3>2 DEF FetchSome, StateInv, ManagerInv, ManagerTypeOK
          <5> QED
            BY <5>1
        <4> QED
          BY <3>1, <4>1, <4>2, QuietKeepsEntries
      <3>3. CASE FetchUnstored(r)
        BY <3>1, <3>3, FetchUnstoredKeepsEntries
      <3>4. CASE FetchFails(r)
        <4>1. /\ UNCHANGED <<usage, cachedEstimates, req, answer, overlapped>>
              /\ pc' = [pc EXCEPT ![r] = "failed"] /\ call' = [call EXCEPT ![r] = NoCall]
          BY <3>4 DEF FetchFails, Reject, lists
        <4>2. \A p \in Requests : pc'[p] \in {"fetch", "done"} => pc'[p] = pc[p] /\ call'[p] = call[p]
          BY <4>1 DEF StateInv, ManagerInv, ManagerTypeOK
        <4> QED
          BY <3>1, <4>1, <4>2, QuietKeepsEntries
      <3> QED
        BY <2>3, <3>2, <3>3, <3>4 DEF Fetch
    <2>4. CASE SetEstimates(r)
      <3>1. LastFetch(r)
        BY <2>4 DEF SetEstimates
      <3> QED
        BY <2>4, <3>1, StoringStep, SetKeepsEntries
    <2> QED
      BY <1>4, <2>1, <2>2, <2>3, <2>4 DEF Step
  <1>5. ASSUME NEW r \in Requests, UploadEnds(r)
        PROVE  EntriesInv'
    BY <1>5, UploadKeepsEntries
  <1>6. ASSUME NEW r \in Requests, UploadFails(r)
        PROVE  EntriesInv'
    <2>1. /\ uploads' = [uploads EXCEPT ![r] = NoFile]
          /\ UNCHANGED <<usage, cachedEstimates, req, pc, call, answer, overlapped, object>>
      BY <1>6 DEF UploadFails, managerVars, lists
    <2>2. \A p \in Requests : uploads'[p] # NoFile => uploads'[p] = uploads[p]
      BY <2>1 DEF StateInv, TypeOK
    <2> QED
      BY <2>1, <2>2, QuietKeepsEntries
  <1>7. ASSUME NEW r \in Requests, ReadStreamFails(r)
        PROVE  EntriesInv'
    BY <1>3, <1>7 DEF ReadStreamFails
  <1>8. CASE UNCHANGED vars
    BY <1>8, QuietKeepsEntries DEF vars, managerVars, lists
  <1> QED
    BY <1>1, <1>2, <1>3, <1>4, <1>5, <1>6, <1>7, <1>8 DEF Next, Crash

(* As long as no request ran beside another, no object, and nothing being   *)
(* uploaded, holds two entries of a date, whatever fails and crashes.       *)
THEOREM ObjectOnceHolds == Spec => []ObjectOnce
  <1>1. EntriesInv => ObjectOnce
    BY DEF EntriesInv, OnceInv, ObjectOnce, OfDifferentDates
  <1> QED
    BY <1>1, StateInitially, StateKept, EntriesInitially, EntriesKept, PTL DEF Spec

(* A request that ran by itself is answered on every closed date of its     *)
(* window that has usage, after any overlap of requests of one grouping,    *)
(* any failures of the bucket and of providers, and any crashes.            *)
THEOREM AloneCompleteHolds == Spec => []AloneComplete
  <1>1. EntriesInv => AloneComplete
    BY DEF EntriesInv
  <1> QED
    BY <1>1, StateInitially, StateKept, EntriesInitially, EntriesKept, PTL DEF Spec
================================================================================
