------------------------------ MODULE ListManager ------------------------------
(***************************************************************************)
(* What the LOCAL and GCS modes of the estimate cache have in common: the  *)
(* cache() decorator of Cache.ts around a manager that keeps the cached    *)
(* and the fetched estimates in two lists of its own.  One manager serves  *)
(* every request of the process, so requests share the lists.  The modules *)
(* LocalCache and GcsCache add the file or the object behind them.  An     *)
(* action is what a request does between two awaits.                       *)
(***************************************************************************)
EXTENDS MissingDates, CacheFile, FiniteSets

CONSTANTS
    Requests,      \* the requests of a behaviour, each served once
    Groupings,     \* the groupings, a cache file each
    MaxDate,       \* dates are the periods 1..MaxDate of a grouping
    MaxVersion,    \* how often the usage of a date may be revised
    InitialUsage,  \* the usage the behaviours start from
    LateDates,     \* the dates whose usage is still being billed
    Faults,        \* the failures the environment may show
    RequestSpace,  \* the requests that may be made
    MaxInFlight,   \* how many requests may be in progress together
    MaxCrashes,    \* how often the process may crash
    NoFile,        \* a cache file that does not exist
    NoRequest      \* the request of an identity that has not arrived

Dates == 1 .. MaxDate
Versions == 0 .. MaxVersion

\* "mid": the start date lies inside its period, not at its start.
Request ==
    [grp: Groupings, from: Dates, to: Dates, mid: BOOLEAN, ignoreCache: BOOLEAN]

(* An entry is the estimates of one period: a grouping, the index of the    *)
(* period and the version of the usage, 0 for no services.                  *)
Entry == [grp: Groupings, date: Dates, ver: Versions]

ASSUME ListManagerAssumption ==
    /\ MaxDate \in Nat /\ MaxVersion \in Nat /\ MaxInFlight \in Nat /\ MaxCrashes \in Nat
    /\ PeriodDays \in [Groupings -> Nat \ {0}]
    /\ SizeOf \in [Versions -> Nat \ {0}]
    /\ LateDates \subseteq Dates
    /\ InitialUsage \subseteq [Groupings -> [Dates -> Versions]]
    /\ RequestSpace \subseteq {q \in Request : q.from <= q.to}
    /\ NoRequest \notin Request

VARIABLES
    usage,             \* usage[g][d]: version of the billed usage, 0 for none
    cachedEstimates,   \* the manager's list of cached entries
    fetchedEstimates,  \* the manager's list of stored entries
    pc,                \* pc[r]: what r is waiting for
    req,               \* req[r]: the parameters of r
    call,              \* call[r]: what r fetches, see NoCall
    answer,            \* answer[r]: the entries r was answered with
    crashes,           \* how often the process has crashed
    overlapped         \* the requests that ran beside another one (history)

lists == <<cachedEstimates, fetchedEstimates>>
managerVars == <<usage, lists, pc, req, call, answer, crashes, overlapped>>

(* missing, pending: the missing dates, and those whose sub-request is out; *)
(* got: the entries fetched.                                                *)
NoCall == [missing |-> {}, pending |-> {}, got |-> {}]

ManagerTypeOK ==
    /\ usage \in [Groupings -> [Dates -> Versions]]
    /\ cachedEstimates \in Seq(Entry)
    /\ fetchedEstimates \in Seq(Entry)
    /\ req \in [Requests -> RequestSpace \cup {NoRequest}]
    /\ call \in [Requests -> [missing: SUBSET Dates, pending: SUBSET Dates, got: SUBSET Entry]]
    /\ answer \in [Requests -> Seq(Entry)]
    /\ crashes \in 0 .. MaxCrashes
    /\ overlapped \subseteq Requests

ManagerInit ==
    /\ usage \in InitialUsage
    /\ cachedEstimates = <<>>
    /\ fetchedEstimates = <<>>
    /\ pc = [r \in Requests |-> "idle"]
    /\ req = [r \in Requests |-> NoRequest]
    /\ call = [r \in Requests |-> NoCall]
    /\ answer = [r \in Requests |-> <<>>]
    /\ crashes = 0
    /\ overlapped = {}

-----------------------------------------------------------------------------
(* The environment.                                                         *)

\* The provider bills more usage for a date that is not closed yet.
PublishUsage(g, d) ==
    /\ d \in LateDates
    /\ usage[g][d] < MaxVersion
    /\ usage' = [usage EXCEPT ![g][d] = @ + 1]
    /\ UNCHANGED <<lists, pc, req, call, answer, crashes, overlapped>>

InFlight == {r \in Requests : pc[r] \notin {"idle", "done", "failed"}}

\* A validated request reaches the decorator, which asks the manager.
Admit(r, q, phase) ==
    /\ pc[r] = "idle"
    /\ Cardinality(InFlight) < MaxInFlight
    /\ req' = [req EXCEPT ![r] = q]
    /\ pc' = [pc EXCEPT ![r] = phase]
    /\ overlapped' = IF InFlight = {} THEN overlapped ELSE overlapped \cup InFlight \cup {r}
    /\ UNCHANGED <<usage, lists, call, answer, crashes>>

\* The process stops and is started again: its memory is lost.
LoseMemory ==
    /\ crashes < MaxCrashes
    /\ crashes' = crashes + 1
    /\ cachedEstimates' = <<>>
    /\ fetchedEstimates' = <<>>
    /\ pc' = [r \in Requests |-> IF r \in InFlight THEN "failed" ELSE pc[r]]
    /\ call' = [r \in Requests |-> NoCall]
    /\ UNCHANGED <<usage, req, answer, overlapped>>

-----------------------------------------------------------------------------
(* The end of a request.                                                    *)

\* Entry i of a list is not after entry j when the list is sorted, which keeps equals in place.
NotAfter(entries, i, j) ==
    LET a == Timestamp(entries[i])  b == Timestamp(entries[j]) IN a < b \/ (a = b /\ i <= j)

\* concat: the entries sorted by their timestamps.
InOrder(entries) ==
    LET positions == DOMAIN entries
        at == Listing(positions, {p \in positions \X positions : NotAfter(entries, p[1], p[2])})
    IN [k \in DOMAIN at |-> entries[at[k]]]

\* filterCachedEstimates: the entries that hold services.
WithServices(entries) == Kept(entries, {i \in DOMAIN entries : entries[i].ver # 0})

(* getEstimates, and the decorator's answer: both lists of the manager,     *)
(* without the entries that hold no services.                               *)
AnswerFrom(r, cached, fetched) ==
    /\ \E entries \in {WithServices(cached \o fetched)} :
          answer' = [answer EXCEPT ![r] = InOrder(entries)]
    /\ pc' = [pc EXCEPT ![r] = "done"]
    /\ call' = [call EXCEPT ![r] = NoCall]

\* The request is rejected.
Reject(r) ==
    /\ pc' = [pc EXCEPT ![r] = "failed"]
    /\ call' = [call EXCEPT ![r] = NoCall]
    /\ UNCHANGED <<usage, lists, req, answer, crashes, overlapped>>

-----------------------------------------------------------------------------
(* getMissingDates, once the manager has the content of its file.           *)

(* filterEstimatesForRequest: entries dated from the start to the end date, *)
(* so the first period is left out when the start date lies inside it.      *)
InWindow(q, e) ==
    LET first == (q.from - 1) * PeriodDays[q.grp] + 1
        last  == q.to * PeriodDays[q.grp]
    IN /\ IF q.mid THEN first < Timestamp(e) ELSE first <= Timestamp(e)
       /\ Timestamp(e) <= last

CachedDates(q, entries) ==
    {d \in Dates : \E i \in DOMAIN entries :
        Timestamp(entries[i]) = (d - 1) * PeriodDays[q.grp] + 1}

FindMissingDates(r, entries) ==
    \E found \in {Kept(entries, {i \in DOMAIN entries : InWindow(req[r], entries[i])})} :
       LET dates == DatesMissing(CachedDates(req[r], found), req[r])
       IN
       /\ cachedEstimates' = found
       /\ UNCHANGED fetchedEstimates
       /\ CASE dates # {} ->
                 /\ pc' = [pc EXCEPT ![r] = "fetch"]
                 /\ call' = [call EXCEPT ![r] = [missing |-> dates, pending |-> dates, got |-> {}]]
                 /\ UNCHANGED answer
            [] dates = {} /\ req[r].ignoreCache -> AnswerFrom(r, <<>>, <<>>)
            [] dates = {} /\ ~req[r].ignoreCache -> AnswerFrom(r, found, fetchedEstimates)

-----------------------------------------------------------------------------
(* Fetching the missing dates.                                              *)

EntriesFetched(r, dates) ==
    {e \in Entry : /\ e.grp = req[r].grp /\ e.date \in dates
                   /\ e.ver = usage[e.grp][e.date] /\ e.ver # 0}

\* Entries of different dates as a list in the order of the dates.
ByDate(entries) == Listing(entries, {p \in entries \X entries : p[1].date <= p[2].date})

\* The entries to persist: those fetched, and empty ones for the other dates.
ToPersist(r, got) ==
    LET filled == FillDates(call[r].missing, got)
        empty(d) == [grp |-> req[r].grp, date |-> d, ver |-> 0]
    IN ByDate(UNION {IF filled[d] = {} THEN {empty(d)} ELSE filled[d] : d \in DOMAIN filled})

\* There is nothing to store: the request ignores the cache or got nothing.
AnswerUnstored(r, got) ==
    /\ IF req[r].ignoreCache
       THEN AnswerFrom(r, <<>>, ByDate(got))
       ELSE got = {} /\ AnswerFrom(r, cachedEstimates, fetchedEstimates)
    /\ UNCHANGED lists

\* One sub-request answers, and others are still out.
FetchSome(r, run) ==
    /\ pc[r] = "fetch"
    /\ run \in MissingDataRequests(call[r].pending)
    /\ run # call[r].pending
    /\ call' = [call EXCEPT ![r].pending = @ \ run,
                            ![r].got = @ \cup EntriesFetched(r, run)]
    /\ UNCHANGED <<usage, lists, pc, req, answer, crashes, overlapped>>

(* The last sub-request answers: the entries there are to store, unless the *)
(* request is answered without storing any.                                 *)
AllFetched(r) == call[r].got \cup EntriesFetched(r, call[r].pending)

LastFetch(r) ==
    /\ pc[r] = "fetch"
    /\ call[r].pending \in MissingDataRequests(call[r].pending)

FetchUnstored(r) ==
    /\ LastFetch(r)
    /\ AnswerUnstored(r, AllFetched(r))
    /\ UNCHANGED <<usage, req, crashes, overlapped>>

\* A sub-request rejects, and with it the whole request.
FetchFails(r) ==
    /\ "fetch" \in Faults
    /\ pc[r] = "fetch"
    /\ Reject(r)

-----------------------------------------------------------------------------
(* Properties of the answers, in either mode.                               *)

Served(r) == pc[r] = "done" /\ ~req[r].ignoreCache

AnswersDate(r, d) ==
    \E i \in DOMAIN answer[r] : answer[r][i].grp = req[r].grp /\ answer[r][i].date = d

Complete(r) ==
    \A d \in DatesWithinRequestTimeFrame(req[r]) \ LateDates :
        usage[req[r].grp][d] > 0 => AnswersDate(r, d)

\* The requests that ran beside others asked for one grouping.
OneGroupingOverlapped == \A p, q \in overlapped : req[p].grp = req[q].grp

(* What overlapping requests do to the file does not outlive them: a        *)
(* request that ran by itself is answered completely even over a file that  *)
(* others, or a crash in the middle of a write, left torn, doubled or       *)
(* short.  Overlapping requests of two groupings may store the periods of   *)
(* the one under the other's, and those pass for its own later on (README). *)
AloneComplete ==
    OneGroupingOverlapped =>
        \A r \in Requests : Served(r) /\ r \notin overlapped => Complete(r)

(* No request is answered with two estimates of one period: a reader would  *)
(* add that usage up twice.                                                 *)
AnswersOnce ==
    \A r \in Requests : \A i, j \in DOMAIN answer[r] :
        answer[r][i].date = answer[r][j].date /\ answer[r][i].grp = answer[r][j].grp => i = j

\* The dates of r's own grouping it was answered on.
AnsweredDates(r) ==
    {answer[r][i].date : i \in {k \in DOMAIN answer[r] : answer[r][k].grp = req[r].grp}}
=============================================================================
