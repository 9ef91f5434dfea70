----------------------------- MODULE FootprintPages -----------------------------
(***************************************************************************)
(* The web client's loading of the footprint: useRemoteFootprintService    *)
(* runs an effect each time what it depends on changes; every run is a     *)
(* loop that asks the server page after page and at its end shows what it  *)
(* has put together. Nothing stops a loop when a later one starts, and a   *)
(* loop starts from what is shown at that moment. The element of a day is  *)
(* an object that several lists may hold: it is named by the loop that     *)
(* received it and its day, and "services" gives its estimates.            *)
(***************************************************************************)
EXTENDS Naturals, Sequences, FiniteSets, SequencesExt

CONSTANTS
    MaxLoops,      \* bound: runs of the effect that ask the server
    PageLimit,     \* config.PAGE_LIMIT
    Caches,        \* the kinds of cache, of those "serves" names
    Stored         \* the possible contents of the cache: sequences of [day, estimate]

ASSUME PagesAssumption ==
    /\ MaxLoops \in Nat \ {0}
    /\ PageLimit \in Nat \ {0}
    /\ Caches \subseteq {"paged", "shuffled", "whole", "fresh"}
    /\ \A r \in Stored : r \in Seq(ToSet(r)) /\ \A i \in DOMAIN r : r[i].day \in Nat

VARIABLES
    serves,            \* "paged", "shuffled" (MongoDB), "whole" (a file), "fresh" (DISABLE_CACHE)
    rows,              \* the stored estimates of the range, in the order they were stored in
    dashboard,         \* the address is /dashboard
    isAuthenticated, isCloudConnected, isFirstVisit,
    data,              \* what is shown: a sequence of objects
    services,          \* the estimates of each object: indices of rows
    loop               \* each run of the effect

pagesVars == <<serves, rows, dashboard, isAuthenticated, isCloudConnected, isFirstVisit,
               data, services, loop>>

Loops == 1 .. MaxLoops
Days == {rows[i].day : i \in DOMAIN rows}
Objects == Loops \X (UNION {{r[i].day : i \in DOMAIN r} : r \in Stored})

NoLoop == [at |-> "unused", skip |-> 0, estimates |-> << >>, empty |-> TRUE]

PagesInit ==
    /\ serves \in Caches
    /\ rows \in Stored
    /\ dashboard = FALSE
    /\ isAuthenticated = FALSE /\ isCloudConnected = FALSE /\ isFirstVisit = TRUE
    /\ data = << >>
    /\ services = [o \in Objects |-> << >>]
    /\ loop = [l \in Loops |-> NoLoop]

-----------------------------------------------------------------------------
(* The server's pages *)

Indices(from, to) == [i \in 1 .. (to - from + 1) |-> from + i - 1]

\* Mutant: skip counts pages, not estimates.
NextSkipByPage(skip) == skip + 1

NextSkip(skip) == skip + PageLimit

\* The elements of a sequence that are in a set.
Chosen(seq, set) == FlattenSeq([k \in DOMAIN seq |-> IF seq[k] \in set THEN <<seq[k]>> ELSE << >>])

UsesMongoDB == serves \in {"paged", "shuffled"}

\* How many estimates $skip and $limit leave.
Held(skip) ==
    IF skip >= Len(rows) THEN 0
    ELSE IF skip + PageLimit < Len(rows) THEN PageLimit ELSE Len(rows) - skip

Everything == Indices(1, Len(rows))

(* The pages the server may answer with.  MongoDB's $skip and $limit come    *)
(* before $sort: they count the documents in the order the collection is     *)
(* read, which is the same for every request or, "shuffled", any one.        *)
Pages(skip) ==
    CASE ~UsesMongoDB -> {Everything}
      [] serves = "paged" -> {Indices(skip + 1, skip + Held(skip))}
      [] serves = "shuffled" -> {Chosen(Everything, set) : set \in kSubset(Held(skip), DOMAIN rows)}

\* The days of a page: $group keeps no order, the other caches do.
PageOrders(page) ==
    LET days == {rows[page[i]].day : i \in DOMAIN page}
        orders == {o \in [1 .. Cardinality(days) -> days] : IsInjective(o)}
    IN  IF UsesMongoDB THEN orders
        ELSE {o \in orders : \A i, j \in DOMAIN o : i < j => o[i] < o[j]}

OfDay(page, day) == Chosen(page, {i \in DOMAIN rows : rows[i].day = day})

-----------------------------------------------------------------------------
(* Putting the pages together *)

LastShown(estimates) == rows[Last(services[Last(estimates)])].estimate

\* checkForEqualObjects: the last estimates of the page and of the list are equal.
EqualsLast(order, page, estimates) ==
    /\ estimates # << >>
    /\ \/ order = << >>
       \/ rows[Last(OfDay(page, Last(order)))].estimate = LastShown(estimates)

\* Mutant: only an empty page ends the loop.
LoopExitWhenEmpty(order, page, estimates) == order = << >>

LoopExit(order, page, estimates) ==
    order = << >> \/ serves = "fresh" \/ EqualsLast(order, page, estimates)

KnownDays(estimates) == {estimates[i][2] : i \in DOMAIN estimates}

NewDays(order, estimates) == Chosen(order, Days \ KnownDays(estimates))

\* concatenateResults: the list it returns, and the objects it changes in place.
ConcatenatedList(l, order, estimates) ==
    LET new == NewDays(order, estimates) IN estimates \o [i \in DOMAIN new |-> <<l, new[i]>>]

ConcatenatedServices(l, order, page, estimates) ==
    LET new == NewDays(order, estimates)
        Added(o) == (\E i \in DOMAIN order : order[i] = o[2]) /\ o \in ToSet(estimates)
        New(o) == \E i \in DOMAIN new : o = <<l, new[i]>>
    IN  [o \in Objects |-> CASE New(o) -> OfDay(page, o[2])
                             [] Added(o)   -> services[o] \o OfDay(page, o[2])
                             [] OTHER      -> services[o]]

-----------------------------------------------------------------------------
(* The effect *)

Enabled(onDashboard, authenticated, firstVisit) == onDashboard /\ authenticated /\ firstVisit

RunsLeft == loop[MaxLoops].at = "unused"

\* The next run of the effect; it starts from what is shown.
Started(shown) ==
    LET l == CHOOSE k \in Loops : loop[k].at = "unused" /\ \A j \in 1 .. (k - 1) : loop[j].at # "unused"
    IN  [loop EXCEPT ![l] = [at |-> "asking", skip |-> 0, estimates |-> shown, empty |-> shown = << >>]]

\* The page is drawn anew: the effect runs if what it depends on has changed, and a visit
\* to the dashboard with data is no first visit any more.
Render(onDashboard, authenticated, connected, firstVisit) ==
    LET before == Enabled(dashboard, isAuthenticated, isFirstVisit)
        after == Enabled(onDashboard, authenticated, firstVisit)
        runs == after /\ (~before \/ connected # isCloudConnected)
    IN  /\ runs => RunsLeft
        /\ loop' = IF runs THEN Started(data) ELSE loop
        /\ dashboard' = onDashboard
        /\ isAuthenticated' = authenticated
        /\ isCloudConnected' = connected
        /\ isFirstVisit' = (firstVisit /\ ~(after /\ data # << >>))
        /\ UNCHANGED <<serves, rows, data, services>>

\* The user goes to the dashboard or leaves it; a loop goes on.
Visit == Render(~dashboard, isAuthenticated, isCloudConnected, isFirstVisit)

\* getAccount: the session's account, if there is one.
AccountAnswered(authenticated, connected) ==
    /\ <<authenticated, connected>> # <<isAuthenticated, isCloudConnected>>
    /\ Render(dashboard, authenticated, connected, isFirstVisit)

\* logout, when the server does not answer: the page stays, for another first visit.
LogoutFails ==
    /\ isAuthenticated /\ ~isFirstVisit
    /\ Render(dashboard, isAuthenticated, isCloudConnected, TRUE)

\* setData at the end of a loop, and the effect of useFootprintData that follows.
Show(l, estimates) ==
    /\ data' = estimates
    /\ isFirstVisit' = (isFirstVisit /\ ~(dashboard /\ isAuthenticated /\ estimates # << >>))

PageAnswered(l) ==
    LET known == loop[l].estimates
    IN  /\ loop[l].at = "asking"
        /\ \E page \in Pages(loop[l].skip) : \E order \in PageOrders(page) :
              LET ends == LoopExit(order, page, known)
                  keeps == order = << >> \/ EqualsLast(order, page, known)
                  list == IF keeps THEN known ELSE ConcatenatedList(l, order, known)
              IN  /\ services' = IF keeps THEN services
                                 ELSE ConcatenatedServices(l, order, page, known)
                  /\ loop' = [loop EXCEPT ![l] =
                                 [at |-> IF ends THEN "done" ELSE "asking", skip |-> NextSkip(@.skip),
                                  estimates |-> list, empty |-> @.empty]]
                  /\ IF ends THEN Show(l, list) ELSE UNCHANGED <<data, isFirstVisit>>
        /\ UNCHANGED <<serves, rows, dashboard, isAuthenticated, isCloudConnected>>

\* A request fails: what has been put together is shown all the same.
PageFails(l) ==
    /\ loop[l].at = "asking"
    /\ loop' = [loop EXCEPT ![l].at = "failed"]
    /\ Show(l, loop[l].estimates)
    /\ UNCHANGED <<serves, rows, dashboard, isAuthenticated, isCloudConnected, services>>

\* The browser leaves for the sign-in page and comes back: the client starts afresh.
Reload ==
    /\ dashboard' = FALSE /\ isAuthenticated' = FALSE /\ isCloudConnected' = FALSE
    /\ isFirstVisit' = TRUE /\ data' = << >>
    /\ loop' = [l \in Loops |-> IF loop[l].at = "unused" THEN NoLoop ELSE [NoLoop EXCEPT !.at = "gone"]]
    /\ services' = [o \in Objects |-> << >>]
    /\ UNCHANGED <<serves, rows>>

=============================================================================
