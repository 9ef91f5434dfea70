--------------------------------- MODULE WebApp ---------------------------------
(***************************************************************************)
(* The web client and the API together: every page the client's loops ask  *)
(* for is a request that has to pass the session's validator, while the    *)
(* same browser signs in, connects the cloud and signs out. The request    *)
(* of loop l is handled by handler l; the user's own requests are handled  *)
(* by the other handlers.                                                  *)
(***************************************************************************)
EXTENDS FootprintPages, Sessions

CONSTANT MaxStarts   \* bound: page loops and requests of the user taken together

ASSUME HandlersAssumption == Loops \subseteq Handlers /\ MaxStarts \in Nat

\* The handlers of the user's requests.
Users == Handlers \ Loops

vars == <<pagesVars, sessionVars>>

Init == PagesInit /\ SessionsInit

-----------------------------------------------------------------------------
(* The user *)

\* The browser comes back from the identity service: the client has been left.
SignIn(u) == Arrive(u, "signIn") /\ Reload
ConnectBack(u) == Arrive(u, "connect") /\ Reload
SignOut(u) == Arrive(u, "logout") /\ Reload

\* connectToCloud: the client takes the cloud for connected before it leaves.
ConnectToCloud == GoToConsent /\ Render(dashboard, isAuthenticated, TRUE, TRUE)

\* getAccount reads the session as it is stored; an account without a user stops it.
AskAccount ==
    /\ stored.account => stored.user # 0
    /\ AccountAnswered(stored.isAuthenticated, stored.isCloudConnected)
    /\ UNCHANGED sessionVars

Starts == arrivals + Cardinality({l \in Loops : loop[l].at # "unused"})

UserStep ==
    \/ \E u \in Users : SignIn(u) \/ ConnectBack(u) \/ SignOut(u)
    \/ ConnectToCloud \/ AskAccount
    \/ (Visit \/ LogoutFails) /\ UNCHANGED sessionVars

-----------------------------------------------------------------------------
(* The pages *)

AskPage(l) == loop[l].at = "asking" /\ At(l, "idle") /\ Arrive(l, "footprint") /\ UNCHANGED pagesVars

Receive(l) ==
    /\ At(l, "answered")
    /\ IF handler[l].answer = "served" THEN PageAnswered(l) ELSE PageFails(l)
    /\ handler' = [handler EXCEPT ![l] = Idle]
    /\ UNCHANGED <<stored, consent, records, issued, expired, overlapped, arrivals, failures>>

Next ==
    \/ UserStep /\ Starts' <= MaxStarts
    \/ \E l \in Loops : AskPage(l) \/ Receive(l)
    \/ \E h \in Handlers : RequestStep(h) /\ UNCHANGED pagesVars
    \/ (TokenExpires \/ SessionExpires) /\ UNCHANGED pagesVars

Spec == Init /\ [][Next]_vars

-----------------------------------------------------------------------------
(* Properties *)

LoopStates == {"unused", "asking", "done", "failed", "gone"}

TypeOK ==
    /\ serves \in Caches /\ rows \in Stored
    /\ {dashboard, isAuthenticated, isCloudConnected, isFirstVisit, consent, overlapped} \subseteq BOOLEAN
    /\ ToSet(data) \subseteq Objects
    /\ \A o \in Objects : ToSet(services[o]) \subseteq DOMAIN rows
    /\ \A l \in Loops : /\ loop[l].at \in LoopStates /\ loop[l].skip \in Nat
                        /\ ToSet(loop[l].estimates) \subseteq Objects
    /\ expired \in 0 .. issued
    /\ \A s \in {stored} \cup {handler[h].session : h \in Handlers} :
          s.user \in 0 .. Len(records) /\ s.accessTokenToCloud \in 0 .. issued

\* The estimates of a list of objects, one after the other.
Shown(estimates) == FlattenSeq([i \in DOMAIN estimates |-> services[estimates[i]]])

(* A page loop that ends without an error has each stored estimate of the    *)
(* range exactly once, under its day, however many loops ran next to it and  *)
(* in whatever order the cache grouped the pages (FootprintServiceHook.ts,   *)
(* fetchEstimates and concatenateResults): as long as no two estimates are   *)
(* equal, no loop started from data that was shown already, and the cache is *)
(* read in the same order by every request.  MongoDB promises no such order  *)
(* to $skip and $limit without a $sort before them ("shuffled").             *)
LoadedWhole ==
    (/\ serves # "shuffled"
     /\ \A i, j \in DOMAIN rows : rows[i].estimate = rows[j].estimate => i = j
     /\ \A l \in Loops : loop[l].empty)
    => \A l \in Loops : loop[l].at = "done" =>
          /\ IsInjective(Shown(loop[l].estimates))
          /\ ToSet(Shown(loop[l].estimates)) = DOMAIN rows
          /\ \A o \in ToSet(loop[l].estimates) : \A i \in ToSet(services[o]) : rows[i].day = o[2]

\* No list shows an estimate twice.
NoEstimateTwice == IsInjective(Shown(data))

\* A loop comes to its end: it asks for the stored pages, and for one more or, when what it
\* started from was shown already or the cache does not page, for one that repeats the last.
FewRequests == \A l \in Loops : loop[l].skip <= Len(rows) + 2 * PageLimit

\* The first sign-in creates the user's record and no later one does, unless two requests were
\* under way together (auth.provider.ts, handleRedirect: find, then create).
OneRecord == ~overlapped => Len(records) <= 1

\* Between requests the session knows the token and the connection of the user's record, after
\* any sequence of sign-ins, connections, silent renewals, disconnections and sign-outs in which
\* no two requests overlapped and no call failed but the silent renewal itself.
SessionAgrees ==
    (~overlapped /\ failures = 0 /\ stored # NoSession /\ \A h \in Handlers : ~UnderWay(h)) =>
        /\ stored.user # 0
        /\ stored.accessTokenToCloud = records[stored.user].accessToken
        /\ stored.isCloudConnected = records[stored.user].connected

=============================================================================
