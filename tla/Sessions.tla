------------------------------- MODULE Sessions -------------------------------
(***************************************************************************)
(* The API's sign-in, its session and the user's record. Every request     *)
(* works on its own copy of the browser's session, read when the request   *)
(* arrives and stored whole when it is answered, if it has changed. The    *)
(* record of the user in MongoDB is read, changed and stored as a whole    *)
(* too. One browser and one user; the tokens for the cloud are numbered as *)
(* they are issued, and 0 stands for no token.                             *)
(***************************************************************************)
EXTENDS Naturals, Sequences

CONSTANTS
    Handlers,      \* requests that can be under way together
    MaxTokens,     \* bound: no renewal once so many tokens have been issued
    MaxArrivals,   \* bound: requests to sign in, to connect and to sign out
    MaxFailures    \* bound: failing calls to the record store or the identity service

ASSUME SessionsAssumption ==
    /\ Handlers # {}
    /\ {MaxTokens, MaxArrivals, MaxFailures} \subseteq Nat

VARIABLES
    stored,        \* the session in the store, under the browser's cookie
    consent,       \* the browser has been sent to the consent page
    records,       \* the records with the user's external id
    issued,        \* tokens issued so far
    expired,       \* the tokens up to this one have expired
    handler,       \* each request under way
    overlapped,    \* two requests have been under way together (history)
    arrivals, failures

sessionVars == <<stored, consent, records, issued, expired, handler, overlapped, arrivals, failures>>

\* session.account: none, without a user, or with one; user is the record's number.
NoSession == [isAuthenticated |-> FALSE, account |-> FALSE, user |-> 0,
              isCloudConnected |-> FALSE, tokenCache |-> FALSE, accessTokenToCloud |-> 0]

\* cloudConnections.azure, in its three shapes: none, connected, disconnected.
NeverConnected == [azure |-> FALSE, connected |-> FALSE, accessToken |-> 0]
Connected(token) == [azure |-> TRUE, connected |-> TRUE, accessToken |-> token]
Disconnected == [azure |-> TRUE, connected |-> FALSE, accessToken |-> 0]

Idle == [pc |-> "idle", session |-> NoSession, changed |-> FALSE,
         record |-> NeverConnected, answer |-> "none"]

\* A user nobody knows, or one who has connected the cloud before.
SessionsInit ==
    /\ stored = NoSession
    /\ consent = FALSE
    /\ \/ records = << >> /\ issued = 0
       \/ records = <<Connected(1)>> /\ issued = 1
    /\ expired = 0
    /\ handler = [h \in Handlers |-> Idle]
    /\ overlapped = FALSE /\ arrivals = 0 /\ failures = 0

UnderWay(h) == handler[h].pc \notin {"idle", "answered"}
Valid(token) == token > expired

-----------------------------------------------------------------------------
(* Requests *)

\* express-session reads the session; a request to sign in or out comes from the user.
Arrive(h, kind) ==
    /\ ~UnderWay(h)
    /\ kind # "footprint" => arrivals < MaxArrivals
    /\ kind = "connect" => consent
    /\ consent' = (consent /\ kind # "connect")
    /\ handler' = [handler EXCEPT ![h] = [Idle EXCEPT !.pc = kind, !.session = stored]]
    /\ overlapped' = (overlapped \/ \E k \in Handlers : UnderWay(k))
    /\ arrivals' = IF kind = "footprint" THEN arrivals ELSE arrivals + 1
    /\ UNCHANGED <<stored, records, issued, expired, failures>>

\* connectCloud: a signed-in user is sent to give consent.
GoToConsent ==
    /\ stored.isAuthenticated /\ ~consent
    /\ consent' = TRUE
    /\ UNCHANGED <<stored, records, issued, expired, handler, overlapped, arrivals, failures>>

At(h, pc) == handler[h].pc = pc
Mine(h) == handler[h].session

\* resave is false: only a changed session is stored, and then all of it.
StoredAfter(h, session, changed) == IF changed THEN session ELSE stored

Answer(h, answer, session, changed) ==
    /\ handler' = [handler EXCEPT ![h] = [Idle EXCEPT !.pc = "answered", !.answer = answer]]
    /\ stored' = StoredAfter(h, session, changed)

Continue(h, pc, session, record) ==
    /\ handler' = [handler EXCEPT ![h] =
                      [pc |-> pc, session |-> session, record |-> record, answer |-> "none",
                       changed |-> (handler[h].changed \/ session # Mine(h))]]
    /\ UNCHANGED stored

\* A call to the identity service or to the record store fails.
Failing == failures < MaxFailures /\ failures' = failures + 1

\* next(error), with what the session has become so far.
ErrorAt(h, pc) ==
    /\ At(h, pc)
    /\ Failing
    /\ Answer(h, "error", Mine(h), handler[h].changed)
    /\ UNCHANGED <<consent, records, issued, expired, overlapped, arrivals>>

-----------------------------------------------------------------------------
(* handleRedirect: back from the sign-in page *)

SignInRedeems(h) ==
    /\ At(h, "signIn")
    /\ Continue(h, "findUser", [Mine(h) EXCEPT !.isAuthenticated = TRUE, !.account = TRUE,
                        !.user = 0, !.isCloudConnected = FALSE, !.tokenCache = TRUE], NeverConnected)
    /\ UNCHANGED <<consent, records, issued, expired, overlapped, arrivals, failures>>

\* The account carries the record's user from here on.
WithUser(session, user, connected) ==
    [session EXCEPT !.user = user, !.isCloudConnected = connected]

SignedIn(session, user, record) ==
    [WithUser(session, user, record.connected) EXCEPT !.accessTokenToCloud = record.accessToken]

\* Mutant: only a user who has connected the cloud is found.
KnownConnected(found) == found # << >> /\ found[1].connected

\* getUserByExternalId
Known(found) == found # << >>

SignInFindsUser(h) ==
    /\ At(h, "findUser")
    /\ Known(records)
    /\ Answer(h, "redirect", SignedIn(Mine(h), 1, records[1]), TRUE)
    /\ UNCHANGED <<consent, records, issued, expired, overlapped, arrivals, failures>>

SignInFindsNobody(h) ==
    /\ At(h, "findUser")
    /\ ~Known(records)
    /\ Continue(h, "createUser", Mine(h), NeverConnected)
    /\ UNCHANGED <<consent, records, issued, expired, overlapped, arrivals, failures>>

\* Mutant: the new user is not saved.
CreatedNever(before) == before

Created(before) == Append(before, NeverConnected)

\* createUser: another request may have created the user since; nothing forbids a second one.
SignInCreatesUser(h) ==
    /\ At(h, "createUser")
    /\ records' = Created(records)
    /\ Answer(h, "redirect", SignedIn(Mine(h), Len(records) + 1, NeverConnected), TRUE)
    /\ UNCHANGED <<consent, issued, expired, overlapped, arrivals, failures>>

-----------------------------------------------------------------------------
(* handleRedirectToConnect: back from the consent page *)

ConnectRedeems(h) ==
    /\ At(h, "connect")
    /\ issued' = issued + 1
    /\ Continue(h, "findConnecting", [Mine(h) EXCEPT
                    !.isAuthenticated = TRUE, !.account = TRUE, !.accessTokenToCloud = issued + 1],
                Connected(issued + 1))
    /\ UNCHANGED <<consent, records, expired, overlapped, arrivals, failures>>

\* user.id of no user: an error, after the session has received the token.
ConnectFindsNobody(h) ==
    /\ At(h, "findConnecting")
    /\ ~Known(records)
    /\ Answer(h, "error", Mine(h), TRUE)
    /\ UNCHANGED <<consent, records, issued, expired, overlapped, arrivals, failures>>

ConnectFindsUser(h) ==
    /\ At(h, "findConnecting")
    /\ Known(records)
    /\ Continue(h, "storeConnection", Mine(h), handler[h].record)
    /\ UNCHANGED <<consent, records, issued, expired, overlapped, arrivals, failures>>

StoreRecord(user, record) == [records EXCEPT ![user] = record]

ConnectStores(h) ==
    /\ At(h, "storeConnection")
    /\ records' = StoreRecord(1, handler[h].record)
    /\ Answer(h, "redirect", WithUser(Mine(h), 1, TRUE), TRUE)
    /\ UNCHANGED <<consent, issued, expired, overlapped, arrivals, failures>>

-----------------------------------------------------------------------------
(* logout: the session is removed from the store, the request's copy with it *)

Logout(h) ==
    /\ At(h, "logout")
    /\ handler' = [handler EXCEPT ![h] = [Idle EXCEPT !.pc = "answered", !.answer = "signedOut"]]
    /\ stored' = NoSession
    /\ UNCHANGED <<consent, records, issued, expired, overlapped, arrivals, failures>>

-----------------------------------------------------------------------------
(* cloudAccessTokenValidator, in front of the footprint's handler *)

\* No session or no token: 401.
Refuse(h) ==
    /\ At(h, "footprint")
    /\ ~Mine(h).isAuthenticated \/ Mine(h).accessTokenToCloud = 0
    /\ Answer(h, "refused", Mine(h), FALSE)
    /\ UNCHANGED <<consent, records, issued, expired, overlapped, arrivals, failures>>

HasToken(h) == Mine(h).isAuthenticated /\ Mine(h).accessTokenToCloud # 0

Admit(h) ==
    /\ At(h, "footprint")
    /\ HasToken(h) /\ Valid(Mine(h).accessTokenToCloud)
    /\ Continue(h, "estimate", Mine(h), NeverConnected)
    /\ UNCHANGED <<consent, records, issued, expired, overlapped, arrivals, failures>>

\* FootprintApiMiddleware: the estimates, or 400, 416 or 500. Only now is the session stored.
Estimate(h) ==
    /\ At(h, "estimate")
    /\ \E answer \in {"served", "error"} : Answer(h, answer, Mine(h), handler[h].changed)
    /\ UNCHANGED <<consent, records, issued, expired, overlapped, arrivals, failures>>

\* The public key cannot be had: 403, whatever the token.
KeyFails(h) == HasToken(h) /\ ErrorAt(h, "footprint")

\* acquireTokenForConsumptionMgmt: the user's record, by the session's id. Without a record, or
\* one that was never connected, the next line throws.
RenewReads(h) ==
    /\ At(h, "footprint")
    /\ HasToken(h) /\ ~Valid(Mine(h).accessTokenToCloud)
    /\ IF Mine(h).user # 0 /\ records[Mine(h).user].azure
       THEN Continue(h, "renew", Mine(h), records[Mine(h).user])
       ELSE Continue(h, "disconnect", Mine(h), NeverConnected)
    /\ UNCHANGED <<consent, records, issued, expired, overlapped, arrivals, failures>>

\* acquireTokenSilent needs the account of a connected record and what the sign-in left in the
\* session; a session that began with handleRedirectToConnect has no token cache.
RenewAcquires(h) ==
    /\ At(h, "renew")
    /\ handler[h].record.connected /\ Mine(h).tokenCache
    /\ issued < MaxTokens
    /\ issued' = issued + 1
    /\ Continue(h, "storeRenewed", [Mine(h) EXCEPT !.accessTokenToCloud = issued + 1],
                [handler[h].record EXCEPT !.accessToken = issued + 1])
    /\ UNCHANGED <<consent, records, expired, overlapped, arrivals, failures>>

RenewStores(h) ==
    /\ At(h, "storeRenewed")
    /\ records' = StoreRecord(Mine(h).user, handler[h].record)
    /\ Continue(h, "estimate", Mine(h), handler[h].record)
    /\ UNCHANGED <<consent, issued, expired, overlapped, arrivals, failures>>

\* No account, consent withdrawn or a failing call: the catch disconnects the user.
RenewFails(h) ==
    /\ \/ At(h, "renew") /\ UNCHANGED failures
       \/ At(h, "storeRenewed") /\ Failing
       \/ At(h, "footprint") /\ HasToken(h) /\ ~Valid(Mine(h).accessTokenToCloud) /\ Failing
    /\ Continue(h, "disconnect", Mine(h), handler[h].record)
    /\ UNCHANGED <<consent, records, issued, expired, overlapped, arrivals>>

\* Mutant: only the flag is taken back.
CutOffFlag(session) == [session EXCEPT !.isCloudConnected = FALSE]

CutOff(session) == [session EXCEPT !.isCloudConnected = FALSE, !.accessTokenToCloud = 0]

\* disconnectUser: an account without a user throws at once; the session is cut off first.
DisconnectSession(h) ==
    /\ At(h, "disconnect")
    /\ IF Mine(h).user = 0
       THEN Answer(h, "error", Mine(h), handler[h].changed)
       ELSE Continue(h, "disconnectRead", CutOff(Mine(h)), handler[h].record)
    /\ UNCHANGED <<consent, records, issued, expired, overlapped, arrivals, failures>>

DisconnectReads(h) ==
    /\ At(h, "disconnectRead")
    /\ IF records[Mine(h).user].azure
       THEN Continue(h, "disconnectStore", Mine(h), Disconnected)
       ELSE Answer(h, "error", Mine(h), TRUE)
    /\ UNCHANGED <<consent, records, issued, expired, overlapped, arrivals, failures>>

DisconnectStores(h) ==
    /\ At(h, "disconnectStore")
    /\ records' = StoreRecord(Mine(h).user, handler[h].record)
    /\ Answer(h, "error", Mine(h), TRUE)
    /\ UNCHANGED <<consent, issued, expired, overlapped, arrivals, failures>>

-----------------------------------------------------------------------------
(* Time *)

TokenExpires ==
    /\ expired < issued
    /\ expired' = expired + 1
    /\ UNCHANGED <<stored, consent, records, issued, handler, overlapped, arrivals, failures>>

\* Thirty minutes without a request: longer than any request lasts.
SessionExpires ==
    /\ stored # NoSession
    /\ \A h \in Handlers : ~UnderWay(h)
    /\ stored' = NoSession
    /\ UNCHANGED <<consent, records, issued, expired, handler, overlapped, arrivals, failures>>

-----------------------------------------------------------------------------

FailingStep(h) ==
    \/ \E pc \in {"signIn", "findUser", "createUser", "connect", "findConnecting",
                  "storeConnection", "disconnectRead", "disconnectStore"} : ErrorAt(h, pc)
    \/ KeyFails(h)

\* The steps of a request, without the failures.
Work(h) ==
    \/ SignInRedeems(h) \/ SignInFindsUser(h) \/ SignInFindsNobody(h) \/ SignInCreatesUser(h)
    \/ ConnectRedeems(h) \/ ConnectFindsNobody(h) \/ ConnectFindsUser(h) \/ ConnectStores(h)
    \/ Logout(h)
    \/ Refuse(h) \/ Admit(h) \/ Estimate(h) \/ RenewReads(h) \/ RenewAcquires(h) \/ RenewStores(h)
    \/ RenewFails(h)
    \/ DisconnectSession(h) \/ DisconnectReads(h) \/ DisconnectStores(h)

RequestStep(h) == Work(h) \/ FailingStep(h)

=============================================================================
