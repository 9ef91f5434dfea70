------------------------------ MODULE WebAppProofs ------------------------------
(***************************************************************************)
(* Theorems about WebApp: about its sessions, for any number of requests   *)
(* of the user, of tokens and of failures, and any order in which they     *)
(* come; and about the client's page loops, for any stored estimates, page *)
(* size, cache and number of loops that overlap.                           *)
(***************************************************************************)
EXTENDS WebApp, FiniteSetTheorems, FunctionTheorems, SequenceTheorems, WellFoundedInduction, TLAPS

-----------------------------------------------------------------------------
(* Types. A record has one of three shapes, its token was issued, and the   *)
(* user of a session has a record.                                          *)

Tokens == 0 .. issued
Records == {NeverConnected, Disconnected} \cup {Connected(t) : t \in Tokens}
SessionOf(users, tokens) ==
    [isAuthenticated: BOOLEAN, account: BOOLEAN, user: users,
     isCloudConnected: BOOLEAN, tokenCache: BOOLEAN, accessTokenToCloud: tokens]
RecordUsers == 0 .. Len(records)
Session == SessionOf(RecordUsers, Tokens)
Phases == {"idle", "answered", "signIn", "findUser", "createUser", "connect", "findConnecting",
           "storeConnection", "logout", "footprint", "estimate", "renew", "storeRenewed",
           "disconnect", "disconnectRead", "disconnectStore"}
Answers == {"none", "redirect", "error", "refused", "served", "signedOut"}
Request == [pc: Phases, session: Session, changed: BOOLEAN, record: Records, answer: Answers]

SessionsTyped ==
    /\ issued \in Nat /\ failures \in Nat
    /\ {overlapped, consent} \subseteq BOOLEAN
    /\ records \in Seq(Records)
    /\ stored \in Session
    /\ handler \in [Handlers -> Request]

\* Who stores a connection has found the user, and who renews one has a record.
OfUser == {"renew", "storeRenewed", "disconnectRead", "disconnectStore"}

FoundInv ==
    \A h \in Handlers :
        /\ At(h, "storeConnection") => Len(records) >= 1
        /\ handler[h].pc \in OfUser => Mine(h).user # 0

-----------------------------------------------------------------------------
(* What a step of a request does to the requests.                           *)

\* Only the request itself moves, to its answer.
LEMMA AnswerMoves ==
    ASSUME SessionsTyped, NEW h \in Handlers, NEW answer, NEW session, NEW changed \in BOOLEAN,
           Answer(h, answer, session, changed)
    PROVE  /\ handler'[h].pc = "answered"
           /\ \A k \in Handlers : k # h => handler'[k] = handler[k]
           /\ changed => stored' = session
           /\ ~changed => stored' = stored
  BY DEF SessionsTyped, Answer, StoredAfter, Idle

\* Only the request itself moves, and the session is not stored.
LEMMA ContinueMoves ==
    ASSUME SessionsTyped, NEW h \in Handlers, NEW pc, NEW session, NEW record,
           Continue(h, pc, session, record)
    PROVE  /\ handler'[h].pc = pc /\ Mine(h)' = session /\ handler'[h].record = record
           /\ handler'[h].changed <=> (handler[h].changed \/ session # Mine(h))
           /\ \A k \in Handlers : k # h => handler'[k] = handler[k]
           /\ stored' = stored
  BY DEF SessionsTyped, Continue, Mine

\* The request's own share of the state, in the shape it is typed in.
LEMMA RequestTyped ==
    ASSUME SessionsTyped, NEW h \in Handlers
    PROVE  /\ handler[h].pc \in Phases /\ Mine(h) \in Session /\ handler[h].changed \in BOOLEAN
           /\ handler[h].record \in Records
           /\ records # << >> <=> Len(records) >= 1
           /\ Len(records) \in Nat /\ \A i \in 1 .. Len(records) : records[i] \in Records
  BY DEF SessionsTyped, Request, Mine

-----------------------------------------------------------------------------
(* Every step keeps the sessions typed.                                     *)

\* Tokens are issued and records are made, and neither is ever taken back.
Grown ==
    /\ issued' \in Nat /\ issued <= issued'
    /\ records' \in Seq(Records') /\ Len(records) <= Len(records')

\* What was typed stays typed.
LEMMA TypesGrow ==
    ASSUME SessionsTyped, Grown
    PROVE  Records \subseteq Records' /\ Session \subseteq Session' /\ Request \subseteq Request'
  <1>1. Tokens \subseteq Tokens'
    BY DEF SessionsTyped, Grown, Tokens
  <1>2. Records \subseteq Records'
    BY <1>1 DEF Records, Connected, NeverConnected, Disconnected
  <1>3. Session \subseteq Session'
    BY <1>1 DEF SessionsTyped, Grown, Session, SessionOf, RecordUsers
  <1> QED
    BY <1>2, <1>3 DEF Request

\* The records as they are have grown, too.
LEMMA SameRecords ==
    ASSUME SessionsTyped, UNCHANGED <<records, issued>>
    PROVE  Grown /\ Records' = Records /\ Session' = Session
  BY DEF SessionsTyped, Grown, Records, Session, SessionOf, RecordUsers, Tokens

\* The fields of a record.
LEMMA RecordFields ==
    ASSUME SessionsTyped, NEW r \in Records
    PROVE  r.azure \in BOOLEAN /\ r.connected \in BOOLEAN /\ r.accessToken \in Tokens
  <1>1. 0 \in Tokens
    BY DEF SessionsTyped, Tokens
  <1>2. CASE r = NeverConnected
    BY <1>1, <1>2 DEF NeverConnected
  <1>3. CASE r = Disconnected
    BY <1>1, <1>3 DEF Disconnected
  <1>4. ASSUME NEW t \in Tokens, r = Connected(t)
        PROVE  r.azure \in BOOLEAN /\ r.connected \in BOOLEAN /\ r.accessToken \in Tokens
    BY <1>4 DEF Connected
  <1> QED
    BY <1>2, <1>3, <1>4 DEF Records

\* A session without a user and a token is one, whatever the records are.
LEMMA NoSessionTyped ==
    ASSUME SessionsTyped
    PROVE  NoSession \in Session /\ NeverConnected \in Records /\ Disconnected \in Records
  BY DEF SessionsTyped, Session, SessionOf, RecordUsers, Records, Tokens, NoSession

\* A session that is given its user.
LEMMA WithUserTyped ==
    ASSUME NEW users, NEW tokens, NEW session \in SessionOf(users, tokens),
           NEW user \in users, NEW c \in BOOLEAN
    PROVE  /\ WithUser(session, user, c) \in SessionOf(users, tokens)
           /\ WithUser(session, user, c).user = user
           /\ WithUser(session, user, c).isCloudConnected = c
           /\ WithUser(session, user, c).accessTokenToCloud = session.accessTokenToCloud
  BY DEF WithUser, SessionOf

\* A session that is given its user and what the user's record says of the cloud.
LEMMA SignedInTyped ==
    ASSUME NEW users, NEW tokens, NEW session \in SessionOf(users, tokens), NEW user \in users,
           NEW r, r.connected \in BOOLEAN, r.accessToken \in tokens
    PROVE  /\ SignedIn(session, user, r) \in SessionOf(users, tokens)
           /\ SignedIn(session, user, r).user = user
           /\ SignedIn(session, user, r).accessTokenToCloud = r.accessToken
           /\ SignedIn(session, user, r).isCloudConnected = r.connected
  <1> DEFINE given == WithUser(session, user, r.connected)
  <1>1. /\ given \in SessionOf(users, tokens)
        /\ given.user = user /\ given.isCloudConnected = r.connected
    BY WithUserTyped
  <1> HIDE DEF given
  <1>2. /\ [given EXCEPT !.accessTokenToCloud = r.accessToken] \in SessionOf(users, tokens)
        /\ [given EXCEPT !.accessTokenToCloud = r.accessToken].user = user
        /\ [given EXCEPT !.accessTokenToCloud = r.accessToken].accessTokenToCloud = r.accessToken
        /\ [given EXCEPT !.accessTokenToCloud = r.accessToken].isCloudConnected = r.connected
    BY <1>1 DEF SessionOf
  <1> QED
    BY <1>2 DEF SignedIn, given

\* A request goes on with a session and a record that are typed.
LEMMA ContinueTyped ==
    ASSUME SessionsTyped, Grown, NEW h \in Handlers,
           NEW pc \in Phases, NEW session \in Session', NEW record \in Records',
           Continue(h, pc, session, record),
           UNCHANGED <<overlapped, consent>>, failures' \in Nat
    PROVE  SessionsTyped'
  <1>1. [pc |-> pc, session |-> session, record |-> record, answer |-> "none",
         changed |-> (handler[h].changed \/ session # Mine(h))] \in Request'
    BY RequestTyped DEF Request, Answers, Phases
  <1>2. handler' \in [Handlers -> Request']
    BY <1>1, TypesGrow DEF Continue, SessionsTyped
  <1>3. stored' \in Session'
    BY TypesGrow DEF Continue, SessionsTyped
  <1> QED
    BY <1>2, <1>3 DEF SessionsTyped, Grown

\* A request is answered, with a session that is typed.
LEMMA AnswerTyped ==
    ASSUME SessionsTyped, Grown, NEW h \in Handlers,
           NEW answer \in Answers, NEW session \in Session', NEW changed \in BOOLEAN,
           Answer(h, answer, session, changed),
           UNCHANGED <<overlapped, consent>>, failures' \in Nat
    PROVE  SessionsTyped'
  <1>1. [Idle EXCEPT !.pc = "answered", !.answer = answer] \in Request
    BY NoSessionTyped DEF Idle, Request, Phases
  <1>2. handler' \in [Handlers -> Request']
    BY <1>1, TypesGrow DEF Answer, SessionsTyped
  <1>3. stored' \in Session'
    BY TypesGrow DEF Answer, StoredAfter, SessionsTyped
  <1> QED
    BY <1>2, <1>3 DEF SessionsTyped, Grown

-----------------------------------------------------------------------------
(* The invariant. While no two requests overlap, one request at most is     *)
(* under way; and while in addition no call fails, what it carries tells    *)
(* how the session it will store fits the record it has stored.             *)

AloneInv ==
    ~overlapped =>
        /\ \A h, k \in Handlers : UnderWay(h) /\ UnderWay(k) => h = k
        /\ Len(records) <= 1
        /\ \A h \in Handlers : At(h, "createUser") => Len(records) = 0

Quiet == ~overlapped /\ failures = 0

\* The session knows the token and the connection of its user's record.
Agrees(session) ==
    /\ session.user # 0
    /\ session.accessTokenToCloud = records[session.user].accessToken
    /\ session.isCloudConnected = records[session.user].connected

Fits(session) == session = NoSession \/ Agrees(session)

\* The request has changed nothing yet.
Untouched(h) == Mine(h) = stored /\ ~handler[h].changed /\ Fits(stored)

ReqInv(h) ==
    /\ handler[h].pc \in {"signIn", "connect", "logout", "footprint"} => Untouched(h)
    /\ handler[h].pc \in {"connect", "findConnecting", "storeConnection"} => Len(records) >= 1
    /\ handler[h].pc \in {"findConnecting", "storeConnection"} =>
          handler[h].record = Connected(Mine(h).accessTokenToCloud)
    /\ handler[h].pc \in {"renew", "disconnect"} => Untouched(h) /\ Agrees(stored)
    /\ handler[h].pc = "renew" => handler[h].record = records[Mine(h).user]
    /\ handler[h].pc = "storeRenewed" =>
          /\ handler[h].changed
          /\ Mine(h).accessTokenToCloud = handler[h].record.accessToken
          /\ Mine(h).isCloudConnected = handler[h].record.connected
    /\ handler[h].pc = "estimate" => IF handler[h].changed THEN Agrees(Mine(h)) ELSE Fits(stored)
    /\ handler[h].pc \in {"disconnectRead", "disconnectStore"} =>
          Mine(h).accessTokenToCloud = 0 /\ ~Mine(h).isCloudConnected
    /\ handler[h].pc = "disconnectStore" => handler[h].record = Disconnected

AgreeInv ==
    Quiet =>
        /\ \A h \in Handlers : ReqInv(h)
        /\ (\A h \in Handlers : ~UnderWay(h)) => Fits(stored)
        /\ stored # NoSession => stored.user # 0
        /\ consent => Len(records) >= 1

SessionsInv == SessionsTyped /\ FoundInv /\ AloneInv /\ AgreeInv

\* A request that goes on keeps the invariant if what it carries then is right.
LEMMA ContinueKeeps ==
    ASSUME SessionsInv, Grown, NEW h \in Handlers, UnderWay(h),
           NEW pc \in Phases \ {"idle", "answered"}, NEW session, NEW record,
           Continue(h, pc, session, record),
           SessionsTyped', UNCHANGED <<overlapped, consent>>, failures <= failures',
           pc = "storeConnection" => Len(records') >= 1,
           pc \in OfUser => session.user # 0,
           ~overlapped => Len(records') <= 1,
           ~overlapped /\ pc = "createUser" => Len(records') = 0,
           Quiet' => ReqInv(h)'
    PROVE  SessionsInv'
  <1>1. /\ handler'[h].pc = pc /\ Mine(h)' = session /\ stored' = stored
        /\ \A k \in Handlers : k # h => handler'[k] = handler[k]
    BY ContinueMoves DEF SessionsInv
  <1>2. Len(records) \in Nat /\ Len(records') \in Nat /\ failures \in Nat /\ failures' \in Nat
    BY DEF SessionsInv, SessionsTyped
  <1>3. Quiet' => Quiet
    BY <1>2 DEF Quiet
  <1>4. ~overlapped => \A k \in Handlers : k # h => ~UnderWay(k)
    BY DEF SessionsInv, AloneInv
  <1>5. \A k \in Handlers : k # h => (UnderWay(k)' <=> UnderWay(k))
    BY <1>1 DEF UnderWay
  <1>6. UnderWay(h)'
    BY <1>1 DEF UnderWay
  <1>7. FoundInv'
    BY <1>1, <1>2 DEF SessionsInv, FoundInv, At, Mine, Grown
  <1>8. AloneInv'
    <2>1. ~overlapped => \A k \in Handlers : At(k, "createUser")' => k = h
      BY <1>4, <1>5 DEF At, UnderWay
    <2>2. At(h, "createUser")' => pc = "createUser"
      BY <1>1 DEF At
    <2> QED
      BY <1>4, <1>5, <2>1, <2>2 DEF AloneInv
  <1>9. AgreeInv'
    <2>1. Quiet' => \A k \in Handlers : ReqInv(k)'
      <3>1. \A k \in Handlers : ~UnderWay(k)' => ReqInv(k)'
        BY DEF UnderWay, ReqInv
      <3> QED
        BY <1>3, <1>4, <1>5, <3>1 DEF Quiet
    <2> QED
      BY <1>1, <1>2, <1>3, <1>6, <2>1 DEF SessionsInv, AgreeInv, Grown
  <1> QED
    BY <1>7, <1>8, <1>9 DEF SessionsInv

\* A request that is answered keeps the invariant if the session then fits the record.
LEMMA AnswerKeeps ==
    ASSUME SessionsInv, Grown, NEW h \in Handlers, UnderWay(h),
           NEW answer, NEW session, NEW changed \in BOOLEAN,
           Answer(h, answer, session, changed),
           SessionsTyped', UNCHANGED <<overlapped, consent>>, failures <= failures',
           ~overlapped => Len(records') <= 1,
           Quiet' => Fits(stored)'
    PROVE  SessionsInv'
  <1>1. /\ handler'[h].pc = "answered"
        /\ \A k \in Handlers : k # h => handler'[k] = handler[k]
    BY AnswerMoves DEF SessionsInv
  <1>2. Len(records) \in Nat /\ Len(records') \in Nat /\ failures \in Nat /\ failures' \in Nat
    BY DEF SessionsInv, SessionsTyped
  <1>3. Quiet' => Quiet
    BY <1>2 DEF Quiet
  <1>4. ~overlapped => \A k \in Handlers : k # h => ~UnderWay(k)
    BY DEF SessionsInv, AloneInv
  <1>5. ~overlapped => \A k \in Handlers : ~UnderWay(k)'
    BY <1>1, <1>4 DEF UnderWay
  <1>6. FoundInv'
    BY <1>1, <1>2 DEF SessionsInv, FoundInv, At, Mine, OfUser, Grown
  <1>7. AloneInv'
    BY <1>5 DEF AloneInv, At, UnderWay
  <1>8. AgreeInv'
    <2>1. Quiet' => \A k \in Handlers : ReqInv(k)'
      <3>1. \A k \in Handlers : ~UnderWay(k)' => ReqInv(k)'
        BY DEF UnderWay, ReqInv
      <3> QED
        BY <1>5, <3>1 DEF Quiet
    <2>2. Quiet' => (stored' # NoSession => stored'.user # 0)
      BY DEF Fits, Agrees
    <2> QED
      BY <1>2, <1>3, <2>1, <2>2 DEF SessionsInv, AgreeInv, Grown
  <1> QED
    BY <1>6, <1>7, <1>8 DEF SessionsInv

\* The request of a step, in the terms the steps below use.
LEMMA OwnRequest ==
    ASSUME SessionsInv, NEW h \in Handlers
    PROVE  /\ Mine(h) \in Session /\ handler[h].changed \in BOOLEAN /\ handler[h].record \in Records
           /\ issued \in Nat /\ failures \in Nat /\ Len(records) \in Nat
           /\ records \in Seq(Records) /\ stored \in Session
           /\ \A i \in 1 .. Len(records) : records[i] \in Records
           /\ Known(records) <=> Len(records) >= 1
           /\ ~overlapped => Len(records) <= 1
           /\ Quiet => ReqInv(h)
  BY RequestTyped DEF SessionsInv, SessionsTyped, AloneInv, AgreeInv, Known

\* Back from the sign-in page.
LEMMA SignInSteps ==
    ASSUME SessionsInv, NEW h \in Handlers,
           \/ SignInRedeems(h) \/ SignInFindsUser(h) \/ SignInFindsNobody(h) \/ SignInCreatesUser(h)
    PROVE  SessionsInv'
  <1>0. /\ Mine(h) \in Session /\ Len(records) \in Nat /\ 0 \in 0 .. Len(records)
        /\ Known(records) <=> Len(records) >= 1
        /\ ~overlapped => Len(records) <= 1
        /\ failures \in Nat
    BY OwnRequest
  <1> USE <1>0
  <1>1. CASE SignInRedeems(h)
    <2> DEFINE session == [Mine(h) EXCEPT !.isAuthenticated = TRUE, !.account = TRUE,
                              !.user = 0, !.isCloudConnected = FALSE, !.tokenCache = TRUE]
    <2>1. /\ Continue(h, "findUser", session, NeverConnected) /\ UnderWay(h)
          /\ UNCHANGED <<consent, records, issued, overlapped, failures>>
      BY <1>1 DEF SignInRedeems, At, UnderWay
    <2>2. Grown /\ Records' = Records /\ Session' = Session
      BY <2>1, SameRecords DEF SessionsInv
    <2>3. session \in Session
      BY DEF Session, SessionOf, RecordUsers
    <2> HIDE DEF session
    <2>4. SessionsTyped'
      BY <2>1, <2>2, <2>3, NoSessionTyped, ContinueTyped DEF SessionsInv, Phases
    <2>5. ReqInv(h)'
      BY <2>1, ContinueMoves DEF SessionsInv, ReqInv
    <2> QED
      BY <2>1, <2>2, <2>4, <2>5, ContinueKeeps DEF Phases, OfUser
  <1>2. CASE SignInFindsUser(h)
    <2> DEFINE session == SignedIn(Mine(h), 1, records[1])
    <2>1. /\ Answer(h, "redirect", session, TRUE) /\ UnderWay(h) /\ Len(records) >= 1
          /\ UNCHANGED <<consent, records, issued, overlapped, failures>>
      BY <1>2 DEF SignInFindsUser, At, UnderWay
    <2>2. Grown /\ Records' = Records /\ Session' = Session
      BY <2>1, SameRecords DEF SessionsInv
    <2>3. records[1].connected \in BOOLEAN /\ records[1].accessToken \in Tokens
      BY <2>1, OwnRequest, RecordFields DEF SessionsInv
    <2>4. /\ session \in Session /\ session.user = 1
          /\ session.accessTokenToCloud = records[1].accessToken
          /\ session.isCloudConnected = records[1].connected
      <3>1. 1 \in RecordUsers /\ Mine(h) \in SessionOf(RecordUsers, Tokens)
        BY <2>1 DEF Session, RecordUsers
      <3>2. session \in SessionOf(RecordUsers, Tokens)
        BY <2>3, <3>1, SignedInTyped
      <3>3. /\ session.user = 1
            /\ session.accessTokenToCloud = records[1].accessToken
            /\ session.isCloudConnected = records[1].connected
        BY <2>3, <3>1, SignedInTyped
      <3> QED
        BY <3>2, <3>3 DEF Session
    <2> HIDE DEF session
    <2>5. SessionsTyped'
      BY <2>1, <2>2, <2>4, AnswerTyped DEF SessionsInv, Answers
    <2>6. Fits(stored)'
      <3>1. stored' = session
        BY <2>1, AnswerMoves, Zenon DEF SessionsInv
      <3> QED
        BY <2>1, <2>4, <3>1 DEF Fits, Agrees
    <2>7. failures <= failures' /\ (~overlapped => Len(records') <= 1)
      BY <2>1
    <2>8. TRUE \in BOOLEAN /\ (Quiet' => Fits(stored)')
      BY <2>6
    <2>9. UNCHANGED <<overlapped, consent>>
      BY <2>1
    <2> QED
      BY <2>1, <2>2, <2>5, <2>7, <2>8, <2>9, AnswerKeeps, Zenon
  <1>3. CASE SignInFindsNobody(h)
    <2>1. /\ Continue(h, "createUser", Mine(h), NeverConnected) /\ UnderWay(h) /\ Len(records) = 0
          /\ UNCHANGED <<consent, records, issued, overlapped, failures>>
      BY <1>3 DEF SignInFindsNobody, At, UnderWay
    <2>2. Grown /\ Records' = Records /\ Session' = Session
      BY <2>1, SameRecords DEF SessionsInv
    <2>3. SessionsTyped'
      BY <2>1, <2>2, NoSessionTyped, ContinueTyped DEF SessionsInv, Phases
    <2>4. ReqInv(h)'
      BY <2>1, ContinueMoves DEF SessionsInv, ReqInv
    <2> QED
      BY <2>1, <2>2, <2>3, <2>4, ContinueKeeps DEF Phases, OfUser
  <1>4. CASE SignInCreatesUser(h)
    <2> DEFINE session == SignedIn(Mine(h), Len(records) + 1, NeverConnected)
    <2>1. /\ Answer(h, "redirect", session, TRUE) /\ UnderWay(h)
          /\ records' = Append(records, NeverConnected)
          /\ UNCHANGED <<consent, issued, overlapped, failures>>
          /\ At(h, "createUser")
      BY <1>4 DEF SignInCreatesUser, Created, At, UnderWay
    <2>2. Records' = Records
      BY <2>1 DEF Records, Tokens
    <2>3. /\ Len(records') = Len(records) + 1 /\ records' \in Seq(Records')
          /\ records'[Len(records) + 1] = NeverConnected
      BY <2>1, <2>2, NoSessionTyped DEF SessionsInv, SessionsTyped
    <2>4. Grown
      BY <2>1, <2>3 DEF Grown, SessionsInv, SessionsTyped
    <2>5. /\ session \in Session' /\ session.user = Len(records) + 1
          /\ session.accessTokenToCloud = NeverConnected.accessToken
          /\ session.isCloudConnected = NeverConnected.connected
      <3>1. Mine(h) \in Session' /\ Len(records) + 1 \in RecordUsers'
        BY <2>3, <2>4, TypesGrow DEF SessionsInv, RecordUsers
      <3>2. NeverConnected.connected \in BOOLEAN /\ NeverConnected.accessToken \in Tokens'
        BY <2>4 DEF NeverConnected, Tokens, Grown
      <3> QED
        BY <3>1, <3>2, SignedInTyped DEF Session
    <2> HIDE DEF session
    <2>6. SessionsTyped'
      BY <2>1, <2>4, <2>5, AnswerTyped DEF SessionsInv, Answers
    <2>7. Fits(stored)'
      <3>1. stored' = session
        BY <2>1, AnswerMoves DEF SessionsInv
      <3> QED
        BY <2>3, <2>5, <3>1 DEF Fits, Agrees
    <2>8. ~overlapped => Len(records') <= 1
      BY <2>1, <2>3 DEF SessionsInv, AloneInv
    <2>9. UNCHANGED <<overlapped, consent>> /\ failures <= failures'
      BY <2>1
    <2>10. TRUE \in BOOLEAN /\ (Quiet' => Fits(stored)')
      BY <2>7
    <2> QED
      BY <2>1, <2>4, <2>6, <2>8, <2>9, <2>10, AnswerKeeps, Zenon
  <1> QED
    BY <1>1, <1>2, <1>3, <1>4

\* A record that is stored replaces the user's, and the others stay.
LEMMA RecordStored ==
    ASSUME SessionsTyped, NEW user \in 1 .. Len(records), NEW record \in Records,
           records' = StoreRecord(user, record), UNCHANGED issued
    PROVE  /\ Grown /\ Records' = Records /\ Session' = Session
           /\ Len(records') = Len(records) /\ records'[user] = record
  <1>1. Records' = Records /\ Tokens' = Tokens
    BY DEF Records, Tokens
  <1>2. /\ Len(records') = Len(records) /\ records'[user] = record
        /\ records' \in Seq(Records)
    BY DEF SessionsTyped, StoreRecord
  <1>3. Grown
    BY <1>1, <1>2 DEF SessionsTyped, Grown
  <1> QED
    BY <1>1, <1>2, <1>3 DEF Session, RecordUsers

\* Back from the consent page.
LEMMA ConnectSteps ==
    ASSUME SessionsInv, NEW h \in Handlers,
           ConnectRedeems(h) \/ ConnectFindsNobody(h) \/ ConnectFindsUser(h) \/ ConnectStores(h)
    PROVE  SessionsInv'
  <1>0. /\ Mine(h) \in Session /\ handler[h].record \in Records /\ Len(records) \in Nat
        /\ Known(records) <=> Len(records) >= 1
        /\ ~overlapped => Len(records) <= 1
        /\ failures \in Nat /\ issued \in Nat
        /\ Quiet => ReqInv(h)
    BY OwnRequest
  <1> USE <1>0
  <1>1. CASE ConnectRedeems(h)
    <2> DEFINE session == [Mine(h) EXCEPT !.isAuthenticated = TRUE, !.account = TRUE,
                              !.accessTokenToCloud = issued + 1]
    <2>1. /\ Continue(h, "findConnecting", session, Connected(issued + 1)) /\ UnderWay(h)
          /\ issued' = issued + 1
          /\ handler[h].pc = "connect"
          /\ UNCHANGED <<consent, records, overlapped, failures>>
      BY <1>1 DEF ConnectRedeems, At, UnderWay
    <2>2. issued + 1 \in Tokens' /\ Tokens \subseteq Tokens'
      BY <2>1 DEF Tokens
    <2>3. Records \subseteq Records' /\ Connected(issued + 1) \in Records'
      BY <2>2 DEF Records, Connected, NeverConnected, Disconnected
    <2>4. records' \in Seq(Records')
      BY <2>1, <2>3 DEF SessionsInv, SessionsTyped
    <2>5. Grown
      BY <2>1, <2>4 DEF Grown
    <2>6. session \in Session' /\ session.accessTokenToCloud = issued + 1
      <3>1. Mine(h) \in Session'
        BY <2>5, TypesGrow DEF SessionsInv
      <3> QED
        BY <2>2, <3>1 DEF Session, SessionOf
    <2> HIDE DEF session
    <2>7. SessionsTyped'
      BY <2>1, <2>3, <2>5, <2>6, ContinueTyped DEF SessionsInv, Phases
    <2>8. Quiet' => ReqInv(h)'
      <3>1. /\ handler'[h].pc = "findConnecting" /\ Mine(h)' = session
            /\ handler'[h].record = Connected(issued + 1)
        BY <2>1, ContinueMoves DEF SessionsInv
      <3>2. Quiet' => Len(records') >= 1
        BY <2>1 DEF Quiet, ReqInv
      <3> QED
        BY <2>6, <3>1, <3>2 DEF ReqInv
    <2> QED
      BY <2>1, <2>3, <2>5, <2>7, <2>8, ContinueKeeps DEF Phases, OfUser
  <1>2. CASE ConnectFindsNobody(h)
    <2>1. /\ Answer(h, "error", Mine(h), TRUE) /\ UnderWay(h) /\ ~Known(records)
          /\ handler[h].pc = "findConnecting"
          /\ UNCHANGED <<consent, records, issued, overlapped, failures>>
      BY <1>2 DEF ConnectFindsNobody, At, UnderWay
    <2>2. Grown /\ Records' = Records /\ Session' = Session
      BY <2>1, SameRecords DEF SessionsInv
    <2>3. SessionsTyped'
      BY <2>1, <2>2, AnswerTyped DEF SessionsInv, Answers
    <2>4. TRUE \in BOOLEAN /\ (Quiet' => Fits(stored)')
      BY <2>1 DEF Quiet, ReqInv
    <2>5. failures <= failures' /\ UNCHANGED <<overlapped, consent>> /\ (~overlapped => Len(records') <= 1)
      BY <2>1
    <2> QED
      BY <2>1, <2>2, <2>3, <2>4, <2>5, AnswerKeeps, Zenon
  <1>3. CASE ConnectFindsUser(h)
    <2>1. /\ Continue(h, "storeConnection", Mine(h), handler[h].record) /\ UnderWay(h)
          /\ Len(records) >= 1
          /\ handler[h].pc = "findConnecting"
          /\ UNCHANGED <<consent, records, issued, overlapped, failures>>
      BY <1>3 DEF ConnectFindsUser, At, UnderWay
    <2>2. Grown /\ Records' = Records /\ Session' = Session
      BY <2>1, SameRecords DEF SessionsInv
    <2>3. SessionsTyped'
      BY <2>1, <2>2, ContinueTyped DEF SessionsInv, Phases
    <2>4. Quiet' => ReqInv(h)'
      <3>1. /\ handler'[h].pc = "storeConnection" /\ Mine(h)' = Mine(h)
            /\ handler'[h].record = handler[h].record
        BY <2>1, ContinueMoves DEF SessionsInv
      <3> QED
        BY <2>1, <3>1 DEF Quiet, ReqInv
    <2> QED
      BY <2>1, <2>2, <2>3, <2>4, ContinueKeeps DEF Phases, OfUser
  <1>4. CASE ConnectStores(h)
    <2> DEFINE session == WithUser(Mine(h), 1, TRUE)
    <2>1. /\ Answer(h, "redirect", session, TRUE) /\ UnderWay(h)
          /\ records' = StoreRecord(1, handler[h].record)
          /\ handler[h].pc = "storeConnection"
          /\ UNCHANGED <<consent, issued, overlapped, failures>>
      BY <1>4 DEF ConnectStores, At, UnderWay
    <2>2. Len(records) >= 1
      BY <2>1 DEF SessionsInv, FoundInv, At
    <2>3. /\ Grown /\ Records' = Records /\ Session' = Session
          /\ Len(records') = Len(records) /\ records'[1] = handler[h].record
      BY <2>1, <2>2, RecordStored DEF SessionsInv
    <2>4. /\ session \in Session /\ session.user = 1 /\ session.isCloudConnected = TRUE
          /\ session.accessTokenToCloud = Mine(h).accessTokenToCloud
      <3>1. 1 \in RecordUsers /\ Mine(h) \in SessionOf(RecordUsers, Tokens)
        BY <2>2 DEF Session, RecordUsers
      <3>2. session \in SessionOf(RecordUsers, Tokens)
        BY <3>1 DEF WithUser, SessionOf
      <3>3. /\ session.user = 1 /\ session.isCloudConnected = TRUE
            /\ session.accessTokenToCloud = Mine(h).accessTokenToCloud
        BY <3>1 DEF WithUser, SessionOf
      <3> QED
        BY <3>2, <3>3 DEF Session
    <2> HIDE DEF session
    <2>5. SessionsTyped'
      BY <2>1, <2>3, <2>4, AnswerTyped DEF SessionsInv, Answers
    <2>6. TRUE \in BOOLEAN /\ (Quiet' => Fits(stored)')
      <3>1. stored' = session
        BY <2>1, AnswerMoves, Zenon DEF SessionsInv
      <3>2. Quiet' => handler[h].record = Connected(Mine(h).accessTokenToCloud)
        BY <2>1 DEF Quiet, ReqInv
      <3>3. Quiet' => /\ records'[1].accessToken = session.accessTokenToCloud
                      /\ records'[1].connected = session.isCloudConnected
        <4>1. \A t : Connected(t).accessToken = t /\ Connected(t).connected = TRUE
          BY DEF Connected
        <4> QED
          BY <2>3, <2>4, <3>2, <4>1, Zenon
      <3> QED
        BY <2>4, <3>1, <3>3 DEF Fits, Agrees
    <2>7. failures <= failures' /\ UNCHANGED <<overlapped, consent>> /\ (~overlapped => Len(records') <= 1)
      BY <2>1, <2>3
    <2> QED
      BY <2>1, <2>3, <2>5, <2>6, <2>7, AnswerKeeps, Zenon
  <1> QED
    BY <1>1, <1>2, <1>3, <1>4

\* The session is removed.
LEMMA LogoutStep ==
    ASSUME SessionsInv, NEW h \in Handlers, Logout(h)
    PROVE  SessionsInv'
  <1>1. /\ UnderWay(h) /\ stored' = NoSession
        /\ handler' = [handler EXCEPT ![h] = [Idle EXCEPT !.pc = "answered", !.answer = "signedOut"]]
        /\ UNCHANGED <<consent, records, issued, overlapped, failures>>
    BY DEF Logout, At, UnderWay
  <1>2. /\ handler'[h].pc = "answered"
        /\ \A k \in Handlers : k # h => handler'[k] = handler[k]
    BY <1>1 DEF SessionsInv, SessionsTyped, Idle
  <1>3. Grown /\ Session' = Session /\ Records' = Records
    BY <1>1, SameRecords DEF SessionsInv
  <1>4. SessionsTyped'
    <2>1. [Idle EXCEPT !.pc = "answered", !.answer = "signedOut"] \in Request
      BY NoSessionTyped DEF SessionsInv, Idle, Request, Phases, Answers
    <2>2. Request' = Request
      BY <1>3 DEF Request
    <2>3. handler' \in [Handlers -> Request']
      BY <1>1, <2>1, <2>2 DEF SessionsInv, SessionsTyped
    <2> QED
      BY <1>1, <1>3, <2>3, NoSessionTyped DEF SessionsInv, SessionsTyped
  <1>5. ~overlapped => \A k \in Handlers : ~UnderWay(k)'
    BY <1>1, <1>2 DEF SessionsInv, AloneInv, UnderWay
  <1>6. FoundInv'
    BY <1>1, <1>2 DEF SessionsInv, FoundInv, At, Mine, OfUser
  <1>7. AloneInv'
    BY <1>1, <1>5 DEF SessionsInv, AloneInv, At, UnderWay
  <1>8. AgreeInv'
    <2>1. Quiet' => \A k \in Handlers : ReqInv(k)'
      BY <1>1, <1>5 DEF Quiet, UnderWay, ReqInv
    <2> QED
      BY <1>1, <2>1 DEF SessionsInv, AgreeInv, Quiet, Fits
  <1> QED
    BY <1>4, <1>6, <1>7, <1>8 DEF SessionsInv

\* A call fails: the session as it has become is stored, and nothing is claimed of it any more.
LEMMA ErrorStep ==
    ASSUME SessionsInv, NEW h \in Handlers, FailingStep(h)
    PROVE  SessionsInv'
  <1>0. /\ Mine(h) \in Session /\ handler[h].changed \in BOOLEAN
        /\ ~overlapped => Len(records) <= 1
        /\ failures \in Nat
    BY OwnRequest
  <1>1. /\ UnderWay(h) /\ Answer(h, "error", Mine(h), handler[h].changed)
        /\ failures' = failures + 1
        /\ UNCHANGED <<consent, records, issued, overlapped>>
    BY DEF FailingStep, KeyFails, ErrorAt, Failing, At, UnderWay
  <1>2. Grown /\ Records' = Records /\ Session' = Session
    BY <1>1, SameRecords DEF SessionsInv
  <1>3. failures' \in Nat /\ failures <= failures' /\ ~Quiet'
    BY <1>0, <1>1 DEF Quiet
  <1>4. SessionsTyped'
    BY <1>0, <1>1, <1>2, <1>3, AnswerTyped DEF SessionsInv, Answers
  <1>5. (Quiet' => Fits(stored)') /\ UNCHANGED <<overlapped, consent>> /\ (~overlapped => Len(records') <= 1)
    BY <1>0, <1>1, <1>3
  <1> QED
    BY <1>0, <1>1, <1>2, <1>3, <1>4, <1>5, AnswerKeeps, Zenon

\* The validator refuses or admits the request, and the footprint is answered.
LEMMA AdmitSteps ==
    ASSUME SessionsInv, NEW h \in Handlers, Refuse(h) \/ Admit(h) \/ Estimate(h)
    PROVE  SessionsInv'
  <1>0. /\ Mine(h) \in Session /\ handler[h].changed \in BOOLEAN
        /\ ~overlapped => Len(records) <= 1
        /\ failures \in Nat
        /\ Quiet => ReqInv(h)
    BY OwnRequest
  <1>1. UNCHANGED <<consent, records, issued, overlapped, failures>> /\ UnderWay(h)
    BY DEF Refuse, Admit, Estimate, At, UnderWay
  <1>2. Grown /\ Records' = Records /\ Session' = Session
    BY <1>1, SameRecords DEF SessionsInv
  <1>3. (~overlapped => Len(records') <= 1) /\ failures <= failures' /\ failures' \in Nat /\ (Quiet' => Quiet)
    BY <1>0, <1>1 DEF Quiet
  <1>4. UNCHANGED <<overlapped, consent>> /\ FALSE \in BOOLEAN
    BY <1>1
  <1>5. CASE Refuse(h)
    <2>1. Answer(h, "refused", Mine(h), FALSE) /\ handler[h].pc = "footprint"
      BY <1>5 DEF Refuse, At
    <2>2. SessionsTyped'
      BY <1>0, <1>1, <1>2, <1>3, <2>1, AnswerTyped DEF SessionsInv, Answers
    <2>3. stored' = stored
      BY <2>1, <1>4, AnswerMoves, Zenon DEF SessionsInv
    <2>4. Quiet' => Fits(stored)'
      BY <1>0, <1>1, <1>3, <2>1, <2>3 DEF ReqInv, Untouched, Fits, Agrees
    <2> QED
      BY <1>1, <1>2, <1>3, <1>4, <2>1, <2>2, <2>4, AnswerKeeps, Zenon
  <1>6. CASE Admit(h)
    <2>1. Continue(h, "estimate", Mine(h), NeverConnected) /\ handler[h].pc = "footprint"
      BY <1>6 DEF Admit, At
    <2>2. SessionsTyped'
      BY <1>0, <1>1, <1>2, <1>3, <2>1, NoSessionTyped, ContinueTyped DEF SessionsInv, Phases
    <2>3. /\ handler'[h].pc = "estimate" /\ stored' = stored
          /\ handler'[h].changed <=> handler[h].changed
      BY <2>1, ContinueMoves DEF SessionsInv
    <2>4. Quiet' => ~handler[h].changed /\ Fits(stored)'
      BY <1>0, <1>1, <1>3, <2>1, <2>3 DEF ReqInv, Untouched, Fits, Agrees
    <2>5. Quiet' => ReqInv(h)'
      BY <2>3, <2>4 DEF ReqInv
    <2> QED
      BY <1>1, <1>2, <1>3, <1>4, <2>1, <2>2, <2>5, ContinueKeeps DEF Phases, OfUser
  <1>7. CASE Estimate(h)
    <2>1. PICK answer \in {"served", "error"} : Answer(h, answer, Mine(h), handler[h].changed)
      BY <1>7 DEF Estimate
    <2>2. handler[h].pc = "estimate"
      BY <1>7 DEF Estimate, At
    <2>3. SessionsTyped'
      BY <1>0, <1>1, <1>2, <1>3, <2>1, AnswerTyped DEF SessionsInv, Answers
    <2>4. /\ handler[h].changed => stored' = Mine(h)
          /\ ~handler[h].changed => stored' = stored
      BY <1>0, <2>1, AnswerMoves DEF SessionsInv
    <2>5. Quiet' => Fits(stored)'
      <3>1. Quiet' /\ handler[h].changed => Agrees(Mine(h))
        BY <1>0, <1>3, <2>2 DEF ReqInv
      <3>2. Quiet' /\ ~handler[h].changed => Fits(stored)
        BY <1>0, <1>3, <2>2 DEF ReqInv
      <3> QED
        BY <1>0, <1>1, <2>4, <3>1, <3>2 DEF Fits, Agrees
    <2> QED
      BY <1>0, <1>1, <1>2, <1>3, <1>4, <2>1, <2>3, <2>5, AnswerKeeps, Zenon
  <1> QED
    BY <1>5, <1>6, <1>7

\* A session with a token is that of a user, as long as it fits the record.
LEMMA TokenFits ==
    ASSUME SessionsTyped, NEW h \in Handlers, HasToken(h), Untouched(h)
    PROVE  Agrees(stored)
  BY DEF HasToken, Untouched, Fits, NoSession

\* A token that has expired: the user's record is read, or there is none to read.
LEMMA RenewReadsStep ==
    ASSUME SessionsInv, NEW h \in Handlers, RenewReads(h)
    PROVE  SessionsInv'
  <1>0. /\ Mine(h) \in Session /\ handler[h].changed \in BOOLEAN
        /\ ~overlapped => Len(records) <= 1
        /\ failures \in Nat /\ Len(records) \in Nat
        /\ Quiet => ReqInv(h)
        /\ \A i \in 1 .. Len(records) : records[i] \in Records
    BY OwnRequest
  <1>1. UNCHANGED <<consent, records, issued, overlapped, failures>> /\ UnderWay(h)
    BY DEF RenewReads, At, UnderWay
  <1>2. Grown /\ Records' = Records /\ Session' = Session
    BY <1>1, SameRecords DEF SessionsInv
  <1>3. (~overlapped => Len(records') <= 1) /\ failures <= failures' /\ failures' \in Nat /\ (Quiet' => Quiet)
    BY <1>0, <1>1 DEF Quiet
  <1>4. PICK pc \in {"renew", "disconnect"}, record \in Records :
          /\ Continue(h, pc, Mine(h), record)
          /\ pc = "renew" => Mine(h).user # 0 /\ record = records[Mine(h).user]
    <2>1. Mine(h).user \in 0 .. Len(records)
      BY <1>0 DEF Session, SessionOf, RecordUsers
    <2>2. Mine(h).user # 0 => records[Mine(h).user] \in Records
      BY <1>0, <2>1
    <2> QED
      BY <2>2, NoSessionTyped DEF RenewReads, SessionsInv
  <1>5. SessionsTyped'
    BY <1>0, <1>1, <1>2, <1>3, <1>4, ContinueTyped DEF SessionsInv, Phases
  <1>6. /\ handler'[h].pc = pc /\ Mine(h)' = Mine(h) /\ handler'[h].record = record
        /\ stored' = stored /\ (handler'[h].changed <=> handler[h].changed)
    BY <1>4, ContinueMoves DEF SessionsInv
  <1>7. Quiet' => Untouched(h) /\ Agrees(stored)
    BY <1>0, <1>3, TokenFits DEF RenewReads, At, ReqInv, SessionsInv
  <1>8. Quiet' => Untouched(h)' /\ Agrees(stored)'
    BY <1>1, <1>6, <1>7 DEF Untouched, Fits, Agrees
  <1>9. Quiet' => ReqInv(h)'
    BY <1>1, <1>4, <1>6, <1>8 DEF ReqInv
  <1> QED
    BY <1>1, <1>2, <1>3, <1>4, <1>5, <1>9, ContinueKeeps DEF Phases, OfUser

\* A connected record whose token is replaced.
LEMMA RecordWithToken ==
    ASSUME NEW r \in [azure: BOOLEAN, connected: BOOLEAN, accessToken: Nat], NEW token,
           r.azure = TRUE, r.connected = TRUE
    PROVE  [r EXCEPT !.accessToken = token] = Connected(token)
  <1>1. [r EXCEPT !.accessToken = token]
          = [azure |-> r.azure, connected |-> r.connected, accessToken |-> token]
    OBVIOUS
  <1>2. [azure |-> r.azure, connected |-> r.connected, accessToken |-> token]
          = [azure |-> TRUE, connected |-> TRUE, accessToken |-> token]
    OBVIOUS
  <1> QED
    BY <1>1, <1>2, Zenon DEF Connected

\* A new token, for the session and for the record as it was read.
LEMMA RenewAcquiresStep ==
    ASSUME SessionsInv, NEW h \in Handlers, RenewAcquires(h)
    PROVE  SessionsInv'
  <1>0. /\ Mine(h) \in Session /\ handler[h].record \in Records
        /\ ~overlapped => Len(records) <= 1
        /\ failures \in Nat /\ Len(records) \in Nat /\ issued \in Nat
        /\ Quiet => ReqInv(h)
    BY OwnRequest
  <1> DEFINE session == [Mine(h) EXCEPT !.accessTokenToCloud = issued + 1]
             record == [handler[h].record EXCEPT !.accessToken = issued + 1]
  <1>1. /\ Continue(h, "storeRenewed", session, record)
        /\ issued' = issued + 1 /\ handler[h].pc = "renew" /\ UnderWay(h)
        /\ handler[h].record.connected
        /\ UNCHANGED <<consent, records, overlapped, failures>>
    BY DEF RenewAcquires, At, UnderWay
  <1>2. issued + 1 \in Tokens' /\ Tokens \subseteq Tokens'
    BY <1>0, <1>1 DEF Tokens
  <1>3. /\ record = Connected(issued + 1)
        /\ record.accessToken = issued + 1 /\ record.connected = TRUE
    <2>1. PICK t \in Tokens : handler[h].record = Connected(t)
      BY <1>0, <1>1 DEF Records, NeverConnected, Disconnected
    <2>2. /\ handler[h].record \in [azure: BOOLEAN, connected: BOOLEAN, accessToken: Nat]
          /\ handler[h].record.azure = TRUE /\ handler[h].record.connected = TRUE
      <3>1. t \in Nat
        BY <1>0 DEF Tokens
      <3> QED
        BY <2>1, <3>1 DEF Connected
    <2>3. record = Connected(issued + 1)
      BY <2>2, RecordWithToken
    <2>4. Connected(issued + 1).accessToken = issued + 1 /\ Connected(issued + 1).connected = TRUE
      BY DEF Connected
    <2> HIDE DEF record
    <2> QED
      BY <2>3, <2>4, Zenon
  <1>4. /\ session.accessTokenToCloud = issued + 1 /\ session # Mine(h)
        /\ session.user = Mine(h).user /\ session.isCloudConnected = Mine(h).isCloudConnected
    <2>1. Mine(h).accessTokenToCloud \in 0 .. issued
      BY <1>0 DEF Session, SessionOf, Tokens
    <2>2. /\ session.accessTokenToCloud = issued + 1
          /\ session.user = Mine(h).user /\ session.isCloudConnected = Mine(h).isCloudConnected
      BY <1>0 DEF Session, SessionOf
    <2>3. Mine(h).accessTokenToCloud # issued + 1
      BY <1>0, <2>1
    <2> QED
      BY <2>2, <2>3
  <1>5. Records \subseteq Records' /\ record \in Records'
    BY <1>2, <1>3 DEF Records, Connected, NeverConnected, Disconnected
  <1>6. Grown
    <2>1. records' \in Seq(Records')
      BY <1>1, <1>5 DEF SessionsInv, SessionsTyped
    <2> QED
      BY <1>0, <1>1, <2>1 DEF Grown
  <1>7. session \in Session'
    <2>1. Mine(h) \in Session'
      BY <1>0, <1>6, TypesGrow DEF SessionsInv
    <2> QED
      BY <1>2, <2>1 DEF Session, SessionOf
  <1> HIDE DEF session, record
  <1>8. SessionsTyped'
    BY <1>0, <1>1, <1>5, <1>6, <1>7, ContinueTyped DEF SessionsInv, Phases
  <1>9. Mine(h).user # 0
    BY <1>1 DEF SessionsInv, FoundInv, OfUser
  <1>10. Quiet' => ReqInv(h)'
    <2>1. /\ handler'[h].pc = "storeRenewed" /\ Mine(h)' = session
          /\ handler'[h].record = record /\ handler'[h].changed
      BY <1>1, <1>4, ContinueMoves DEF SessionsInv
    <2>2. Quiet' => Mine(h).isCloudConnected = handler[h].record.connected
      <3>1. Quiet' => Untouched(h) /\ Agrees(stored) /\ handler[h].record = records[Mine(h).user]
        BY <1>0, <1>1 DEF Quiet, ReqInv
      <3> QED
        BY <3>1 DEF Untouched, Agrees
    <2>3. handler[h].record.connected \in BOOLEAN
      BY <1>0, RecordFields DEF SessionsInv
    <2>4. Quiet' => session.isCloudConnected = record.connected
      BY <1>1, <1>3, <1>4, <2>2, <2>3
    <2> QED
      BY <1>3, <1>4, <2>1, <2>4 DEF ReqInv
  <1>11. UNCHANGED <<overlapped, consent>> /\ failures <= failures' /\ (~overlapped => Len(records') <= 1)
    BY <1>0, <1>1
  <1> QED
    BY <1>0, <1>1, <1>4, <1>6, <1>8, <1>9, <1>10, <1>11, ContinueKeeps DEF Phases, OfUser

\* The renewed token is stored in the record; the session has it already.
LEMMA RenewStoresStep ==
    ASSUME SessionsInv, NEW h \in Handlers, RenewStores(h)
    PROVE  SessionsInv'
  <1>0. /\ Mine(h) \in Session /\ handler[h].record \in Records
        /\ ~overlapped => Len(records) <= 1
        /\ failures \in Nat /\ Len(records) \in Nat
        /\ Quiet => ReqInv(h)
    BY OwnRequest
  <1>1. /\ Continue(h, "estimate", Mine(h), handler[h].record)
        /\ records' = StoreRecord(Mine(h).user, handler[h].record)
        /\ handler[h].pc = "storeRenewed" /\ UnderWay(h)
        /\ UNCHANGED <<consent, issued, overlapped, failures>>
    BY DEF RenewStores, At, UnderWay
  <1>2. Mine(h).user \in 1 .. Len(records)
    <2>1. Mine(h).user # 0
      BY <1>1 DEF SessionsInv, FoundInv, OfUser
    <2> QED
      BY <1>0, <2>1 DEF Session, SessionOf, RecordUsers
  <1>3. /\ Grown /\ Records' = Records /\ Session' = Session
        /\ Len(records') = Len(records) /\ records'[Mine(h).user] = handler[h].record
    BY <1>0, <1>1, <1>2, RecordStored DEF SessionsInv
  <1>4. SessionsTyped'
    BY <1>0, <1>1, <1>3, ContinueTyped DEF SessionsInv, Phases
  <1>5. /\ handler'[h].pc = "estimate" /\ Mine(h)' = Mine(h)
        /\ handler'[h].changed <=> handler[h].changed
    BY <1>1, ContinueMoves DEF SessionsInv
  <1>6. Quiet' => ReqInv(h)'
    <2>1. Quiet' => /\ handler[h].changed
                    /\ Mine(h).accessTokenToCloud = handler[h].record.accessToken
                    /\ Mine(h).isCloudConnected = handler[h].record.connected
      BY <1>0, <1>1 DEF Quiet, ReqInv
    <2>2. Quiet' => handler'[h].changed /\ Agrees(Mine(h))'
      BY <1>2, <1>3, <1>5, <2>1 DEF Agrees
    <2> QED
      BY <1>5, <2>2 DEF ReqInv
  <1>7. UNCHANGED <<overlapped, consent>> /\ failures <= failures' /\ (~overlapped => Len(records') <= 1)
    BY <1>0, <1>1, <1>3
  <1> QED
    BY <1>0, <1>1, <1>3, <1>4, <1>6, <1>7, ContinueKeeps DEF Phases, OfUser

\* The renewal fails, by itself or because a call does: the user will be disconnected.
LEMMA RenewFailsStep ==
    ASSUME SessionsInv, NEW h \in Handlers, RenewFails(h)
    PROVE  SessionsInv'
  <1>0. /\ Mine(h) \in Session /\ handler[h].record \in Records /\ handler[h].changed \in BOOLEAN
        /\ ~overlapped => Len(records) <= 1
        /\ failures \in Nat /\ Len(records) \in Nat
        /\ Quiet => ReqInv(h)
    BY OwnRequest
  <1>1. /\ Continue(h, "disconnect", Mine(h), handler[h].record) /\ UnderWay(h)
        /\ UNCHANGED <<consent, records, issued, overlapped>>
        /\ \/ handler[h].pc = "renew" /\ failures' = failures
           \/ failures' = failures + 1
    BY DEF RenewFails, Failing, At, UnderWay
  <1>2. Grown /\ Records' = Records /\ Session' = Session
    BY <1>1, SameRecords DEF SessionsInv
  <1>3. /\ UNCHANGED <<overlapped, consent>> /\ failures <= failures' /\ failures' \in Nat
        /\ ~overlapped => Len(records') <= 1
        /\ Quiet' => Quiet /\ handler[h].pc = "renew"
    BY <1>0, <1>1 DEF Quiet
  <1>4. SessionsTyped'
    BY <1>0, <1>1, <1>2, <1>3, ContinueTyped DEF SessionsInv, Phases
  <1>5. /\ handler'[h].pc = "disconnect" /\ Mine(h)' = Mine(h) /\ stored' = stored
        /\ handler'[h].changed <=> handler[h].changed
    BY <1>1, ContinueMoves DEF SessionsInv
  <1>6. Quiet' => Untouched(h)' /\ Agrees(stored)'
    <2>1. Quiet' => Untouched(h) /\ Agrees(stored)
      BY <1>0, <1>3 DEF ReqInv
    <2> QED
      BY <1>1, <1>5, <2>1 DEF Untouched, Fits, Agrees
  <1>7. Quiet' => ReqInv(h)'
    BY <1>5, <1>6 DEF ReqInv
  <1> QED
    BY <1>1, <1>2, <1>3, <1>4, <1>7, ContinueKeeps DEF Phases, OfUser

\* A session that is cut off keeps its user.
LEMMA CutOffTyped ==
    ASSUME SessionsTyped, NEW session \in Session
    PROVE  /\ CutOff(session) \in Session /\ CutOff(session).user = session.user
           /\ CutOff(session).accessTokenToCloud = 0 /\ CutOff(session).isCloudConnected = FALSE
  <1>1. 0 \in Tokens
    BY DEF SessionsTyped, Tokens
  <1>2. CutOff(session) \in Session
    BY <1>1 DEF CutOff, Session, SessionOf
  <1>3. /\ CutOff(session).user = session.user
        /\ CutOff(session).accessTokenToCloud = 0 /\ CutOff(session).isCloudConnected = FALSE
    BY DEF CutOff, Session, SessionOf
  <1> QED
    BY <1>2, <1>3

\* The user is disconnected: the session first, then the record.
LEMMA DisconnectSessionStep ==
    ASSUME SessionsInv, NEW h \in Handlers, DisconnectSession(h)
    PROVE  SessionsInv'
  <1>0. /\ Mine(h) \in Session /\ handler[h].record \in Records /\ handler[h].changed \in BOOLEAN
        /\ ~overlapped => Len(records) <= 1
        /\ failures \in Nat /\ Len(records) \in Nat
        /\ Quiet => ReqInv(h)
    BY OwnRequest
  <1>1. /\ UNCHANGED <<consent, records, issued, overlapped, failures>>
        /\ UnderWay(h) /\ handler[h].pc = "disconnect"
    BY DEF DisconnectSession, At, UnderWay
  <1>2. Grown /\ Records' = Records /\ Session' = Session
    BY <1>1, SameRecords DEF SessionsInv
  <1>3. /\ UNCHANGED <<overlapped, consent>> /\ failures <= failures' /\ failures' \in Nat
        /\ ~overlapped => Len(records') <= 1
        /\ Quiet' => Quiet
    BY <1>0, <1>1 DEF Quiet
  <1>4. CASE Mine(h).user = 0
    <2>1. Answer(h, "error", Mine(h), handler[h].changed)
      BY <1>4 DEF DisconnectSession
    <2>2. SessionsTyped'
      BY <1>0, <1>1, <1>2, <1>3, <2>1, AnswerTyped DEF SessionsInv, Answers
    <2>3. Quiet' => Fits(stored)'
      BY <1>0, <1>1, <1>3, <1>4 DEF ReqInv, Untouched, Agrees
    <2> QED
      BY <1>0, <1>1, <1>2, <1>3, <2>1, <2>2, <2>3, AnswerKeeps, Zenon
  <1>5. CASE Mine(h).user # 0
    <2> DEFINE session == CutOff(Mine(h))
    <2>1. Continue(h, "disconnectRead", session, handler[h].record)
      BY <1>5 DEF DisconnectSession
    <2>2. /\ session \in Session /\ session.user # 0
          /\ session.accessTokenToCloud = 0 /\ session.isCloudConnected = FALSE
      BY <1>0, <1>5, CutOffTyped DEF SessionsInv
    <2> HIDE DEF session
    <2>3. SessionsTyped'
      BY <1>0, <1>1, <1>2, <1>3, <2>1, <2>2, ContinueTyped DEF SessionsInv, Phases
    <2>4. Quiet' => ReqInv(h)'
      <3>1. handler'[h].pc = "disconnectRead" /\ Mine(h)' = session
        BY <2>1, ContinueMoves DEF SessionsInv
      <3> QED
        BY <2>2, <3>1 DEF ReqInv
    <2> QED
      BY <1>0, <1>1, <1>2, <1>3, <2>1, <2>2, <2>3, <2>4, ContinueKeeps DEF Phases, OfUser
  <1> QED
    BY <1>4, <1>5

LEMMA DisconnectReadsStep ==
    ASSUME SessionsInv, NEW h \in Handlers, DisconnectReads(h)
    PROVE  SessionsInv'
  <1>0. /\ Mine(h) \in Session /\ handler[h].record \in Records /\ handler[h].changed \in BOOLEAN
        /\ ~overlapped => Len(records) <= 1
        /\ failures \in Nat /\ Len(records) \in Nat
        /\ \A i \in 1 .. Len(records) : records[i] \in Records
        /\ Quiet => ReqInv(h)
    BY OwnRequest
  <1>1. /\ UNCHANGED <<consent, records, issued, overlapped, failures>>
        /\ UnderWay(h) /\ handler[h].pc = "disconnectRead"
    BY DEF DisconnectReads, At, UnderWay
  <1>2. Grown /\ Records' = Records /\ Session' = Session
    BY <1>1, SameRecords DEF SessionsInv
  <1>3. /\ UNCHANGED <<overlapped, consent>> /\ failures <= failures' /\ failures' \in Nat
        /\ ~overlapped => Len(records') <= 1
        /\ Quiet' => Quiet
        /\ TRUE \in BOOLEAN
    BY <1>0, <1>1 DEF Quiet
  <1>4. Mine(h).user # 0 /\ records[Mine(h).user] \in Records
    <2>1. Mine(h).user # 0
      BY <1>1 DEF SessionsInv, FoundInv, OfUser
    <2> QED
      BY <1>0, <2>1 DEF Session, SessionOf, RecordUsers
  <1>5. Quiet' => Mine(h).accessTokenToCloud = 0 /\ Mine(h).isCloudConnected = FALSE
    BY <1>0, <1>1, <1>3 DEF ReqInv, Session, SessionOf
  <1>6. CASE records[Mine(h).user].azure
    <2>1. Continue(h, "disconnectStore", Mine(h), Disconnected)
      BY <1>6 DEF DisconnectReads
    <2>2. SessionsTyped'
      BY <1>0, <1>1, <1>2, <1>3, <2>1, NoSessionTyped, ContinueTyped DEF SessionsInv, Phases
    <2>3. Quiet' => ReqInv(h)'
      <3>1. /\ handler'[h].pc = "disconnectStore" /\ Mine(h)' = Mine(h)
            /\ handler'[h].record = Disconnected
        BY <2>1, ContinueMoves DEF SessionsInv
      <3> QED
        BY <1>5, <3>1 DEF ReqInv
    <2> QED
      BY <1>0, <1>1, <1>2, <1>3, <1>4, <2>1, <2>2, <2>3, ContinueKeeps DEF Phases, OfUser
  <1>7. CASE ~records[Mine(h).user].azure
    <2>1. Answer(h, "error", Mine(h), TRUE)
      BY <1>7 DEF DisconnectReads
    <2>2. SessionsTyped'
      BY <1>0, <1>1, <1>2, <1>3, <2>1, AnswerTyped DEF SessionsInv, Answers
    <2>3. Quiet' => Fits(stored)'
      <3>1. stored' = Mine(h)
        BY <2>1, <1>3, AnswerMoves, Zenon DEF SessionsInv
      <3>2. records[Mine(h).user] = NeverConnected
        <4>1. (\A t : Connected(t).azure) /\ Disconnected.azure
          BY DEF Connected, Disconnected
        <4> QED
          BY <1>4, <1>7, <4>1, Zenon DEF Records
      <3>3. NeverConnected.accessToken = 0 /\ NeverConnected.connected = FALSE
        BY DEF NeverConnected
      <3> QED
        BY <1>1, <1>4, <1>5, <3>1, <3>2, <3>3 DEF Fits, Agrees
    <2> QED
      BY <1>1, <1>2, <1>3, <2>1, <2>2, <2>3, AnswerKeeps, Zenon
  <1> QED
    BY <1>6, <1>7

LEMMA DisconnectStoresStep ==
    ASSUME SessionsInv, NEW h \in Handlers, DisconnectStores(h)
    PROVE  SessionsInv'
  <1>0. /\ Mine(h) \in Session /\ handler[h].record \in Records
        /\ ~overlapped => Len(records) <= 1
        /\ failures \in Nat /\ Len(records) \in Nat
        /\ Quiet => ReqInv(h)
    BY OwnRequest
  <1>1. /\ Answer(h, "error", Mine(h), TRUE)
        /\ records' = StoreRecord(Mine(h).user, handler[h].record)
        /\ handler[h].pc = "disconnectStore" /\ UnderWay(h)
        /\ UNCHANGED <<consent, issued, overlapped, failures>>
    BY DEF DisconnectStores, At, UnderWay
  <1>2. Mine(h).user \in 1 .. Len(records)
    <2>1. Mine(h).user # 0
      BY <1>1 DEF SessionsInv, FoundInv, OfUser
    <2> QED
      BY <1>0, <2>1 DEF Session, SessionOf, RecordUsers
  <1>3. /\ Grown /\ Records' = Records /\ Session' = Session
        /\ Len(records') = Len(records) /\ records'[Mine(h).user] = handler[h].record
    BY <1>0, <1>1, <1>2, RecordStored DEF SessionsInv
  <1>4. /\ UNCHANGED <<overlapped, consent>> /\ failures <= failures' /\ failures' \in Nat
        /\ ~overlapped => Len(records') <= 1
        /\ Quiet' => Quiet
        /\ TRUE \in BOOLEAN
    BY <1>0, <1>1, <1>3 DEF Quiet
  <1>5. SessionsTyped'
    BY <1>0, <1>1, <1>3, <1>4, AnswerTyped DEF SessionsInv, Answers
  <1>6. Quiet' => Fits(stored)'
    <2>1. stored' = Mine(h)
      BY <1>1, <1>4, AnswerMoves, Zenon DEF SessionsInv
    <2>2. Disconnected.accessToken = 0 /\ Disconnected.connected = FALSE
      BY DEF Disconnected
    <2>3. Quiet' => /\ handler[h].record = Disconnected
                    /\ Mine(h).accessTokenToCloud = 0 /\ Mine(h).isCloudConnected = FALSE
      BY <1>0, <1>1, <1>4 DEF ReqInv, Session, SessionOf
    <2>4. Quiet' => /\ records'[Mine(h).user].accessToken = Mine(h).accessTokenToCloud
                    /\ records'[Mine(h).user].connected = Mine(h).isCloudConnected
      BY <1>3, <2>2, <2>3, Zenon
    <2> QED
      BY <1>2, <2>1, <2>4 DEF Fits, Agrees
  <1> QED
    BY <1>1, <1>3, <1>4, <1>5, <1>6, AnswerKeeps, Zenon

\* Every step of a request that is under way.
LEMMA RequestSteps ==
    ASSUME SessionsInv, NEW h \in Handlers, RequestStep(h)
    PROVE  SessionsInv'
  BY SignInSteps, ConnectSteps, LogoutStep, AdmitSteps, RenewReadsStep, RenewAcquiresStep,
     RenewStoresStep, RenewFailsStep, DisconnectSessionStep, DisconnectReadsStep,
     DisconnectStoresStep, ErrorStep, Zenon
  DEF RequestStep, Work

-----------------------------------------------------------------------------
(* The steps between requests.                                              *)

\* A request arrives with the session as it is stored.
LEMMA ArriveStep ==
    ASSUME SessionsInv, NEW h \in Handlers,
           NEW kind \in {"signIn", "connect", "logout", "footprint"}, Arrive(h, kind)
    PROVE  SessionsInv'
  <1>0. /\ stored \in Session /\ failures \in Nat /\ Len(records) \in Nat
        /\ handler \in [Handlers -> Request] /\ consent \in BOOLEAN /\ overlapped \in BOOLEAN
    BY OwnRequest DEF SessionsInv, SessionsTyped
  <1> DEFINE request == [Idle EXCEPT !.pc = kind, !.session = stored]
  <1>1. /\ request.pc = kind /\ request.session = stored /\ request.changed = FALSE
        /\ request \in Request
    BY <1>0, NoSessionTyped DEF SessionsInv, Idle, Request, Phases, Answers
  <1> HIDE DEF request
  <1>2. /\ ~UnderWay(h) /\ handler' = [handler EXCEPT ![h] = request]
        /\ kind = "connect" => consent
        /\ consent' = (consent /\ kind # "connect")
        /\ overlapped' = (overlapped \/ \E k \in Handlers : UnderWay(k))
        /\ UNCHANGED <<stored, records, issued, failures>>
    BY DEF Arrive, request
  <1>3. handler'[h] = request /\ \A k \in Handlers : k # h => handler'[k] = handler[k]
    BY <1>0, <1>2
  <1>4. Grown /\ Session' = Session /\ Records' = Records
    BY <1>2, SameRecords DEF SessionsInv
  <1>5. SessionsTyped'
    <2>1. Request' = Request
      BY <1>4 DEF Request
    <2>2. handler' \in [Handlers -> Request']
      BY <1>0, <1>1, <1>2, <2>1
    <2>3. overlapped' \in BOOLEAN /\ consent' \in BOOLEAN
      BY <1>2
    <2> QED
      BY <1>0, <1>2, <1>4, <2>2, <2>3 DEF SessionsInv, SessionsTyped
  <1>6. ~overlapped' => ~overlapped /\ \A k \in Handlers : ~UnderWay(k)
    BY <1>2
  <1>7. \A k \in Handlers : k # h => (UnderWay(k)' <=> UnderWay(k))
    BY <1>3 DEF UnderWay
  <1>8. FoundInv'
    BY <1>1, <1>2, <1>3 DEF SessionsInv, FoundInv, At, Mine, OfUser
  <1>9. AloneInv'
    <2>1. ~overlapped' => \A k \in Handlers : UnderWay(k)' => k = h
      BY <1>6, <1>7
    <2>2. ~overlapped' => \A k \in Handlers : ~At(k, "createUser")'
      BY <1>1, <1>3, <1>6 DEF At, UnderWay
    <2> QED
      BY <1>2, <1>6, <2>1, <2>2 DEF SessionsInv, AloneInv
  <1>10. AgreeInv'
    <2>1. Quiet' => Quiet /\ Fits(stored) /\ (consent => Len(records) >= 1)
      BY <1>2, <1>6 DEF Quiet, SessionsInv, AgreeInv
    <2>2. Quiet' => Untouched(h)'
      BY <1>1, <1>2, <1>3, <2>1, <1>6 DEF Untouched, Mine, Fits, Agrees, SessionsInv, AgreeInv, Quiet
    <2>3. Quiet' => ReqInv(h)'
      BY <1>1, <1>2, <1>3, <2>1, <2>2 DEF ReqInv, SessionsInv, AgreeInv, Quiet
    <2>4. Quiet' => \A k \in Handlers : ReqInv(k)'
      <3>1. \A k \in Handlers : ~UnderWay(k)' => ReqInv(k)'
        BY DEF UnderWay, ReqInv
      <3> QED
        BY <1>6, <1>7, <2>3, <3>1 DEF Quiet
    <2>5. UnderWay(h)'
      BY <1>1, <1>3 DEF UnderWay
    <2> QED
      BY <1>2, <1>6, <2>4, <2>5 DEF SessionsInv, AgreeInv, Quiet
  <1> QED
    BY <1>5, <1>8, <1>9, <1>10 DEF SessionsInv

\* A page loop receives the answer; its handler is free again.
LEMMA ReceiveStep ==
    ASSUME SessionsInv, NEW h \in Handlers, At(h, "answered"),
           handler' = [handler EXCEPT ![h] = Idle],
           UNCHANGED <<stored, consent, records, issued, overlapped, failures>>
    PROVE  SessionsInv'
  <1>1. handler'[h] = Idle /\ \A k \in Handlers : k # h => handler'[k] = handler[k]
    BY DEF SessionsInv, SessionsTyped
  <1>2. handler'[h].pc = "idle" /\ handler[h].pc = "answered"
    BY <1>1 DEF Idle, At
  <1>3. Grown /\ Session' = Session /\ Records' = Records
    BY SameRecords DEF SessionsInv
  <1>4. SessionsTyped'
    <2>1. Idle \in Request
      BY NoSessionTyped DEF SessionsInv, Idle, Request, Phases, Answers
    <2>2. Request' = Request
      BY <1>3 DEF Request
    <2>3. handler' \in [Handlers -> Request']
      BY <2>1, <2>2 DEF SessionsInv, SessionsTyped
    <2> QED
      BY <1>3, <2>3 DEF SessionsInv, SessionsTyped
  <1>5. \A k \in Handlers : UnderWay(k)' <=> UnderWay(k)
    BY <1>1, <1>2 DEF UnderWay
  <1>6. FoundInv'
    BY <1>1, <1>2 DEF SessionsInv, FoundInv, At, Mine, OfUser
  <1>7. AloneInv'
    BY <1>1, <1>2, <1>5 DEF SessionsInv, AloneInv, At
  <1>8. AgreeInv'
    <2>1. Quiet => \A k \in Handlers : k # h => ReqInv(k)'
      BY <1>1 DEF SessionsInv, AgreeInv, ReqInv, Untouched, Mine, Fits, Agrees
    <2>2. ReqInv(h)'
      BY <1>2 DEF ReqInv
    <2> QED
      BY <1>5, <2>1, <2>2 DEF SessionsInv, AgreeInv, Quiet, Fits, Agrees
  <1> QED
    BY <1>4, <1>6, <1>7, <1>8 DEF SessionsInv

\* Consent, time, and whatever leaves the sessions alone.
LEMMA OtherSteps ==
    ASSUME SessionsInv, GoToConsent \/ TokenExpires \/ SessionExpires \/ UNCHANGED sessionVars
    PROVE  SessionsInv'
  <1>1. /\ UNCHANGED <<records, issued, handler, overlapped, failures>>
        /\ stored' = stored \/ (stored' = NoSession /\ \A h \in Handlers : ~UnderWay(h))
        /\ consent' = consent \/ (consent' = TRUE /\ stored.isAuthenticated /\ stored' = stored)
    BY DEF GoToConsent, TokenExpires, SessionExpires, sessionVars
  <1>2. Grown /\ Session' = Session /\ Records' = Records
    BY <1>1, SameRecords DEF SessionsInv
  <1>3. SessionsTyped'
    <2>1. Request' = Request
      BY <1>2 DEF Request
    <2>2. stored' \in Session'
      BY <1>1, <1>2, NoSessionTyped DEF SessionsInv, SessionsTyped
    <2>3. consent' \in BOOLEAN
      BY <1>1 DEF SessionsInv, SessionsTyped
    <2> QED
      BY <1>1, <1>2, <2>1, <2>2, <2>3 DEF SessionsInv, SessionsTyped
  <1>4. \A h \in Handlers : UnderWay(h)' <=> UnderWay(h)
    BY <1>1 DEF UnderWay
  <1>5. FoundInv'
    BY <1>1 DEF SessionsInv, FoundInv, At, Mine
  <1>6. AloneInv'
    BY <1>1, <1>4 DEF SessionsInv, AloneInv, At
  <1>7. AgreeInv'
    <2>1. \A k \in Handlers : ~UnderWay(k)' => ReqInv(k)'
      BY DEF UnderWay, ReqInv
    <2>2. CASE stored' = stored
      <3>1. Quiet' => \A k \in Handlers : ReqInv(k)'
        BY <1>1, <2>2 DEF SessionsInv, AgreeInv, Quiet, ReqInv, Untouched, Mine, Fits, Agrees
      <3>2. stored.isAuthenticated => stored # NoSession
        BY DEF NoSession
      <3>3. Quiet' /\ consent' => Len(records) >= 1
        <4>1. Quiet' /\ stored.isAuthenticated => stored.user # 0
          BY <1>1, <3>2 DEF SessionsInv, AgreeInv, Quiet
        <4>2. stored.user \in 0 .. Len(records) /\ Len(records) \in Nat
          BY DEF SessionsInv, SessionsTyped, Session, SessionOf, RecordUsers
        <4>3. Quiet' /\ consent => Len(records) >= 1
          BY <1>1 DEF SessionsInv, AgreeInv, Quiet
        <4>4. Quiet' /\ stored.isAuthenticated => Len(records) >= 1
          BY <4>1, <4>2
        <4> QED
          BY <1>1, <4>3, <4>4, Zenon
      <3> QED
        BY <1>1, <1>4, <2>2, <3>1, <3>3 DEF SessionsInv, AgreeInv, Quiet, Fits, Agrees
    <2>3. CASE stored' # stored
      BY <1>1, <1>4, <2>1, <2>3 DEF SessionsInv, AgreeInv, Quiet, Fits
    <2> QED
      BY <2>2, <2>3
  <1> QED
    BY <1>3, <1>5, <1>6, <1>7 DEF SessionsInv

-----------------------------------------------------------------------------
(* The theorems.                                                            *)

LEMMA InitSessionsInv == Init => SessionsInv
  <1> SUFFICES ASSUME SessionsInit
               PROVE  SessionsInv
    BY DEF Init
  <1>1. /\ issued \in {0, 1} /\ stored = NoSession /\ consent = FALSE
        /\ overlapped = FALSE /\ failures = 0
        /\ records = << >> \/ (records = <<Connected(1)>> /\ issued = 1)
        /\ handler = [h \in Handlers |-> Idle]
    BY DEF SessionsInit
  <1>2. \A h \in Handlers : handler[h].pc = "idle"
    BY <1>1 DEF Idle
  <1>3. records \in Seq(Records) /\ Len(records) \in {0, 1}
    <2>1. issued = 1 => Connected(1) \in Records
      BY DEF Records, Tokens
    <2>2. \A r \in Records : <<r>> \in Seq(Records) /\ Len(<<r>>) = 1
      OBVIOUS
    <2>3. << >> \in Seq(Records) /\ Len(<< >>) = 0
      OBVIOUS
    <2> QED
      BY <1>1, <2>1, <2>2, <2>3, Zenon
  <1>4. NoSession \in Session /\ NeverConnected \in Records
    BY <1>1, <1>3 DEF Session, SessionOf, RecordUsers, Records, Tokens, NoSession
  <1>5. Idle \in Request
    BY <1>4 DEF Idle, Request, Phases, Answers
  <1>6. SessionsTyped
    <2>1. handler \in [Handlers -> Request]
      BY <1>1, <1>5
    <2>2. {overlapped, consent} \subseteq BOOLEAN
      BY <1>1, Zenon
    <2>3. issued \in Nat /\ failures \in Nat
      BY <1>1
    <2>4. stored \in Session
      BY <1>1, <1>4
    <2> QED
      BY <1>3, <2>1, <2>2, <2>3, <2>4 DEF SessionsTyped
  <1>7. FoundInv /\ AloneInv
    <2>1. FoundInv
      BY <1>2 DEF FoundInv, OfUser, At
    <2>2. \A h \in Handlers : ~UnderWay(h) /\ ~At(h, "createUser")
      BY <1>2 DEF UnderWay, At
    <2>3. Len(records) <= 1
      <3>1. \A n \in {0, 1} : n <= 1
        OBVIOUS
      <3> QED
        BY <1>3, <3>1, Zenon
    <2> QED
      BY <2>1, <2>2, <2>3, Zenon DEF AloneInv
  <1>8. AgreeInv
    BY <1>1, <1>2 DEF AgreeInv, ReqInv, Fits
  <1> QED
    BY <1>6, <1>7, <1>8 DEF SessionsInv

LEMMA StepSessionsInv == SessionsInv /\ [Next]_vars => SessionsInv'
  <1> SUFFICES ASSUME SessionsInv, [Next]_vars
               PROVE  SessionsInv'
    OBVIOUS
  <1>1. CASE UserStep
    <2>1. CASE \E u \in Users : SignIn(u) \/ ConnectBack(u) \/ SignOut(u)
      BY <2>1, ArriveStep DEF Users, SignIn, ConnectBack, SignOut
    <2>2. CASE GoToConsent \/ UNCHANGED sessionVars
      BY <2>2, OtherSteps
    <2> QED
      BY <1>1, <2>1, <2>2 DEF UserStep, ConnectToCloud, AskAccount
  <1>2. CASE \E l \in Loops : AskPage(l) \/ Receive(l)
    <2>1. PICK l \in Loops : AskPage(l) \/ Receive(l)
      BY <1>2
    <2>2. l \in Handlers
      BY HandlersAssumption
    <2> QED
      BY <2>1, <2>2, ArriveStep, ReceiveStep DEF AskPage, Receive
  <1>3. CASE \E h \in Handlers : RequestStep(h) /\ UNCHANGED pagesVars
    BY <1>3, RequestSteps
  <1>4. CASE TokenExpires \/ SessionExpires
    BY <1>4, OtherSteps
  <1>5. CASE UNCHANGED vars
    BY <1>5, OtherSteps DEF vars
  <1> QED
    BY <1>1, <1>2, <1>3, <1>4, <1>5 DEF Next

LEMMA SpecSessionsInv == Spec => []SessionsInv
  BY InitSessionsInv, StepSessionsInv, PTL DEF Spec

\* Between requests the session knows the token and the connection of the user's record, whatever
\* the user and the page loops have done, as long as no two requests overlapped and no call failed
\* but the renewal (auth.provider.ts, cloudAccessTokenValidator.ts, disconnectUser).
THEOREM SessionAgreesHolds == Spec => []SessionAgrees
  <1>1. SessionsInv => SessionAgrees
    BY DEF SessionsInv, AgreeInv, Quiet, Fits, Agrees, SessionAgrees
  <1> QED
    BY <1>1, SpecSessionsInv, PTL

\* A user who signs in has one record, however often, unless two requests overlapped
\* (handleRedirect finds the user before it creates one).
THEOREM OneRecordHolds == Spec => []OneRecord
  <1>1. SessionsInv => OneRecord
    BY DEF SessionsInv, AloneInv, OneRecord
  <1> QED
    BY <1>1, SpecSessionsInv, PTL

-----------------------------------------------------------------------------
(* Induction over numbers, and lists of lists one after the other.          *)

LEMMA LeastNumber ==
    ASSUME NEW T \in SUBSET Nat, T # {}
    PROVE  \E n \in T : \A m \in T : n <= m
  <1> DEFINE less == OpToRel(<, Nat)
  <1>1. IsWellFoundedOn(less, Nat)
    BY NatLessThanWellFounded
  <1>2. \E x \in T : \A y \in T : ~(<<y, x>> \in less)
    BY <1>1, WFMin
  <1>3. \A x, y \in Nat : <<y, x>> \in less <=> y < x
    BY DEF OpToRel
  <1> HIDE DEF less
  <1>4. PICK x \in T : \A y \in T : ~(<<y, x>> \in less)
    BY <1>2
  <1>5. \A y \in T : ~(y < x)
    BY <1>3, <1>4
  <1> QED
    BY <1>5

LEMMA NatSetInduction ==
    ASSUME NEW T, 0 \in T, \A n \in Nat : n \in T => n + 1 \in T
    PROVE  Nat \subseteq T
  <1> SUFFICES ASSUME NEW k \in Nat, k \notin T PROVE FALSE
    OBVIOUS
  <1> DEFINE others == {m \in Nat : m \notin T}
  <1>1. PICK n \in others : \A m \in others : n <= m
    BY LeastNumber
  <1>2. n # 0
    BY <1>1
  <1>3. n - 1 \in Nat /\ n - 1 \in T
    BY <1>1, <1>2
  <1> QED
    BY <1>1, <1>3

LEMMA FlattenTurns ==
    ASSUME NEW S, NEW seqs \in Seq(Seq(S)), seqs # <<>>
    PROVE  \E flat : /\ flat[1] = seqs[1]
                     /\ \A n \in 1 .. Len(seqs) - 1 : flat[n + 1] = flat[n] \o seqs[n + 1]
                     /\ FlattenSeq(seqs) = flat[Len(seqs)]
  <1> DEFINE N == Len(seqs)
             Flat(f, m) == f = [n \in 1 .. m |-> IF n = 1 THEN seqs[n] ELSE f[n - 1] \o seqs[n]]
             T == {m \in Nat : \E f : Flat(f, m)}
  <1>1. N \in Nat /\ N >= 1 /\ N # 0
    BY EmptySeq
  <1>2. 0 \in T
    <2> DEFINE f == [n \in 1 .. 0 |-> <<>>]
    <2>1. Flat(f, 0)
      OBVIOUS
    <2> QED
      BY <2>1
  <1>3. ASSUME NEW m \in Nat, m \in T
        PROVE  m + 1 \in T
    <2>1. PICK f : Flat(f, m)
      BY <1>3
    <2> DEFINE next == IF m + 1 = 1 THEN seqs[m + 1] ELSE f[m] \o seqs[m + 1]
               g == [n \in 1 .. m + 1 |-> IF n = m + 1 THEN next ELSE f[n]]
    <2>2. \A n \in 1 .. m : f[n] = IF n = 1 THEN seqs[n] ELSE f[n - 1] \o seqs[n]
      BY <2>1
    <2>3. \A n \in 1 .. m + 1 : g[n] = IF n = 1 THEN seqs[n] ELSE g[n - 1] \o seqs[n]
      <3> TAKE n \in 1 .. m + 1
      <3>1. CASE n = m + 1
        <4>1. g[n] = next /\ (n # 1 => g[n - 1] = f[m])
          BY <3>1
        <4> QED
          BY <3>1, <4>1
      <3>2. CASE n # m + 1
        <4>1. g[n] = f[n] /\ n \in 1 .. m /\ (n # 1 => g[n - 1] = f[n - 1])
          BY <3>2
        <4> QED
          BY <2>2, <4>1
      <3> QED
        BY <3>1, <3>2
    <2>4. Flat(g, m + 1)
      <3>1. g = [n \in 1 .. m + 1 |-> g[n]]
        OBVIOUS
      <3> HIDE DEF g
      <3> QED
        BY <2>3, <3>1
    <2>5. m + 1 \in Nat /\ \E h : Flat(h, m + 1)
      <3> HIDE DEF Flat, g
      <3> QED
        BY <2>4
    <2> HIDE DEF Flat
    <2> QED
      BY <2>5
  <1>4. \E f : Flat(f, N)
    <2> HIDE DEF T
    <2>1. N \in T
      BY <1>1, <1>2, <1>3, NatSetInduction
    <2> QED
      BY <2>1 DEF T
  <1> DEFINE flat == CHOOSE f : Flat(f, N)
  <1>5. Flat(flat, N)
    BY <1>4
  <1>6. FlattenSeq(seqs) = flat[N]
    BY <1>1 DEF FlattenSeq
  <1> HIDE DEF flat
  <1>7. \A n \in 1 .. N : flat[n] = IF n = 1 THEN seqs[n] ELSE flat[n - 1] \o seqs[n]
    <2> HIDE DEF N
    <2> QED
      BY <1>5
  <1>8. flat[1] = seqs[1]
    <2>1. 1 \in 1 .. N
      BY <1>1
    <2> QED
      BY <1>7, <2>1
  <1>9. \A n \in 1 .. N - 1 : flat[n + 1] = flat[n] \o seqs[n + 1]
    <2> TAKE n \in 1 .. N - 1
    <2> DEFINE k == n + 1
    <2>1. k \in 1 .. N /\ k # 1 /\ k - 1 = n
      BY <1>1
    <2> HIDE DEF k, N
    <2>2. flat[k] = flat[k - 1] \o seqs[k]
      BY <1>7, <2>1
    <2> QED
      BY <2>1, <2>2 DEF k
  <1> QED
    BY <1>6, <1>8, <1>9

LEMMA FlattenType ==
    ASSUME NEW S, NEW seqs \in Seq(Seq(S))
    PROVE  FlattenSeq(seqs) \in Seq(S)
  <1>1. CASE seqs = <<>>
    BY <1>1 DEF FlattenSeq
  <1>2. CASE seqs # <<>>
    <2>1. PICK flat : /\ flat[1] = seqs[1]
                      /\ \A n \in 1 .. Len(seqs) - 1 : flat[n + 1] = flat[n] \o seqs[n + 1]
                      /\ FlattenSeq(seqs) = flat[Len(seqs)]
      BY <1>2, FlattenTurns
    <2> DEFINE N == Len(seqs)
               T == {n \in Nat : n \in 1 .. N => flat[n] \in Seq(S)}
    <2>2. N \in Nat /\ N # 0 /\ \A k \in 1 .. N : seqs[k] \in Seq(S)
      BY <1>2, EmptySeq, LenProperties, ElementOfSeq
    <2>3. 0 \in T
      OBVIOUS
    <2>4. ASSUME NEW n \in Nat, n \in T
          PROVE  n + 1 \in T
      <3>1. CASE n = 0
        BY <2>1, <2>2, <3>1
      <3>2. CASE n # 0 /\ n + 1 \in 1 .. N
        <4>1. n \in 1 .. N - 1 /\ n \in 1 .. N /\ n + 1 \in Nat
          BY <2>2, <3>2
        <4>2. flat[n + 1] = flat[n] \o seqs[n + 1]
          BY <2>1, <4>1
        <4>3. seqs[n + 1] \in Seq(S) /\ flat[n] \in Seq(S)
          BY <2>2, <2>4, <3>2, <4>1
        <4>4. flat[n + 1] \in Seq(S)
          BY <4>2, <4>3, ConcatProperties
        <4> HIDE DEF N
        <4> QED
          BY <4>1, <4>4
      <3>3. CASE n + 1 \notin 1 .. N
        BY <3>3
      <3> QED
        BY <3>1, <3>2, <3>3
    <2>5. N \in T /\ N \in 1 .. N
      <3>1. N \in 1 .. N
        BY <2>2
      <3> HIDE DEF T, N
      <3> QED
        BY <2>2, <2>3, <2>4, <3>1, NatSetInduction
    <2> QED
      BY <2>1, <2>5
  <1> QED
    BY <1>1, <1>2

\* One list more at the end of some lists is appended to what they are together.
LEMMA FlattenNext ==
    ASSUME NEW S, NEW seqs \in Seq(Seq(S)), NEW last \in Seq(S)
    PROVE  FlattenSeq(Append(seqs, last)) = FlattenSeq(seqs) \o last
  <1> DEFINE more == Append(seqs, last)
             N == Len(seqs)
  <1>1. /\ more \in Seq(Seq(S)) /\ Len(more) = N + 1 /\ N \in Nat /\ more # <<>>
        /\ more[N + 1] = last /\ \A k \in 1 .. N : more[k] = seqs[k]
    BY AppendProperties, LenProperties
  <1> HIDE DEF more
  <1>2. PICK g : /\ g[1] = more[1]
                 /\ \A n \in 1 .. Len(more) - 1 : g[n + 1] = g[n] \o more[n + 1]
                 /\ FlattenSeq(more) = g[Len(more)]
    BY <1>1, FlattenTurns
  <1>3. CASE seqs = <<>>
    <2>1. N = 0 /\ FlattenSeq(seqs) = <<>>
      BY <1>3 DEF FlattenSeq
    <2>2. FlattenSeq(more) = last
      BY <1>1, <1>2, <2>1
    <2> QED
      BY <2>1, <2>2 DEF more
  <1>4. CASE seqs # <<>>
    <2>1. PICK f : /\ f[1] = seqs[1]
                   /\ \A n \in 1 .. N - 1 : f[n + 1] = f[n] \o seqs[n + 1]
                   /\ FlattenSeq(seqs) = f[N]
      BY <1>4, FlattenTurns
    <2>2. N # 0
      BY <1>4, EmptySeq
    <2> DEFINE T == {n \in Nat : n \in 1 .. N => g[n] = f[n]}
    <2>3. 0 \in T
      OBVIOUS
    <2>4. ASSUME NEW n \in Nat, n \in T
          PROVE  n + 1 \in T
      <3>1. CASE n = 0
        BY <1>1, <1>2, <2>1, <2>2, <3>1
      <3>2. CASE n # 0 /\ n + 1 \in 1 .. N
        <4>1. n \in 1 .. N - 1 /\ n \in 1 .. N /\ n \in 1 .. Len(more) - 1 /\ n + 1 \in Nat
          BY <1>1, <3>2
        <4>2. f[n + 1] = f[n] \o seqs[n + 1] /\ g[n + 1] = g[n] \o more[n + 1]
          BY <1>2, <2>1, <4>1
        <4>3. f[n] = g[n] /\ seqs[n + 1] = more[n + 1]
          BY <1>1, <2>4, <3>2, <4>1
        <4>4. g[n + 1] = f[n + 1]
          BY <4>2, <4>3
        <4> HIDE DEF N
        <4> QED
          BY <4>1, <4>4
      <3>3. CASE n + 1 \notin 1 .. N
        BY <3>3
      <3> QED
        BY <3>1, <3>2, <3>3
    <2>5. N \in T /\ N \in 1 .. N
      <3>1. N \in 1 .. N
        BY <1>1, <2>2
      <3> HIDE DEF T, N
      <3> QED
        BY <1>1, <2>3, <2>4, <3>1, NatSetInduction
    <2>6. g[N] = f[N]
      BY <2>5
    <2>7. N \in 1 .. Len(more) - 1
      BY <1>1, <2>2
    <2>8. g[N + 1] = g[N] \o more[N + 1]
      BY <1>2, <2>7
    <2> QED
      BY <1>1, <1>2, <2>1, <2>6, <2>8 DEF more
  <1> QED
    BY <1>3, <1>4

\* Of lists numbered from 1: those up to the next number, together.
LEMMA FlattenUpTo ==
    ASSUME NEW S, NEW n \in Nat, NEW f, \A i \in 1 .. n + 1 : f[i] \in Seq(S)
    PROVE  /\ FlattenSeq([i \in 1 .. n |-> f[i]]) \in Seq(S)
           /\ FlattenSeq([i \in 1 .. n + 1 |-> f[i]]) = FlattenSeq([i \in 1 .. n |-> f[i]]) \o f[n + 1]
  <1> DEFINE up == [i \in 1 .. n |-> f[i]]
             next == [i \in 1 .. n + 1 |-> f[i]]
  <1>1. up \in Seq(Seq(S)) /\ Len(up) = n
    OBVIOUS
  <1>2. f[n + 1] \in Seq(S)
    OBVIOUS
  <1>3. next = Append(up, f[n + 1])
    OBVIOUS
  <1> HIDE DEF up, next
  <1>4. FlattenSeq(up) \in Seq(S) /\ FlattenSeq(Append(up, f[n + 1])) = FlattenSeq(up) \o f[n + 1]
    BY <1>1, <1>2, FlattenType, FlattenNext
  <1> QED
    BY <1>3, <1>4 DEF up, next

\* A list and another one behind it.
LEMMA TwoLists ==
    ASSUME NEW S, NEW s \in Seq(S), NEW t \in Seq(S)
    PROVE  /\ s \o t \in Seq(S) /\ ToSet(s \o t) = ToSet(s) \cup ToSet(t)
           /\ (IsInjective(s) /\ IsInjective(t) /\ ToSet(s) \cap ToSet(t) = {}) => IsInjective(s \o t)
           /\ t # << >> => s \o t # << >> /\ Last(s \o t) = Last(t)
  <1> DEFINE st == s \o t
             M == Len(s)
             N == Len(t)
  <1>1. /\ st \in Seq(S) /\ M \in Nat /\ N \in Nat /\ Len(st) = M + N
        /\ DOMAIN st = 1 .. M + N /\ DOMAIN s = 1 .. M /\ DOMAIN t = 1 .. N
    BY ConcatProperties, LenProperties
  <1>2. \A i \in 1 .. M + N : st[i] = IF i <= M THEN s[i] ELSE t[i - M]
    BY ConcatProperties
  <1> HIDE DEF st, M, N
  <1>3. \A i \in 1 .. M : st[i] = s[i] /\ i \in 1 .. M + N
    BY <1>1, <1>2
  <1>4. \A i \in 1 .. N : st[M + i] = t[i] /\ M + i \in 1 .. M + N
    BY <1>1, <1>2
  <1>5. \A i \in 1 .. M + N : i \in 1 .. M \/ (i - M \in 1 .. N /\ st[i] = t[i - M])
    BY <1>1, <1>2
  <1>6. ToSet(st) = ToSet(s) \cup ToSet(t)
    <2>1. ASSUME NEW x
          PROVE  x \in ToSet(st) <=> x \in ToSet(s) \/ x \in ToSet(t)
      <3>1. ToSet(st) = {st[i] : i \in 1 .. M + N} /\ ToSet(s) = {s[i] : i \in 1 .. M}
            /\ ToSet(t) = {t[i] : i \in 1 .. N}
        BY <1>1 DEF ToSet
      <3>2. ASSUME x \in ToSet(st)
            PROVE  x \in ToSet(s) \/ x \in ToSet(t)
        <4>1. PICK i \in 1 .. M + N : x = st[i]
          BY <3>1, <3>2
        <4> QED
          BY <1>3, <1>5, <3>1, <4>1
      <3>3. x \in ToSet(s) => x \in ToSet(st)
        BY <1>3, <3>1
      <3>4. x \in ToSet(t) => x \in ToSet(st)
        BY <1>4, <3>1
      <3> QED
        BY <3>2, <3>3, <3>4
    <2> QED
      BY <2>1
  <1>7. ASSUME IsInjective(s), IsInjective(t), ToSet(s) \cap ToSet(t) = {}
        PROVE  IsInjective(st)
    <2> SUFFICES ASSUME NEW i \in 1 .. M + N, NEW j \in 1 .. M + N, st[i] = st[j]
                 PROVE  i = j
      BY <1>1 DEF IsInjective
    <2>1. \A k \in 1 .. M : \A n \in 1 .. N : s[k] # t[n]
      BY <1>1, <1>7 DEF ToSet
    <2>2. CASE i \in 1 .. M /\ j \in 1 .. M
      BY <1>1, <1>3, <1>7, <2>2 DEF IsInjective
    <2>3. CASE i \in 1 .. M /\ j \notin 1 .. M
      <3>1. st[i] = s[i] /\ j - M \in 1 .. N /\ st[j] = t[j - M]
        BY <1>3, <1>5, <2>3
      <3> QED
        BY <2>1, <2>3, <3>1
    <2>4. CASE i \notin 1 .. M /\ j \in 1 .. M
      <3>1. st[j] = s[j] /\ i - M \in 1 .. N /\ st[i] = t[i - M]
        BY <1>3, <1>5, <2>4
      <3> QED
        BY <2>1, <2>4, <3>1
    <2>5. CASE i \notin 1 .. M /\ j \notin 1 .. M
      <3>1. i - M \in 1 .. N /\ j - M \in 1 .. N /\ t[i - M] = t[j - M]
        BY <1>5, <2>5
      <3>2. i - M = j - M
        BY <1>1, <1>7, <3>1 DEF IsInjective
      <3> QED
        BY <1>1, <3>2
    <2> QED
      BY <2>2, <2>3, <2>4, <2>5
  <1>8. ASSUME t # << >>
        PROVE  st # << >> /\ Last(st) = Last(t)
    <2>1. N \in Nat \ {0}
      BY <1>8, EmptySeq DEF N
    <2>2. st[M + N] = t[N]
      BY <1>4, <2>1
    <2>3. Len(st) # 0
      BY <1>1, <2>1
    <2> QED
      BY <1>1, <2>2, <2>3 DEF Last, N
  <1> QED
    BY <1>1, <1>6, <1>7, <1>8 DEF st

\* Lists one after the other have the elements of each, and none twice if they share none.
LEMMA Flattened ==
    ASSUME NEW S, NEW n \in Nat, NEW f, \A i \in 1 .. n : f[i] \in Seq(S)
    PROVE  /\ FlattenSeq([i \in 1 .. n |-> f[i]]) \in Seq(S)
           /\ \A x : x \in ToSet(FlattenSeq([i \in 1 .. n |-> f[i]]))
                      <=> \E i \in 1 .. n : x \in ToSet(f[i])
           /\ (/\ \A i \in 1 .. n : IsInjective(f[i])
               /\ \A i, j \in 1 .. n : i # j => ToSet(f[i]) \cap ToSet(f[j]) = {})
              => IsInjective(FlattenSeq([i \in 1 .. n |-> f[i]]))
  <1> DEFINE flat(m) == FlattenSeq([i \in 1 .. m |-> f[i]])
             Apart == /\ \A i \in 1 .. n : IsInjective(f[i])
                      /\ \A i, j \in 1 .. n : i # j => ToSet(f[i]) \cap ToSet(f[j]) = {}
             Fine(m) == /\ flat(m) \in Seq(S)
                        /\ \A x : x \in ToSet(flat(m)) <=> \E i \in 1 .. m : x \in ToSet(f[i])
                        /\ Apart => IsInjective(flat(m))
             T == {m \in Nat : m <= n => Fine(m)}
  <1>1. 0 \in T
    <2>1. [i \in 1 .. 0 |-> f[i]] = << >>
      OBVIOUS
    <2>2. flat(0) = << >>
      BY <2>1, Zenon DEF FlattenSeq
    <2>3. flat(0) \in Seq(S) /\ ToSet(flat(0)) = {} /\ IsInjective(flat(0))
      <3>1. << >> \in Seq(S) /\ DOMAIN << >> = {}
        OBVIOUS
      <3> HIDE DEF flat
      <3> QED
        BY <2>2, <3>1 DEF ToSet, IsInjective
    <2> HIDE DEF flat
    <2>4. Fine(0)
      BY <2>3
    <2> HIDE DEF Fine
    <2> QED
      BY <2>4
  <1>2. ASSUME NEW m \in Nat, m \in T
        PROVE  m + 1 \in T
    <2> SUFFICES ASSUME m + 1 <= n
                 PROVE  Fine(m + 1)
      <3> HIDE DEF Fine
      <3> QED
        OBVIOUS
    <2>1. Fine(m)
      <3> HIDE DEF Fine
      <3> QED
        BY <1>2
    <2>2. /\ m + 1 \in 1 .. n /\ m + 1 \in 1 .. m + 1 /\ 1 .. m \subseteq 1 .. n
          /\ \A i \in 1 .. m : i # m + 1 /\ i \in 1 .. m + 1
          /\ \A i \in 1 .. m + 1 : i = m + 1 \/ i \in 1 .. m
      OBVIOUS
    <2>3. f[m + 1] \in Seq(S) /\ \A i \in 1 .. m + 1 : f[i] \in Seq(S)
      OBVIOUS
    <2>4. flat(m + 1) = flat(m) \o f[m + 1]
      BY <2>3, FlattenUpTo
    <2> HIDE DEF flat
    <2>5. /\ flat(m + 1) \in Seq(S) /\ ToSet(flat(m + 1)) = ToSet(flat(m)) \cup ToSet(f[m + 1])
          /\ (/\ IsInjective(flat(m)) /\ IsInjective(f[m + 1])
              /\ ToSet(flat(m)) \cap ToSet(f[m + 1]) = {}) => IsInjective(flat(m + 1))
      <3> DEFINE s == flat(m)
                 t == f[m + 1]
      <3>1. s \in Seq(S)
        BY <2>1
      <3>2. t \in Seq(S)
        BY <2>3
      <3> HIDE DEF Fine, Apart, T, s, t
      <3>3. /\ s \o t \in Seq(S) /\ ToSet(s \o t) = ToSet(s) \cup ToSet(t)
            /\ (IsInjective(s) /\ IsInjective(t) /\ ToSet(s) \cap ToSet(t) = {}) => IsInjective(s \o t)
        BY <3>1, <3>2, TwoLists
      <3>4. flat(m + 1) = s \o t
        BY <2>4 DEF s, t
      <3> QED
        BY <3>3, <3>4 DEF s, t
    <2>6. \A x : x \in ToSet(flat(m + 1)) <=> \E i \in 1 .. m + 1 : x \in ToSet(f[i])
      <3> HIDE DEF Apart
      <3>1. \A x : x \in ToSet(flat(m)) <=> \E i \in 1 .. m : x \in ToSet(f[i])
        BY <2>1
      <3>2. 1 .. m + 1 = 1 .. m \cup {m + 1}
        BY <2>2
      <3> QED
        BY <2>5, <3>1, <3>2, Zenon
    <2>7. ASSUME Apart
          PROVE  IsInjective(flat(m + 1))
      <3>1. IsInjective(f[m + 1]) /\ IsInjective(flat(m))
        BY <2>1, <2>2, <2>7
      <3>2. \A i \in 1 .. m : ToSet(f[i]) \cap ToSet(f[m + 1]) = {}
        BY <2>2, <2>7
      <3>3. \A x : x \in ToSet(flat(m)) <=> \E i \in 1 .. m : x \in ToSet(f[i])
        BY <2>1
      <3>4. ToSet(flat(m)) \cap ToSet(f[m + 1]) = {}
        <4> SUFFICES ASSUME NEW x, x \in ToSet(flat(m)), x \in ToSet(f[m + 1]) PROVE FALSE
          OBVIOUS
        <4>1. PICK i \in 1 .. m : x \in ToSet(f[i])
          BY <3>3, Zenon
        <4> HIDE DEF Apart, Fine
        <4>2. x \in ToSet(f[i]) \cap ToSet(f[m + 1])
          BY <4>1
        <4> QED
          BY <3>2, <4>2
      <3> QED
        BY <2>5, <3>1, <3>4
    <2> HIDE DEF Apart
    <2> QED
      BY <2>5, <2>6, <2>7
  <1>3. Fine(n)
    <2>1. n \in T
      <3> HIDE DEF T
      <3> QED
        BY <1>1, <1>2, NatSetInduction
    <2> HIDE DEF Fine
    <2> QED
      BY <2>1
  <1> QED
    BY <1>3

-----------------------------------------------------------------------------
(* The pages and the lists.                                                  *)

Loop == [at: LoopStates, skip: Nat, estimates: Seq(Objects), empty: BOOLEAN]

PagesTyped ==
    /\ serves \in Caches /\ rows \in Stored
    /\ {dashboard, isAuthenticated, isCloudConnected, isFirstVisit} \subseteq BOOLEAN
    /\ data \in Seq(Objects)
    /\ services \in [Objects -> Seq(DOMAIN rows)]
    /\ loop \in [Loops -> Loop]

\* A loop that was started and asks no more.
Over(l) == loop[l].at \in {"done", "failed"}

\* A list holds objects of the loop it belongs to and of loops that are over.
ListsInv ==
    /\ \A o \in ToSet(data) : Over(o[1])
    /\ \A l \in Loops : /\ \A o \in ToSet(loop[l].estimates) : o[1] = l \/ Over(o[1])
                        /\ loop[l].at = "unused" => loop[l] = NoLoop

\* The last object of a list is that of the last day, with all of the day's estimates.
EndsWhole(list) ==
    list # << >> => /\ services[Last(list)] = OfDay(Everything, Last(list)[2])
                    /\ Last(list)[2] \in Days /\ \A d \in Days : d <= Last(list)[2]

\* A cache that does not page gives all at once.
WholeInv ==
    serves = "whole" => EndsWhole(data) /\ \A l \in Loops : EndsWhole(loop[l].estimates)

\* How far a loop that still asks can be.
SkipsInv ==
    \A l \in Loops :
        /\ loop[l].skip <= Len(rows) + 2 * PageLimit
        /\ loop[l].at = "asking" =>
              CASE UsesMongoDB -> loop[l].skip < Len(rows) + PageLimit
                [] serves = "whole" -> loop[l].skip = 0 \/ (loop[l].skip = PageLimit /\ loop[l].estimates # << >>)
                [] serves = "fresh" -> loop[l].skip = 0

\* The estimates a loop has received.
Received(l) ==
    IF serves = "paged" THEN {i \in DOMAIN rows : i <= loop[l].skip}
    ELSE IF loop[l].skip = 0 THEN {} ELSE DOMAIN rows

\* The list of a loop has some estimates, each once and under its day, in objects of its own.
ListsOf(list, under, l, these) ==
    /\ IsInjective(list)
    /\ \A i \in these : <<l, rows[i].day>> \in ToSet(list)
    /\ \A o \in ToSet(list) :
          /\ o[1] = l /\ IsInjective(under[o])
          /\ ToSet(under[o]) = {i \in these : rows[i].day = o[2]}
          /\ \E i \in these : rows[i].day = o[2]

Lists(l, these) == ListsOf(loop[l].estimates, services, l, these)

\* Every request reads in the same order, no two estimates are equal, and every loop has
\* started from nothing.
FromNothing ==
    /\ serves # "shuffled"
    /\ \A i, j \in DOMAIN rows : rows[i].estimate = rows[j].estimate => i = j
    /\ \A l \in Loops : loop[l].empty

LoadedInv ==
    FromNothing => \A l \in Loops :
        /\ loop[l].at = "asking" => Lists(l, Received(l))
        /\ loop[l].at = "done" => Lists(l, DOMAIN rows)

PagesInv == PagesTyped /\ ListsInv /\ WholeInv /\ SkipsInv /\ LoadedInv

\* What is chosen from a sequence are its elements in the set, each as often as it is there.
LEMMA ChosenIs ==
    ASSUME NEW S, NEW seq \in Seq(S), NEW set
    PROVE  /\ Chosen(seq, set) \in Seq(S)
           /\ \A x : x \in ToSet(Chosen(seq, set)) <=> x \in ToSet(seq) /\ x \in set
           /\ IsInjective(seq) => IsInjective(Chosen(seq, set))
  <1> DEFINE n == Len(seq)
             f == [k \in DOMAIN seq |-> IF seq[k] \in set THEN <<seq[k]>> ELSE << >>]
  <1>1. n \in Nat /\ DOMAIN seq = 1 .. n /\ \A k \in 1 .. n : seq[k] \in S
    BY LenProperties, ElementOfSeq
  <1>2. \A k \in 1 .. n : f[k] = IF seq[k] \in set THEN <<seq[k]>> ELSE << >>
    BY <1>1
  <1>3. f = [k \in 1 .. n |-> f[k]] /\ Chosen(seq, set) = FlattenSeq(f)
    BY <1>1 DEF Chosen
  <1> HIDE DEF n, f
  <1>4. \A k \in 1 .. n : f[k] \in Seq(S)
    <2>1. << >> \in Seq(S) /\ \A x \in S : <<x>> \in Seq(S)
      OBVIOUS
    <2> QED
      BY <1>1, <1>2, <2>1
  <1>5. \A k \in 1 .. n : \A x : x \in ToSet(f[k]) <=> x = seq[k] /\ x \in set
    <2> SUFFICES ASSUME NEW k \in 1 .. n, NEW x
                 PROVE  x \in ToSet(f[k]) <=> x = seq[k] /\ x \in set
      OBVIOUS
    <2>1. CASE seq[k] \in set
      <3>1. ToSet(<<seq[k]>>) = {seq[k]}
        BY DEF ToSet
      <3> QED
        BY <1>2, <2>1, <3>1
    <2>2. CASE seq[k] \notin set
      <3>1. ToSet(<< >>) = {}
        BY DEF ToSet
      <3> QED
        BY <1>2, <2>2, <3>1
    <2> QED
      BY <2>1, <2>2
  <1>6. \A k \in 1 .. n : IsInjective(f[k])
    <2> TAKE k \in 1 .. n
    <2>1. IsInjective(<<seq[k]>>) /\ IsInjective(<< >>)
      BY DEF IsInjective
    <2> QED
      BY <1>2, <2>1
  <1>7. Chosen(seq, set) \in Seq(S)
    BY <1>1, <1>3, <1>4, Flattened
  <1>8. \A x : x \in ToSet(Chosen(seq, set)) <=> x \in ToSet(seq) /\ x \in set
    <2>1. \A x : x \in ToSet(FlattenSeq([k \in 1 .. n |-> f[k]])) <=> \E k \in 1 .. n : x \in ToSet(f[k])
      BY <1>1, <1>4, Flattened
    <2>2. ToSet(seq) = {seq[k] : k \in 1 .. n}
      BY <1>1 DEF ToSet
    <2> QED
      BY <1>3, <1>5, <2>1, <2>2
  <1>9. ASSUME IsInjective(seq)
        PROVE  IsInjective(Chosen(seq, set))
    <2>1. \A i, j \in 1 .. n : i # j => ToSet(f[i]) \cap ToSet(f[j]) = {}
      <3> SUFFICES ASSUME NEW i \in 1 .. n, NEW j \in 1 .. n, i # j,
                          NEW x, x \in ToSet(f[i]), x \in ToSet(f[j])
                   PROVE  FALSE
        OBVIOUS
      <3>1. x = seq[i] /\ x = seq[j]
        BY <1>5
      <3> QED
        BY <1>1, <1>9, <3>1 DEF IsInjective
    <2>2. IsInjective(FlattenSeq([k \in 1 .. n |-> f[k]]))
      BY <1>1, <1>4, <1>6, <2>1, Flattened
    <2> QED
      BY <1>3, <2>2
  <1> QED
    BY <1>7, <1>8, <1>9

\* If the last element is chosen it is the last one chosen.
LEMMA ChosenLast ==
    ASSUME NEW S, NEW seq \in Seq(S), NEW set, seq # << >>, Last(seq) \in set
    PROVE  Chosen(seq, set) # << >> /\ Last(Chosen(seq, set)) = Last(seq)
  <1> DEFINE n == Len(seq) - 1
             f == [k \in DOMAIN seq |-> IF seq[k] \in set THEN <<seq[k]>> ELSE << >>]
  <1>1. n \in Nat /\ Len(seq) = n + 1 /\ DOMAIN seq = 1 .. n + 1 /\ \A k \in 1 .. n + 1 : seq[k] \in S
    <2>1. Len(seq) \in Nat \ {0} /\ DOMAIN seq = 1 .. Len(seq) /\ \A k \in 1 .. Len(seq) : seq[k] \in S
      BY EmptySeq, LenProperties, ElementOfSeq
    <2>2. Len(seq) = n + 1 /\ n \in Nat
      BY <2>1
    <2> QED
      BY <2>1, <2>2
  <1>2. \A k \in 1 .. n + 1 : f[k] = IF seq[k] \in set THEN <<seq[k]>> ELSE << >>
    BY <1>1
  <1>3. f = [k \in 1 .. n + 1 |-> f[k]] /\ Chosen(seq, set) = FlattenSeq(f)
    BY <1>1 DEF Chosen
  <1>4. Last(seq) = seq[n + 1]
    BY <1>1 DEF Last
  <1> HIDE DEF n, f
  <1>5. \A k \in 1 .. n + 1 : f[k] \in Seq(S)
    <2>1. << >> \in Seq(S) /\ \A x \in S : <<x>> \in Seq(S)
      OBVIOUS
    <2> QED
      BY <1>1, <1>2, <2>1
  <1> DEFINE s == FlattenSeq([k \in 1 .. n |-> f[k]])
             t == f[n + 1]
  <1>6. s \in Seq(S) /\ FlattenSeq([k \in 1 .. n + 1 |-> f[k]]) = s \o t
    BY <1>1, <1>5, FlattenUpTo
  <1>7. n + 1 \in 1 .. n + 1
    BY <1>1
  <1>8. t = <<Last(seq)>> /\ t \in Seq(S)
    BY <1>2, <1>4, <1>5, <1>7
  <1>9. t # << >> /\ Last(t) = Last(seq)
    <2>1. \A x : <<x>> # << >> /\ Last(<<x>>) = x
      BY DEF Last
    <2> QED
      BY <1>8, <2>1
  <1> HIDE DEF s, t
  <1>10. s \o t # << >> /\ Last(s \o t) = Last(t)
    BY <1>6, <1>8, <1>9, TwoLists
  <1> QED
    BY <1>3, <1>6, <1>9, <1>10

-----------------------------------------------------------------------------
(* The server's pages.                                                      *)

LEMMA RowsTyped ==
    ASSUME PagesTyped
    PROVE  /\ Len(rows) \in Nat /\ DOMAIN rows = 1 .. Len(rows) /\ PageLimit \in Nat \ {0}
           /\ \A i \in DOMAIN rows : rows[i].day \in Nat /\ rows[i].day \in Days
           /\ serves \in {"paged", "shuffled", "whole", "fresh"}
  <1>1. rows \in Seq(ToSet(rows)) /\ \A i \in DOMAIN rows : rows[i].day \in Nat
    BY PagesAssumption DEF PagesTyped
  <1>2. Len(rows) \in Nat /\ DOMAIN rows = 1 .. Len(rows)
    BY <1>1, LenProperties
  <1> QED
    BY <1>1, <1>2, PagesAssumption DEF PagesTyped, Days

LEMMA HeldIs ==
    ASSUME PagesTyped, NEW skip \in Nat
    PROVE  /\ Held(skip) \in Nat /\ (Held(skip) # 0 => skip < Len(rows) /\ skip + Held(skip) <= Len(rows))
           /\ \A i \in DOMAIN rows :
                 skip < i => (i <= skip + Held(skip) <=> i <= skip + PageLimit)
  <1> DEFINE n == Len(rows)
             h == Held(skip)
  <1>1. n \in Nat /\ PageLimit \in Nat \ {0} /\ DOMAIN rows = 1 .. n
    BY RowsTyped
  <1>2. h = IF skip >= n THEN 0 ELSE IF skip + PageLimit < n THEN PageLimit ELSE n - skip
    BY DEF Held
  <1> HIDE DEF n, h
  <1>3. h \in Nat /\ (h # 0 => skip < n /\ skip + h <= n)
    BY <1>1, <1>2
  <1>4. \A i \in 1 .. n : skip < i => (i <= skip + h <=> i <= skip + PageLimit)
    BY <1>1, <1>2
  <1> QED
    BY <1>1, <1>3, <1>4 DEF n, h

\* A page has estimates of the cache, each once: without MongoDB all of them, with it those
\* behind the ones that were skipped, unless each request reads them in an order of its own.
LEMMA PageIs ==
    ASSUME PagesTyped, NEW skip \in Nat, NEW page \in Pages(skip)
    PROVE  /\ page \in Seq(DOMAIN rows) /\ IsInjective(page) /\ ToSet(page) \subseteq DOMAIN rows
           /\ serves # "shuffled" =>
                 \A i : i \in ToSet(page)
                         <=> i \in DOMAIN rows /\ (serves = "paged" => skip < i /\ i <= skip + PageLimit)
           /\ ~UsesMongoDB => page = Everything
           /\ UsesMongoDB /\ ToSet(page) # {} => skip < Len(rows)
  <1>1. \A a, b \in Nat : 1 <= a /\ b <= Len(rows) =>
            /\ Indices(a, b) \in Seq(DOMAIN rows) /\ IsInjective(Indices(a, b))
            /\ \A i : i \in ToSet(Indices(a, b)) <=> i \in DOMAIN rows /\ a <= i /\ i <= b
    <2> SUFFICES ASSUME NEW a \in Nat, NEW b \in Nat, 1 <= a, b <= Len(rows)
                 PROVE  /\ Indices(a, b) \in Seq(DOMAIN rows) /\ IsInjective(Indices(a, b))
                        /\ \A i : i \in ToSet(Indices(a, b)) <=> i \in DOMAIN rows /\ a <= i /\ i <= b
      OBVIOUS
    <2> DEFINE s == Indices(a, b)
               n == IF a <= b THEN b - a + 1 ELSE 0
    <2>1. n \in Nat /\ DOMAIN s = 1 .. n /\ \A k \in 1 .. n : s[k] = a + k - 1 /\ s[k] \in DOMAIN rows
      <3>1. n \in Nat /\ 1 .. (b - a + 1) = 1 .. n
        OBVIOUS
      <3> QED
        BY <3>1, RowsTyped DEF Indices
    <2>2. s = [k \in 1 .. n |-> s[k]]
      BY <2>1 DEF Indices
    <2> HIDE DEF s
    <2>3. s \in Seq(DOMAIN rows)
      <3> HIDE DEF n
      <3>1. s \in [1 .. n -> DOMAIN rows]
        BY <2>1, <2>2
      <3> QED
        BY <2>1, <3>1
    <2>4. IsInjective(s)
      <3> SUFFICES ASSUME NEW i \in 1 .. n, NEW j \in 1 .. n, s[i] = s[j] PROVE i = j
        BY <2>1 DEF IsInjective
      <3> QED
        BY <2>1
    <2>5. \A i : i \in ToSet(s) <=> i \in DOMAIN rows /\ a <= i /\ i <= b
      <3> SUFFICES ASSUME NEW i PROVE i \in ToSet(s) <=> i \in DOMAIN rows /\ a <= i /\ i <= b
        OBVIOUS
      <3>1. ASSUME i \in ToSet(s) PROVE i \in DOMAIN rows /\ a <= i /\ i <= b
        <4>1. PICK k \in 1 .. n : i = s[k]
          BY <2>1, <3>1 DEF ToSet
        <4> QED
          BY <2>1, <4>1
      <3>2. ASSUME i \in DOMAIN rows, a <= i, i <= b PROVE i \in ToSet(s)
        <4>1. i \in Nat
          BY <3>2, RowsTyped
        <4> DEFINE k == i - a + 1
        <4>2. k \in 1 .. n /\ a + k - 1 = i
          BY <3>2, <4>1
        <4> HIDE DEF k, n
        <4>3. s[k] = i
          BY <2>1, <4>2
        <4> QED
          BY <2>1, <4>2, <4>3 DEF ToSet
      <3> QED
        BY <3>1, <3>2
    <2> QED
      BY <2>3, <2>4, <2>5 DEF s
  <1>2. /\ Everything \in Seq(DOMAIN rows) /\ IsInjective(Everything)
        /\ \A i : i \in ToSet(Everything) <=> i \in DOMAIN rows
    <2>1. \A i \in DOMAIN rows : 1 <= i /\ i <= Len(rows)
      BY RowsTyped
    <2>2. 1 \in Nat /\ Len(rows) \in Nat /\ 1 <= 1 /\ Len(rows) <= Len(rows)
      BY RowsTyped
    <2> QED
      BY <1>1, <2>1, <2>2 DEF Everything
  <1>3. CASE ~UsesMongoDB
    <2>1. page = Everything /\ serves # "paged"
      BY <1>3 DEF Pages, UsesMongoDB
    <2> QED
      BY <1>2, <1>3, <2>1
  <1>4. CASE serves = "paged"
    <2>1. page = Indices(skip + 1, skip + Held(skip)) /\ serves # "shuffled" /\ UsesMongoDB
      BY <1>4 DEF Pages, UsesMongoDB
    <2>2. CASE Held(skip) = 0
      <3>1. page = << >>
        <4>1. 1 .. ((skip + 0) - (skip + 1) + 1) = {}
          OBVIOUS
        <4> QED
          BY <2>1, <2>2, <4>1 DEF Indices
      <3>2. \A i \in DOMAIN rows : ~(skip < i /\ i <= skip + PageLimit)
        <4> SUFFICES ASSUME NEW i \in DOMAIN rows, skip < i, i <= skip + PageLimit PROVE FALSE
          OBVIOUS
        <4>1. i <= skip + 0 /\ i \in Nat
          BY <2>2, HeldIs, RowsTyped
        <4> QED
          BY <4>1
      <3>3. << >> \in Seq(DOMAIN rows) /\ IsInjective(<< >>) /\ ToSet(<< >>) = {}
        BY DEF IsInjective, ToSet
      <3> QED
        BY <1>4, <2>1, <3>1, <3>2, <3>3
    <2>3. CASE Held(skip) # 0
      <3> DEFINE a == skip + 1
                 b == skip + Held(skip)
      <3>1. a \in Nat /\ b \in Nat /\ 1 <= a /\ b <= Len(rows) /\ skip < Len(rows)
        BY <2>3, HeldIs
      <3>2. \A i \in DOMAIN rows : (a <= i <=> skip < i) /\ (skip < i => (i <= b <=> i <= skip + PageLimit))
        <4>1. \A i \in DOMAIN rows : i \in Nat
          BY RowsTyped
        <4>2. \A i \in DOMAIN rows : skip < i => (i <= skip + Held(skip) <=> i <= skip + PageLimit)
          BY HeldIs
        <4> HIDE DEF b
        <4>3. \A i \in DOMAIN rows : (a <= i <=> skip < i)
          BY <4>1
        <4> QED
          BY <4>2, <4>3 DEF b
      <3>3. page = Indices(a, b)
        BY <2>1
      <3> HIDE DEF a, b
      <3>4. \A i : i \in ToSet(page) <=> i \in DOMAIN rows /\ skip < i /\ i <= skip + PageLimit
        BY <1>1, <3>1, <3>2, <3>3
      <3> QED
        BY <1>1, <1>4, <2>1, <3>1, <3>3, <3>4
    <2> QED
      BY <2>2, <2>3
  <1>5. CASE serves = "shuffled"
    <2>1. UsesMongoDB /\ serves # "paged"
      BY <1>5 DEF UsesMongoDB
    <2>2. PICK set \in kSubset(Held(skip), DOMAIN rows) : page = Chosen(Everything, set)
      BY <1>5, <2>1 DEF Pages
    <2>3. /\ page \in Seq(DOMAIN rows) /\ IsInjective(page)
          /\ \A i : i \in ToSet(page) <=> i \in ToSet(Everything) /\ i \in set
      BY <1>2, <2>2, ChosenIs
    <2>4. ASSUME ToSet(page) # {}
          PROVE  skip < Len(rows)
      <3>1. set # {} /\ set \subseteq DOMAIN rows /\ Cardinality(set) = Held(skip)
        BY <2>2, <2>3, <2>4 DEF kSubset
      <3>2. IsFiniteSet(set)
        <4>1. IsFiniteSet(DOMAIN rows)
          BY RowsTyped, FS_Interval
        <4> QED
          BY <3>1, <4>1, FS_Subset
      <3>3. Held(skip) # 0
        BY <3>1, <3>2, FS_EmptySet
      <3> QED
        BY <3>3, HeldIs
    <2> QED
      BY <1>2, <1>5, <2>1, <2>3, <2>4
  <1>6. serves = "paged" \/ serves = "shuffled" \/ ~UsesMongoDB
    BY DEF UsesMongoDB
  <1> QED
    BY <1>3, <1>4, <1>5, <1>6

\* The days of a page, each once: in their order, unless MongoDB has grouped them.
LEMMA OrderIs ==
    ASSUME PagesTyped, NEW skip \in Nat, NEW page \in Pages(skip), NEW order \in PageOrders(page)
    PROVE  /\ order \in Seq(Days) /\ IsInjective(order)
           /\ \A d : d \in ToSet(order) <=> \E i \in ToSet(page) : rows[i].day = d
           /\ order = << >> <=> ToSet(page) = {}
           /\ order # << >> => Last(order) \in ToSet(order)
           /\ (~UsesMongoDB /\ order # << >>) => \A d \in Days : d <= Last(order)
  <1> DEFINE days == {rows[page[i]].day : i \in DOMAIN page}
             f == [i \in DOMAIN page |-> rows[page[i]].day]
             N == Cardinality(days)
  <1>1. /\ page \in Seq(DOMAIN rows) /\ DOMAIN page = 1 .. Len(page) /\ Len(page) \in Nat
        /\ \A i \in DOMAIN page : page[i] \in DOMAIN rows
    BY PageIs, LenProperties, ElementOfSeq
  <1>2. days \subseteq Days /\ days \subseteq Nat
    BY <1>1, RowsTyped
  <1>3. IsFiniteSet(days) /\ N \in Nat
    <2>1. IsFiniteSet(DOMAIN page)
      BY <1>1, FS_Interval
    <2>2. f \in Surjection(DOMAIN page, days)
      BY DEF Surjection
    <2> HIDE DEF days, f
    <2>3. IsFiniteSet(days)
      BY <2>1, <2>2, FS_Surjection
    <2> QED
      BY <2>3, FS_CardinalityType
  <1>4. /\ order \in [1 .. N -> days] /\ IsInjective(order)
        /\ ~UsesMongoDB => \A i, j \in DOMAIN order : i < j => order[i] < order[j]
    BY DEF PageOrders
  <1>5. \A d : d \in days <=> \E i \in ToSet(page) : rows[i].day = d
    BY DEF ToSet
  <1> HIDE DEF days, f
  <1>6. \A d : d \in ToSet(order) <=> d \in days
    <2>1. order \in Injection(1 .. N, days)
      BY <1>4 DEF Injection, IsInjective
    <2>2. Cardinality(1 .. N) = N
      <3> HIDE DEF N
      <3> QED
        BY <1>3, FS_Interval
    <2>3. order \in Surjection(1 .. N, days)
      BY <1>3, <2>1, <2>2, FS_Injection
    <2>4. \A d \in days : \E i \in 1 .. N : order[i] = d
      BY <2>3 DEF Surjection
    <2> HIDE DEF N
    <2> QED
      BY <1>4, <2>4 DEF ToSet
  <1> HIDE DEF N
  <1>7. order \in Seq(Days) /\ Len(order) = N /\ DOMAIN order = 1 .. N
    <2>1. order \in Seq(days) /\ Len(order) = N /\ DOMAIN order = 1 .. N
      BY <1>3, <1>4
    <2> QED
      BY <1>2, <2>1, SeqMonotonic
  <1>8. order # << >> => Last(order) = order[N] /\ N \in 1 .. N
    <2>1. order # << >> => Len(order) \in Nat \ {0}
      BY <1>7, EmptySeq
    <2> QED
      BY <1>3, <1>7, <2>1 DEF Last
  <1>9. order # << >> => Last(order) \in ToSet(order)
    BY <1>7, <1>8 DEF ToSet
  <1>10. order = << >> <=> ToSet(page) = {}
    <2>1. ASSUME order = << >>
          PROVE  ToSet(page) = {}
      <3>1. ToSet(order) = {}
        BY <2>1 DEF ToSet
      <3> QED
        BY <1>5, <1>6, <3>1
    <2>2. ASSUME ToSet(page) = {}
          PROVE  order = << >>
      BY <1>5, <1>6, <1>9, <2>2
    <2> QED
      BY <2>1, <2>2
  <1>11. ASSUME ~UsesMongoDB, order # << >>
         PROVE  \A d \in Days : d <= Last(order)
    <2> SUFFICES ASSUME NEW k \in DOMAIN rows
                 PROVE  rows[k].day <= Last(order)
      BY DEF Days
    <2>1. k \in ToSet(page)
      <3>1. serves # "paged" /\ serves # "shuffled"
        BY <1>11 DEF UsesMongoDB
      <3> QED
        BY <3>1, PageIs
    <2>2. rows[k].day \in ToSet(order)
      BY <1>5, <1>6, <2>1
    <2>3. PICK i \in 1 .. N : order[i] = rows[k].day
      BY <1>7, <2>2 DEF ToSet
    <2>4. i = N \/ i < N
      BY <1>3, <2>3
    <2>5. order[i] \in Nat /\ order[N] \in Nat
      BY <1>2, <1>4, <1>8, <1>11, <2>3
    <2>6. i < N => order[i] < order[N]
      BY <1>4, <1>7, <1>8, <1>11, <2>3
    <2> QED
      BY <1>8, <1>11, <2>3, <2>4, <2>5, <2>6
  <1> QED
    BY <1>4, <1>5, <1>6, <1>7, <1>9, <1>10, <1>11

\* A day's estimates on a page.
LEMMA OfDayIs ==
    ASSUME PagesTyped, NEW skip \in Nat, NEW page \in Pages(skip), NEW day
    PROVE  /\ OfDay(page, day) \in Seq(DOMAIN rows) /\ IsInjective(OfDay(page, day))
           /\ \A i : i \in ToSet(OfDay(page, day)) <=> i \in ToSet(page) /\ rows[i].day = day
  <1> DEFINE set == {i \in DOMAIN rows : rows[i].day = day}
  <1>1. page \in Seq(DOMAIN rows) /\ IsInjective(page) /\ ToSet(page) \subseteq DOMAIN rows
    BY PageIs
  <1>2. OfDay(page, day) = Chosen(page, set)
    BY DEF OfDay
  <1>3. \A i : i \in ToSet(page) /\ i \in set <=> i \in ToSet(page) /\ rows[i].day = day
    BY <1>1
  <1> HIDE DEF set
  <1> QED
    BY <1>1, <1>2, <1>3, ChosenIs

\* The days of a page that a list does not have yet.
LEMMA NewDaysIs ==
    ASSUME PagesTyped, NEW order \in Seq(Days), NEW estimates
    PROVE  /\ NewDays(order, estimates) \in Seq(Days)
           /\ IsInjective(order) => IsInjective(NewDays(order, estimates))
           /\ \A d : d \in ToSet(NewDays(order, estimates))
                      <=> d \in ToSet(order) /\ d \notin KnownDays(estimates)
           /\ (estimates = << >> /\ order # << >> /\ Last(order) \in ToSet(order)) =>
                 NewDays(order, estimates) # << >> /\ Last(NewDays(order, estimates)) = Last(order)
  <1> DEFINE set == Days \ KnownDays(estimates)
  <1>1. NewDays(order, estimates) = Chosen(order, set)
    BY DEF NewDays
  <1>2. ToSet(order) \subseteq Days
    BY LenProperties, ElementOfSeq DEF ToSet
  <1>3. estimates = << >> => KnownDays(estimates) = {}
    BY DEF KnownDays
  <1>4. /\ \A d : d \in ToSet(order) /\ d \in set <=> d \in ToSet(order) /\ d \notin KnownDays(estimates)
        /\ (estimates = << >> /\ Last(order) \in ToSet(order)) => Last(order) \in set
    BY <1>2, <1>3
  <1> HIDE DEF set
  <1> QED
    BY <1>1, <1>4, ChosenIs, ChosenLast

-----------------------------------------------------------------------------
(* Putting a page to a list.                                                 *)

\* The page has days the list did not have: they get objects of the loop.
IsNew(l, order, known, o) == \E d \in ToSet(order) : d \notin KnownDays(known) /\ o = <<l, d>>

LEMMA ObjectsTyped ==
    ASSUME PagesTyped, NEW l \in Loops
    PROVE  \A d \in Days : <<l, d>> \in Objects
  <1>1. Days \subseteq UNION {{r[i].day : i \in DOMAIN r} : r \in Stored}
    BY DEF PagesTyped, Days
  <1> QED
    BY <1>1 DEF Objects

\* concatenateResults: the new objects come behind those of the list.
LEMMA ListIs ==
    ASSUME PagesTyped, NEW l \in Loops, NEW order \in Seq(Days), IsInjective(order),
           NEW known \in Seq(Objects)
    PROVE  /\ ConcatenatedList(l, order, known) \in Seq(Objects)
           /\ \A o : o \in ToSet(ConcatenatedList(l, order, known))
                      <=> o \in ToSet(known) \/ IsNew(l, order, known, o)
           /\ IsInjective(known) => IsInjective(ConcatenatedList(l, order, known))
           /\ (known = << >> /\ order # << >> /\ Last(order) \in ToSet(order)) =>
                 /\ ConcatenatedList(l, order, known) # << >>
                 /\ Last(ConcatenatedList(l, order, known)) = <<l, Last(order)>>
  <1> DEFINE new == NewDays(order, known)
             objects == [i \in DOMAIN new |-> <<l, new[i]>>]
             n == Len(new)
  <1>1. /\ new \in Seq(Days) /\ IsInjective(new) /\ n \in Nat /\ DOMAIN new = 1 .. n
        /\ \A d : d \in ToSet(new) <=> d \in ToSet(order) /\ d \notin KnownDays(known)
        /\ \A i \in 1 .. n : new[i] \in Days
    BY NewDaysIs, LenProperties, ElementOfSeq
  <1>2. (known = << >> /\ order # << >> /\ Last(order) \in ToSet(order)) =>
           new # << >> /\ Last(new) = Last(order)
    BY NewDaysIs
  <1>3. ConcatenatedList(l, order, known) = known \o objects
    BY DEF ConcatenatedList
  <1> HIDE DEF new, n
  <1>4. objects = [i \in 1 .. n |-> <<l, new[i]>>]
    BY <1>1
  <1>5. objects \in Seq(Objects) /\ Len(objects) = n
    <2>1. \A i \in 1 .. n : <<l, new[i]>> \in Objects
      BY <1>1, ObjectsTyped
    <2>2. \A i \in 1 .. n : objects[i] \in Objects
      BY <1>4, <2>1
    <2> HIDE DEF objects
    <2>3. objects = [i \in 1 .. n |-> objects[i]]
      BY <1>4
    <2>4. objects \in [1 .. n -> Objects]
      BY <2>2, <2>3
    <2> QED
      BY <1>1, <2>4
  <1>6. \A o : o \in ToSet(objects) <=> IsNew(l, order, known, o)
    <2> SUFFICES ASSUME NEW o PROVE o \in ToSet(objects) <=> IsNew(l, order, known, o)
      OBVIOUS
    <2>1. o \in ToSet(objects) <=> \E i \in 1 .. n : o = <<l, new[i]>>
      BY <1>4 DEF ToSet
    <2>2. \A d : d \in ToSet(new) <=> \E i \in 1 .. n : d = new[i]
      BY <1>1 DEF ToSet
    <2>3. IsNew(l, order, known, o) <=> \E d \in ToSet(new) : o = <<l, d>>
      BY <1>1 DEF IsNew
    <2> QED
      BY <2>1, <2>2, <2>3, Zenon
  <1>7. IsInjective(objects)
    <2> SUFFICES ASSUME NEW i \in 1 .. n, NEW j \in 1 .. n, objects[i] = objects[j] PROVE i = j
      BY <1>4 DEF IsInjective
    <2>1. new[i] = new[j]
      BY <1>4
    <2> QED
      BY <1>1, <2>1 DEF IsInjective
  <1>8. ToSet(known) \cap ToSet(objects) = {}
    <2> SUFFICES ASSUME NEW o, o \in ToSet(known), o \in ToSet(objects) PROVE FALSE
      OBVIOUS
    <2>1. o[2] \in KnownDays(known)
      BY DEF ToSet, KnownDays
    <2>2. o[2] \notin KnownDays(known)
      BY <1>6 DEF IsNew
    <2> QED
      BY <2>1, <2>2
  <1>9. new # << >> => objects # << >> /\ Last(objects) = <<l, Last(new)>>
    <2>1. ASSUME new # << >>
          PROVE  n \in 1 .. n /\ n # 0
      <3>1. Len(new) \in Nat \ {0}
        BY <1>1, <2>1, EmptySeq
      <3> QED
        BY <3>1 DEF n
    <2>2. ASSUME new # << >>
          PROVE  objects # << >> /\ Last(objects) = <<l, new[n]>>
      BY <1>4, <1>5, <2>1, <2>2, EmptySeq DEF Last
    <2> QED
      BY <2>2 DEF Last, n
  <1> HIDE DEF objects
  <1>10. /\ known \o objects \in Seq(Objects) /\ ToSet(known \o objects) = ToSet(known) \cup ToSet(objects)
         /\ IsInjective(known) => IsInjective(known \o objects)
         /\ objects # << >> => known \o objects # << >> /\ Last(known \o objects) = Last(objects)
    BY <1>5, <1>7, <1>8, TwoLists
  <1> QED
    BY <1>2, <1>3, <1>6, <1>9, <1>10

\* The objects' estimates: those of the page under their day, behind those they had.
PutUnderDays(l, order, page, known, after) ==
    \A o \in Objects :
        /\ IsNew(l, order, known, o) => after[o] = OfDay(page, o[2])
        /\ ~IsNew(l, order, known, o) /\ o \in ToSet(known) /\ o[2] \in ToSet(order)
              => after[o] = services[o] \o OfDay(page, o[2])
        /\ ~IsNew(l, order, known, o) /\ (o \notin ToSet(known) \/ o[2] \notin ToSet(order))
              => after[o] = services[o]

LEMMA ServicesAre ==
    ASSUME PagesTyped, NEW l \in Loops, NEW skip \in Nat,
           NEW page \in Pages(skip), NEW order \in PageOrders(page), NEW known \in Seq(Objects)
    PROVE  /\ ConcatenatedServices(l, order, page, known) \in [Objects -> Seq(DOMAIN rows)]
           /\ PutUnderDays(l, order, page, known, ConcatenatedServices(l, order, page, known))
  <1> DEFINE after == ConcatenatedServices(l, order, page, known)
             new == NewDays(order, known)
             Added(o) == (\E i \in DOMAIN order : order[i] = o[2]) /\ o \in ToSet(known)
             New(o) == \E i \in DOMAIN new : o = <<l, new[i]>>
  <1>1. \A o \in Objects : New(o) <=> IsNew(l, order, known, o)
    <2> TAKE o \in Objects
    <2>1. \A d : d \in ToSet(new) <=> d \in ToSet(order) /\ d \notin KnownDays(known)
      BY OrderIs, NewDaysIs
    <2>2. \A d : d \in ToSet(new) <=> \E i \in DOMAIN new : d = new[i]
      BY DEF ToSet
    <2> HIDE DEF new
    <2> QED
      BY <2>1, <2>2 DEF IsNew
  <1>2. \A o \in Objects : Added(o) <=> o[2] \in ToSet(order) /\ o \in ToSet(known)
    BY DEF ToSet
  <1>3. after = [o \in Objects |-> CASE New(o) -> OfDay(page, o[2])
                                     [] Added(o) -> services[o] \o OfDay(page, o[2])
                                     [] OTHER -> services[o]]
    <2>1. \A o : (\E i \in DOMAIN order : order[i] = o[2]) /\ o \in ToSet(known) <=> Added(o)
      OBVIOUS
    <2> QED
      BY DEF ConcatenatedServices
  <1>4. \A o \in Objects : ~(IsNew(l, order, known, o) /\ Added(o))
    BY DEF IsNew, KnownDays, ToSet
  <1>5. \A o \in Objects :
            /\ New(o) => after[o] = OfDay(page, o[2])
            /\ ~New(o) /\ Added(o) => after[o] = services[o] \o OfDay(page, o[2])
            /\ ~New(o) /\ ~Added(o) => after[o] = services[o]
    <2> HIDE DEF New, Added
    <2>1. \A o \in Objects : ~(New(o) /\ Added(o))
      BY <1>1, <1>4
    <2> QED
      BY <1>3, <2>1
  <1>6. \A o \in Objects : services[o] \in Seq(DOMAIN rows) /\ OfDay(page, o[2]) \in Seq(DOMAIN rows)
    BY OfDayIs DEF PagesTyped
  <1>7. after \in [Objects -> Seq(DOMAIN rows)]
    <2>1. after = [o \in Objects |-> after[o]]
      BY <1>3
    <2> HIDE DEF after, New, Added
    <2>2. \A o \in Objects : after[o] \in Seq(DOMAIN rows)
      <3> TAKE o \in Objects
      <3>1. services[o] \o OfDay(page, o[2]) \in Seq(DOMAIN rows)
        BY <1>6, ConcatProperties
      <3> QED
        BY <1>5, <1>6, <3>1
    <2> QED
      BY <2>1, <2>2
  <1> HIDE DEF New, Added
  <1> QED
    BY <1>1, <1>2, <1>5, <1>7 DEF PutUnderDays

-----------------------------------------------------------------------------
(* What a step does to the pages.                                            *)

\* The loop that starts, if one does, has not been used.
LEMMA RenderMoves ==
    ASSUME PagesTyped, NEW on, NEW auth, NEW connected, NEW first, Render(on, auth, connected, first)
    PROVE  /\ UNCHANGED <<serves, rows, data, services>>
           /\ \/ loop' = loop
              \/ \E l \in Loops : /\ loop[l].at = "unused"
                                  /\ loop' = [loop EXCEPT ![l] = [at |-> "asking", skip |-> 0,
                                                 estimates |-> data, empty |-> data = << >>]]
  <1>1. \/ loop' = loop
        \/ RunsLeft /\ loop' = Started(data)
    BY DEF Render
  <1>2. ASSUME RunsLeft, loop' = Started(data)
        PROVE  \E l \in Loops : /\ loop[l].at = "unused"
                                /\ loop' = [loop EXCEPT ![l] = [at |-> "asking", skip |-> 0,
                                               estimates |-> data, empty |-> data = << >>]]
    <2> DEFINE First(k) == loop[k].at = "unused" /\ \A j \in 1 .. (k - 1) : loop[j].at # "unused"
               free == {k \in Loops : loop[k].at = "unused"}
    <2>1. free \in SUBSET Nat /\ MaxLoops \in free
      BY <1>2, PagesAssumption DEF Loops, RunsLeft
    <2>2. PICK k \in free : \A m \in free : k <= m
      <3> HIDE DEF free
      <3> QED
        BY <2>1, LeastNumber
    <2>3. First(k)
      <3>1. \A j \in 1 .. (k - 1) : j \in Loops /\ ~(k <= j)
        BY <2>2, PagesAssumption DEF Loops
      <3> QED
        BY <2>2, <3>1
    <2>4. \E m \in Loops : First(m)
      BY <2>2, <2>3
    <2> DEFINE l == CHOOSE m \in Loops : First(m)
    <2>5. l \in Loops /\ First(l)
      BY <2>4
    <2>6. loop' = [loop EXCEPT ![l] = [at |-> "asking", skip |-> 0,
                                       estimates |-> data, empty |-> data = << >>]]
      BY <1>2 DEF Started
    <2> HIDE DEF l
    <2> QED
      BY <2>5, <2>6
  <1> QED
    BY <1>1, <1>2 DEF Render

\* The page is drawn anew, a loop gets an answer, or the client starts afresh.
LEMMA PagesMoves ==
    ASSUME SessionsTyped, PagesTyped, [Next]_vars
    PROVE  \/ UNCHANGED pagesVars
           \/ Reload
           \/ \E on, auth, connected, first \in BOOLEAN : Render(on, auth, connected, first)
           \/ \E l \in Loops : PageAnswered(l) \/ PageFails(l)
  <1>1. /\ stored.isAuthenticated \in BOOLEAN /\ stored.isCloudConnected \in BOOLEAN
        /\ dashboard \in BOOLEAN /\ isAuthenticated \in BOOLEAN
        /\ isCloudConnected \in BOOLEAN /\ isFirstVisit \in BOOLEAN
    BY DEF SessionsTyped, PagesTyped, Session, SessionOf
  <1> DEFINE Draws == \E on, auth, connected, first \in BOOLEAN : Render(on, auth, connected, first)
  <1>2. UserStep => Draws \/ Reload
    <2>1. ConnectToCloud => Draws
      BY <1>1, Zenon DEF ConnectToCloud
    <2>2. AskAccount => Draws
      BY <1>1, Zenon DEF AskAccount, AccountAnswered
    <2>3. Visit => Draws
      <3>1. (~dashboard) \in BOOLEAN
        BY <1>1, Zenon
      <3> QED
        BY <1>1, <3>1, Zenon DEF Visit
    <2>4. LogoutFails => Draws
      BY <1>1, Zenon DEF LogoutFails
    <2> HIDE DEF Draws
    <2> QED
      BY <2>1, <2>2, <2>3, <2>4 DEF UserStep, SignIn, ConnectBack, SignOut
  <1> HIDE DEF Draws
  <1>3. CASE \E l \in Loops : AskPage(l) \/ Receive(l)
    BY <1>3 DEF AskPage, Receive
  <1> QED
    BY <1>2, <1>3 DEF Next, vars, pagesVars, Draws
\* An answer, by the page and the order of its days: what the loop does with it.
HadBefore(l) == loop[l].estimates
Ends(l, page, order) == LoopExit(order, page, HadBefore(l))
Keeps(l, page, order) == order = << >> \/ EqualsLast(order, page, HadBefore(l))
ListAfter(l, page, order) ==
    IF Keeps(l, page, order) THEN HadBefore(l) ELSE ConcatenatedList(l, order, HadBefore(l))

Answered(l, page, order) ==
    /\ loop[l].at = "asking"
    /\ services' = IF Keeps(l, page, order) THEN services
                   ELSE ConcatenatedServices(l, order, page, HadBefore(l))
    /\ loop' = [loop EXCEPT ![l] = [at |-> IF Ends(l, page, order) THEN "done" ELSE "asking",
                                    skip |-> loop[l].skip + PageLimit,
                                    estimates |-> ListAfter(l, page, order), empty |-> loop[l].empty]]
    /\ data' = IF Ends(l, page, order) THEN ListAfter(l, page, order) ELSE data
    /\ {isFirstVisit'} \subseteq BOOLEAN
    /\ UNCHANGED <<serves, rows, dashboard, isAuthenticated, isCloudConnected>>

LEMMA AnswerIs ==
    ASSUME PagesTyped, NEW l \in Loops, PageAnswered(l)
    PROVE  \E page \in Pages(loop[l].skip) : \E order \in PageOrders(page) : Answered(l, page, order)
  <1> DEFINE known == loop[l].estimates
             Stays(page, order) == order = << >> \/ EqualsLast(order, page, known)
             list(page, order) == IF Stays(page, order) THEN known ELSE ConcatenatedList(l, order, known)
             Done(page, order) ==
                /\ services' = IF Stays(page, order) THEN services
                               ELSE ConcatenatedServices(l, order, page, known)
                /\ loop' = [loop EXCEPT ![l] =
                               [at |-> IF LoopExit(order, page, known) THEN "done" ELSE "asking",
                                skip |-> NextSkip(loop[l].skip), estimates |-> list(page, order),
                                empty |-> loop[l].empty]]
                /\ IF LoopExit(order, page, known) THEN Show(l, list(page, order))
                   ELSE UNCHANGED <<data, isFirstVisit>>
  <1>0. \E page \in Pages(loop[l].skip) : \E order \in PageOrders(page) : Done(page, order)
    BY DEF PageAnswered
  <1> HIDE DEF Done
  <1>a. PICK page \in Pages(loop[l].skip) : \E order \in PageOrders(page) : Done(page, order)
    BY <1>0
  <1>b. PICK order \in PageOrders(page) : Done(page, order)
    BY <1>a
  <1> USE DEF Done
  <1>1. Done(page, order)
    BY <1>b
  <1>2. /\ loop[l].at = "asking"
        /\ UNCHANGED <<serves, rows, dashboard, isAuthenticated, isCloudConnected>>
    BY DEF PageAnswered
  <1>3. list(page, order) = ListAfter(l, page, order) /\ (Stays(page, order) <=> Keeps(l, page, order))
        /\ (LoopExit(order, page, known) <=> Ends(l, page, order))
    BY DEF ListAfter, Keeps, Ends, HadBefore
  <1>4. loop' = [loop EXCEPT ![l] = [at |-> IF Ends(l, page, order) THEN "done" ELSE "asking",
                                     skip |-> loop[l].skip + PageLimit,
                                     estimates |-> ListAfter(l, page, order), empty |-> loop[l].empty]]
    <2> HIDE DEF list, known, Stays
    <2> QED
      BY <1>1, <1>3 DEF NextSkip
  <1>5. data' = IF Ends(l, page, order) THEN ListAfter(l, page, order) ELSE data
    <2> HIDE DEF list, known, Stays
    <2> QED
      BY <1>1, <1>3 DEF Show
  <1>6. {isFirstVisit'} \subseteq BOOLEAN
    <2>1. \/ isFirstVisit' = isFirstVisit
          \/ isFirstVisit' = (isFirstVisit /\ ~(dashboard /\ isAuthenticated /\ list(page, order) # << >>))
      BY <1>1 DEF Show
    <2>2. isFirstVisit \in BOOLEAN
      BY DEF PagesTyped
    <2> HIDE DEF list
    <2>3. isFirstVisit' \in BOOLEAN
      BY <2>1, <2>2, Zenon
    <2> QED
      BY <2>3
  <1>7. services' = IF Keeps(l, page, order) THEN services
                    ELSE ConcatenatedServices(l, order, page, HadBefore(l))
    BY <1>1, <1>3 DEF HadBefore
  <1>8. Answered(l, page, order)
    <2> HIDE DEF list, known, Stays
    <2> QED
      BY <1>2, <1>4, <1>5, <1>6, <1>7 DEF Answered
  <1> QED
    BY <1>8

\* The list of an answer and the objects' estimates, typed; the other loops stay as they are.
LEMMA AnsweredTyped ==
    ASSUME PagesTyped, NEW l \in Loops, NEW page \in Pages(loop[l].skip), NEW order \in PageOrders(page),
           Answered(l, page, order)
    PROVE  /\ order \in Seq(Days) /\ IsInjective(order) /\ HadBefore(l) \in Seq(Objects)
           /\ loop[l].skip \in Nat /\ loop'[l].skip = loop[l].skip + PageLimit
           /\ loop'[l].at = IF Ends(l, page, order) THEN "done" ELSE "asking"
           /\ loop'[l].estimates = ListAfter(l, page, order) /\ loop'[l].empty = loop[l].empty
           /\ \A k \in Loops : k # l => loop'[k] = loop[k]
           /\ PagesTyped'
  <1>1. loop[l] \in Loop /\ loop \in [Loops -> Loop]
    BY DEF PagesTyped
  <1>2. HadBefore(l) \in Seq(Objects) /\ loop[l].skip \in Nat /\ loop[l].empty \in BOOLEAN
    BY <1>1 DEF Loop, HadBefore
  <1>3. order \in Seq(Days) /\ IsInjective(order)
    BY <1>2, OrderIs
  <1>4. ListAfter(l, page, order) \in Seq(Objects)
    BY <1>2, <1>3, ListIs DEF ListAfter
  <1>5. services' \in [Objects -> Seq(DOMAIN rows)]
    <2>1. ConcatenatedServices(l, order, page, HadBefore(l)) \in [Objects -> Seq(DOMAIN rows)]
      BY <1>2, ServicesAre
    <2> QED
      BY <2>1 DEF Answered, PagesTyped
  <1> DEFINE after == [at |-> IF Ends(l, page, order) THEN "done" ELSE "asking",
                       skip |-> loop[l].skip + PageLimit,
                       estimates |-> ListAfter(l, page, order), empty |-> loop[l].empty]
  <1>6. loop' = [loop EXCEPT ![l] = after] /\ after \in Loop
    BY <1>2, <1>4, PagesAssumption DEF Answered, Loop, LoopStates
  <1>7. /\ after.at = (IF Ends(l, page, order) THEN "done" ELSE "asking")
        /\ after.skip = loop[l].skip + PageLimit
        /\ after.estimates = ListAfter(l, page, order) /\ after.empty = loop[l].empty
    OBVIOUS
  <1> HIDE DEF after
  <1>8. loop'[l] = after /\ \A k \in Loops : k # l => loop'[k] = loop[k]
    BY <1>1, <1>6
  <1>9. PagesTyped'
    <2>1. loop' \in [Loops -> Loop]
      BY <1>1, <1>6
    <2>2. data' \in Seq(Objects)
      BY <1>4 DEF Answered, PagesTyped
    <2> QED
      BY <1>5, <2>1, <2>2 DEF Answered, PagesTyped
  <1> QED
    BY <1>2, <1>3, <1>7, <1>8, <1>9

\* A failing page shows the list as it is.
LEMMA PageFailsIs ==
    ASSUME PagesTyped, NEW l \in Loops, PageFails(l)
    PROVE  /\ loop[l].at = "asking" /\ loop'[l] = [loop[l] EXCEPT !.at = "failed"]
           /\ loop'[l].at = "failed" /\ loop'[l].skip = loop[l].skip
           /\ loop'[l].estimates = loop[l].estimates /\ loop'[l].empty = loop[l].empty
           /\ \A k \in Loops : k # l => loop'[k] = loop[k]
           /\ data' = loop[l].estimates
           /\ UNCHANGED <<serves, rows, services>>
           /\ PagesTyped'
  <1>1. loop[l] \in Loop /\ loop \in [Loops -> Loop]
    BY DEF PagesTyped
  <1>2. loop' = [loop EXCEPT ![l] = [loop[l] EXCEPT !.at = "failed"]]
    BY DEF PageFails
  <1>3. [loop[l] EXCEPT !.at = "failed"] \in Loop
    BY <1>1 DEF Loop, LoopStates
  <1>4. loop'[l] = [loop[l] EXCEPT !.at = "failed"] /\ \A k \in Loops : k # l => loop'[k] = loop[k]
    BY <1>1, <1>2
  <1>5. /\ loop'[l].at = "failed" /\ loop'[l].skip = loop[l].skip
        /\ loop'[l].estimates = loop[l].estimates /\ loop'[l].empty = loop[l].empty
    BY <1>1, <1>4 DEF Loop
  <1>6. isFirstVisit' \in BOOLEAN
    <2>1. isFirstVisit \in BOOLEAN
      BY DEF PagesTyped
    <2> QED
      BY <2>1, Zenon DEF PageFails, Show
  <1>7. PagesTyped'
    <2>1. loop' \in [Loops -> Loop]
      BY <1>1, <1>2, <1>3
    <2>2. data' \in Seq(Objects)
      BY <1>1 DEF PageFails, Show, Loop
    <2> QED
      BY <1>6, <2>1, <2>2 DEF PageFails, PagesTyped
  <1> QED
    BY <1>4, <1>5, <1>7 DEF PageFails, Show

\* A loop that starts has the list that is shown and nothing else.
LEMMA RenderIs ==
    ASSUME PagesTyped, NEW on \in BOOLEAN, NEW auth \in BOOLEAN, NEW connected \in BOOLEAN,
           NEW first \in BOOLEAN, Render(on, auth, connected, first)
    PROVE  /\ UNCHANGED <<serves, rows, data, services>>
           /\ \/ loop' = loop
              \/ \E l \in Loops : /\ loop[l].at = "unused"
                                  /\ loop'[l] = [at |-> "asking", skip |-> 0, estimates |-> data,
                                                 empty |-> data = << >>]
                                  /\ \A k \in Loops : k # l => loop'[k] = loop[k]
           /\ PagesTyped'
  <1>1. loop \in [Loops -> Loop] /\ data \in Seq(Objects)
    BY DEF PagesTyped
  <1> DEFINE start == [at |-> "asking", skip |-> 0, estimates |-> data, empty |-> data = << >>]
  <1>2. start \in Loop
    BY <1>1 DEF Loop, LoopStates
  <1> HIDE DEF start
  <1>3. \/ loop' = loop
        \/ \E l \in Loops : loop[l].at = "unused" /\ loop' = [loop EXCEPT ![l] = start]
    BY RenderMoves DEF start
  <1>4. UNCHANGED <<serves, rows, data, services>>
    BY RenderMoves
  <1>5. loop' \in [Loops -> Loop]
    BY <1>1, <1>2, <1>3
  <1>6. isFirstVisit' \in BOOLEAN
    BY Zenon DEF Render
  <1>7. PagesTyped'
    BY <1>4, <1>5, <1>6 DEF PagesTyped, Render
  <1>8. \/ loop' = loop
        \/ \E l \in Loops : loop[l].at = "unused" /\ loop'[l] = start
                            /\ \A k \in Loops : k # l => loop'[k] = loop[k]
    BY <1>1, <1>3
  <1> QED
    BY <1>4, <1>7, <1>8 DEF start

\* After a reload nothing is shown and no loop runs.
LEMMA ReloadIs ==
    ASSUME PagesTyped, Reload
    PROVE  /\ UNCHANGED <<serves, rows>> /\ data' = << >>
           /\ \A l \in Loops : /\ loop'[l].at \in {"unused", "gone"}
                               /\ loop'[l].at = "unused" => loop'[l] = NoLoop
                               /\ loop'[l].skip = 0 /\ loop'[l].estimates = << >>
           /\ PagesTyped'
  <1>1. NoLoop \in Loop /\ [NoLoop EXCEPT !.at = "gone"] \in Loop
    <2>1. << >> \in Seq(Objects) /\ 0 \in Nat
      OBVIOUS
    <2>2. NoLoop \in Loop
      BY <2>1 DEF NoLoop, Loop, LoopStates
    <2> QED
      BY <2>2 DEF Loop, LoopStates
  <1>2. \A l \in Loops : loop'[l] = NoLoop \/ loop'[l] = [NoLoop EXCEPT !.at = "gone"]
    BY DEF Reload
  <1>3. loop' \in [Loops -> Loop]
    <2>1. loop' = [l \in Loops |-> loop'[l]]
      BY DEF Reload
    <2> QED
      BY <1>1, <1>2, <2>1
  <1>4. \A l \in Loops : /\ loop'[l].at \in {"unused", "gone"}
                         /\ loop'[l].at = "unused" => loop'[l] = NoLoop
                         /\ loop'[l].skip = 0 /\ loop'[l].estimates = << >>
    BY <1>2 DEF NoLoop
  <1>5. services' \in [Objects -> Seq(DOMAIN rows)]
    <2>1. << >> \in Seq(DOMAIN rows)
      OBVIOUS
    <2> QED
      BY <2>1 DEF Reload
  <1>6. data' \in Seq(Objects)
    BY DEF Reload
  <1> QED
    BY <1>3, <1>4, <1>5, <1>6 DEF Reload, PagesTyped

-----------------------------------------------------------------------------
(* The lists hold objects of loops that are over, and of their own.          *)

LEMMA ListElements ==
    ASSUME NEW list \in Seq(Objects)
    PROVE  \A o \in ToSet(list) : o \in Objects /\ o[1] \in Loops /\ o = <<o[1], o[2]>>
  <1>1. \A o \in ToSet(list) : o \in Objects
    BY LenProperties, ElementOfSeq DEF ToSet
  <1> QED
    BY <1>1 DEF Objects

LEMMA LoopTyped ==
    ASSUME PagesTyped
    PROVE  /\ data \in Seq(Objects)
           /\ \A l \in Loops : /\ loop[l].skip \in Nat /\ loop[l].estimates \in Seq(Objects)
                               /\ loop[l].at \in LoopStates
  BY DEF PagesTyped, Loop

\* What a loop has after an answer it had before or is an object of its own.
LEMMA ListAfterIs ==
    ASSUME PagesTyped, NEW l \in Loops, NEW page \in Pages(loop[l].skip), NEW order \in PageOrders(page),
           Answered(l, page, order)
    PROVE  \A o \in ToSet(ListAfter(l, page, order)) : o \in ToSet(loop[l].estimates) \/ o[1] = l
  <1>1. /\ order \in Seq(Days) /\ IsInjective(order) /\ HadBefore(l) \in Seq(Objects)
    BY AnsweredTyped
  <1>2. \A o : o \in ToSet(ConcatenatedList(l, order, HadBefore(l)))
               <=> o \in ToSet(HadBefore(l)) \/ IsNew(l, order, HadBefore(l), o)
    BY <1>1, ListIs
  <1>3. \A o : IsNew(l, order, HadBefore(l), o) => o[1] = l
    BY DEF IsNew
  <1> QED
    BY <1>2, <1>3 DEF ListAfter, HadBefore

LEMMA ListsStep ==
    ASSUME SessionsTyped, PagesTyped, ListsInv, [Next]_vars
    PROVE  ListsInv'
  <1>1. ASSUME UNCHANGED pagesVars
        PROVE  ListsInv'
    BY <1>1 DEF pagesVars, ListsInv, Over
  <1>2. ASSUME Reload
        PROVE  ListsInv'
    <2>1. /\ data' = << >> /\ ToSet(<< >>) = {}
          /\ \A l \in Loops : loop'[l].estimates = << >> /\ (loop'[l].at = "unused" => loop'[l] = NoLoop)
      BY <1>2, ReloadIs DEF ToSet
    <2> QED
      BY <2>1 DEF ListsInv
  <1>3. ASSUME NEW on \in BOOLEAN, NEW auth \in BOOLEAN, NEW connected \in BOOLEAN,
               NEW first \in BOOLEAN, Render(on, auth, connected, first)
        PROVE  ListsInv'
    <2>1. CASE loop' = loop
      <3>1. data' = data
        BY <1>3, RenderIs
      <3> QED
        BY <2>1, <3>1 DEF ListsInv, Over
    <2>2. ASSUME NEW l \in Loops, loop[l].at = "unused",
                 loop'[l] = [at |-> "asking", skip |-> 0, estimates |-> data, empty |-> data = << >>],
                 \A k \in Loops : k # l => loop'[k] = loop[k]
          PROVE  ListsInv'
      <3>1. data' = data
        BY <1>3, RenderIs
      <3>2. loop'[l].at = "asking" /\ loop'[l].estimates = data
        BY <2>2
      <3>3. \A k \in Loops : Over(k) => Over(k)'
        BY <2>2 DEF Over
      <3>4. \A o \in ToSet(data) : o[1] \in Loops
        BY LoopTyped, ListElements
      <3>5. \A k \in Loops : \A o \in ToSet(loop[k].estimates) : o[1] \in Loops
        BY LoopTyped, ListElements
      <3>6. \A o \in ToSet(data') : Over(o[1])'
        BY <3>1, <3>3, <3>4 DEF ListsInv
      <3>7. ASSUME NEW k \in Loops
            PROVE  /\ \A o \in ToSet(loop'[k].estimates) : o[1] = k \/ Over(o[1])'
                   /\ loop'[k].at = "unused" => loop'[k] = NoLoop
        <4>1. CASE k = l
          BY <3>1, <3>2, <3>6, <4>1
        <4>2. CASE k # l
          <5>1. loop'[k] = loop[k]
            BY <2>2, <4>2
          <5> QED
            BY <3>3, <3>5, <5>1 DEF ListsInv
        <4> QED
          BY <4>1, <4>2
      <3> QED
        BY <3>6, <3>7 DEF ListsInv
    <2> QED
      BY <1>3, <2>1, <2>2, RenderIs
  <1>4. ASSUME NEW l \in Loops, PageAnswered(l)
        PROVE  ListsInv'
    <2>1a. PICK page \in Pages(loop[l].skip) : \E order \in PageOrders(page) : Answered(l, page, order)
      BY <1>4, AnswerIs
    <2>1. PICK order \in PageOrders(page) : Answered(l, page, order)
      BY <2>1a
    <2>2. /\ loop[l].at = "asking"
          /\ loop'[l].at = (IF Ends(l, page, order) THEN "done" ELSE "asking")
          /\ loop'[l].estimates = ListAfter(l, page, order)
          /\ \A k \in Loops : k # l => loop'[k] = loop[k]
          /\ data' = IF Ends(l, page, order) THEN ListAfter(l, page, order) ELSE data
      BY <2>1, AnsweredTyped DEF Answered
    <2>3. \A k \in Loops : Over(k) => Over(k)'
      BY <2>2 DEF Over
    <2>4. \A o \in ToSet(data) : o[1] \in Loops
      BY LoopTyped, ListElements
    <2>5. \A k \in Loops : \A o \in ToSet(loop[k].estimates) : o[1] \in Loops
      BY LoopTyped, ListElements
    <2>6. \A o \in ToSet(ListAfter(l, page, order)) : o[1] = l \/ Over(o[1])'
      BY <2>1, <2>3, <2>5, ListAfterIs DEF ListsInv
    <2>7. \A o \in ToSet(data') : Over(o[1])'
      <3>1. CASE Ends(l, page, order)
        <4>1. Over(l)' /\ data' = ListAfter(l, page, order)
          BY <2>2, <3>1 DEF Over
        <4> QED
          BY <2>6, <4>1
      <3>2. CASE ~Ends(l, page, order)
        BY <2>2, <2>3, <2>4, <3>2 DEF ListsInv
      <3> QED
        BY <3>1, <3>2
    <2>8. ASSUME NEW k \in Loops
          PROVE  /\ \A o \in ToSet(loop'[k].estimates) : o[1] = k \/ Over(o[1])'
                 /\ loop'[k].at = "unused" => loop'[k] = NoLoop
      <3>1. CASE k = l
        BY <2>2, <2>6, <3>1
      <3>2. CASE k # l
        <4>1. loop'[k] = loop[k]
          BY <2>2, <3>2
        <4> QED
          BY <2>3, <2>5, <4>1 DEF ListsInv
      <3> QED
        BY <3>1, <3>2
    <2> QED
      BY <2>7, <2>8 DEF ListsInv
  <1>5. ASSUME NEW l \in Loops, PageFails(l)
        PROVE  ListsInv'
    <2>1. /\ loop[l].at = "asking" /\ loop'[l].at = "failed" /\ loop'[l].estimates = loop[l].estimates
          /\ \A k \in Loops : k # l => loop'[k] = loop[k]
          /\ data' = loop[l].estimates
      BY <1>5, PageFailsIs
    <2>2. Over(l)' /\ \A k \in Loops : Over(k) => Over(k)'
      BY <2>1 DEF Over
    <2>3. \A k \in Loops : \A o \in ToSet(loop[k].estimates) : o[1] \in Loops
      BY LoopTyped, ListElements
    <2>4. \A k \in Loops : loop'[k].estimates = loop[k].estimates
      BY <2>1
    <2>5. \A k \in Loops : loop'[k].at = "unused" => loop'[k] = NoLoop
      BY <2>1 DEF ListsInv
    <2> QED
      BY <2>1, <2>2, <2>3, <2>4, <2>5 DEF ListsInv
  <1> QED
    BY <1>1, <1>2, <1>3, <1>4, <1>5, PagesMoves

-----------------------------------------------------------------------------
(* A cache that does not page: a list ends with the last day, in whole.      *)

\* How a list ends after a step that leaves the stored estimates alone.
EndsWholeAfter(list) ==
    list # << >> => /\ services'[Last(list)] = OfDay(Everything, Last(list)[2])
                    /\ Last(list)[2] \in Days /\ \A d \in Days : d <= Last(list)[2]

LEMMA EndsAfter ==
    ASSUME UNCHANGED <<serves, rows>>
    PROVE  /\ EndsWholeAfter(data') => EndsWhole(data)'
           /\ \A l \in Loops : EndsWholeAfter(loop'[l].estimates) => EndsWhole(loop[l].estimates)'
  <1>1. Days' = Days /\ \A d : OfDay(Everything, d)' = OfDay(Everything, d)
    BY DEF Days, OfDay, Everything, Indices
  <1>2. EndsWholeAfter(data') => EndsWhole(data)'
    BY <1>1 DEF EndsWhole, EndsWholeAfter
  <1>3. ASSUME NEW l \in Loops, EndsWholeAfter(loop'[l].estimates)
        PROVE  EndsWhole(loop[l].estimates)'
    BY <1>1, <1>3 DEF EndsWhole, EndsWholeAfter
  <1> QED
    BY <1>2, <1>3

\* A list whose objects' estimates stay ends as it did.
LEMMA EndStays ==
    ASSUME NEW list \in Seq(Objects), EndsWhole(list),
           \A o \in ToSet(list) : services'[o] = services[o]
    PROVE  EndsWholeAfter(list)
  <1>1. ASSUME list # << >>
        PROVE  Last(list) \in ToSet(list)
    <2>1. Len(list) \in Nat \ {0} /\ DOMAIN list = 1 .. Len(list)
      BY <1>1, EmptySeq, LenProperties
    <2>2. Len(list) \in DOMAIN list
      BY <2>1
    <2> QED
      BY <2>2 DEF ToSet, Last
  <1> QED
    BY <1>1 DEF EndsWhole, EndsWholeAfter

\* The estimates of the objects after an answer that is put to the list.
LEMMA ServicesAfter ==
    ASSUME PagesTyped, NEW l \in Loops, NEW page \in Pages(loop[l].skip), NEW order \in PageOrders(page),
           Answered(l, page, order),
           ~Keeps(l, page, order), NEW o \in Objects
    PROVE  /\ IsNew(l, order, HadBefore(l), o) => services'[o] = OfDay(page, o[2])
           /\ ~IsNew(l, order, HadBefore(l), o) /\ o \in ToSet(HadBefore(l)) /\ o[2] \in ToSet(order)
                 => services'[o] = services[o] \o OfDay(page, o[2])
           /\ ~IsNew(l, order, HadBefore(l), o)
              /\ (o \notin ToSet(HadBefore(l)) \/ o[2] \notin ToSet(order)) => services'[o] = services[o]
  <1> DEFINE known == HadBefore(l)
             after == ConcatenatedServices(l, order, page, known)
  <1>1. /\ loop[l].skip \in Nat /\ known \in Seq(Objects)
    BY AnsweredTyped
  <1>2. services' = after
    BY <1>1 DEF Answered
  <1> HIDE DEF known
  <1>3. /\ IsNew(l, order, known, o) => after[o] = OfDay(page, o[2])
        /\ ~IsNew(l, order, known, o) /\ o \in ToSet(known) /\ o[2] \in ToSet(order)
              => after[o] = services[o] \o OfDay(page, o[2])
        /\ ~IsNew(l, order, known, o) /\ (o \notin ToSet(known) \/ o[2] \notin ToSet(order))
              => after[o] = services[o]
    <2>1. PICK skip \in Nat : page \in Pages(skip)
      BY <1>1
    <2>2. PICK had \in Seq(Objects) : had = known
      BY <1>1
    <2>3. PutUnderDays(l, order, page, had, ConcatenatedServices(l, order, page, had))
      BY <2>1, ServicesAre, Zenon
    <2> QED
      BY <2>2, <2>3 DEF PutUnderDays
  <1> HIDE DEF after
  <1> QED
    BY <1>1, <1>2, <1>3 DEF known

\* An answer only touches estimates of the loop's own objects, and of those of its list.
LEMMA OthersKept ==
    ASSUME PagesTyped, NEW l \in Loops, NEW page \in Pages(loop[l].skip), NEW order \in PageOrders(page),
           Answered(l, page, order),
           NEW o \in Objects, o[1] # l, o \notin ToSet(loop[l].estimates)
    PROVE  services'[o] = services[o]
  <1>1. ~IsNew(l, order, HadBefore(l), o)
    BY DEF IsNew
  <1>2. o \notin ToSet(HadBefore(l))
    BY DEF HadBefore
  <1>3. CASE Keeps(l, page, order)
    BY <1>3 DEF Answered
  <1>4. CASE ~Keeps(l, page, order)
    BY <1>1, <1>2, <1>4, ServicesAfter
  <1> QED
    BY <1>3, <1>4
\* A list that ends with the last day is found equal to the page: the loop ends and keeps it.
LEMMA WholeKeeps ==
    ASSUME PagesTyped, serves = "whole", NEW l \in Loops, NEW page \in Pages(loop[l].skip), NEW order \in PageOrders(page),
           EndsWhole(loop[l].estimates), loop[l].estimates # << >>
    PROVE  Keeps(l, page, order) /\ Ends(l, page, order)
  <1>1. loop[l].skip \in Nat /\ ~UsesMongoDB
    BY LoopTyped DEF UsesMongoDB
  <1>2. page = Everything
    BY <1>1, PageIs
  <1>3. CASE order = << >>
    BY <1>3 DEF Keeps, Ends, LoopExit
  <1>4. CASE order # << >>
    <2> DEFINE day == Last(order)
               last == Last(loop[l].estimates)
    <2>1. /\ order \in Seq(Days) /\ day \in ToSet(order) /\ \A d \in Days : d <= day
      BY <1>1, <1>4, OrderIs
    <2>2. day \in Days
      BY <2>1, LenProperties, ElementOfSeq DEF ToSet
    <2>3. /\ services[last] = OfDay(Everything, last[2])
          /\ last[2] \in Days /\ \A d \in Days : d <= last[2]
      BY DEF EndsWhole
    <2>4. Days \subseteq Nat
      BY RowsTyped DEF Days
    <2>5. day = last[2]
      <3>1. day <= last[2] /\ last[2] <= day /\ day \in Nat /\ last[2] \in Nat
        BY <2>1, <2>2, <2>3, <2>4
      <3> HIDE DEF day, last
      <3> QED
        BY <3>1
    <2>6. OfDay(page, day) = services[last]
      BY <1>2, <2>3, <2>5
    <2>7. EqualsLast(order, page, HadBefore(l))
      BY <2>6 DEF EqualsLast, LastShown, HadBefore
    <2> QED
      BY <2>7 DEF Keeps, Ends, LoopExit
  <1> QED
    BY <1>3, <1>4
LEMMA WholeStep ==
    ASSUME SessionsTyped, PagesTyped, ListsInv, WholeInv, [Next]_vars
    PROVE  WholeInv'
  <1> SUFFICES ASSUME serves' = "whole"
               PROVE  EndsWhole(data)' /\ \A l \in Loops : EndsWhole(loop[l].estimates)'
    BY DEF WholeInv
  <1> DEFINE AllEnd == EndsWhole(data)' /\ \A l \in Loops : EndsWhole(loop[l].estimates)'
  <1>1. data \in Seq(Objects) /\ \A l \in Loops : loop[l].estimates \in Seq(Objects)
    BY LoopTyped
  <1>2. ASSUME UNCHANGED <<serves, rows>>,
               EndsWholeAfter(data'), \A l \in Loops : EndsWholeAfter(loop'[l].estimates)
        PROVE  AllEnd
    BY <1>2, EndsAfter
  <1>3. ASSUME UNCHANGED serves
        PROVE  EndsWhole(data) /\ \A l \in Loops : EndsWhole(loop[l].estimates)
    BY <1>3 DEF WholeInv
  <1> HIDE DEF AllEnd
  <1>4. ASSUME UNCHANGED <<serves, rows, services>>,
               data' = data \/ \E l \in Loops : data' = loop[l].estimates,
               \A l \in Loops : loop'[l].estimates = loop[l].estimates \/ loop'[l].estimates = data
        PROVE  AllEnd
    <2>1. EndsWholeAfter(data) /\ \A l \in Loops : EndsWholeAfter(loop[l].estimates)
      BY <1>1, <1>3, <1>4, EndStays
    <2> QED
      BY <1>2, <1>4, <2>1
  <1>5. ASSUME UNCHANGED pagesVars
        PROVE  AllEnd
    BY <1>4, <1>5 DEF pagesVars
  <1>6. ASSUME Reload
        PROVE  AllEnd
    <2>1. data' = << >> /\ UNCHANGED <<serves, rows>> /\ \A l \in Loops : loop'[l].estimates = << >>
      BY <1>6, ReloadIs
    <2>2. EndsWholeAfter(<< >>)
      BY DEF EndsWholeAfter
    <2> QED
      BY <1>2, <2>1, <2>2
  <1>7. ASSUME NEW on \in BOOLEAN, NEW auth \in BOOLEAN, NEW connected \in BOOLEAN,
               NEW first \in BOOLEAN, Render(on, auth, connected, first)
        PROVE  AllEnd
    <2>1. /\ UNCHANGED <<serves, rows, data, services>>
          /\ \/ loop' = loop
             \/ \E l \in Loops : /\ loop'[l] = [at |-> "asking", skip |-> 0, estimates |-> data,
                                                empty |-> data = << >>]
                                 /\ \A k \in Loops : k # l => loop'[k] = loop[k]
      BY <1>7, RenderIs
    <2>2. \A l \in Loops : loop'[l].estimates = loop[l].estimates \/ loop'[l].estimates = data
      BY <2>1
    <2> QED
      BY <1>4, <2>1, <2>2
  <1>8. ASSUME NEW l \in Loops, PageFails(l)
        PROVE  AllEnd
    <2>1. /\ UNCHANGED <<serves, rows, services>> /\ data' = loop[l].estimates
          /\ \A k \in Loops : loop'[k].estimates = loop[k].estimates
      BY <1>8, PageFailsIs
    <2> QED
      BY <1>4, <2>1
  <1>9. ASSUME NEW l \in Loops, PageAnswered(l)
        PROVE  AllEnd
    <2>1a. PICK page \in Pages(loop[l].skip) : \E order \in PageOrders(page) : Answered(l, page, order)
      BY <1>9, AnswerIs
    <2>1. PICK order \in PageOrders(page) : Answered(l, page, order)
      BY <2>1a
    <2>2. /\ loop[l].at = "asking" /\ UNCHANGED <<serves, rows>>
          /\ loop'[l].estimates = ListAfter(l, page, order)
          /\ \A k \in Loops : k # l => loop'[k] = loop[k]
          /\ data' = ListAfter(l, page, order) \/ data' = data
          /\ order \in Seq(Days) /\ IsInjective(order)
      BY <2>1, AnsweredTyped DEF Answered
    <2>3. CASE Keeps(l, page, order)
      <3>1. ListAfter(l, page, order) = loop[l].estimates /\ services' = services
        BY <2>1, <2>3 DEF ListAfter, Answered, HadBefore
      <3>2. \A k \in Loops : loop'[k].estimates = loop[k].estimates
        BY <2>2, <3>1
      <3> QED
        BY <1>4, <2>2, <3>1, <3>2
    <2>4. CASE ~Keeps(l, page, order)
      <3>1. loop[l].estimates = << >>
        BY <1>3, <2>2, <2>4, WholeKeeps
      <3>2. order # << >>
        BY <2>4 DEF Keeps
      <3>3. loop[l].skip \in Nat /\ HadBefore(l) = << >> /\ ~UsesMongoDB
        BY <2>2, <3>1, LoopTyped DEF HadBefore, UsesMongoDB
      <3>4. Last(order) \in ToSet(order) /\ \A d \in Days : d <= Last(order)
        BY <2>2, <3>2, <3>3, OrderIs
      <3>5. ListAfter(l, page, order) # << >> /\ Last(ListAfter(l, page, order)) = <<l, Last(order)>>
        <4>1. << >> \in Seq(Objects)
          OBVIOUS
        <4> QED
          BY <2>2, <2>4, <3>2, <3>3, <3>4, <4>1, ListIs DEF ListAfter
      <3> DEFINE last == <<l, Last(order)>>
      <3>6. last[2] = Last(order) /\ last[2] \in Days
        BY <2>2, <3>4, LenProperties, ElementOfSeq DEF ToSet
      <3>7. services'[last] = OfDay(Everything, last[2])
        <4>1. last \in Objects
          BY <3>6, ObjectsTyped
        <4>2. IsNew(l, order, HadBefore(l), last)
          BY <3>3, <3>4 DEF IsNew, KnownDays
        <4>3. page = Everything
          BY <2>2, <3>3, PageIs
        <4> QED
          BY <2>1, <2>4, <4>1, <4>2, <4>3, ServicesAfter
      <3>8. EndsWholeAfter(ListAfter(l, page, order))
        <4> HIDE DEF last
        <4> QED
          BY <3>4, <3>5, <3>6, <3>7 DEF EndsWholeAfter, last
      <3>9. ASSUME NEW list \in Seq(Objects), EndsWhole(list),
                   \A o \in ToSet(list) : o[1] # l
            PROVE  EndsWholeAfter(list)
        <4>1. \A o \in ToSet(list) : o \in Objects
          BY ListElements
        <4>2. ToSet(loop[l].estimates) = {}
          BY <3>1 DEF ToSet
        <4> QED
          BY <2>1, <3>9, <4>1, <4>2, OthersKept, EndStays
      <3>10. EndsWholeAfter(data)
        <4>1. \A o \in ToSet(data) : o[1] # l
          BY <2>2 DEF ListsInv, Over
        <4> QED
          BY <1>1, <1>3, <2>2, <3>9, <4>1
      <3>11. ASSUME NEW k \in Loops, k # l
             PROVE  EndsWholeAfter(loop[k].estimates)
        <4>1. \A o \in ToSet(loop[k].estimates) : o[1] # l
          BY <2>2, <3>11 DEF ListsInv, Over
        <4> QED
          BY <1>1, <1>3, <2>2, <3>9, <4>1
      <3>12. \A k \in Loops : EndsWholeAfter(loop'[k].estimates)
        BY <2>2, <3>8, <3>11
      <3> QED
        BY <1>2, <2>2, <3>8, <3>10, <3>12
    <2> QED
      BY <2>3, <2>4
  <1> QED
    BY <1>5, <1>6, <1>7, <1>8, <1>9, PagesMoves DEF AllEnd

-----------------------------------------------------------------------------
(* How far the loops get.                                                    *)

LEMMA SkipsStep ==
    ASSUME SessionsTyped, PagesTyped, WholeInv, SkipsInv, [Next]_vars
    PROVE  SkipsInv'
  <1>1. /\ PageLimit \in Nat \ {0} /\ Len(rows) \in Nat /\ DOMAIN rows = 1 .. Len(rows)
        /\ serves \in {"paged", "shuffled", "whole", "fresh"}
    BY RowsTyped
  <1> DEFINE Bound(l) == loop[l].skip <= Len(rows) + 2 * PageLimit
             Far(l) == loop[l].at = "asking" =>
                          CASE UsesMongoDB -> loop[l].skip < Len(rows) + PageLimit
                            [] serves = "whole" -> loop[l].skip = 0
                                                   \/ (loop[l].skip = PageLimit /\ loop[l].estimates # << >>)
                            [] serves = "fresh" -> loop[l].skip = 0
  <1>2. \A l \in Loops : Bound(l) /\ Far(l)
    BY DEF SkipsInv
  <1>3. ASSUME \A l \in Loops : (Bound(l) /\ Far(l))'
        PROVE  SkipsInv'
    BY <1>3 DEF SkipsInv
  <1>4. ASSUME UNCHANGED <<serves, rows>>, NEW l \in Loops, loop'[l] = loop[l]
        PROVE  (Bound(l) /\ Far(l))'
    BY <1>2, <1>4 DEF UsesMongoDB
  <1>5. ASSUME UNCHANGED <<serves, rows>>, NEW l \in Loops, loop'[l].skip = 0
        PROVE  (Bound(l) /\ Far(l))'
    <2>1. Bound(l)'
      BY <1>1, <1>5
    <2>2. 0 < Len(rows) + PageLimit
      BY <1>1
    <2>3. Far(l)'
      BY <1>1, <1>5, <2>2 DEF UsesMongoDB
    <2> QED
      BY <2>1, <2>3
  <1>6. ASSUME UNCHANGED <<serves, rows>>, NEW l \in Loops, loop'[l].skip = loop[l].skip,
               loop'[l].at # "asking"
        PROVE  (Bound(l) /\ Far(l))'
    BY <1>2, <1>6
  <1>7. ASSUME UNCHANGED pagesVars
        PROVE  SkipsInv'
    BY <1>7 DEF pagesVars, SkipsInv, UsesMongoDB
  <1>8. ASSUME NEW l \in Loops, NEW page \in Pages(loop[l].skip), NEW order \in PageOrders(page),
           Answered(l, page, order)
        PROVE  (Bound(l) /\ Far(l))'
    <2>1. /\ loop[l].at = "asking" /\ UNCHANGED <<serves, rows>>
          /\ loop[l].skip \in Nat /\ loop'[l].skip = loop[l].skip + PageLimit
          /\ loop'[l].at = IF Ends(l, page, order) THEN "done" ELSE "asking"
          /\ loop'[l].estimates = ListAfter(l, page, order)
          /\ order \in Seq(Days) /\ IsInjective(order) /\ HadBefore(l) \in Seq(Objects)
      BY <1>8, AnsweredTyped DEF Answered
    <2>2. ~Ends(l, page, order) => order # << >> /\ ~Keeps(l, page, order) /\ serves # "fresh"
      BY DEF Ends, LoopExit, Keeps
    <2>4. CASE UsesMongoDB
      <3>1. loop[l].skip < Len(rows) + PageLimit
        BY <1>2, <2>1, <2>4 DEF UsesMongoDB
      <3>2. ASSUME order # << >>
            PROVE  loop[l].skip < Len(rows)
        <4>1. ToSet(page) # {}
          BY <2>1, <3>2, OrderIs
        <4> QED
          BY <2>1, <2>4, <4>1, PageIs
      <3>3. loop'[l].skip <= Len(rows) + 2 * PageLimit
        BY <1>1, <2>1, <3>1
      <3>4. order # << >> => loop'[l].skip < Len(rows) + PageLimit
        BY <1>1, <2>1, <3>2
      <3> QED
        BY <2>1, <2>2, <2>4, <3>3, <3>4 DEF UsesMongoDB
    <2>5. CASE serves = "whole"
      <3>1. loop[l].skip = 0 \/ (loop[l].skip = PageLimit /\ loop[l].estimates # << >>)
        BY <1>2, <2>1, <2>5 DEF UsesMongoDB
      <3>2. loop'[l].skip <= Len(rows) + 2 * PageLimit
        BY <1>1, <2>1, <3>1
      <3>3. ASSUME ~Ends(l, page, order)
            PROVE  loop'[l].skip = PageLimit /\ loop'[l].estimates # << >>
        <4>1. loop[l].estimates = << >>
          BY <2>5, <3>3, WholeKeeps DEF WholeInv
        <4>2. loop[l].skip = 0
          BY <3>1, <4>1
        <4>3. HadBefore(l) = << >> /\ Last(order) \in ToSet(order)
          BY <2>1, <2>2, <3>3, <4>1, OrderIs DEF HadBefore
        <4>4. ListAfter(l, page, order) # << >>
          BY <2>1, <2>2, <3>3, <4>3, ListIs DEF ListAfter
        <4> QED
          BY <1>1, <2>1, <4>2, <4>4
      <3> QED
        BY <2>1, <2>5, <3>2, <3>3 DEF UsesMongoDB
    <2>6. CASE serves = "fresh"
      <3>1. loop[l].skip = 0
        BY <1>2, <2>1, <2>6 DEF UsesMongoDB
      <3>2. loop'[l].skip <= Len(rows) + 2 * PageLimit
        BY <1>1, <2>1, <3>1
      <3>3. loop'[l].at = "done"
        BY <2>1, <2>2, <2>6
      <3> QED
        BY <2>1, <2>6, <3>2, <3>3 DEF UsesMongoDB
    <2> QED
      BY <1>1, <2>4, <2>5, <2>6 DEF UsesMongoDB
  <1> HIDE DEF Bound, Far
  <1>9. ASSUME Reload
        PROVE  SkipsInv'
    BY <1>3, <1>5, <1>9, ReloadIs
  <1>10. ASSUME NEW on \in BOOLEAN, NEW auth \in BOOLEAN, NEW connected \in BOOLEAN,
                NEW first \in BOOLEAN, Render(on, auth, connected, first)
         PROVE  SkipsInv'
    <2>1. /\ UNCHANGED <<serves, rows>>
          /\ \A l \in Loops : loop'[l] = loop[l] \/ loop'[l].skip = 0
      BY <1>10, RenderIs
    <2> QED
      BY <1>3, <1>4, <1>5, <2>1
  <1>11. ASSUME NEW l \in Loops, PageFails(l)
         PROVE  SkipsInv'
    <2>1. /\ UNCHANGED <<serves, rows>> /\ loop'[l].skip = loop[l].skip /\ loop'[l].at = "failed"
          /\ \A k \in Loops : k # l => loop'[k] = loop[k]
      BY <1>11, PageFailsIs
    <2>2. loop'[l].at # "asking"
      BY <2>1
    <2>3. (Bound(l) /\ Far(l))'
      BY <1>6, <2>1, <2>2
    <2> QED
      BY <1>3, <1>4, <2>1, <2>3
  <1>12. ASSUME NEW l \in Loops, PageAnswered(l)
         PROVE  SkipsInv'
    <2>1a. PICK page \in Pages(loop[l].skip) : \E order \in PageOrders(page) : Answered(l, page, order)
      BY <1>12, AnswerIs
    <2>1. PICK order \in PageOrders(page) : Answered(l, page, order)
      BY <2>1a
    <2>2. UNCHANGED <<serves, rows>> /\ \A k \in Loops : k # l => loop'[k] = loop[k]
      BY <2>1, AnsweredTyped DEF Answered
    <2>3. (Bound(l) /\ Far(l))'
      BY <1>8, <2>1
    <2> QED
      BY <1>3, <1>4, <2>2, <2>3
  <1> QED
    BY <1>7, <1>9, <1>10, <1>11, <1>12, PagesMoves

-----------------------------------------------------------------------------
(* Every estimate once.                                                      *)

\* A page behind what a loop has received is put to its list.
LEMMA PutToList ==
    ASSUME PagesTyped, NEW l \in Loops, NEW page \in Pages(loop[l].skip), NEW order \in PageOrders(page),
           Answered(l, page, order),
           ~Keeps(l, page, order), NEW these, Lists(l, these), ToSet(page) \cap these = {}
    PROVE  ListsOf(ListAfter(l, page, order), services', l, these \cup ToSet(page))
  <1> DEFINE known == HadBefore(l)
             list == ListAfter(l, page, order)
  <1>1. /\ known \in Seq(Objects) /\ loop[l].skip \in Nat /\ order \in Seq(Days) /\ IsInjective(order)
    BY AnsweredTyped
  <1>2. /\ \A d : d \in ToSet(order) <=> \E i \in ToSet(page) : rows[i].day = d
        /\ ToSet(page) \subseteq DOMAIN rows
    BY <1>1, OrderIs, PageIs
  <1>3. /\ IsInjective(known)
        /\ \A i \in these : <<l, rows[i].day>> \in ToSet(known)
        /\ \A o \in ToSet(known) : /\ o[1] = l /\ IsInjective(services[o])
                                   /\ ToSet(services[o]) = {i \in these : rows[i].day = o[2]}
                                   /\ \E i \in these : rows[i].day = o[2]
    BY DEF Lists, ListsOf, HadBefore
  <1>4. /\ list \in Seq(Objects) /\ IsInjective(list)
        /\ \A o : o \in ToSet(list) <=> o \in ToSet(known) \/ IsNew(l, order, known, o)
    <2>1. list = ConcatenatedList(l, order, known)
      BY DEF ListAfter
    <2> HIDE DEF list, known
    <2> QED
      BY <1>1, <1>3, <2>1, ListIs
  <1>5. \A d : OfDay(page, d) \in Seq(DOMAIN rows) /\ IsInjective(OfDay(page, d))
               /\ \A i : i \in ToSet(OfDay(page, d)) <=> i \in ToSet(page) /\ rows[i].day = d
    BY <1>1, OfDayIs
  <1>6. \A o \in ToSet(list) : o \in Objects /\ o = <<o[1], o[2]>>
    BY <1>4, ListElements
  <1>7. \A o \in ToSet(known) : o \in Objects /\ o = <<o[1], o[2]>>
    BY <1>1, ListElements
  <1>8. \A o \in Objects :
           /\ IsNew(l, order, known, o) => services'[o] = OfDay(page, o[2])
           /\ ~IsNew(l, order, known, o) /\ o \in ToSet(known) /\ o[2] \in ToSet(order)
                 => services'[o] = services[o] \o OfDay(page, o[2])
           /\ ~IsNew(l, order, known, o) /\ (o \notin ToSet(known) \/ o[2] \notin ToSet(order))
                 => services'[o] = services[o]
    BY ServicesAfter
  <1>9. \A o \in Objects : services[o] \in Seq(DOMAIN rows)
    BY DEF PagesTyped
  <1>10. \A d : d \in KnownDays(known) <=> \E o \in ToSet(known) : o[2] = d
    <2>1. KnownDays(known) = {known[i][2] : i \in DOMAIN known} /\ ToSet(known) = {known[i] : i \in DOMAIN known}
      BY DEF KnownDays, ToSet
    <2> HIDE DEF known
    <2> QED
      BY <2>1
  <1>11. ToSet(page) \cap these = {}
    OBVIOUS
  <1> HIDE DEF known, list
  <1>12. ASSUME NEW i \in these \cup ToSet(page)
         PROVE  <<l, rows[i].day>> \in ToSet(list)
    <2>1. CASE i \in these
      BY <1>3, <1>4, <2>1
    <2>2. CASE i \in ToSet(page) /\ rows[i].day \in KnownDays(known)
      <3>1. PICK o \in ToSet(known) : o[2] = rows[i].day
        BY <1>10, <2>2
      <3>2. o = <<l, rows[i].day>>
        BY <1>3, <1>7, <3>1
      <3> QED
        BY <1>4, <3>1, <3>2
    <2>3. CASE i \in ToSet(page) /\ rows[i].day \notin KnownDays(known)
      BY <1>2, <1>4, <2>3 DEF IsNew
    <2> QED
      BY <2>1, <2>2, <2>3
  <1>13. ASSUME NEW o \in ToSet(list)
         PROVE  /\ o[1] = l /\ IsInjective(services'[o])
                /\ ToSet(services'[o]) = {i \in these \cup ToSet(page) : rows[i].day = o[2]}
                /\ \E i \in these \cup ToSet(page) : rows[i].day = o[2]
    <2> DEFINE off == OfDay(page, o[2])
    <2>1. o \in Objects
      BY <1>6
    <2>2. off \in Seq(DOMAIN rows) /\ IsInjective(off)
          /\ \A i : i \in ToSet(off) <=> i \in ToSet(page) /\ rows[i].day = o[2]
      BY <1>5
    <2> HIDE DEF off
    <2>3. CASE IsNew(l, order, known, o)
      <3>1. PICK d \in ToSet(order) : d \notin KnownDays(known) /\ o = <<l, d>>
        BY <2>3 DEF IsNew
      <3>2. services'[o] = off
        BY <1>8, <2>1, <2>3 DEF off
      <3>3. \A i \in these : rows[i].day # d
        <4> SUFFICES ASSUME NEW i \in these, rows[i].day = d PROVE FALSE
          OBVIOUS
        <4>1. <<l, d>> \in ToSet(known)
          BY <1>3
        <4> QED
          BY <1>10, <3>1, <4>1
      <3>4. \A i : i \in ToSet(off) <=> i \in these \cup ToSet(page) /\ rows[i].day = o[2]
        BY <2>2, <3>1, <3>3
      <3>5. ToSet(off) = {i \in these \cup ToSet(page) : rows[i].day = o[2]}
        BY <3>4
      <3>6. \E i \in ToSet(page) : rows[i].day = o[2]
        BY <1>2, <3>1
      <3> QED
        BY <2>2, <3>1, <3>2, <3>5, <3>6
    <2>4. CASE ~IsNew(l, order, known, o) /\ o[2] \in ToSet(order)
      <3>1. o \in ToSet(known)
        BY <1>4, <2>4
      <3>2. services'[o] = services[o] \o off
        BY <1>8, <2>1, <2>4, <3>1 DEF off
      <3>3. /\ IsInjective(services[o]) /\ services[o] \in Seq(DOMAIN rows)
            /\ ToSet(services[o]) = {i \in these : rows[i].day = o[2]}
        BY <1>3, <1>9, <2>1, <3>1
      <3>4. ToSet(services[o]) \cap ToSet(off) = {}
        BY <1>11, <2>2, <3>3
      <3>5. /\ ToSet(services[o] \o off) = ToSet(services[o]) \cup ToSet(off)
            /\ IsInjective(services[o] \o off)
        BY <2>2, <3>3, <3>4, TwoLists
      <3>6. \A i : i \in ToSet(services[o]) \cup ToSet(off) <=> i \in these \cup ToSet(page) /\ rows[i].day = o[2]
        BY <2>2, <3>3
      <3>7. ToSet(services[o]) \cup ToSet(off) = {i \in these \cup ToSet(page) : rows[i].day = o[2]}
        BY <3>6
      <3> QED
        BY <1>3, <3>1, <3>2, <3>5, <3>7
    <2>5. CASE ~IsNew(l, order, known, o) /\ o[2] \notin ToSet(order)
      <3>1. o \in ToSet(known) /\ services'[o] = services[o]
        BY <1>4, <1>8, <2>1, <2>5
      <3>2. \A i \in ToSet(page) : rows[i].day # o[2]
        BY <1>2, <2>5
      <3>3. \A i : i \in ToSet(services[o]) <=> i \in these \cup ToSet(page) /\ rows[i].day = o[2]
        BY <1>3, <3>1, <3>2
      <3>4. ToSet(services[o]) = {i \in these \cup ToSet(page) : rows[i].day = o[2]}
        BY <3>3
      <3> QED
        BY <1>3, <3>1, <3>4
    <2> QED
      BY <2>3, <2>4, <2>5
  <1>14. ListsOf(list, services', l, these \cup ToSet(page))
    BY <1>4, <1>12, <1>13 DEF ListsOf
  <1> QED
    BY <1>14 DEF list

\* The last element of a sequence that has one.
LEMMA LastIn ==
    ASSUME NEW S, NEW s \in Seq(S), ToSet(s) # {}
    PROVE  Last(s) \in ToSet(s)
  <1>1. s # << >>
    BY DEF ToSet
  <1>2. Len(s) \in Nat \ {0} /\ DOMAIN s = 1 .. Len(s)
    BY <1>1, EmptySeq, LenProperties
  <1>3. Len(s) \in DOMAIN s
    BY <1>2
  <1> QED
    BY <1>3 DEF ToSet, Last

\* With estimates that differ, a page behind what the list has is not found equal to its end.
LEMMA NotEqual ==
    ASSUME PagesTyped, FromNothing, NEW l \in Loops, NEW page \in Pages(loop[l].skip), NEW order \in PageOrders(page), order # << >>,
           NEW these, these \subseteq DOMAIN rows, Lists(l, these), ToSet(page) \cap these = {}
    PROVE  ~EqualsLast(order, page, HadBefore(l))
  <1> SUFFICES ASSUME EqualsLast(order, page, HadBefore(l)) PROVE FALSE
    OBVIOUS
  <1> DEFINE known == loop[l].estimates
             off == OfDay(page, Last(order))
             had == services[Last(known)]
  <1>1. known # << >> /\ rows[Last(off)].estimate = rows[Last(had)].estimate
    BY DEF EqualsLast, LastShown, HadBefore
  <1>2. known \in Seq(Objects) /\ loop[l].skip \in Nat
    BY LoopTyped
  <1>3. Last(off) \in ToSet(page) /\ Last(off) \in DOMAIN rows
    <2>1. off \in Seq(DOMAIN rows) /\ \A i : i \in ToSet(off) <=> i \in ToSet(page) /\ rows[i].day = Last(order)
      BY <1>2, OfDayIs
    <2>2. Last(order) \in ToSet(order)
      BY <1>2, OrderIs
    <2>3. \E i \in ToSet(page) : rows[i].day = Last(order)
      BY <1>2, <2>2, OrderIs
    <2>4. ToSet(off) # {}
      BY <2>1, <2>3
    <2> HIDE DEF off
    <2>5. Last(off) \in ToSet(off)
      BY <2>1, <2>4, LastIn
    <2> QED
      BY <1>2, <2>1, <2>5, PageIs
  <1>4. Last(had) \in these /\ Last(had) \in DOMAIN rows
    <2>1. Last(known) \in ToSet(known)
      <3>1. ToSet(known) # {}
        <4>1. Len(known) \in Nat \ {0} /\ DOMAIN known = 1 .. Len(known)
          BY <1>1, <1>2, EmptySeq, LenProperties
        <4>2. Len(known) \in DOMAIN known
          BY <4>1
        <4> QED
          BY <4>2 DEF ToSet
      <3> QED
        BY <1>2, <3>1, LastIn
    <2>2. Last(known) \in Objects
      BY <1>2, <2>1, ListElements
    <2>3. had \in Seq(DOMAIN rows)
      BY <2>2 DEF PagesTyped
    <2>4. /\ ToSet(had) = {i \in these : rows[i].day = Last(known)[2]}
          /\ \E i \in these : rows[i].day = Last(known)[2]
      BY <2>1 DEF Lists, ListsOf
    <2> HIDE DEF had, known
    <2>5. Last(had) \in ToSet(had)
      BY <2>3, <2>4, LastIn
    <2> QED
      BY <2>4, <2>5
  <1> HIDE DEF off, had
  <1>5. Last(off) = Last(had)
    BY <1>1, <1>3, <1>4 DEF FromNothing
  <1> QED
    BY <1>3, <1>4, <1>5
\* What the loop that is answered has received, and that it has all of it when it ends.
LEMMA AnswerLoads ==
    ASSUME PagesTyped, WholeInv, SkipsInv, FromNothing,
           NEW l \in Loops, NEW page \in Pages(loop[l].skip), NEW order \in PageOrders(page),
           Answered(l, page, order), Lists(l, Received(l))
    PROVE  /\ loop'[l].at = "asking" => Lists(l, Received(l))'
           /\ loop'[l].at = "done" => Lists(l, DOMAIN rows)'
  <1> DEFINE skip == loop[l].skip
             after == IF serves = "paged" THEN {i \in DOMAIN rows : i <= skip + PageLimit} ELSE DOMAIN rows
  <1>1. /\ PageLimit \in Nat \ {0} /\ Len(rows) \in Nat /\ DOMAIN rows = 1 .. Len(rows)
        /\ serves \in {"paged", "shuffled", "whole", "fresh"}
    BY RowsTyped
  <1>2. /\ loop[l].at = "asking" /\ UNCHANGED <<serves, rows>>
        /\ skip \in Nat /\ loop'[l].skip = skip + PageLimit
        /\ loop'[l].at = IF Ends(l, page, order) THEN "done" ELSE "asking"
        /\ loop'[l].estimates = ListAfter(l, page, order)
        /\ page \in Pages(skip) /\ serves # "shuffled"
    BY AnsweredTyped DEF Answered, FromNothing
  <1>3. /\ \A i : i \in ToSet(page) <=> i \in DOMAIN rows /\ (serves = "paged" => skip < i /\ i <= skip + PageLimit)
        /\ order = << >> <=> ToSet(page) = {}
    BY <1>2, PageIs, OrderIs
  <1>5. Received(l) = IF serves = "paged" THEN {i \in DOMAIN rows : i <= skip}
                      ELSE IF skip = 0 THEN {} ELSE DOMAIN rows
    BY DEF Received
  <1>6. Received(l)' = after
    BY <1>1, <1>2 DEF Received
  <1>7. \A these : (Lists(l, these) /\ UNCHANGED services /\ ListAfter(l, page, order) = loop[l].estimates)
                   => ListsOf(loop'[l].estimates, services', l, these)
    BY <1>2 DEF Lists
  <1>8. \A these : ListsOf(loop'[l].estimates, services', l, these) =>
                      (Received(l)' = these => Lists(l, Received(l))') /\ (these = DOMAIN rows => Lists(l, DOMAIN rows)')
    BY <1>2 DEF Lists, ListsOf
  <1> HIDE DEF skip, after
  <1>9. CASE Keeps(l, page, order)
    <2>1. Ends(l, page, order) /\ UNCHANGED services /\ ListAfter(l, page, order) = loop[l].estimates
      BY <1>9 DEF Keeps, Ends, LoopExit, Answered, ListAfter, HadBefore
    <2>2. Received(l) = DOMAIN rows
      <3>1. CASE serves = "paged"
        <4>1. ToSet(page) \cap Received(l) = {}
          BY <1>1, <1>2, <1>3, <1>5, <3>1
        <4>2. Received(l) \subseteq DOMAIN rows
          BY <1>5
        <4>3. order = << >>
          BY <1>9, <4>1, <4>2, NotEqual DEF Keeps
        <4>4. \A i \in DOMAIN rows : i <= skip
          <5> SUFFICES ASSUME NEW i \in DOMAIN rows, ~(i <= skip) PROVE FALSE
            OBVIOUS
          <5>1. skip + 1 \in DOMAIN rows /\ skip < skip + 1 /\ skip + 1 <= skip + PageLimit
            BY <1>1, <1>2
          <5>2. skip + 1 \in ToSet(page)
            BY <1>3, <5>1
          <5> QED
            BY <1>3, <4>3, <5>2
        <4> QED
          BY <1>5, <3>1, <4>4
      <3>2. CASE serves # "paged" /\ skip = 0
        <4>1. Received(l) = {}
          BY <1>5, <3>2
        <4>2. ToSet(page) \cap Received(l) = {} /\ Received(l) \subseteq DOMAIN rows
          BY <4>1
        <4>3. order = << >>
          BY <1>9, <4>2, NotEqual DEF Keeps
        <4> QED
          BY <1>3, <3>2, <4>1, <4>3
      <3>3. CASE serves # "paged" /\ skip # 0
        BY <1>5, <3>3
      <3> QED
        BY <3>1, <3>2, <3>3
    <2> QED
      BY <1>2, <1>7, <1>8, <2>1, <2>2
  <1>10. CASE ~Keeps(l, page, order)
    <2>1. serves # "paged" => skip = 0
      <3>1. CASE serves = "whole"
        <4>1. loop[l].estimates = << >>
          BY <1>10, <3>1, WholeKeeps DEF WholeInv
        <4>2. skip = 0 \/ loop[l].estimates # << >>
          BY <1>2, <3>1 DEF SkipsInv, skip, UsesMongoDB
        <4> QED
          BY <4>1, <4>2
      <3>2. CASE serves = "fresh"
        BY <1>2, <3>2 DEF SkipsInv, skip, UsesMongoDB
      <3> QED
        BY <1>1, <1>2, <3>1, <3>2
    <2>2. ToSet(page) \cap Received(l) = {}
      BY <1>1, <1>2, <1>3, <1>5, <2>1
    <2>3. Received(l) \cup ToSet(page) = after
      <3>1. CASE serves = "paged"
        <4>1. ASSUME NEW i
              PROVE  i \in Received(l) \cup ToSet(page) <=> i \in after
          BY <1>1, <1>2, <1>3, <1>5, <3>1 DEF after
        <4> QED
          BY <4>1
      <3>2. CASE serves # "paged"
        <4>1. Received(l) = {} /\ \A i : i \in ToSet(page) <=> i \in DOMAIN rows
          BY <1>3, <1>5, <2>1, <3>2
        <4> QED
          BY <3>2, <4>1 DEF after
      <3> QED
        BY <3>1, <3>2
    <2>4. ListsOf(loop'[l].estimates, services', l, after)
      BY <1>2, <1>10, <2>2, <2>3, PutToList
    <2>5. loop'[l].at = "done" => after = DOMAIN rows
      <3>1. Ends(l, page, order) => serves = "fresh"
        BY <1>10 DEF Ends, LoopExit, Keeps
      <3> QED
        BY <1>2, <3>1 DEF after
    <2> QED
      BY <1>6, <1>8, <2>4, <2>5
  <1> QED
    BY <1>9, <1>10

\* The other loops' lists are left as they were.
LEMMA OthersLoaded ==
    ASSUME PagesTyped, NEW l \in Loops, NEW page \in Pages(loop[l].skip), NEW order \in PageOrders(page),
           Answered(l, page, order),
           Lists(l, Received(l)), NEW k \in Loops, k # l, NEW these, Lists(k, these)
    PROVE  ListsOf(loop'[k].estimates, services', k, these)
  <1>1. loop'[k] = loop[k] /\ loop[k].estimates \in Seq(Objects)
    BY AnsweredTyped, LoopTyped
  <1>2. \A o \in ToSet(loop[k].estimates) : o \in Objects /\ o[1] = k
    BY <1>1, ListElements DEF Lists, ListsOf
  <1>3. \A o \in ToSet(loop[l].estimates) : o[1] = l
    BY DEF Lists, ListsOf
  <1>4. \A o \in ToSet(loop[k].estimates) : services'[o] = services[o]
    <2> TAKE o \in ToSet(loop[k].estimates)
    <2>1. o \in Objects /\ o[1] # l /\ o \notin ToSet(loop[l].estimates)
      BY <1>2, <1>3
    <2> QED
      BY <2>1, OthersKept
  <1> QED
    BY <1>1, <1>4 DEF Lists, ListsOf

LEMMA LoadedStep ==
    ASSUME SessionsTyped, PagesTyped, ListsInv, WholeInv, SkipsInv, LoadedInv, [Next]_vars
    PROVE  LoadedInv'
  <1> DEFINE Loads(l) == /\ loop[l].at = "asking" => Lists(l, Received(l))
                         /\ loop[l].at = "done" => Lists(l, DOMAIN rows)
  <1>1. LoadedInv <=> (FromNothing => \A l \in Loops : Loads(l))
    BY DEF LoadedInv
  <1>2. LoadedInv' <=> (FromNothing' => \A l \in Loops : Loads(l)')
    BY DEF LoadedInv
  <1>3. ASSUME NEW l \in Loops, Loads(l), UNCHANGED <<serves, rows, services>>, loop'[l] = loop[l]
        PROVE  Loads(l)'
    BY <1>3 DEF Lists, ListsOf, Received
  <1>4. ASSUME UNCHANGED <<serves, rows>>, \A l \in Loops : loop'[l].empty => loop[l].empty, FromNothing'
        PROVE  FromNothing
    BY <1>4 DEF FromNothing
  <1>5. ASSUME UNCHANGED pagesVars
        PROVE  LoadedInv'
    BY <1>5 DEF pagesVars, LoadedInv, FromNothing, Lists, ListsOf, Received
  <1>6. ASSUME Reload
        PROVE  LoadedInv'
    <2>1. \A l \in Loops : loop'[l].at \in {"unused", "gone"}
      BY <1>6, ReloadIs
    <2> QED
      BY <2>1 DEF LoadedInv
  <1>7. ASSUME NEW on \in BOOLEAN, NEW auth \in BOOLEAN, NEW connected \in BOOLEAN,
               NEW first \in BOOLEAN, Render(on, auth, connected, first)
        PROVE  LoadedInv'
    <2>1. UNCHANGED <<serves, rows, data, services>>
      BY <1>7, RenderIs
    <2>2. CASE loop' = loop
      BY <2>1, <2>2 DEF LoadedInv, FromNothing, Lists, ListsOf, Received
    <2>3. ASSUME NEW l \in Loops, loop[l].at = "unused",
                 loop'[l] = [at |-> "asking", skip |-> 0, estimates |-> data, empty |-> data = << >>],
                 \A k \in Loops : k # l => loop'[k] = loop[k], FromNothing'
          PROVE  \A k \in Loops : Loads(k)'
      <3>1. loop'[l].empty <=> data = << >>
        <4>1. \A e : [at |-> "asking", skip |-> 0, estimates |-> data, empty |-> e].empty = e
          OBVIOUS
        <4>2. loop'[l].empty = (data = << >>)
          BY <2>3, <4>1, Zenon
        <4> QED
          BY <4>2, Zenon
      <3>2. loop[l].empty
        BY <2>3 DEF ListsInv, NoLoop
      <3>3. FromNothing /\ data = << >>
        <4>1. \A k \in Loops : loop'[k].empty => loop[k].empty
          BY <2>3, <3>2
        <4>2. loop'[l].empty
          BY <2>3 DEF FromNothing
        <4> QED
          BY <1>4, <2>1, <2>3, <3>1, <4>1, <4>2
      <3>4. \A k \in Loops : Loads(k)
        BY <1>1, <3>3
      <3>5. Loads(l)'
        <4>1. loop'[l].at = "asking" /\ loop'[l].estimates = << >> /\ loop'[l].skip = 0
          BY <2>3, <3>3
        <4>2. Received(l)' = {}
          <5>1. \A i \in DOMAIN rows : ~(i <= 0)
            BY RowsTyped
          <5>2. rows' = rows
            BY <2>1
          <5> QED
            BY <4>1, <5>1, <5>2 DEF Received
        <4>3. ToSet(<< >>) = {} /\ IsInjective(<< >>)
          BY DEF ToSet, IsInjective
        <4>4. Lists(l, {})'
          BY <4>1, <4>3 DEF Lists, ListsOf
        <4> QED
          BY <4>1, <4>2, <4>4
      <3> HIDE DEF Loads
      <3> QED
        BY <1>3, <2>1, <2>3, <3>4, <3>5
    <2> HIDE DEF Loads
    <2> QED
      BY <1>2, <1>7, <2>2, <2>3, RenderIs
  <1>8. ASSUME NEW l \in Loops, PageFails(l)
        PROVE  LoadedInv'
    <2>1. /\ loop'[l].at = "failed" /\ loop'[l].empty = loop[l].empty
          /\ \A k \in Loops : k # l => loop'[k] = loop[k]
          /\ UNCHANGED <<serves, rows, services>>
      BY <1>8, PageFailsIs
    <2>2. FromNothing' => FromNothing
      BY <1>4, <2>1
    <2>3. Loads(l)'
      BY <2>1
    <2> HIDE DEF Loads
    <2> QED
      BY <1>1, <1>2, <1>3, <2>1, <2>2, <2>3
  <1>9. ASSUME NEW l \in Loops, PageAnswered(l)
        PROVE  LoadedInv'
    <2>1a. PICK page \in Pages(loop[l].skip) : \E order \in PageOrders(page) : Answered(l, page, order)
      BY <1>9, AnswerIs
    <2>1. PICK order \in PageOrders(page) : Answered(l, page, order)
      BY <2>1a
    <2>2. /\ loop[l].at = "asking" /\ UNCHANGED <<serves, rows>> /\ loop'[l].empty = loop[l].empty
          /\ \A k \in Loops : k # l => loop'[k] = loop[k]
      BY <2>1, AnsweredTyped DEF Answered
    <2>3. FromNothing' => FromNothing
      BY <1>4, <2>2
    <2> SUFFICES ASSUME FromNothing, NEW k \in Loops
                 PROVE  Loads(k)'
      BY <1>2, <2>3
    <2>4. Lists(l, Received(l)) /\ Loads(k)
      BY <1>1, <2>2
    <2>5. CASE k = l
      BY <2>1, <2>4, <2>5, AnswerLoads
    <2>6. CASE k # l
      <3>1. loop'[k] = loop[k] /\ Received(k)' = Received(k) /\ DOMAIN rows' = DOMAIN rows
        BY <2>2, <2>6 DEF Received
      <3>2. \A these : Lists(k, these) => ListsOf(loop'[k].estimates, services', k, these)
        BY <2>1, <2>4, <2>6, OthersLoaded
      <3>3. \A these : ListsOf(loop'[k].estimates, services', k, these) =>
                          (Received(k)' = these => Lists(k, Received(k))')
                          /\ (these = DOMAIN rows => Lists(k, DOMAIN rows)')
        BY <2>2 DEF Lists, ListsOf
      <3> QED
        BY <2>4, <3>1, <3>2, <3>3
    <2> QED
      BY <2>5, <2>6
  <1> HIDE DEF Loads
  <1> QED
    BY <1>5, <1>6, <1>7, <1>8, <1>9, PagesMoves

-----------------------------------------------------------------------------
(* The theorems about the pages.                                             *)

ExpiredInv == expired \in 0 .. issued

ClientInv == SessionsInv /\ ExpiredInv /\ PagesInv

LEMMA InitClientInv == Init => ClientInv
  <1> SUFFICES ASSUME Init
               PROVE  ClientInv
    OBVIOUS
  <1>1. SessionsInv
    BY InitSessionsInv
  <1>2. ExpiredInv
    BY DEF Init, SessionsInit, ExpiredInv
  <1>3. /\ serves \in Caches /\ rows \in Stored /\ data = << >>
        /\ dashboard = FALSE /\ isAuthenticated = FALSE /\ isCloudConnected = FALSE /\ isFirstVisit = TRUE
        /\ services = [o \in Objects |-> << >>] /\ loop = [l \in Loops |-> NoLoop]
    BY DEF Init, PagesInit
  <1>4. \A l \in Loops : /\ loop[l] = NoLoop /\ loop[l].at = "unused" /\ loop[l].skip = 0
                         /\ loop[l].estimates = << >>
    BY <1>3 DEF NoLoop
  <1>5. PagesTyped
    <2>1. << >> \in Seq(Objects) /\ << >> \in Seq(DOMAIN rows) /\ 0 \in Nat
      OBVIOUS
    <2>2. NoLoop \in Loop
      BY <2>1 DEF NoLoop, Loop, LoopStates
    <2>3. {dashboard, isAuthenticated, isCloudConnected, isFirstVisit} \subseteq BOOLEAN
      BY <1>3, Zenon
    <2> QED
      BY <1>3, <2>1, <2>2, <2>3 DEF PagesTyped
  <1>6. ListsInv
    BY <1>3, <1>4 DEF ListsInv, ToSet
  <1>7. WholeInv
    BY <1>3, <1>4 DEF WholeInv, EndsWhole
  <1>8. SkipsInv
    <2>1. 0 <= Len(rows) + 2 * PageLimit
      BY <1>5, RowsTyped
    <2> QED
      BY <1>4, <2>1 DEF SkipsInv
  <1>9. LoadedInv
    BY <1>4 DEF LoadedInv
  <1> QED
    BY <1>1, <1>2, <1>5, <1>6, <1>7, <1>8, <1>9 DEF ClientInv, PagesInv

\* A token expires once it has been issued.
LEMMA ExpiredStep ==
    ASSUME SessionsInv, ExpiredInv, [Next]_vars
    PROVE  ExpiredInv'
  <1>1. issued \in Nat
    BY DEF SessionsInv, SessionsTyped
  <1>2. \/ expired' = expired /\ issued' \in {issued, issued + 1}
        \/ expired < issued /\ expired' = expired + 1 /\ issued' = issued
    <2>1. ASSUME NEW h \in Handlers, RequestStep(h)
          PROVE  expired' = expired /\ issued' \in {issued, issued + 1}
      BY <2>1 DEF RequestStep, Work, FailingStep, SignInRedeems, SignInFindsUser, SignInFindsNobody,
                  SignInCreatesUser, ConnectRedeems, ConnectFindsNobody, ConnectFindsUser, ConnectStores,
                  Logout, Refuse, Admit, Estimate, RenewReads, RenewAcquires, RenewStores, RenewFails,
                  DisconnectSession, DisconnectReads, DisconnectStores, ErrorAt, KeyFails
    <2>2. ASSUME UserStep
          PROVE  expired' = expired /\ issued' = issued
      BY <2>2 DEF UserStep, SignIn, ConnectBack, SignOut, ConnectToCloud, AskAccount, Arrive,
                  GoToConsent, sessionVars
    <2>3. ASSUME NEW l \in Loops, AskPage(l) \/ Receive(l)
          PROVE  expired' = expired /\ issued' = issued
      BY <2>3 DEF AskPage, Receive, Arrive
    <2>4. CASE TokenExpires \/ SessionExpires
      BY <2>4 DEF TokenExpires, SessionExpires
    <2>5. CASE UNCHANGED vars
      BY <2>5 DEF vars, sessionVars
    <2> QED
      BY <2>1, <2>2, <2>3, <2>4, <2>5 DEF Next
  <1> QED
    BY <1>1, <1>2 DEF ExpiredInv

LEMMA StepClientInv == ClientInv /\ [Next]_vars => ClientInv'
  <1> SUFFICES ASSUME ClientInv, [Next]_vars
               PROVE  ClientInv'
    OBVIOUS
  <1>1. SessionsInv' /\ ExpiredInv'
    BY StepSessionsInv, ExpiredStep DEF ClientInv
  <1>2. PagesTyped'
    <2>1. SessionsTyped /\ PagesTyped
      BY DEF ClientInv, SessionsInv, PagesInv
    <2>2. CASE UNCHANGED pagesVars
      BY <2>1, <2>2 DEF pagesVars, PagesTyped, Objects
    <2>3. CASE Reload
      BY <2>1, <2>3, ReloadIs
    <2>4. CASE \E on, auth, connected, first \in BOOLEAN : Render(on, auth, connected, first)
      BY <2>1, <2>4, RenderIs
    <2>5. ASSUME NEW l \in Loops, PageAnswered(l)
          PROVE  PagesTyped'
      <3>1a. PICK page \in Pages(loop[l].skip) : \E order \in PageOrders(page) : Answered(l, page, order)
        BY <2>1, <2>5, AnswerIs
      <3>1. PICK order \in PageOrders(page) : Answered(l, page, order)
        BY <3>1a
      <3> QED
        BY <2>1, <3>1, AnsweredTyped
    <2>6. ASSUME NEW l \in Loops, PageFails(l)
          PROVE  PagesTyped'
      BY <2>1, <2>6, PageFailsIs
    <2> QED
      BY <2>1, <2>2, <2>3, <2>4, <2>5, <2>6, PagesMoves
  <1>3. ListsInv' /\ WholeInv' /\ SkipsInv' /\ LoadedInv'
    BY ListsStep, WholeStep, SkipsStep, LoadedStep DEF ClientInv, SessionsInv, PagesInv
  <1> QED
    BY <1>1, <1>2, <1>3 DEF ClientInv, PagesInv

\* Everything the client and the API keep is of its type: the lists hold objects, these hold
\* estimates of the cache, and the sessions name users and tokens there are.
THEOREM TypeCorrect == Spec => []TypeOK
  <1>1. ClientInv => TypeOK
    <2> SUFFICES ASSUME ClientInv
                 PROVE  TypeOK
      OBVIOUS
    <2>1. SessionsTyped /\ PagesTyped /\ ExpiredInv
      BY DEF ClientInv, SessionsInv, PagesInv
    <2>2. {dashboard, isAuthenticated, isCloudConnected, isFirstVisit, consent, overlapped} \subseteq BOOLEAN
      BY <2>1 DEF SessionsTyped, PagesTyped
    <2>3. ToSet(data) \subseteq Objects /\ \A l \in Loops : ToSet(loop[l].estimates) \subseteq Objects
      BY <2>1, LoopTyped, ListElements
    <2>4. \A o \in Objects : ToSet(services[o]) \subseteq DOMAIN rows
      <3> TAKE o \in Objects
      <3>1. services[o] \in Seq(DOMAIN rows)
        BY <2>1 DEF PagesTyped
      <3> QED
        BY <3>1, LenProperties, ElementOfSeq DEF ToSet
    <2>5. \A l \in Loops : loop[l].at \in LoopStates /\ loop[l].skip \in Nat
      BY <2>1, LoopTyped
    <2>6. \A s \in {stored} \cup {handler[h].session : h \in Handlers} :
             s.user \in 0 .. Len(records) /\ s.accessTokenToCloud \in 0 .. issued
      <3>1. \A s \in Session : s.user \in 0 .. Len(records) /\ s.accessTokenToCloud \in 0 .. issued
        BY DEF Session, SessionOf, RecordUsers, Tokens
      <3>2. stored \in Session /\ \A h \in Handlers : handler[h].session \in Session
        BY <2>1 DEF SessionsTyped, Request
      <3> QED
        BY <3>1, <3>2
    <2> QED
      BY <2>1, <2>2, <2>3, <2>4, <2>5, <2>6 DEF TypeOK, PagesTyped, ExpiredInv
  <1> QED
    BY <1>1, InitClientInv, StepClientInv, PTL DEF Spec

\* A page loop that ends without an error has each estimate of the cache exactly once, under its
\* day, however many loops, pages and orders of days there are, as long as every request reads the
\* cache in the same order, no two estimates are equal and no loop started from what was shown
\* (fetchEstimates, concatenateResults; $skip and $limit before $sort in createAggregationStages).
THEOREM LoadedWholeHolds == Spec => []LoadedWhole
  <1>1. ClientInv => LoadedWhole
    <2> SUFFICES ASSUME ClientInv, FromNothing, NEW l \in Loops, loop[l].at = "done"
                 PROVE  /\ IsInjective(Shown(loop[l].estimates))
                        /\ ToSet(Shown(loop[l].estimates)) = DOMAIN rows
                        /\ \A o \in ToSet(loop[l].estimates) : \A i \in ToSet(services[o]) : rows[i].day = o[2]
      BY DEF LoadedWhole, FromNothing
    <2> DEFINE list == loop[l].estimates
               n == Len(list)
               f == [i \in DOMAIN list |-> services[list[i]]]
    <2>1. PagesTyped /\ Lists(l, DOMAIN rows)
      BY DEF ClientInv, PagesInv, LoadedInv
    <2>2. list \in Seq(Objects) /\ n \in Nat /\ DOMAIN list = 1 .. n
      BY <2>1, LoopTyped, LenProperties
    <2>3. \A o \in ToSet(list) : o \in Objects /\ o = <<o[1], o[2]>>
      BY <2>2, ListElements
    <2>4. /\ IsInjective(list)
          /\ \A i \in DOMAIN rows : <<l, rows[i].day>> \in ToSet(list)
          /\ \A o \in ToSet(list) : /\ o[1] = l /\ IsInjective(services[o])
                                    /\ ToSet(services[o]) = {i \in DOMAIN rows : rows[i].day = o[2]}
      BY <2>1 DEF Lists, ListsOf
    <2>5. \A o \in Objects : services[o] \in Seq(DOMAIN rows)
      BY <2>1 DEF PagesTyped
    <2>6. ToSet(list) = {list[i] : i \in 1 .. n}
      BY <2>2 DEF ToSet
    <2>7. f = [i \in 1 .. n |-> f[i]] /\ \A i \in 1 .. n : f[i] = services[list[i]] /\ list[i] \in ToSet(list)
      BY <2>2, <2>6
    <2>8. Shown(list) = FlattenSeq([i \in 1 .. n |-> f[i]])
      BY <2>7 DEF Shown
    <2> HIDE DEF list, n, f
    <2>9. \A i \in 1 .. n : f[i] \in Seq(DOMAIN rows) /\ IsInjective(f[i])
      BY <2>3, <2>4, <2>5, <2>7
    <2>10. ASSUME NEW i \in 1 .. n, NEW j \in 1 .. n, i # j
           PROVE  ToSet(f[i]) \cap ToSet(f[j]) = {}
      <3>1. list[i] # list[j]
        BY <2>2, <2>4, <2>10 DEF IsInjective
      <3>2. list[i][2] # list[j][2]
        BY <2>3, <2>4, <2>7, <3>1
      <3> QED
        BY <2>4, <2>7, <3>2
    <2>11. /\ IsInjective(Shown(list))
           /\ \A x : x \in ToSet(Shown(list)) <=> \E i \in 1 .. n : x \in ToSet(f[i])
      BY <2>2, <2>8, <2>9, <2>10, Flattened
    <2>12. ASSUME NEW x
           PROVE  x \in ToSet(Shown(list)) <=> x \in DOMAIN rows
      <3>1. ASSUME x \in DOMAIN rows
            PROVE  \E i \in 1 .. n : x \in ToSet(f[i])
        <4>1. PICK i \in 1 .. n : list[i] = <<l, rows[x].day>>
          BY <2>4, <2>6, <3>1
        <4>2. x \in ToSet(services[list[i]])
          BY <2>4, <2>7, <3>1, <4>1
        <4> QED
          BY <2>7, <4>2
      <3>2. ASSUME NEW i \in 1 .. n, x \in ToSet(f[i])
            PROVE  x \in DOMAIN rows
        BY <2>4, <2>7, <3>2
      <3> QED
        BY <2>11, <3>1, <3>2
    <2>13. \A o \in ToSet(list) : \A i \in ToSet(services[o]) : rows[i].day = o[2]
      BY <2>4
    <2>14. ToSet(Shown(list)) = DOMAIN rows
      BY <2>12
    <2> QED
      BY <2>11, <2>13, <2>14 DEF list
  <1> QED
    BY <1>1, InitClientInv, StepClientInv, PTL DEF Spec

\* A page loop ends: it asks for the stored pages and for two more at most, whatever the cache,
\* whatever documents MongoDB puts on a page, and whatever the list it started from
\* (fetchEstimates, checkForEqualObjects).
THEOREM FewRequestsHolds == Spec => []FewRequests
  <1>1. ClientInv => FewRequests
    BY DEF ClientInv, PagesInv, SkipsInv, FewRequests
  <1> QED
    BY <1>1, InitClientInv, StepClientInv, PTL DEF Spec
================================================================================
