-------------------------- MODULE DashboardProofs --------------------------
(***************************************************************************)
(* Proofs about Dashboard and the token check in front of it, for every    *)
(* number of users, keys, fetches, signing keys and troubles.              *)
(***************************************************************************)
EXTENDS Dashboard, TLAPS

(***************************************************************************)
(* The token check.  Whatever the site does, the token check makes one of  *)
(* its own moves or none.                                                  *)
(***************************************************************************)
AuthMove ==
  \/ \E c \in Calls :
       (\E u \in Users : Present(c, u)) \/ Expire(c) \/ AuthStep(c) \/ Answered(c)
  \/ \E s \in SigningKeys : Rotate(s)
  \/ AuthRestart

AuthInv ==
  /\ AuthTypeOK
  /\ goneAtStart \subseteq Withdrawn
  /\ OutageNotRefusal
  /\ TrustEndsAtRestart

\* The verifier starts with an empty cache and nobody waiting.
LEMMA AuthInitSound == AuthInit => AuthInv
<1> SUFFICES ASSUME AuthInit PROVE AuthInv
  OBVIOUS
<1> QED BY DEF AuthInit, AuthInv, AuthTypeOK, OutageNotRefusal, TrustEndsAtRestart, At

\* A token that moves on is still a token.
LEMMA TokenMoves ==
  ASSUME AuthTypeOK, NEW c \in Calls, bearer[c] # Idle
  PROVE  /\ bearer[c] \in Token
         /\ \A pc \in {"presented", "fetched"} \cup Verdicts :
              [bearer EXCEPT ![c].pc = pc] \in [Calls -> Token \cup {Idle}]
         /\ [bearer EXCEPT ![c].expired = TRUE] \in [Calls -> Token \cup {Idle}]
<1>1. bearer[c] \in Token
  BY DEF AuthTypeOK
<1>2. \A pc \in {"presented", "fetched"} \cup Verdicts : [bearer[c] EXCEPT !.pc = pc] \in Token
  BY <1>1 DEF Token
<1>3. [bearer[c] EXCEPT !.expired = TRUE] \in Token
  BY <1>1 DEF Token
<1> QED BY <1>1, <1>2, <1>3 DEF AuthTypeOK

\* A token that checks out under a key that may be trusted is let through.
LEMMA VerifiedSound ==
  ASSUME AuthInv, NEW c \in Calls, bearer[c] # Idle, Verified(c),
         bearer[c].kid \notin goneAtStart, UNCHANGED <<signing, goneAtStart>>
  PROVE  /\ bearer' \in [Calls -> Token \cup {Idle}]
         /\ goneAtStart' \subseteq Withdrawn'
         /\ OutageNotRefusal'
         /\ \A d \in Calls : (At(d, "fetched") \/ At(d, "verified"))' => bearer'[d].kid \notin goneAtStart'
<1> DEFINE verdict == IF bearer[c].expired THEN "unauthorized" ELSE "verified"
<1>1. bearer' = [bearer EXCEPT ![c].pc = verdict] /\ verdict \in Verdicts
  BY DEF Verified, Verdicts
<1>2. bearer' \in [Calls -> Token \cup {Idle}] /\ bearer[c] \in Token
  BY <1>1, TokenMoves DEF AuthInv
<1>3. bearer'[c] = [bearer[c] EXCEPT !.pc = verdict]
  BY <1>1 DEF AuthInv, AuthTypeOK
<1>4. bearer'[c].expired = bearer[c].expired /\ bearer'[c].kid = bearer[c].kid /\ bearer'[c].pc = verdict
  BY <1>2, <1>3 DEF Token
<1>5. \A d \in Calls : d # c => bearer'[d] = bearer[d]
  BY <1>1 DEF AuthInv, AuthTypeOK
<1>6. OutageNotRefusal'
  BY <1>4, <1>5 DEF AuthInv, OutageNotRefusal, At
<1>7. \A d \in Calls : (At(d, "fetched") \/ At(d, "verified"))' => bearer'[d].kid \notin goneAtStart'
  BY <1>4, <1>5 DEF AuthInv, TrustEndsAtRestart, At
<1> QED BY <1>2, <1>6, <1>7 DEF AuthInv, Withdrawn

\* The verifier's own steps keep what it holds trustworthy.
LEMMA AuthMoveSound == AuthInv /\ (AuthMove \/ UNCHANGED authVars) => AuthInv'
<1> SUFFICES ASSUME AuthInv, AuthMove \/ UNCHANGED authVars PROVE AuthInv'
  OBVIOUS
<1> USE ClerkAssumption
<1>1. ASSUME NEW c \in Calls, NEW u \in Users, Present(c, u) PROVE AuthInv'
  <2> PICK s \in Published :
        bearer' = [bearer EXCEPT ![c] = [user |-> u, kid |-> s, expired |-> FALSE, pc |-> "presented"]]
    BY <1>1 DEF Present
  <2>1. [user |-> u, kid |-> s, expired |-> FALSE, pc |-> "presented"] \in Token
    BY DEF Token, Published
  <2> QED BY <1>1, <2>1 DEF Present, AuthInv, AuthTypeOK, Withdrawn, OutageNotRefusal, TrustEndsAtRestart, At
<1>2. ASSUME NEW c \in Calls, Expire(c) PROVE AuthInv'
  <2>1. bearer[c] \in Token /\ bearer' \in [Calls -> Token \cup {Idle}]
    BY <1>2, TokenMoves DEF Expire, AuthInv
  <2>2. bearer'[c].pc = bearer[c].pc /\ bearer'[c].kid = bearer[c].kid /\ bearer'[c].expired
    BY <1>2, <2>1 DEF Expire, AuthInv, AuthTypeOK, Token
  <2>3. \A d \in Calls : d # c => bearer'[d] = bearer[d]
    BY <1>2 DEF Expire, AuthInv, AuthTypeOK
  <2> QED BY <1>2, <2>1, <2>2, <2>3
          DEF Expire, AuthInv, AuthTypeOK, Withdrawn, OutageNotRefusal, TrustEndsAtRestart, At
<1>3. ASSUME NEW c \in Calls, KeyCached(c) PROVE AuthInv'
  <2>1. bearer[c].kid \notin goneAtStart /\ bearer[c] # Idle
    BY <1>3 DEF KeyCached, At, AuthInv, TrustEndsAtRestart
  <2> QED BY <1>3, <2>1, VerifiedSound DEF KeyCached, AuthInv, AuthTypeOK, TrustEndsAtRestart, At
<1>4. ASSUME NEW c \in Calls, FetchKey(c) PROVE AuthInv'
  <2>1. bearer[c] \in Token /\ bearer' \in [Calls -> Token \cup {Idle}]
    BY <1>4, TokenMoves DEF FetchKey, At, AuthInv
  <2>2. bearer'[c].pc = "fetched" /\ bearer'[c].kid = bearer[c].kid
    BY <1>4, <2>1 DEF FetchKey, AuthInv, AuthTypeOK, Token
  <2>3. \A d \in Calls : d # c => bearer'[d] = bearer[d]
    BY <1>4 DEF FetchKey, AuthInv, AuthTypeOK
  <2>4. bearer[c].kid \notin goneAtStart
    BY <1>4 DEF FetchKey, AuthInv, Published, Withdrawn
  <2> QED BY <1>4, <2>1, <2>2, <2>3, <2>4
          DEF FetchKey, AuthInv, AuthTypeOK, Withdrawn, OutageNotRefusal, TrustEndsAtRestart, At
<1>5. ASSUME NEW c \in Calls, FetchFails(c) PROVE AuthInv'
  <2>1. bearer[c] \in Token /\ bearer' \in [Calls -> Token \cup {Idle}]
    BY <1>5, TokenMoves DEF FetchFails, At, AuthInv, Verdicts
  <2>2. bearer'[c].pc = "unavailable"
    BY <1>5, <2>1 DEF FetchFails, AuthInv, AuthTypeOK, Token
  <2>3. \A d \in Calls : d # c => bearer'[d] = bearer[d]
    BY <1>5 DEF FetchFails, AuthInv, AuthTypeOK
  <2> QED BY <1>5, <2>1, <2>2, <2>3
          DEF FetchFails, AuthInv, AuthTypeOK, Withdrawn, OutageNotRefusal, TrustEndsAtRestart, At
<1>6. ASSUME NEW c \in Calls, StoreKey(c) PROVE AuthInv'
  <2>1. bearer[c].kid \notin goneAtStart /\ bearer[c] # Idle /\ bearer[c].kid \in SigningKeys
    BY <1>6 DEF StoreKey, At, AuthInv, TrustEndsAtRestart, AuthTypeOK, Token
  <2> QED BY <1>6, <2>1, VerifiedSound DEF StoreKey, AuthInv, AuthTypeOK, TrustEndsAtRestart, At
<1>7. ASSUME NEW c \in Calls, Answered(c) PROVE AuthInv'
  BY <1>7 DEF Answered, AuthInv, AuthTypeOK, Withdrawn, OutageNotRefusal, TrustEndsAtRestart, At
<1>8. ASSUME NEW s \in SigningKeys, Rotate(s) PROVE AuthInv'
  BY <1>8 DEF Rotate, AuthInv, AuthTypeOK, Withdrawn, OutageNotRefusal, TrustEndsAtRestart, At
<1>9. CASE AuthRestart
  BY <1>9 DEF AuthRestart, Inside, AuthInv, AuthTypeOK, Withdrawn, OutageNotRefusal, TrustEndsAtRestart, At
<1>10. CASE UNCHANGED authVars
  BY <1>10 DEF authVars, AuthInv, AuthTypeOK, Withdrawn, OutageNotRefusal, TrustEndsAtRestart, At
<1> QED BY <1>1, <1>2, <1>3, <1>4, <1>5, <1>6, <1>7, <1>8, <1>9, <1>10 DEF AuthMove, AuthStep

(***************************************************************************)
(* Types.                                                                  *)
(***************************************************************************)
LEMMA SiteInitType == Init => TypeOK
<1> USE DashboardAssumption
<1> SUFFICES ASSUME Init PROVE TypeOK
  OBVIOUS
<1>1. AuthTypeOK
  BY AuthInitSound DEF Init, AuthInv
<1> QED BY <1>1 DEF Init, TypeOK

\* The ways a fetch changes, all of them to a fetch.
LEMMA CallTypes ==
  ASSUME TypeOK, NEW c \in Calls
  PROVE  /\ \A op \in {"list", "create", "delete"}, k \in KeyIds \cup {None} :
              Fetch(c, op, k) => call' \in [Calls -> Call \cup {Idle}]
         /\ call[c] # Idle =>
              /\ call[c] \in Call
              /\ \A pc \in {"sent", "forwarded", "inserting", "ok", "error"} :
                   Step(c, pc) => call' \in [Calls -> Call \cup {Idle}]
<1>1. \A op \in {"list", "create", "delete"}, k \in KeyIds \cup {None} :
        [op |-> op, key |-> k, live |-> TRUE, user |-> None, keys |-> {}, pc |-> "sent"] \in Call
  BY DEF Call
<1>2. call[c] # Idle => call[c] \in Call
  BY DEF TypeOK
<1>3. call[c] # Idle =>
        \A pc \in {"sent", "forwarded", "inserting", "ok", "error"} : [call[c] EXCEPT !.pc = pc] \in Call
  BY <1>2 DEF Call
<1> QED BY <1>1, <1>2, <1>3 DEF Fetch, Step, TypeOK

\* A mint makes one key of its creator's, and the page is told of no other change.
LEMMA MintType ==
  ASSUME TypeOK, NEW c \in Creators, NEW k \in KeyIds, Mint(c, k)
  PROVE  /\ owner' \in [KeyIds -> Users \cup {Nobody, Unminted, Revoked}]
         /\ minting' \in [Creators -> Users \cup {Idle}]
         /\ untold' \subseteq Changes
         /\ minting[c] \in Users
<1>1. minting[c] \in Users
  BY DEF TypeOK, Mint
<1> QED BY <1>1 DEF TypeOK, Mint, Changes

\* Type correctness, for the steps of the page,
LEMMA BrowseType == TypeOK /\ Browse => TypeOK'
<1> SUFFICES ASSUME TypeOK, Browse PROVE TypeOK'
  OBVIOUS
<1> USE DashboardAssumption
<1>1. ASSUME ServerIdle PROVE AuthTypeOK' /\ owner' = owner /\ minting' = minting
  BY <1>1 DEF ServerIdle, authVars, AuthTypeOK, TypeOK
<1>2. ASSUME NEW c \in Calls, Visit(c) PROVE TypeOK'
  BY <1>1, <1>2, CallTypes DEF Visit, TypeOK
<1>3. ASSUME NEW c \in Calls, HandleCreate(c) PROVE TypeOK'
  BY <1>1, <1>3, CallTypes DEF HandleCreate, OnPage, InFront, Shown, Page, TypeOK
<1>4. ASSUME NEW c \in Calls, HandleDelete(c) PROVE TypeOK'
  <2>1. page \in Page /\ page.pending \in KeyIds
    BY <1>4 DEF HandleDelete, InFront, Shown, Page, TypeOK
  <2> QED BY <1>1, <1>4, <2>1, CallTypes DEF HandleDelete, OnPage, Page, TypeOK
<1>5. CASE Leave
  <2>1. \A c \in Calls : call[c] # Idle => [call[c] EXCEPT !.live = FALSE] \in Call
    BY DEF TypeOK, Call
  <2> QED BY <1>1, <1>5, <2>1 DEF Leave, Trouble, TypeOK
<1>6. CASE OpenCreate \/ DismissCreate \/ DismissReveal \/ DismissDelete
  <2>1. page \in Page
    BY <1>6 DEF OpenCreate, DismissCreate, DismissReveal, DismissDelete, NoDialog, InFront, Shown, TypeOK
  <2>2. /\ [page EXCEPT !.createOpen = TRUE] \in Page
        /\ [page EXCEPT !.createOpen = FALSE] \in Page
        /\ [page EXCEPT !.revealed = None] \in Page
        /\ [page EXCEPT !.pending = None] \in Page
    BY <2>1 DEF Page
  <2>3. page' \in Page /\ OnPage /\ UNCHANGED <<call, shown>>
    BY <1>6, <2>2 DEF OpenCreate, DismissCreate, DismissReveal, DismissDelete
  <2> QED BY <1>1, <2>3 DEF OnPage, TypeOK
<1>7. ASSUME NEW k \in KeyIds, AskDelete(k) PROVE TypeOK'
  BY <1>1, <1>7 DEF AskDelete, OnPage, NoDialog, Shown, Page, TypeOK
<1> QED BY <1>2, <1>3, <1>4, <1>5, <1>6, <1>7 DEF Browse

\* What holds of every fetch.  The page waits for its own list while it shows
\* none, and for the changes it asked for while it is shown; an INSERT belongs
\* to the fetch that started it until that fetch is an error.
CallSound(c) ==
  /\ bearer[c] # Idle => Waiting(c, "forwarded")
  /\ call[c] # Idle =>
    /\ call[c].live => (call[c].op = "list" <=> ~Shown)
    /\ call[c].pc \in {"sent", "forwarded", "ok"} => minting[c] = Idle
    /\ call[c].pc = "inserting" => minting[c] # Idle /\ call[c].op = "create"
    /\ call[c].op = "delete" => call[c].key \in KeyIds
    /\ call[c].op = "create" /\ call[c].pc = "ok" => call[c].key \in KeyIds
    /\ call[c].op = "list" /\ call[c].pc = "ok" => call[c].user \in Users

CallsSound == \A c \in Calls : CallSound(c)

\* the answers it takes,
LEMMA AnswerType ==
  ASSUME TypeOK, CallsSound, NEW c \in Calls, Answer(c)
  PROVE  TypeOK'
<1> USE DashboardAssumption
<1>1. ASSUME Received(c)
      PROVE  AuthTypeOK' /\ owner' = owner /\ minting' = minting /\ session' = session
             /\ troubles' = troubles /\ call' \in [Calls -> Call \cup {Idle}]
  BY <1>1 DEF Received, ServerIdle, authVars, AuthTypeOK, TypeOK
<1>2. call[c] # Idle => call[c] \in Call
  BY DEF TypeOK
<1>3. CASE PageFails(c) \/ Unheard(c)
  BY <1>1, <1>3 DEF PageFails, Unheard, TypeOK
<1>4. CASE PageLoads(c)
  <2>1. call[c] \in Call /\ call[c].user \in Users
    BY <1>2, <1>4 DEF PageLoads, Arrived, CallsSound, CallSound
  <2>2. page' \in Page
    BY <1>4, <2>1 DEF PageLoads, Page, Call
  <2> QED BY <1>1, <1>4, <2>2 DEF PageLoads, TypeOK
<1>5. CASE Created(c)
  <2>1. call[c] \in Call /\ call[c].key \in KeyIds /\ page \in Page
    BY <1>2, <1>5 DEF Created, Arrived, CallsSound, CallSound, Shown, TypeOK
  <2>2. page' \in Page
    BY <1>5, <2>1 DEF Created, Page
  <2> QED BY <1>1, <1>5, <2>1, <2>2 DEF Created, Told, TypeOK
<1>6. CASE Deleted(c)
  <2>1. page \in Page
    BY <1>6 DEF Deleted, Arrived, CallsSound, CallSound, Shown, TypeOK
  <2>2. page' \in Page
    BY <1>6, <2>1 DEF Deleted, Page
  <2> QED BY <1>1, <1>6, <2>1, <2>2 DEF Deleted, Told, TypeOK
<1>7. CASE CreateFails(c) \/ DeleteFails(c)
  <2>1. page \in Page
    BY <1>7 DEF CreateFails, DeleteFails, Arrived, CallsSound, CallSound, Shown, TypeOK
  <2>2. page' \in Page
    BY <1>7, <2>1 DEF CreateFails, DeleteFails, Page
  <2> QED BY <1>1, <1>7, <2>1, <2>2 DEF CreateFails, DeleteFails, TypeOK
<1> QED BY <1>3, <1>4, <1>5, <1>6, <1>7 DEF Answer

\* The moves of the token check: the bearer of a fetch is a token whenever it
\* is looked at.
LEMMA AuthMoves ==
  ASSUME TypeOK, [Next]_vars
  PROVE  AuthMove \/ UNCHANGED authVars
<1> USE DashboardAssumption
<1>1. CASE Browse
  BY <1>1 DEF Browse, Visit, Leave, OpenCreate, DismissCreate, HandleCreate, DismissReveal,
              AskDelete, DismissDelete, HandleDelete, OnPage, ServerIdle
<1>2. ASSUME NEW c \in Calls, Serve(c) PROVE AuthMove \/ UNCHANGED authVars
  <2>1. CASE KeysProxy(c)
    <3>1. session \in Users /\ Present(c, session)
      BY <2>1 DEF KeysProxy, TypeOK
    <3> QED BY <3>1 DEF AuthMove
  <2>2. CASE RequireUser(c)
    BY <2>2 DEF RequireUser, AuthMove
  <2>3. CASE RequireUserRefuses(c) \/ List(c) \/ CountKeys(c) \/ AtCap(c) \/ Delete(c)
               \/ DeleteMisses(c) \/ HandlerFails(c)
    BY <2>3 DEF RequireUserRefuses, List, CountKeys, AtCap, Delete, DeleteMisses, HandlerFails, AuthMove
  <2>4. CASE RouteRefuses(c) \/ InsertFails(c) \/ \E k \in KeyIds : InsertKey(c, k)
    BY <2>4 DEF RouteRefuses, InsertFails, InsertKey, ServerIdle, authVars
  <2> QED BY <1>2, <2>1, <2>2, <2>3, <2>4 DEF Serve
<1>3. ASSUME NEW c \in Calls, Answer(c) PROVE UNCHANGED authVars
  BY <1>3 DEF Answer, PageLoads, PageFails, Created, CreateFails, Deleted, DeleteFails, Unheard,
              Received, ServerIdle
<1>4. CASE Around
  BY <1>4 DEF Around, MintAlone, MintAloneFails, CountElsewhere, RevokeElsewhere, SwitchSession,
              InsertUnheard, LoseAnswer, ExpireToken, RotateKeys, Restart, ServerIdle, AuthMove
<1>5. CASE UNCHANGED vars
  BY <1>5 DEF vars
<1> QED BY <1>1, <1>2, <1>3, <1>4, <1>5 DEF Next

\* the server's handlers,
LEMMA ServeType ==
  ASSUME TypeOK, CallsSound, AuthTypeOK', NEW c \in Calls, Serve(c)
  PROVE  TypeOK'
<1> USE DashboardAssumption
<1>1. OffPage => session' = session /\ page' = page /\ shown' = shown /\ troubles' = troubles
  BY DEF OffPage
<1>2. ServerIdle => owner' = owner /\ minting' = minting
  BY DEF ServerIdle
<1>3. bearer[c] # Idle => bearer[c].user \in Users /\ Waiting(c, "forwarded")
  BY DEF TypeOK, AuthTypeOK, Token, CallsSound, CallSound
<1>4. c \in Creators
  BY DEF Creators
<1>5. CASE RouteRefuses(c) \/ RequireUserRefuses(c) \/ AtCap(c) \/ DeleteMisses(c) \/ HandlerFails(c)
  <2>1. call[c] # Idle /\ Step(c, "error") /\ UNCHANGED untold /\ OffPage /\ owner' = owner /\ minting' = minting
    BY <1>2, <1>3, <1>5
       DEF RouteRefuses, RequireUserRefuses, AtCap, DeleteMisses, HandlerFails, Handling, Waiting, At
  <2> QED BY <1>1, <2>1, CallTypes DEF TypeOK
<1>6. CASE KeysProxy(c)
  BY <1>1, <1>6, CallTypes DEF KeysProxy, Waiting, TypeOK
<1>7. CASE RequireUser(c)
  BY <1>1, <1>7 DEF RequireUser, TypeOK
<1>8. CASE List(c)
  <2>1. call[c] \in Call /\ bearer[c].user \in Users
    BY <1>3, <1>8 DEF List, Handling, Waiting, At, TypeOK
  <2>2. [call[c] EXCEPT !.pc = "ok", !.user = bearer[c].user, !.keys = OwnedBy(bearer[c].user)] \in Call
    BY <2>1 DEF Call, OwnedBy
  <2>3. call' \in [Calls -> Call \cup {Idle}]
    BY <1>8, <2>2 DEF List, TypeOK
  <2>4. untold' \subseteq Changes
    BY <1>8 DEF List, TypeOK
  <2> QED BY <1>1, <1>8, <2>3, <2>4 DEF List, TypeOK
<1>9. CASE CountKeys(c)
  BY <1>1, <1>3, <1>4, <1>9, CallTypes DEF CountKeys, Handling, Waiting, At, TypeOK
<1>10. CASE InsertFails(c)
  BY <1>1, <1>4, <1>10, CallTypes DEF InsertFails, Waiting, TypeOK
<1>11. ASSUME NEW k \in KeyIds, InsertKey(c, k) PROVE TypeOK'
  <2>1. call[c] \in Call
    BY <1>11 DEF InsertKey, Waiting, TypeOK
  <2>2. [call[c] EXCEPT !.pc = "ok", !.key = k] \in Call
    BY <2>1 DEF Call
  <2>3. call' \in [Calls -> Call \cup {Idle}]
    BY <1>11, <2>2 DEF InsertKey, TypeOK
  <2> QED BY <1>1, <1>4, <1>11, <2>3, MintType DEF InsertKey, TypeOK
<1>12. CASE Delete(c)
  <2>1. call[c] # Idle /\ call[c].key \in KeyIds
    BY <1>12 DEF Delete, Handling, Waiting, CallsSound, CallSound
  <2>2. call' \in [Calls -> Call \cup {Idle}]
    BY <1>12, <2>1, CallTypes DEF Delete
  <2>3. untold' \subseteq Changes
    BY <1>12, <2>1 DEF Delete, Changes, TypeOK
  <2> QED BY <1>1, <1>12, <2>1, <2>2, <2>3 DEF Delete, TypeOK
<1> QED BY <1>5, <1>6, <1>7, <1>8, <1>9, <1>10, <1>11, <1>12 DEF Serve

\* and what happens elsewhere.
LEMMA AroundType ==
  ASSUME TypeOK, CallsSound, AuthTypeOK', Around
  PROVE  TypeOK'
<1> USE DashboardAssumption
<1>1. Trouble => troubles' \in 0 .. MaxTroubles
  BY DEF Trouble, TypeOK
<1>2. ServerIdle => owner' = owner /\ minting' = minting
  BY DEF ServerIdle
<1>3. ASSUME NEW c \in Creators, MintAloneFails(c) PROVE TypeOK'
  BY <1>3 DEF MintAloneFails, siteVars, TypeOK
<1>4. ASSUME NEW c \in Creators, NEW k \in KeyIds, MintAlone(c, k) PROVE TypeOK'
  BY <1>4, MintType DEF MintAlone, TypeOK
<1>5. ASSUME NEW o \in Others, NEW u \in Users, CountElsewhere(o, u) PROVE TypeOK'
  BY <1>1, <1>5 DEF CountElsewhere, Creators, TypeOK
<1>6. ASSUME NEW u \in Users, NEW k \in KeyIds, RevokeElsewhere(u, k) PROVE TypeOK'
  BY <1>1, <1>6 DEF RevokeElsewhere, Changes, TypeOK
<1>7. ASSUME NEW u \in Users \cup {None}, SwitchSession(u) PROVE TypeOK'
  BY <1>1, <1>2, <1>7 DEF SwitchSession, TypeOK
<1>8. ASSUME NEW c \in Calls, InsertUnheard(c) \/ LoseAnswer(c) PROVE TypeOK'
  BY <1>1, <1>2, <1>8, CallTypes DEF InsertUnheard, LoseAnswer, Waiting, TypeOK
<1>9. ASSUME NEW c \in Calls, ExpireToken(c) PROVE TypeOK'
  BY <1>1, <1>9 DEF ExpireToken, TypeOK
<1>10. ASSUME NEW s \in SigningKeys, RotateKeys(s) PROVE TypeOK'
  BY <1>1, <1>10 DEF RotateKeys, TypeOK
<1>11. CASE Restart
  <2>1. \A c \in Calls : Inside(c) \/ Waiting(c, "inserting") => call[c] # Idle
    BY DEF CallsSound, CallSound, Inside, Waiting
  <2>2. \A c \in Calls : call[c] # Idle => [call[c] EXCEPT !.pc = "error"] \in Call
    BY DEF TypeOK, Call
  <2>3. call' \in [Calls -> Call \cup {Idle}]
    BY <1>11, <2>1, <2>2 DEF Restart, TypeOK
  <2> QED BY <1>1, <1>11, <2>3 DEF Restart, TypeOK
<1> QED BY <1>3, <1>4, <1>5, <1>6, <1>7, <1>8, <1>9, <1>10, <1>11 DEF Around

(***************************************************************************)
(* The fetches.                                                            *)
(***************************************************************************)
\* A step that only moves a fetch on.
LEMMA StepMoves ==
  ASSUME TypeOK, NEW c \in Calls, call[c] # Idle,
         NEW pc \in {"sent", "forwarded", "inserting", "ok", "error"}, Step(c, pc)
  PROVE  /\ call'[c] # Idle
         /\ call'[c].pc = pc
         /\ call'[c].op = call[c].op
         /\ call'[c].key = call[c].key
         /\ call'[c].live = call[c].live
         /\ call'[c].user = call[c].user
         /\ call'[c].keys = call[c].keys
         /\ \A d \in Calls : d # c => call'[d] = call[d]
<1> USE DashboardAssumption
<1>1. call[c] \in Call
  BY DEF TypeOK
<1>2. call'[c] = [call[c] EXCEPT !.pc = pc]
  BY DEF Step, TypeOK
<1>3. call'[c] \in Call
  BY <1>1, <1>2 DEF Call
<1> QED BY <1>1, <1>2, <1>3 DEF Call, Step, TypeOK

\* A fetch just sent.
LEMMA FetchSends ==
  ASSUME TypeOK, NEW c \in Calls, NEW op \in {"list", "create", "delete"},
         NEW k \in KeyIds \cup {None}, Fetch(c, op, k)
  PROVE  /\ call[c] = Idle /\ minting[c] = Idle
         /\ call'[c] # Idle
         /\ call'[c].op = op /\ call'[c].key = k /\ call'[c].live /\ call'[c].pc = "sent"
         /\ \A d \in Calls : d # c => call'[d] = call[d]
<1> USE DashboardAssumption
<1>1. [op |-> op, key |-> k, live |-> TRUE, user |-> None, keys |-> {}, pc |-> "sent"] \in Call
  BY DEF Call
<1> QED BY <1>1 DEF Fetch, Free, TypeOK

\* Dialogs opened and dismissed: the page stays, and so does what it waits for.
DialogStep ==
  OpenCreate \/ DismissCreate \/ DismissReveal \/ DismissDelete \/ \E k \in KeyIds : AskDelete(k)

\* A dialog step touches what the dialogs show and nothing else.
LEMMA DialogMoves ==
  ASSUME TypeOK, DialogStep
  PROVE  /\ Shown /\ Shown'
         /\ page'.user = page.user /\ page'.keys = page.keys
         /\ page'.creating = page.creating /\ page'.deleting = page.deleting
         /\ page'.revealed \in {page.revealed, None}
         /\ page'.pending \in {page.pending, None} \cup page.keys
         /\ UNCHANGED <<authVars, owner, minting, call, untold, shown>>
<1> USE DashboardAssumption
<1>1. page # None /\ UNCHANGED <<authVars, owner, minting, call, untold, shown>>
  BY DEF DialogStep, OpenCreate, DismissCreate, DismissReveal, DismissDelete, AskDelete,
         NoDialog, InFront, Shown, OnPage, ServerIdle
<1>2. page \in Page
  BY <1>1 DEF TypeOK
<1>3. CASE OpenCreate
  BY <1>1, <1>2, <1>3 DEF OpenCreate, Shown, Page
<1>4. CASE DismissCreate
  BY <1>1, <1>2, <1>4 DEF DismissCreate, Shown, Page
<1>5. CASE DismissReveal
  BY <1>1, <1>2, <1>5 DEF DismissReveal, Shown, Page
<1>6. CASE DismissDelete
  BY <1>1, <1>2, <1>6 DEF DismissDelete, Shown, Page
<1>7. ASSUME NEW k \in KeyIds, AskDelete(k)
      PROVE  /\ Shown /\ Shown'
             /\ page'.user = page.user /\ page'.keys = page.keys
             /\ page'.creating = page.creating /\ page'.deleting = page.deleting
             /\ page'.revealed \in {page.revealed, None}
             /\ page'.pending \in {page.pending, None} \cup page.keys
  BY <1>1, <1>2, <1>7 DEF AskDelete, Shown, Page
<1> QED BY <1>1, <1>3, <1>4, <1>5, <1>6, <1>7 DEF DialogStep

\* The fetches of a page the browser leaves go on unheard.
LEMMA LeftAlone ==
  ASSUME TypeOK, Leave, NEW c \in Calls
  PROVE  /\ call[c] = Idle <=> call'[c] = Idle
         /\ call[c] # Idle =>
              /\ ~call'[c].live
              /\ call'[c].pc = call[c].pc /\ call'[c].op = call[c].op
              /\ call'[c].key = call[c].key /\ call'[c].user = call[c].user
<1> USE DashboardAssumption
<1>1. CASE call[c] = Idle
  BY <1>1 DEF Leave
<1>2. CASE call[c] # Idle
  <2>1. call[c] \in Call
    BY <1>2 DEF TypeOK
  <2>2. call'[c] = [call[c] EXCEPT !.live = FALSE]
    BY <1>2 DEF Leave
  <2>3. [call[c] EXCEPT !.live = FALSE] \in Call
    BY <2>1 DEF Call
  <2> QED BY <1>2, <2>1, <2>2, <2>3 DEF Call
<1> QED BY <1>1, <1>2

\* A fetch the step is not about.
LEMMA OthersSound ==
  ASSUME NEW d \in Calls, CallSound(d), call'[d] = call[d], bearer'[d] = bearer[d],
         minting'[d] = minting[d], Shown' = Shown
  PROVE  CallSound(d)'
  BY DEF CallSound, Waiting

\* Each fetch is at a place on its way, after the steps of the page,
LEMMA BrowseCalls ==
  ASSUME TypeOK, CallsSound, Browse
  PROVE  CallsSound'
<1> USE DashboardAssumption
<1>1. ServerIdle => bearer' = bearer /\ minting' = minting
  BY DEF ServerIdle, authVars
<1>2. ASSUME NEW c \in Calls, Visit(c) PROVE CallsSound'
  <2>1. Fetch(c, "list", None) /\ ~Shown /\ ~Shown'
    BY <1>2 DEF Visit, Shown
  <2> QED BY <1>1, <1>2, <2>1, FetchSends DEF Visit, CallsSound, CallSound, Waiting
<1>3. ASSUME NEW c \in Calls, HandleCreate(c) PROVE CallsSound'
  <2>1. Fetch(c, "create", None) /\ Shown /\ Shown'
    BY <1>3 DEF HandleCreate, InFront, Shown, Page, TypeOK
  <2> QED BY <1>1, <1>3, <2>1, FetchSends DEF HandleCreate, OnPage, CallsSound, CallSound, Waiting
<1>4. ASSUME NEW c \in Calls, HandleDelete(c) PROVE CallsSound'
  <2>1. page \in Page /\ page.pending \in KeyIds
    BY <1>4 DEF HandleDelete, InFront, Shown, Page, TypeOK
  <2>2. Fetch(c, "delete", page.pending) /\ Shown /\ Shown'
    BY <1>4, <2>1 DEF HandleDelete, InFront, Shown, Page
  <2> QED BY <1>1, <1>4, <2>1, <2>2, FetchSends DEF HandleDelete, OnPage, CallsSound, CallSound, Waiting
<1>5. CASE Leave
  <2>1. \A c \in Calls : call[c] # Idle =>
          /\ call'[c] # Idle /\ ~call'[c].live /\ call'[c].pc = call[c].pc
          /\ call'[c].op = call[c].op /\ call'[c].key = call[c].key /\ call'[c].user = call[c].user
    BY <1>5, LeftAlone
  <2>2. \A c \in Calls : call[c] = Idle => call'[c] = Idle
    BY <1>5 DEF Leave
  <2> QED BY <1>1, <1>5, <2>1, <2>2 DEF Leave, CallsSound, CallSound, Waiting
<1>6. CASE DialogStep
  <2>1. Shown /\ Shown' /\ call' = call
    BY <1>6, DialogMoves
  <2>2. bearer' = bearer /\ minting' = minting
    BY <1>6, DialogMoves DEF authVars
  <2> QED BY <2>1, <2>2 DEF CallsSound, CallSound, Waiting
<1> QED BY <1>2, <1>3, <1>4, <1>5, <1>6 DEF Browse, DialogStep

\* Checking a token, or its expiry, neither makes nor takes a token.
LEMMA TokenStays ==
  ASSUME AuthTypeOK, NEW c \in Calls, AuthStep(c) \/ Expire(c), NEW d \in Calls
  PROVE  bearer'[d] = Idle <=> bearer[d] = Idle
<1> USE ClerkAssumption
<1>1. bearer[c] # Idle /\ bearer[c] \in Token
  BY DEF AuthStep, KeyCached, FetchKey, FetchFails, StoreKey, At, Expire, AuthTypeOK
<1>2. CASE d = c
  <2>1. \A pc \in {"presented", "fetched"} \cup Verdicts : [bearer[c] EXCEPT !.pc = pc] \in Token
    BY <1>1 DEF Token
  <2>2. [bearer[c] EXCEPT !.expired = TRUE] \in Token
    BY <1>1 DEF Token
  <2>3. \/ bearer'[c] = [bearer[c] EXCEPT !.expired = TRUE]
        \/ \E pc \in {"presented", "fetched"} \cup Verdicts : bearer'[c] = [bearer[c] EXCEPT !.pc = pc]
    <3>1. CASE KeyCached(c) \/ StoreKey(c)
      <4>1. Verified(c)
        BY <3>1 DEF KeyCached, StoreKey
      <4>2. (IF bearer[c].expired THEN "unauthorized" ELSE "verified") \in Verdicts
        BY DEF Verdicts
      <4> QED BY <4>1, <4>2 DEF Verified, AuthTypeOK
    <3>2. CASE FetchKey(c)
      BY <3>2 DEF FetchKey, AuthTypeOK
    <3>3. CASE FetchFails(c)
      BY <3>3 DEF FetchFails, AuthTypeOK, Verdicts
    <3>4. CASE Expire(c)
      BY <3>4 DEF Expire, AuthTypeOK
    <3> QED BY <3>1, <3>2, <3>3, <3>4 DEF AuthStep
  <2> QED BY <1>1, <1>2, <2>1, <2>2, <2>3
<1>3. CASE d # c
  BY <1>3 DEF AuthStep, KeyCached, FetchKey, FetchFails, StoreKey, Verified, Expire, AuthTypeOK
<1> QED BY <1>2, <1>3

\* of the server's handlers,
LEMMA ServeCalls ==
  ASSUME TypeOK, CallsSound, NEW c \in Calls, Serve(c)
  PROVE  CallsSound'
<1> USE DashboardAssumption, ClerkAssumption
<1>1. OffPage => Shown' = Shown
  BY DEF OffPage, Shown
<1>2. bearer[c] # Idle => bearer[c].user \in Users /\ Waiting(c, "forwarded")
  BY DEF TypeOK, AuthTypeOK, Token, CallsSound, CallSound
<1>3. c \in Creators /\ Calls \subseteq Creators
  BY DEF Creators
<1>4. CASE RouteRefuses(c)
  <2>1. call[c] # Idle /\ Step(c, "error") /\ bearer' = bearer /\ minting' = minting /\ Waiting(c, "sent")
    BY <1>4 DEF RouteRefuses, ServerIdle, authVars, Waiting
  <2> QED BY <1>1, <1>4, <2>1, StepMoves DEF RouteRefuses, CallsSound, CallSound, Waiting
<1>5. CASE KeysProxy(c)
  <2>1. call[c] # Idle /\ Step(c, "forwarded") /\ minting' = minting /\ Waiting(c, "sent")
    BY <1>5 DEF KeysProxy, Waiting
  <2>2. \A d \in Calls : d # c => bearer'[d] = bearer[d]
    BY <1>5 DEF KeysProxy, Present, TypeOK, AuthTypeOK
  <2> QED BY <1>1, <1>5, <2>1, <2>2, StepMoves DEF KeysProxy, CallsSound, CallSound, Waiting
<1>6. CASE RequireUser(c)
  <2>1. \A d \in Calls : bearer'[d] = Idle <=> bearer[d] = Idle
    BY <1>6, TokenStays DEF RequireUser, TypeOK
  <2> QED BY <1>1, <1>6, <2>1 DEF RequireUser, CallsSound, CallSound, Waiting
<1>7. CASE RequireUserRefuses(c) \/ AtCap(c) \/ DeleteMisses(c) \/ HandlerFails(c)
  <2>1. call[c] # Idle /\ Step(c, "error") /\ Answered(c) /\ minting' = minting
    BY <1>2, <1>7 DEF RequireUserRefuses, AtCap, DeleteMisses, HandlerFails, Handling, At, Waiting
  <2>2. bearer'[c] = Idle /\ \A d \in Calls : d # c => bearer'[d] = bearer[d]
    BY <2>1 DEF Answered, TypeOK, AuthTypeOK
  <2>3. Shown' = Shown
    BY <1>1, <1>7 DEF RequireUserRefuses, AtCap, DeleteMisses, HandlerFails
  <2> QED BY <2>1, <2>2, <2>3, StepMoves DEF CallsSound, CallSound, Waiting
<1>8. CASE List(c)
  <2>1. call[c] \in Call /\ bearer[c].user \in Users /\ Waiting(c, "forwarded") /\ call[c].op = "list"
    BY <1>2, <1>8 DEF List, Handling, Waiting, At, TypeOK
  <2> DEFINE answer == [call[c] EXCEPT !.pc = "ok", !.user = bearer[c].user, !.keys = OwnedBy(bearer[c].user)]
  <2>2. answer \in Call /\ answer.user \in Users /\ answer.op = "list" /\ answer.live = call[c].live /\ answer.pc = "ok"
    BY <2>1 DEF Call, OwnedBy
  <2>3. call'[c] = answer /\ \A d \in Calls : d # c => call'[d] = call[d]
    BY <1>8 DEF List, TypeOK
  <2>4. bearer'[c] = Idle /\ \A d \in Calls : d # c => bearer'[d] = bearer[d]
    BY <1>8 DEF List, Answered, TypeOK, AuthTypeOK
  <2> HIDE DEF answer
  <2>5. CallSound(c)'
    BY <1>1, <1>8, <2>1, <2>2, <2>3, <2>4 DEF List, CallsSound, CallSound, Waiting
  <2>6. Shown' = Shown /\ minting' = minting
    BY <1>1, <1>8 DEF List
  <2>7. \A d \in Calls : d # c => CallSound(d)'
    BY <2>3, <2>4, <2>6, OthersSound DEF CallsSound
  <2> QED BY <2>5, <2>7 DEF CallsSound
<1>9. CASE CountKeys(c)
  <2>1. call[c] # Idle /\ Step(c, "inserting") /\ call[c].op = "create" /\ bearer[c].user \in Users
    BY <1>2, <1>9 DEF CountKeys, Handling, At, Waiting
  <2>2. bearer'[c] = Idle /\ \A d \in Calls : d # c => bearer'[d] = bearer[d]
    BY <1>9 DEF CountKeys, Answered, TypeOK, AuthTypeOK
  <2>3. minting'[c] # Idle /\ \A d \in Calls : d # c => minting'[d] = minting[d]
    BY <1>3, <1>9, <2>1 DEF CountKeys, TypeOK
  <2> QED BY <1>1, <1>9, <2>1, <2>2, <2>3, StepMoves DEF CountKeys, CallsSound, CallSound, Waiting
<1>10. CASE InsertFails(c)
  <2>1. call[c] # Idle /\ Step(c, "error") /\ bearer' = bearer /\ Waiting(c, "inserting")
    BY <1>10 DEF InsertFails, authVars, Waiting
  <2>2. \A d \in Calls : d # c => minting'[d] = minting[d]
    BY <1>3, <1>10 DEF InsertFails, TypeOK
  <2> QED BY <1>1, <1>10, <2>1, <2>2, StepMoves DEF InsertFails, CallsSound, CallSound, Waiting
<1>11. ASSUME NEW k \in KeyIds, InsertKey(c, k) PROVE CallsSound'
  <2>1. call[c] \in Call /\ Waiting(c, "inserting") /\ call[c].op = "create" /\ bearer' = bearer
    BY <1>11 DEF InsertKey, Waiting, CallsSound, CallSound, TypeOK, authVars
  <2> DEFINE answer == [call[c] EXCEPT !.pc = "ok", !.key = k]
  <2>2. answer \in Call /\ answer.key = k /\ answer.op = "create" /\ answer.live = call[c].live /\ answer.pc = "ok"
    BY <2>1 DEF Call
  <2>3. call'[c] = answer /\ \A d \in Calls : d # c => call'[d] = call[d]
    BY <1>11 DEF InsertKey, TypeOK
  <2>4. minting'[c] = Idle /\ \A d \in Calls : d # c => minting'[d] = minting[d]
    BY <1>3, <1>11 DEF InsertKey, Mint, TypeOK
  <2> HIDE DEF answer
  <2>5. CallSound(c)'
    BY <1>1, <1>11, <2>1, <2>2, <2>3, <2>4 DEF InsertKey, CallsSound, CallSound, Waiting
  <2>6. Shown' = Shown
    BY <1>1, <1>11 DEF InsertKey
  <2>7. \A d \in Calls : d # c => CallSound(d)'
    BY <2>1, <2>3, <2>4, <2>6, OthersSound DEF CallsSound
  <2> QED BY <2>5, <2>7 DEF CallsSound
<1>12. CASE Delete(c)
  <2>1. call[c] # Idle /\ Handling(c, "delete") /\ minting' = minting /\ \E pc \in {"ok", "error"} : Step(c, pc)
    BY <1>12 DEF Delete, Handling, Waiting
  <2>2. bearer'[c] = Idle /\ \A d \in Calls : d # c => bearer'[d] = bearer[d]
    BY <1>12 DEF Delete, Answered, TypeOK, AuthTypeOK
  <2> QED BY <1>1, <1>12, <2>1, <2>2, StepMoves DEF Delete, Handling, CallsSound, CallSound, Waiting
<1> QED BY <1>4, <1>5, <1>6, <1>7, <1>8, <1>9, <1>10, <1>11, <1>12 DEF Serve

\* What an answer does to the page.
LEMMA AnswerMoves ==
  ASSUME TypeOK, CallsSound, NEW c \in Calls, call[c] # Idle
  PROVE  /\ PageLoads(c) =>
              /\ ~Shown /\ Shown' /\ call[c].user \in Users
              /\ page'.user = call[c].user /\ page'.keys = call[c].keys
              /\ ~page'.creating /\ ~page'.deleting /\ page'.revealed = None /\ page'.pending = None
         /\ CreateFails(c) =>
              /\ Shown /\ Shown'
              /\ page'.user = page.user /\ page'.keys = page.keys
              /\ ~page'.creating /\ page'.deleting = page.deleting
              /\ page'.revealed = page.revealed /\ page'.pending = page.pending
         /\ DeleteFails(c) =>
              /\ Shown /\ Shown'
              /\ page'.user = page.user /\ page'.keys = page.keys
              /\ page'.creating = page.creating /\ ~page'.deleting
              /\ page'.revealed = page.revealed /\ page'.pending = page.pending
         /\ Created(c) =>
              /\ Shown /\ Shown' /\ call[c].key \in KeyIds
              /\ page'.user = page.user /\ page'.keys = page.keys \cup {call[c].key}
              /\ ~page'.creating /\ page'.deleting = page.deleting
              /\ page'.revealed = call[c].key /\ page'.pending = page.pending
         /\ Deleted(c) =>
              /\ Shown /\ Shown' /\ call[c].key \in KeyIds
              /\ page'.user = page.user /\ page'.keys = page.keys \ {call[c].key}
              /\ page'.creating = page.creating /\ ~page'.deleting
              /\ page'.revealed = page.revealed /\ page'.pending = None
<1> USE DashboardAssumption
<1>1. call[c] \in Call /\ CallSound(c)
  BY DEF TypeOK, CallsSound
<1>2. Shown => page \in Page
  BY DEF Shown, TypeOK
<1>3. ASSUME PageLoads(c)
      PROVE  /\ ~Shown /\ Shown' /\ call[c].user \in Users
             /\ page'.user = call[c].user /\ page'.keys = call[c].keys
             /\ ~page'.creating /\ ~page'.deleting /\ page'.revealed = None /\ page'.pending = None
  <2>1. call[c].user \in Users /\ call[c].keys \in SUBSET KeyIds /\ ~Shown
    BY <1>1, <1>3 DEF PageLoads, Arrived, CallSound, Call
  <2>2. page' \in Page
    BY <1>3, <2>1 DEF PageLoads, Page
  <2> QED BY <1>3, <2>1, <2>2 DEF PageLoads, Shown, Page
<1>4. ASSUME CreateFails(c)
      PROVE  /\ Shown /\ Shown'
             /\ page'.user = page.user /\ page'.keys = page.keys
             /\ ~page'.creating /\ page'.deleting = page.deleting
             /\ page'.revealed = page.revealed /\ page'.pending = page.pending
  <2>1. Shown
    BY <1>1, <1>4 DEF CreateFails, Arrived, CallSound
  <2> QED BY <1>2, <1>4, <2>1 DEF CreateFails, Shown, Page
<1>5. ASSUME DeleteFails(c)
      PROVE  /\ Shown /\ Shown'
             /\ page'.user = page.user /\ page'.keys = page.keys
             /\ page'.creating = page.creating /\ ~page'.deleting
             /\ page'.revealed = page.revealed /\ page'.pending = page.pending
  <2>1. Shown
    BY <1>1, <1>5 DEF DeleteFails, Arrived, CallSound
  <2> QED BY <1>2, <1>5, <2>1 DEF DeleteFails, Shown, Page
<1>6. ASSUME Created(c)
      PROVE  /\ Shown /\ Shown' /\ call[c].key \in KeyIds
             /\ page'.user = page.user /\ page'.keys = page.keys \cup {call[c].key}
             /\ ~page'.creating /\ page'.deleting = page.deleting
             /\ page'.revealed = call[c].key /\ page'.pending = page.pending
  <2>1. Shown /\ call[c].key \in KeyIds
    BY <1>1, <1>6 DEF Created, Arrived, CallSound
  <2>2. page' \in Page
    BY <1>2, <1>6, <2>1 DEF Created, Page
  <2> QED BY <1>2, <1>6, <2>1, <2>2 DEF Created, Shown, Page
<1>7. ASSUME Deleted(c)
      PROVE  /\ Shown /\ Shown' /\ call[c].key \in KeyIds
             /\ page'.user = page.user /\ page'.keys = page.keys \ {call[c].key}
             /\ page'.creating = page.creating /\ ~page'.deleting
             /\ page'.revealed = page.revealed /\ page'.pending = None
  <2>1. Shown /\ call[c].key \in KeyIds
    BY <1>1, <1>7 DEF Deleted, Arrived, CallSound
  <2>2. page' \in Page
    BY <1>2, <1>7, <2>1 DEF Deleted, Page
  <2> QED BY <1>2, <1>7, <2>1, <2>2 DEF Deleted, Shown, Page
<1> QED BY <1>3, <1>4, <1>5, <1>6, <1>7

\* Of the lists the browser asked for, at most one is waited for: AnswerCalls
\* needs it when the page comes up.
OneList ==
  \A c, d \in Calls :
    /\ call[c] # Idle /\ call[c].live /\ call[c].op = "list"
    /\ call[d] # Idle /\ call[d].live /\ call[d].op = "list"
    => c = d

\* of the answers taken,
LEMMA AnswerCalls ==
  ASSUME TypeOK, CallsSound, OneList, NEW c \in Calls, Answer(c)
  PROVE  CallsSound'
<1> USE DashboardAssumption
<1>1. Received(c) /\ call[c] # Idle /\ call[c].pc \in {"ok", "error"}
  BY DEF Answer, PageLoads, PageFails, Created, CreateFails, Deleted, DeleteFails, Unheard, Arrived
<1>2. call'[c] = Idle /\ (\A d \in Calls : d # c => call'[d] = call[d]) /\ bearer' = bearer /\ minting' = minting
  BY <1>1 DEF Received, ServerIdle, authVars, TypeOK
<1>3. CallSound(c)'
  BY <1>1, <1>2 DEF CallsSound, CallSound, Waiting
<1>4. CASE Shown' = Shown
  BY <1>2, <1>3, <1>4, OthersSound DEF CallsSound
<1>5. CASE Shown' # Shown
  <2>1. PageLoads(c)
    BY <1>1, <1>5, AnswerMoves DEF Answer, PageFails, Unheard, Shown
  <2>2. call[c].live /\ call[c].op = "list" /\ ~Shown /\ Shown'
    BY <1>1, <2>1, AnswerMoves DEF PageLoads, Arrived
  <2>3. \A d \in Calls : d # c /\ call[d] # Idle => ~call[d].live
    BY <1>1, <2>2 DEF OneList, CallsSound, CallSound
  <2>4. \A d \in Calls : d # c => CallSound(d)'
    BY <1>2, <2>3 DEF CallsSound, CallSound, Waiting
  <2> QED BY <1>3, <2>4 DEF CallsSound
<1> QED BY <1>4, <1>5

\* and of everything elsewhere.
LEMMA AroundCalls ==
  ASSUME TypeOK, CallsSound, Around
  PROVE  CallsSound'
<1> USE DashboardAssumption, ClerkAssumption
<1>1. Calls \subseteq Creators /\ \A o \in Others : o \notin Calls
  BY DEF Creators
<1>2. ASSUME NEW c \in Creators,
             MintAloneFails(c) \/ (\E k \in KeyIds : MintAlone(c, k)) \/ (c \in Others /\ \E u \in Users : CountElsewhere(c, u))
      PROVE  CallsSound'
  <2>1. call' = call /\ bearer' = bearer /\ Shown' = Shown
    BY <1>2 DEF MintAloneFails, MintAlone, CountElsewhere, siteVars, authVars, Shown
  <2>2. \A d \in Calls : minting'[d] = minting[d] \/ (minting'[d] = Idle /\ ~Waiting(d, "inserting"))
    BY <1>1, <1>2 DEF MintAloneFails, MintAlone, Mint, CountElsewhere, Alone, TypeOK
  <2>3. \A d \in Calls : CallSound(d)'
    BY <2>1, <2>2 DEF CallsSound, CallSound, Waiting
  <2> QED BY <2>3 DEF CallsSound
<1>3. ASSUME (\E u \in Users, k \in KeyIds : RevokeElsewhere(u, k)) \/ (\E u \in Users \cup {None} : SwitchSession(u))
             \/ \E s \in SigningKeys : RotateKeys(s)
      PROVE  CallsSound'
  <2>1. call' = call /\ bearer' = bearer /\ minting' = minting /\ Shown' = Shown
    BY <1>3 DEF RevokeElsewhere, SwitchSession, RotateKeys, Rotate, ServerIdle, authVars, Shown
  <2> QED BY <2>1, OthersSound DEF CallsSound
<1>4. ASSUME NEW c \in Calls, InsertUnheard(c) \/ LoseAnswer(c) PROVE CallsSound'
  <2>1. call[c] # Idle /\ Step(c, "error") /\ bearer' = bearer /\ minting' = minting /\ Shown' = Shown
        /\ call[c].pc # "forwarded"
    BY <1>4 DEF InsertUnheard, LoseAnswer, Waiting, ServerIdle, authVars, Shown
  <2>2. CallSound(c)'
    BY <2>1, StepMoves DEF CallsSound, CallSound, Waiting
  <2> QED BY <2>1, <2>2, StepMoves, OthersSound DEF CallsSound
<1>5. ASSUME NEW c \in Calls, ExpireToken(c) PROVE CallsSound'
  <2>1. call' = call /\ minting' = minting /\ Shown' = Shown
    BY <1>5 DEF ExpireToken, Shown
  <2>2. \A d \in Calls : bearer'[d] = Idle <=> bearer[d] = Idle
    BY <1>5, TokenStays DEF ExpireToken, TypeOK
  <2> QED BY <2>1, <2>2 DEF CallsSound, CallSound, Waiting
<1>6. CASE Restart
  <2>1. ASSUME NEW c \in Calls PROVE CallSound(c)'
    <3>1. Shown' = Shown /\ minting' = minting
      BY <1>6 DEF Restart, Shown
    <3>2. CASE Inside(c) \/ Waiting(c, "inserting")
      <4>1. call[c] # Idle /\ call[c] \in Call
        BY <3>2 DEF CallsSound, CallSound, Inside, Waiting, TypeOK
      <4>2. call'[c] = [call[c] EXCEPT !.pc = "error"] /\ bearer'[c] = Idle
        BY <1>6, <3>2 DEF Restart, AuthRestart, CallsSound, CallSound, Inside, Waiting
      <4>3. call'[c].pc = "error" /\ call'[c].op = call[c].op /\ call'[c].live = call[c].live /\ call'[c].key = call[c].key
        BY <4>1, <4>2 DEF Call
      <4> QED BY <3>1, <4>1, <4>2, <4>3 DEF CallsSound, CallSound
    <3>3. CASE ~(Inside(c) \/ Waiting(c, "inserting"))
      BY <1>6, <3>1, <3>3, OthersSound DEF Restart, AuthRestart, CallsSound
    <3> QED BY <3>2, <3>3
  <2> QED BY <2>1 DEF CallsSound
<1> QED BY <1>1, <1>2, <1>3, <1>4, <1>5, <1>6 DEF Around, Creators

(***************************************************************************)
(* The page, its spinners, the secrets and the list.                       *)
(***************************************************************************)
Spinning ==
  /\ OneList
  /\ SpinnersHonest
  /\ Shown /\ page.creating => page.revealed = None

NewKey(c) == call[c] # Idle /\ call[c].op = "create" /\ call[c].pc = "ok"
Secrets ==
  /\ \A k \in shown : owner[k] # Unminted
  /\ \A c \in Calls : NewKey(c) => owner[call[c].key] # Unminted /\ call[c].key \notin shown
  /\ \A c, d \in Calls : NewKey(c) /\ NewKey(d) /\ call[c].key = call[d].key => c = d

\* A list the page shows, or is about to show, for a user.
Accounted(u, ks) ==
  /\ \A k \in OwnedBy(u) \ ks : <<k, "minted">> \in untold
  /\ \A k \in ks : ~Live(k) => <<k, "revoked">> \in untold
Lists ==
  /\ \A k \in KeyIds : <<k, "revoked">> \in untold => owner[k] = Revoked
  /\ Shown => Accounted(page.user, page.keys) /\ page.pending \in page.keys \cup {None}
  /\ \A c \in Awaited("list") : call[c].pc = "ok" => Accounted(call[c].user, call[c].keys)
  /\ \A c \in Awaited("delete") : call[c].key \in page.keys
  /\ \A c \in Awaited("delete") : call[c].pc = "ok" => owner[call[c].key] = Revoked
  /\ \A c \in Awaited("create") : call[c].pc = "ok" =>
       call[c].key \notin page.keys /\ (Live(call[c].key) \/ <<call[c].key, "revoked">> \in untold)

SiteInv == TypeOK /\ AuthInv /\ CallsSound /\ Spinning /\ Secrets /\ Lists

\* Steps that leave the table and the page alone and bring no answer.
Quiet ==
  /\ UNCHANGED <<owner, page, untold, shown>>
  /\ \A c \in Calls :
       /\ call'[c] = Idle <=> call[c] = Idle
       /\ call[c] # Idle =>
            /\ call'[c].op = call[c].op /\ call'[c].key = call[c].key
            /\ call'[c].live = call[c].live /\ call'[c].user = call[c].user
            /\ call'[c].keys = call[c].keys
            /\ call'[c].pc = "ok" => call[c].pc = "ok"

\* A step that touches neither page nor table disturbs none of the three.
LEMMA QuietSound ==
  ASSUME Spinning, Secrets, Lists, Quiet
  PROVE  Spinning' /\ Secrets' /\ Lists'
<1>1. \A op : Awaited(op)' = Awaited(op)
  BY DEF Quiet, Awaited
<1>2. Shown' = Shown /\ page' = page
  BY DEF Quiet, Shown
<1>3. OneList'
  BY DEF Quiet, Spinning, OneList
<1>4. Spinning'
  BY <1>1, <1>2, <1>3 DEF Spinning, SpinnersHonest
<1>5. \A c \in Calls : NewKey(c)' => NewKey(c) /\ call'[c].key = call[c].key
  BY DEF Quiet, NewKey
<1>6. Secrets'
  BY <1>5 DEF Quiet, Secrets
<1>7. \A u, ks : Accounted(u, ks) => Accounted(u, ks)'
  BY DEF Quiet, Accounted, OwnedBy, Live
<1>8. \A op : \A c \in Awaited(op) :
        c \in Calls /\ call'[c].key = call[c].key /\ call'[c].user = call[c].user
        /\ call'[c].keys = call[c].keys /\ (call'[c].pc = "ok" => call[c].pc = "ok")
  BY DEF Quiet, Awaited
<1>9. \A k : Live(k)' = Live(k)
  BY DEF Quiet, Live
<1>10. Shown' => Accounted(page.user, page.keys)' /\ (page.pending \in page.keys \cup {None})'
  BY <1>2, <1>7 DEF Lists
<1>11. \A c \in Awaited("list")' : call'[c].pc = "ok" => Accounted(call[c].user, call[c].keys)'
  BY <1>1, <1>7, <1>8 DEF Lists
<1>12. Lists'
  BY <1>1, <1>2, <1>8, <1>9, <1>10, <1>11 DEF Lists, Quiet
<1> QED BY <1>4, <1>6, <1>12

\* Moving one fetch on, to anything but an answer, is quiet.
LEMMA StepQuiet ==
  ASSUME TypeOK, NEW c \in Calls, call[c] # Idle,
         NEW pc \in {"forwarded", "inserting", "error"}, Step(c, pc),
         UNCHANGED <<owner, page, untold, shown>>
  PROVE  Quiet
  BY StepMoves DEF Quiet

\* The server's steps are quiet but for the three statements.
LEMMA ServeQuiet ==
  ASSUME TypeOK, CallsSound, NEW c \in Calls, Serve(c)
  PROVE  Quiet \/ List(c) \/ Delete(c) \/ \E k \in KeyIds : InsertKey(c, k)
<1>1. OffPage => page' = page /\ shown' = shown
  BY DEF OffPage
<1>2. bearer[c] # Idle => call[c] # Idle
  BY DEF CallsSound, CallSound, Waiting
<1>3. CASE RouteRefuses(c)
  BY <1>1, <1>3, StepQuiet DEF RouteRefuses, Waiting, ServerIdle
<1>4. CASE KeysProxy(c)
  BY <1>1, <1>4, StepQuiet DEF KeysProxy, Waiting
<1>5. CASE RequireUser(c)
  BY <1>1, <1>5 DEF RequireUser, Quiet
<1>6. CASE RequireUserRefuses(c) \/ AtCap(c) \/ DeleteMisses(c) \/ HandlerFails(c)
  <2>1. call[c] # Idle /\ Step(c, "error") /\ UNCHANGED <<owner, page, untold, shown>>
    BY <1>1, <1>2, <1>6 DEF RequireUserRefuses, AtCap, DeleteMisses, HandlerFails, Handling, At
  <2> QED BY <2>1, StepQuiet
<1>7. CASE CountKeys(c)
  BY <1>1, <1>2, <1>7, StepQuiet DEF CountKeys, Handling, At
<1>8. CASE InsertFails(c)
  BY <1>1, <1>8, StepQuiet DEF InsertFails, Waiting
<1> QED BY <1>3, <1>4, <1>5, <1>6, <1>7, <1>8 DEF Serve

\* Elsewhere, only a revocation or a mint of another tab is not quiet.
LEMMA AroundQuiet ==
  ASSUME TypeOK, CallsSound, Around
  PROVE  \/ Quiet
         \/ \E u \in Users, k \in KeyIds : RevokeElsewhere(u, k)
         \/ \E c \in Creators, k \in KeyIds : MintAlone(c, k)
<1>1. ASSUME NEW c \in Calls, InsertUnheard(c) \/ LoseAnswer(c) PROVE Quiet
  BY <1>1, StepQuiet DEF InsertUnheard, LoseAnswer, Waiting, ServerIdle
<1>2. CASE Restart
  <2>1. ASSUME NEW c \in Calls
        PROVE  /\ call'[c] = Idle <=> call[c] = Idle
               /\ call[c] # Idle =>
                    /\ call'[c].op = call[c].op /\ call'[c].key = call[c].key
                    /\ call'[c].live = call[c].live /\ call'[c].user = call[c].user
                    /\ call'[c].keys = call[c].keys
                    /\ call'[c].pc = "ok" => call[c].pc = "ok"
    <3> USE DashboardAssumption
    <3>1. CASE Inside(c) \/ Waiting(c, "inserting")
      <4>1. call[c] # Idle /\ call[c] \in Call
        BY <3>1 DEF CallsSound, CallSound, Inside, Waiting, TypeOK
      <4>2. call'[c] = [call[c] EXCEPT !.pc = "error"]
        BY <1>2, <3>1 DEF Restart
      <4>3. call'[c] \in Call
        BY <4>1, <4>2 DEF Call
      <4> QED BY <4>1, <4>2, <4>3 DEF Call
    <3>2. CASE ~(Inside(c) \/ Waiting(c, "inserting"))
      BY <1>2, <3>2 DEF Restart
    <3> QED BY <3>1, <3>2
  <2> QED BY <1>2, <2>1 DEF Restart, Quiet
<1>3. ASSUME \/ \E c \in Creators : MintAloneFails(c)
             \/ \E o \in Others, u \in Users : CountElsewhere(o, u)
             \/ \E u \in Users \cup {None} : SwitchSession(u)
             \/ \E c \in Calls : ExpireToken(c)
             \/ \E s \in SigningKeys : RotateKeys(s)
      PROVE  Quiet
  BY <1>3 DEF MintAloneFails, CountElsewhere, SwitchSession, ExpireToken, RotateKeys, siteVars, ServerIdle, Quiet
<1> QED BY <1>1, <1>2, <1>3 DEF Around

\* A table that changes under the page: a key appears, or one goes.
TableStep(k) ==
  \/ /\ owner[k] = Unminted
     /\ \E u \in Users : owner' = [owner EXCEPT ![k] = u]
     /\ untold' = untold \cup {<<k, "minted">>}
  \/ /\ owner[k] \in Users
     /\ owner' = [owner EXCEPT ![k] = Revoked]
     /\ untold' = untold \cup {<<k, "revoked">>}

\* A change of one key that untold takes note of leaves every list accounted for.
LEMMA TableStepSound ==
  ASSUME TypeOK, NEW k \in KeyIds, TableStep(k)
  PROVE  /\ \A u \in Users, ks \in SUBSET KeyIds : Accounted(u, ks) => Accounted(u, ks)'
         /\ (\A j \in KeyIds : <<j, "revoked">> \in untold => owner[j] = Revoked) =>
              \A j \in KeyIds : <<j, "revoked">> \in untold' => owner'[j] = Revoked
         /\ \A j \in KeyIds : owner[j] # Unminted => owner'[j] # Unminted
         /\ \A j \in KeyIds : owner[j] = Revoked => owner'[j] = Revoked
         /\ \A j \in KeyIds : Live(j) \/ <<j, "revoked">> \in untold => Live(j)' \/ <<j, "revoked">> \in untold'
         /\ untold \subseteq untold'
<1> USE DashboardAssumption
<1>1. \A j \in KeyIds : j # k => owner'[j] = owner[j]
  BY DEF TableStep, TypeOK
<1>2. CASE owner[k] = Unminted /\ owner'[k] \in Users /\ untold' = untold \cup {<<k, "minted">>}
  <2>1. \A j \in KeyIds : <<j, "revoked">> \in untold' <=> <<j, "revoked">> \in untold
    BY <1>2
  <2>2. \A u \in Users, ks \in SUBSET KeyIds : Accounted(u, ks) => Accounted(u, ks)'
    BY <1>1, <1>2, <2>1 DEF Accounted, OwnedBy, Live
  <2> QED BY <1>1, <1>2, <2>1, <2>2 DEF Live
<1>3. CASE owner[k] \in Users /\ owner'[k] = Revoked /\ untold' = untold \cup {<<k, "revoked">>}
  <2>1. \A j \in KeyIds : <<j, "revoked">> \in untold' <=> j = k \/ <<j, "revoked">> \in untold
    BY <1>3
  <2>2. \A j \in KeyIds : <<j, "minted">> \in untold' <=> <<j, "minted">> \in untold
    BY <1>3
  <2>3. \A u \in Users, ks \in SUBSET KeyIds : Accounted(u, ks) => Accounted(u, ks)'
    <3> SUFFICES ASSUME NEW u \in Users, NEW ks \in SUBSET KeyIds, Accounted(u, ks) PROVE Accounted(u, ks)'
      OBVIOUS
    <3>1. \A j \in (OwnedBy(u) \ ks)' : <<j, "minted">> \in untold'
      <4> TAKE j \in (OwnedBy(u) \ ks)'
      <4>1. j \in KeyIds /\ owner'[j] = u /\ j \notin ks
        BY DEF OwnedBy
      <4>2. CASE j # k
        BY <1>1, <2>2, <4>1, <4>2 DEF Accounted, OwnedBy
      <4>3. CASE j = k
        BY <1>3, <4>1, <4>3
      <4> QED BY <4>2, <4>3
    <3>2. \A j \in ks : ~Live(j)' => <<j, "revoked">> \in untold'
      BY <1>1, <1>3, <2>1 DEF Accounted, Live
    <3> QED BY <3>1, <3>2 DEF Accounted
  <2> QED BY <1>1, <1>3, <2>1, <2>3 DEF Live
<1> QED BY <1>2, <1>3 DEF TableStep, TypeOK

\* A revocation or a mint elsewhere is such a change.
LEMMA ElsewhereSound ==
  ASSUME SiteInv, NEW k \in KeyIds, TableStep(k), UNCHANGED <<page, call, shown>>
  PROVE  Spinning' /\ Secrets' /\ Lists'
<1> USE DashboardAssumption
<1>1. \A op : Awaited(op)' = Awaited(op)
  BY DEF Awaited
<1>2. Spinning'
  BY <1>1 DEF SiteInv, Spinning, OneList, SpinnersHonest, Shown
<1>3. \A c \in Calls : NewKey(c)' <=> NewKey(c)
  BY DEF NewKey
<1>4. \A c \in Calls : NewKey(c) => call[c].key \in KeyIds
  BY DEF NewKey, SiteInv, CallsSound, CallSound
<1>5. Secrets'
  BY <1>3, <1>4, TableStepSound DEF SiteInv, Secrets, TypeOK
<1>6. Shown => page.user \in Users /\ page.keys \in SUBSET KeyIds
  BY DEF SiteInv, TypeOK, Shown, Page
<1>7. Shown' => Accounted(page.user, page.keys)' /\ page'.pending \in page'.keys \cup {None}
  BY <1>6, TableStepSound DEF SiteInv, Lists, Shown
<1>8. \A c \in Awaited("list")' : call'[c].pc = "ok" => Accounted(call[c].user, call[c].keys)'
  <2>1. \A c \in Awaited("list") : call[c].pc = "ok" => call[c].user \in Users /\ call[c].keys \in SUBSET KeyIds
    BY DEF Awaited, SiteInv, CallsSound, CallSound, TypeOK, Call
  <2> QED BY <1>1, <2>1, TableStepSound DEF SiteInv, Lists
<1>9. \A c \in Awaited("delete")' : call'[c].pc = "ok" => owner'[call'[c].key] = Revoked
  <2>1. \A c \in Awaited("delete") : call[c].key \in KeyIds
    BY DEF Awaited, SiteInv, CallsSound, CallSound
  <2> QED BY <1>1, <2>1, TableStepSound DEF SiteInv, Lists
<1>10. \A c \in Awaited("create")' : call'[c].pc = "ok" =>
         call'[c].key \notin page'.keys /\ (Live(call[c].key)' \/ <<call'[c].key, "revoked">> \in untold')
  <2>1. \A c \in Awaited("create") : call[c].pc = "ok" => call[c].key \in KeyIds
    BY DEF Awaited, SiteInv, CallsSound, CallSound
  <2> QED BY <1>1, <2>1, TableStepSound DEF SiteInv, Lists
<1>11. \A c \in Awaited("delete")' : call'[c].key \in page'.keys
  BY <1>1 DEF SiteInv, Lists
<1>12. \A j \in KeyIds : <<j, "revoked">> \in untold' => owner'[j] = Revoked
  BY TableStepSound DEF SiteInv, Lists
<1>13. Lists'
  BY <1>7, <1>8, <1>9, <1>10, <1>11, <1>12 DEF Lists, Live
<1> QED BY <1>2, <1>5, <1>13

\* Opening and closing dialogs can only hide the secret.
LEMMA DialogSound ==
  ASSUME SiteInv, DialogStep
  PROVE  Spinning' /\ Secrets' /\ Lists'
<1>1. /\ Shown /\ Shown'
      /\ page'.user = page.user /\ page'.keys = page.keys
      /\ page'.creating = page.creating /\ page'.deleting = page.deleting
      /\ page'.revealed \in {page.revealed, None}
      /\ page'.pending \in {page.pending, None} \cup page.keys
      /\ UNCHANGED <<owner, call, untold, shown>>
  BY DialogMoves DEF SiteInv
<1>2. \A op : Awaited(op)' = Awaited(op)
  BY <1>1 DEF Awaited
<1>3. Spinning'
  BY <1>1, <1>2 DEF SiteInv, Spinning, OneList, SpinnersHonest
<1>4. Secrets'
  BY <1>1 DEF SiteInv, Secrets, NewKey
<1>5. \A u, ks : Accounted(u, ks)' <=> Accounted(u, ks)
  BY <1>1 DEF Accounted, OwnedBy, Live
<1>6. Shown' => Accounted(page.user, page.keys)' /\ page'.pending \in page'.keys \cup {None}
  BY <1>1, <1>5 DEF SiteInv, Lists
<1>7. Lists'
  BY <1>1, <1>2, <1>5, <1>6 DEF SiteInv, Lists, Live
<1> QED BY <1>3, <1>4, <1>7

\* A fetch just sent is awaited and has no answer.
LEMMA FetchAwaited ==
  ASSUME TypeOK, NEW c \in Calls, NEW op \in {"list", "create", "delete"},
         NEW k \in KeyIds \cup {None}, Fetch(c, op, k)
  PROVE  /\ Awaited(op)' = Awaited(op) \cup {c}
         /\ \A other : other # op => Awaited(other)' = Awaited(other)
         /\ \A other : c \notin Awaited(other)
         /\ \A d \in Calls : NewKey(d)' => NewKey(d) /\ d # c /\ call'[d] = call[d]
<1>1. /\ call[c] = Idle /\ call'[c] # Idle
      /\ call'[c].op = op /\ call'[c].key = k /\ call'[c].live /\ call'[c].pc = "sent"
      /\ \A d \in Calls : d # c => call'[d] = call[d]
  BY FetchSends
<1>2. Awaited(op)' = Awaited(op) \cup {c}
  BY <1>1 DEF Awaited
<1>3. \A other : other # op => Awaited(other)' = Awaited(other)
  BY <1>1 DEF Awaited
<1> QED BY <1>1, <1>2, <1>3 DEF Awaited, NewKey

\* A fetch begins with its spinner, and knows no key yet.
LEMMA SendSound ==
  ASSUME SiteInv, NEW c \in Calls, Visit(c) \/ HandleCreate(c) \/ HandleDelete(c)
  PROVE  Spinning' /\ Secrets' /\ Lists'
<1> USE DashboardAssumption
<1>1. UNCHANGED <<owner, untold, shown>>
  BY DEF Visit, HandleCreate, HandleDelete, OnPage, ServerIdle
<1>2. \A u, ks : Accounted(u, ks)' <=> Accounted(u, ks)
  BY <1>1 DEF Accounted, OwnedBy, Live
<1>3. \A k : Live(k)' <=> Live(k)
  BY <1>1 DEF Live
<1>4. CASE Visit(c)
  <2>1. Fetch(c, "list", None) /\ page' = page /\ ~Shown /\ ~Shown' /\ ~Loading
    BY <1>4 DEF Visit, Shown
  <2>2. /\ Awaited("list") = {} /\ Awaited("list")' = {c} /\ call'[c].pc = "sent"
        /\ Awaited("create")' = Awaited("create") /\ Awaited("delete")' = Awaited("delete")
        /\ \A d \in Calls : d # c => call'[d] = call[d]
        /\ c \notin Awaited("create") /\ c \notin Awaited("delete")
    <3>1. Awaited("list") = {}
      BY <2>1 DEF Loading, Awaited
    <3> QED BY <2>1, <3>1, FetchAwaited, FetchSends DEF SiteInv
  <2>3. \A d \in Calls : NewKey(d)' => NewKey(d) /\ call'[d] = call[d]
    BY <2>1, FetchAwaited DEF SiteInv
  <2>4. OneList'
    <3>1. \A d \in Calls : call'[d] # Idle /\ call'[d].live /\ call'[d].op = "list" => d \in Awaited("list")'
      BY DEF Awaited
    <3> QED BY <2>2, <3>1 DEF OneList
  <2>5. Spinning'
    BY <2>1, <2>4 DEF Spinning, SpinnersHonest
  <2>6. Secrets'
    BY <1>1, <2>3 DEF SiteInv, Secrets
  <2>7. \A d \in Awaited("create") \cup Awaited("delete") : d \in Calls /\ d # c
    BY <2>2 DEF Awaited
  <2>8. Lists'
    BY <1>1, <1>2, <1>3, <2>1, <2>2, <2>7 DEF SiteInv, Lists
  <2> QED BY <2>5, <2>6, <2>8
<1>5. CASE HandleCreate(c)
  <2>1. Fetch(c, "create", None) /\ page \in Page /\ Shown /\ ~page.creating /\ page.revealed = None
    BY <1>5 DEF HandleCreate, InFront, Shown, SiteInv, TypeOK
  <2>2. /\ Shown' /\ page'.user = page.user /\ page'.keys = page.keys /\ page'.creating
        /\ page'.deleting = page.deleting /\ page'.revealed = None /\ page'.pending = page.pending
    BY <1>5, <2>1 DEF HandleCreate, Shown, Page
  <2>3. /\ Awaited("create") = {} /\ Awaited("create")' = {c} /\ call'[c].pc = "sent"
        /\ Awaited("list")' = Awaited("list") /\ Awaited("delete")' = Awaited("delete")
        /\ \A d \in Calls : d # c => call'[d] = call[d]
        /\ c \notin Awaited("list") /\ c \notin Awaited("delete")
    <3>1. Awaited("create") = {}
      BY <2>1 DEF SiteInv, Spinning, SpinnersHonest
    <3> QED BY <2>1, <3>1, FetchAwaited, FetchSends DEF SiteInv
  <2>4. OneList'
    <3>1. \A d \in Calls : call'[d] # Idle /\ call'[d].live /\ call'[d].op = "list" => d \in Awaited("list")
      BY <2>3 DEF Awaited
    <3> QED BY <3>1 DEF OneList, Awaited, SiteInv, Spinning
  <2>5. Spinning'
    BY <2>1, <2>2, <2>3, <2>4 DEF Spinning, SpinnersHonest, SiteInv
  <2>6. Secrets'
    BY <1>1, <2>1, FetchAwaited DEF SiteInv, Secrets
  <2>7. \A d \in Awaited("list") \cup Awaited("delete") : d \in Calls /\ d # c
    BY <2>3 DEF Awaited
  <2>8. Lists'
    BY <1>1, <1>2, <1>3, <2>1, <2>2, <2>3, <2>7 DEF SiteInv, Lists
  <2> QED BY <2>5, <2>6, <2>8
<1>6. CASE HandleDelete(c)
  <2>1. page \in Page /\ Shown /\ ~page.deleting /\ page.pending \in KeyIds /\ page.pending \in page.keys
    BY <1>6 DEF HandleDelete, InFront, Shown, SiteInv, TypeOK, Page, Lists
  <2>2. Fetch(c, "delete", page.pending)
    BY <1>6 DEF HandleDelete
  <2>3. /\ Shown' /\ page'.user = page.user /\ page'.keys = page.keys /\ page'.deleting
        /\ page'.creating = page.creating /\ page'.revealed = page.revealed /\ page'.pending = page.pending
    BY <1>6, <2>1 DEF HandleDelete, Shown, Page
  <2>4. /\ Awaited("delete") = {} /\ Awaited("delete")' = {c} /\ call'[c].pc = "sent" /\ call'[c].key = page.pending
        /\ Awaited("list")' = Awaited("list") /\ Awaited("create")' = Awaited("create")
        /\ \A d \in Calls : d # c => call'[d] = call[d]
        /\ c \notin Awaited("list") /\ c \notin Awaited("create")
    <3>1. Awaited("delete") = {}
      BY <2>1 DEF SiteInv, Spinning, SpinnersHonest
    <3> QED BY <2>1, <2>2, <3>1, FetchAwaited, FetchSends DEF SiteInv
  <2>5. OneList'
    <3>1. \A d \in Calls : call'[d] # Idle /\ call'[d].live /\ call'[d].op = "list" => d \in Awaited("list")
      BY <2>4 DEF Awaited
    <3> QED BY <3>1 DEF OneList, Awaited, SiteInv, Spinning
  <2>6. Spinning'
    BY <2>1, <2>3, <2>4, <2>5 DEF Spinning, SpinnersHonest, SiteInv
  <2>7. Secrets'
    BY <1>1, <2>1, <2>2, FetchAwaited DEF SiteInv, Secrets
  <2>8. \A d \in Awaited("list") \cup Awaited("create") : d \in Calls /\ d # c
    BY <2>4 DEF Awaited
  <2>9. Lists'
    BY <1>1, <1>2, <1>3, <2>1, <2>3, <2>4, <2>8 DEF SiteInv, Lists
  <2> QED BY <2>6, <2>7, <2>9
<1> QED BY <1>4, <1>5, <1>6

\* Leaving the page ends the spinners and forgets the secret and the list.
LEMMA LeaveSound ==
  ASSUME SiteInv, Leave
  PROVE  Spinning' /\ Secrets' /\ Lists'
<1>1. UNCHANGED <<owner, untold, shown>> /\ ~Shown'
  BY DEF Leave, ServerIdle, Shown
<1>2. \A op : Awaited(op)' = {}
  BY LeftAlone DEF Awaited, SiteInv
<1>3. OneList'
  BY LeftAlone DEF OneList, SiteInv
<1>4. \A d \in Calls : (NewKey(d)' <=> NewKey(d)) /\ (NewKey(d) => call'[d].key = call[d].key)
  BY LeftAlone DEF NewKey, SiteInv
<1>5. Secrets'
  BY <1>1, <1>4 DEF SiteInv, Secrets
<1> QED BY <1>1, <1>2, <1>3, <1>5 DEF SiteInv, Spinning, SpinnersHonest, Lists

\* A list just read is the table's.
LEMMA ListSound ==
  ASSUME SiteInv, NEW c \in Calls, List(c)
  PROVE  Spinning' /\ Secrets' /\ Lists'
<1> USE DashboardAssumption
<1> PICK u : u = bearer[c].user
  OBVIOUS
<1> PICK mine : mine = OwnedBy(u)
  OBVIOUS
<1> DEFINE answer == [call[c] EXCEPT !.pc = "ok", !.user = u, !.keys = mine]
<1>1. call[c] \in Call /\ call[c] # Idle /\ call[c].op = "list" /\ call[c].pc = "forwarded" /\ u \in Users
  BY DEF List, Handling, Waiting, At, SiteInv, TypeOK, AuthTypeOK, Token
<1>2. /\ answer \in Call /\ answer.op = "list" /\ answer.live = call[c].live /\ answer.pc = "ok"
      /\ answer.user = u /\ answer.keys = mine /\ answer.key = call[c].key
  BY <1>1 DEF Call, OwnedBy
<1>3. call'[c] = answer /\ \A d \in Calls : d # c => call'[d] = call[d]
  BY DEF List, SiteInv, TypeOK
<1>4. UNCHANGED <<owner, page, shown>> /\ untold' = IF call[c].live THEN {} ELSE untold
  BY DEF List, OffPage
<1> HIDE DEF answer
<1>5. \A op : Awaited(op)' = Awaited(op)
  BY <1>1, <1>2, <1>3 DEF Awaited
<1>6. OneList'
  BY <1>1, <1>2, <1>3 DEF OneList, SiteInv, Spinning
<1>7. Spinning'
  BY <1>4, <1>5, <1>6 DEF SiteInv, Spinning, SpinnersHonest, Shown
<1>8. \A d \in Calls : NewKey(d)' => NewKey(d) /\ call'[d] = call[d]
  BY <1>2, <1>3 DEF NewKey
<1>9. Secrets'
  BY <1>4, <1>8 DEF SiteInv, Secrets
<1>10. CASE call[c].live
  <2>1. untold' = {} /\ ~Shown /\ ~Shown'
    BY <1>1, <1>4, <1>10 DEF SiteInv, CallsSound, CallSound, Shown
  <2>2. Awaited("list")' \subseteq {c} /\ Awaited("create")' = {} /\ Awaited("delete")' = {}
    <3>1. Awaited("list") \subseteq {c}
      BY <1>1, <1>10 DEF Awaited, SiteInv, Spinning, OneList
    <3>2. Awaited("create") = {} /\ Awaited("delete") = {}
      BY <2>1 DEF Awaited, SiteInv, CallsSound, CallSound
    <3> QED BY <1>5, <3>1, <3>2
  <2>3. Accounted(u, mine)'
    BY <1>1, <1>4 DEF Accounted, OwnedBy, Live
  <2>4. call'[c].user = u /\ call'[c].keys = mine
    BY <1>2, <1>3
  <2>5. \A d \in Awaited("list")' : Accounted(call[d].user, call[d].keys)'
    BY <2>2, <2>3, <2>4 DEF Accounted, OwnedBy, Live
  <2> QED BY <1>7, <1>9, <2>1, <2>2, <2>5 DEF Lists
<1>11. CASE ~call[c].live
  <2>1. \A op : c \notin Awaited(op)
    BY <1>11 DEF Awaited
  <2>2. untold' = untold
    BY <1>4, <1>11
  <2>3. \A v, ks : Accounted(v, ks)' <=> Accounted(v, ks)
    BY <1>4, <2>2 DEF Accounted, OwnedBy, Live
  <2>4. \A op : \A d \in Awaited(op) : call'[d] = call[d]
    BY <1>3, <2>1 DEF Awaited
  <2>5. \A k : Live(k)' <=> Live(k)
    BY <1>4 DEF Live
  <2>6. Lists'
    BY <1>4, <1>5, <2>2, <2>3, <2>4, <2>5 DEF SiteInv, Lists, Shown
  <2> QED BY <1>7, <1>9, <2>6
<1> QED BY <1>10, <1>11

\* The key a creation inserts is new, and its secret with that fetch only.
LEMMA InsertSound ==
  ASSUME SiteInv, NEW c \in Calls, NEW k \in KeyIds, InsertKey(c, k)
  PROVE  Spinning' /\ Secrets' /\ Lists'
<1> USE DashboardAssumption
<1> DEFINE answer == [call[c] EXCEPT !.pc = "ok", !.key = k]
<1>1. call[c] \in Call /\ call[c] # Idle /\ call[c].op = "create" /\ call[c].pc = "inserting"
  BY DEF InsertKey, Waiting, SiteInv, CallsSound, CallSound, TypeOK
<1>2. /\ answer \in Call /\ answer.op = "create" /\ answer.live = call[c].live /\ answer.pc = "ok"
      /\ answer.user = call[c].user /\ answer.key = k
  BY <1>1 DEF Call
<1>3. call'[c] = answer /\ \A d \in Calls : d # c => call'[d] = call[d]
  BY DEF InsertKey, SiteInv, TypeOK
<1>4. UNCHANGED <<page, shown>>
  BY DEF InsertKey, OffPage
<1>5. c \in Creators
  BY DEF Creators
<1>6. TableStep(k) /\ owner[k] = Unminted /\ owner'[k] \in Users /\ owner'[k] # Unminted
  BY <1>5, MintType DEF InsertKey, Mint, TableStep, SiteInv, TypeOK
<1> HIDE DEF answer
<1>7. \A op : Awaited(op)' = Awaited(op)
  BY <1>1, <1>2, <1>3 DEF Awaited
<1>8. OneList'
  BY <1>1, <1>2, <1>3 DEF OneList, SiteInv, Spinning
<1>9. Spinning'
  BY <1>4, <1>7, <1>8 DEF SiteInv, Spinning, SpinnersHonest, Shown
<1>10. \A d \in Calls : NewKey(d)' <=> NewKey(d) \/ d = c
  BY <1>2, <1>3 DEF NewKey
<1>11. call'[c].key = k /\ \A d \in Calls : d # c => call'[d].key = call[d].key
  BY <1>2, <1>3
<1>12. \A d \in Calls : NewKey(d) => call[d].key \in KeyIds /\ call[d].key # k
  BY <1>6 DEF NewKey, SiteInv, CallsSound, CallSound, Secrets
<1>13. k \notin shown
  BY <1>6 DEF SiteInv, Secrets
<1>14. Secrets'
  <2>1. \A j \in shown' : owner'[j] # Unminted
    BY <1>4, TableStepSound, <1>6 DEF SiteInv, Secrets, TypeOK
  <2>2. \A d \in Calls : NewKey(d)' => owner'[call'[d].key] # Unminted /\ call'[d].key \notin shown'
    BY <1>4, <1>6, <1>10, <1>11, <1>12, <1>13, TableStepSound DEF SiteInv, Secrets
  <2>3. \A d, e \in Calls : NewKey(d)' /\ NewKey(e)' /\ call'[d].key = call'[e].key => d = e
    BY <1>10, <1>11, <1>12 DEF SiteInv, Secrets
  <2> QED BY <2>1, <2>2, <2>3 DEF Secrets
<1>15. Shown => page.user \in Users /\ page.keys \in SUBSET KeyIds
  BY DEF SiteInv, TypeOK, Shown, Page
<1>16. Shown' => Accounted(page.user, page.keys)' /\ page'.pending \in page'.keys \cup {None}
  <2>1. Shown => Accounted(page.user, page.keys)'
    BY <1>4, <1>6, <1>15, TableStepSound DEF SiteInv, Lists
  <2> QED BY <1>4, <2>1 DEF SiteInv, Lists, Shown
<1>17. \A op \in {"list", "delete"} : \A d \in Awaited(op) : d \in Calls /\ d # c /\ call'[d] = call[d]
  BY <1>1, <1>3 DEF Awaited
<1>18. \A d \in Awaited("list")' : call'[d].pc = "ok" => Accounted(call[d].user, call[d].keys)'
  <2>1. \A d \in Awaited("list") : call[d].pc = "ok" => call[d].user \in Users /\ call[d].keys \in SUBSET KeyIds
    BY DEF Awaited, SiteInv, CallsSound, CallSound, TypeOK, Call
  <2>2. \A d \in Awaited("list") : call[d].pc = "ok" => Accounted(call[d].user, call[d].keys)'
    BY <1>6, <1>17, <2>1, TableStepSound DEF SiteInv, Lists
  <2> QED BY <1>7, <1>17, <2>2
<1>19. \A d \in Awaited("delete")' : call'[d].pc = "ok" => owner'[call'[d].key] = Revoked
  <2>1. \A d \in Awaited("delete") : call[d].key \in KeyIds
    BY DEF Awaited, SiteInv, CallsSound, CallSound
  <2> QED BY <1>6, <1>7, <1>17, <2>1, TableStepSound DEF SiteInv, Lists
<1>20. \A d \in Awaited("delete")' : call'[d].key \in page'.keys
  BY <1>4, <1>7, <1>17 DEF SiteInv, Lists
<1>21. \A d \in Awaited("create")' : call'[d].pc = "ok" =>
         call'[d].key \notin page'.keys /\ (Live(call[d].key)' \/ <<call'[d].key, "revoked">> \in untold')
  <2>1. ASSUME NEW d \in Awaited("create"), d # c, call[d].pc = "ok"
        PROVE  call'[d].key \notin page'.keys /\ (Live(call[d].key)' \/ <<call'[d].key, "revoked">> \in untold')
    <3>1. call[d].key \in KeyIds /\ call'[d].key = call[d].key
      BY <1>11, <2>1 DEF Awaited, SiteInv, CallsSound, CallSound
    <3>2. call[d].key \notin page.keys /\ (Live(call[d].key) \/ <<call[d].key, "revoked">> \in untold)
      BY <2>1 DEF SiteInv, Lists
    <3>3. Live(call[d].key)' \/ <<call[d].key, "revoked">> \in untold'
      BY <1>6, <3>1, <3>2, TableStepSound DEF SiteInv, Live
    <3> QED BY <1>4, <3>1, <3>2, <3>3 DEF Live
  <2>2. ASSUME c \in Awaited("create")
        PROVE  k \notin page.keys /\ owner'[k] \in Users
    <3>1. Shown
      BY <2>2 DEF Awaited, SiteInv, CallsSound, CallSound
    <3>2. owner[k] # Revoked /\ ~Live(k)
      BY <1>6 DEF Live
    <3> QED BY <1>6, <3>1, <3>2 DEF SiteInv, Lists, Accounted
  <2> SUFFICES ASSUME NEW d \in Awaited("create")', call'[d].pc = "ok"
               PROVE  call'[d].key \notin page'.keys /\ (Live(call[d].key)' \/ <<call'[d].key, "revoked">> \in untold')
    OBVIOUS
  <2>3. d \in Awaited("create") /\ d \in Calls
    BY <1>7 DEF Awaited
  <2>4. CASE d = c
    BY <1>4, <1>11, <2>2, <2>3, <2>4 DEF Live
  <2>5. CASE d # c
    <3>1. call[d].pc = "ok"
      BY <1>3, <2>3, <2>5
    <3> QED BY <2>1, <2>3, <2>5, <3>1
  <2> QED BY <2>4, <2>5
<1>22. \A j \in KeyIds : <<j, "revoked">> \in untold' => owner'[j] = Revoked
  BY <1>6, TableStepSound DEF SiteInv, Lists
<1>23. Lists'
  BY <1>16, <1>18, <1>19, <1>20, <1>21, <1>22 DEF Lists, Live
<1> QED BY <1>9, <1>14, <1>23

\* A key deleted for the page is one the page is yet to be told of.
LEMMA DeleteSound ==
  ASSUME SiteInv, NEW c \in Calls, Delete(c)
  PROVE  Spinning' /\ Secrets' /\ Lists'
<1> USE DashboardAssumption
<1> PICK k : k = call[c].key
  OBVIOUS
<1>1. call[c] # Idle /\ call[c].op = "delete" /\ call[c].pc = "forwarded" /\ k \in KeyIds
  BY DEF Delete, Handling, Waiting, SiteInv, CallsSound, CallSound
<1>2. PICK pc \in {"ok", "error"} : Step(c, pc)
  BY DEF Delete
<1>3. /\ call'[c] # Idle /\ call'[c].op = "delete" /\ call'[c].key = k /\ call'[c].live = call[c].live
      /\ \A d \in Calls : d # c => call'[d] = call[d]
  BY <1>1, <1>2, StepMoves DEF SiteInv
<1>4. UNCHANGED <<page, shown>> /\ TableStep(k) /\ owner'[k] = Revoked
  <2>1. bearer[c].user \in Users
    BY DEF Delete, Handling, At, SiteInv, TypeOK, AuthTypeOK, Token
  <2> QED BY <1>1, <2>1 DEF Delete, OffPage, TableStep, SiteInv, TypeOK
<1>5. \A op : Awaited(op)' = Awaited(op)
  BY <1>1, <1>3 DEF Awaited
<1>6. OneList'
  BY <1>1, <1>3 DEF OneList, SiteInv, Spinning
<1>7. Spinning'
  BY <1>4, <1>5, <1>6 DEF SiteInv, Spinning, SpinnersHonest, Shown
<1>8. \A d \in Calls : (NewKey(d)' <=> NewKey(d)) /\ (NewKey(d) => call'[d] = call[d] /\ call[d].key \in KeyIds)
  BY <1>1, <1>3 DEF NewKey, SiteInv, CallsSound, CallSound
<1>9. Secrets'
  <2>1. \A j \in shown' : owner'[j] # Unminted
    BY <1>1, <1>4, TableStepSound DEF SiteInv, Secrets, TypeOK
  <2>2. \A d \in Calls : NewKey(d)' => owner'[call'[d].key] # Unminted /\ call'[d].key \notin shown'
    BY <1>1, <1>4, <1>8, TableStepSound DEF SiteInv, Secrets
  <2>3. \A d, e \in Calls : NewKey(d)' /\ NewKey(e)' /\ call'[d].key = call'[e].key => d = e
    BY <1>8 DEF SiteInv, Secrets
  <2> QED BY <2>1, <2>2, <2>3 DEF Secrets
<1>10. Shown => page.user \in Users /\ page.keys \in SUBSET KeyIds
  BY DEF SiteInv, TypeOK, Shown, Page
<1>11. Shown' => Accounted(page.user, page.keys)' /\ page'.pending \in page'.keys \cup {None}
  <2>1. Shown => Accounted(page.user, page.keys)'
    BY <1>1, <1>4, <1>10, TableStepSound DEF SiteInv, Lists
  <2> QED BY <1>4, <2>1 DEF SiteInv, Lists, Shown
<1>12. \A op \in {"list", "create"} : \A d \in Awaited(op) : d \in Calls /\ d # c /\ call'[d] = call[d]
  BY <1>1, <1>3 DEF Awaited
<1>13. \A d \in Awaited("list")' : call'[d].pc = "ok" => Accounted(call[d].user, call[d].keys)'
  <2>1. \A d \in Awaited("list") : call[d].pc = "ok" => call[d].user \in Users /\ call[d].keys \in SUBSET KeyIds
    BY DEF Awaited, SiteInv, CallsSound, CallSound, TypeOK, Call
  <2>2. \A d \in Awaited("list") : call[d].pc = "ok" => Accounted(call[d].user, call[d].keys)'
    BY <1>1, <1>4, <1>12, <2>1, TableStepSound DEF SiteInv, Lists
  <2> QED BY <1>5, <1>12, <2>2
<1>14. \A d \in Awaited("delete")' : call'[d].key \in page'.keys /\ (call'[d].pc = "ok" => owner'[call'[d].key] = Revoked)
  <2> SUFFICES ASSUME NEW d \in Awaited("delete")
               PROVE  call'[d].key \in page'.keys /\ (call'[d].pc = "ok" => owner'[call'[d].key] = Revoked)
    BY <1>5
  <2>1. d \in Calls /\ call[d].key \in KeyIds /\ call[d].key \in page.keys
    BY DEF Awaited, SiteInv, CallsSound, CallSound, Lists
  <2>2. CASE d = c
    BY <1>3, <1>4, <2>1, <2>2
  <2>3. CASE d # c
    BY <1>1, <1>3, <1>4, <2>1, <2>3, TableStepSound DEF SiteInv, Lists
  <2> QED BY <2>2, <2>3
<1>15. \A d \in Awaited("create")' : call'[d].pc = "ok" =>
         call'[d].key \notin page'.keys /\ (Live(call[d].key)' \/ <<call'[d].key, "revoked">> \in untold')
  <2> SUFFICES ASSUME NEW d \in Awaited("create")', call'[d].pc = "ok"
               PROVE  call'[d].key \notin page'.keys /\ (Live(call[d].key)' \/ <<call'[d].key, "revoked">> \in untold')
    OBVIOUS
  <2>1. d \in Awaited("create") /\ d \in Calls /\ call'[d] = call[d] /\ call[d].pc = "ok"
    BY <1>5, <1>12
  <2>2. call[d].key \in KeyIds
    BY <2>1 DEF Awaited, SiteInv, CallsSound, CallSound
  <2>3. call[d].key \notin page.keys /\ (Live(call[d].key) \/ <<call[d].key, "revoked">> \in untold)
    BY <2>1 DEF SiteInv, Lists
  <2>4. Live(call[d].key)' \/ <<call[d].key, "revoked">> \in untold'
    BY <1>1, <1>4, <2>1, <2>2, <2>3, TableStepSound DEF SiteInv, Live
  <2> QED BY <1>4, <2>1, <2>3, <2>4
<1>16. \A j \in KeyIds : <<j, "revoked">> \in untold' => owner'[j] = Revoked
  BY <1>1, <1>4, TableStepSound DEF SiteInv, Lists
<1>17. Lists'
  BY <1>11, <1>13, <1>14, <1>15, <1>16 DEF Lists, Live
<1> QED BY <1>7, <1>9, <1>17

\* A fetch whose answer arrives is awaited no more.
LEMMA AnswerAwaited ==
  ASSUME SiteInv, NEW c \in Calls, Answer(c)
  PROVE  /\ call[c] # Idle /\ call'[c] = Idle
         /\ UNCHANGED owner
         /\ \A op : Awaited(op)' = Awaited(op) \ {c}
         /\ \A d \in Calls : d # c => call'[d] = call[d]
         /\ \A d \in Calls : NewKey(d)' => NewKey(d) /\ d # c /\ call'[d] = call[d]
<1>1. Received(c) /\ call[c] # Idle
  BY DEF Answer, PageLoads, PageFails, Created, CreateFails, Deleted, DeleteFails, Unheard, Arrived
<1>2. call'[c] = Idle /\ (\A d \in Calls : d # c => call'[d] = call[d]) /\ owner' = owner
  BY <1>1 DEF Received, ServerIdle, SiteInv, TypeOK
<1>3. \A op : Awaited(op)' = Awaited(op) \ {c}
  BY <1>2 DEF Awaited
<1>4. \A d \in Calls : NewKey(d)' => NewKey(d) /\ d # c /\ call'[d] = call[d]
  BY <1>2 DEF NewKey
<1> QED BY <1>1, <1>2, <1>3, <1>4

\* An answer that changes no list leaves the lists on their way accounted for.
LEMMA OtherLists ==
  ASSUME SiteInv, NEW c \in Calls, Answer(c), untold' = untold
  PROVE  /\ \A u, ks : Accounted(u, ks) => Accounted(u, ks)'
         /\ \A d \in Awaited("list")' : call'[d].pc = "ok" => Accounted(call[d].user, call[d].keys)'
<1>1. \A u, ks : Accounted(u, ks) => Accounted(u, ks)'
  BY AnswerAwaited DEF Accounted, OwnedBy, Live
<1>2. \A d \in Awaited("list")' : call'[d] = call[d] /\ d \in Awaited("list")
  BY AnswerAwaited DEF Awaited
<1>3. \A d \in Awaited("list") : call[d].pc = "ok" => Accounted(call[d].user, call[d].keys)
  BY DEF SiteInv, Lists
<1> QED BY <1>1, <1>2, <1>3, AnswerAwaited DEF Accounted, OwnedBy, Live

\* An answer ends its own spinner.
LEMMA AnswerSpinning ==
  ASSUME SiteInv, NEW c \in Calls, Answer(c)
  PROVE  Spinning'
<1>1. /\ call[c] # Idle
      /\ \A op : Awaited(op)' = Awaited(op) \ {c}
      /\ \A d \in Calls : d # c => call'[d] = call[d]
      /\ call'[c] = Idle
  BY AnswerAwaited
<1>2. OneList'
  BY <1>1 DEF OneList, SiteInv, Spinning
<1>3. CASE Unheard(c) \/ PageFails(c)
  <2>1. page' = page /\ Shown' = Shown
    BY <1>3 DEF Unheard, PageFails, Shown
  <2>2. c \notin Awaited("create") /\ c \notin Awaited("delete")
    BY <1>3 DEF Awaited, Unheard, PageFails, Arrived
  <2> QED BY <1>1, <1>2, <2>1, <2>2 DEF SiteInv, Spinning, SpinnersHonest
<1>4. CASE PageLoads(c)
  <2>1. ~Shown /\ Shown' /\ ~page'.creating /\ ~page'.deleting
    BY <1>1, <1>4, AnswerMoves DEF SiteInv
  <2>2. Awaited("create") = {} /\ Awaited("delete") = {}
    BY <2>1 DEF Awaited, SiteInv, CallsSound, CallSound
  <2> QED BY <1>1, <1>2, <2>1, <2>2 DEF Spinning, SpinnersHonest
<1>5. CASE Created(c) \/ CreateFails(c)
  <2>1. /\ Shown /\ Shown' /\ ~page'.creating /\ page'.deleting = page.deleting
    BY <1>1, <1>5, AnswerMoves DEF SiteInv
  <2>2. c \in Awaited("create") /\ c \notin Awaited("delete")
    BY <1>5 DEF Awaited, Created, CreateFails, Arrived
  <2>3. Awaited("create")' = {} /\ Awaited("delete")' = Awaited("delete")
    BY <1>1, <2>1, <2>2 DEF SiteInv, Spinning, SpinnersHonest
  <2> QED BY <1>2, <2>1, <2>3 DEF SiteInv, Spinning, SpinnersHonest
<1>6. CASE Deleted(c) \/ DeleteFails(c)
  <2>1. /\ Shown /\ Shown' /\ ~page'.deleting /\ page'.creating = page.creating /\ page'.revealed = page.revealed
    BY <1>1, <1>6, AnswerMoves DEF SiteInv
  <2>2. c \in Awaited("delete") /\ c \notin Awaited("create")
    BY <1>6 DEF Awaited, Deleted, DeleteFails, Arrived
  <2>3. Awaited("delete")' = {} /\ Awaited("create")' = Awaited("create")
    BY <1>1, <2>1, <2>2 DEF SiteInv, Spinning, SpinnersHonest
  <2> QED BY <1>2, <2>1, <2>3 DEF SiteInv, Spinning, SpinnersHonest
<1> QED BY <1>3, <1>4, <1>5, <1>6 DEF Answer

\* An answer shows its secret, which no other fetch has, once.
LEMMA AnswerSecrets ==
  ASSUME SiteInv, NEW c \in Calls, Answer(c)
  PROVE  Secrets'
<1>1. /\ call[c] # Idle /\ owner' = owner
      /\ \A d \in Calls : NewKey(d)' => NewKey(d) /\ d # c /\ call'[d] = call[d]
  BY AnswerAwaited
<1>2. CASE shown' = shown
  BY <1>1, <1>2 DEF SiteInv, Secrets
<1>3. CASE Created(c)
  <2>1. NewKey(c) /\ shown' = shown \cup {call[c].key}
    BY <1>3 DEF Created, Arrived, NewKey
  <2> QED BY <1>1, <2>1 DEF SiteInv, Secrets
<1> QED BY <1>2, <1>3 DEF Answer, PageLoads, PageFails, CreateFails, Deleted, DeleteFails, Unheard

\* What an answer puts on the page differs from the table by no more than untold.
LEMMA AnswerLists ==
  ASSUME SiteInv, NEW c \in Calls, Answer(c)
  PROVE  Lists'
<1> USE DashboardAssumption
<1>1. /\ call[c] # Idle /\ owner' = owner
      /\ \A op : Awaited(op)' = Awaited(op) \ {c}
      /\ \A d \in Calls : d # c => call'[d] = call[d]
  BY AnswerAwaited
<1>2. \A op : \A d \in Awaited(op)' : d \in Awaited(op) /\ call'[d] = call[d]
  BY <1>1 DEF Awaited
<1>3. \A k : Live(k)' <=> Live(k)
  BY <1>1 DEF Live
<1>4. CASE Unheard(c) \/ PageFails(c)
  <2>1. page' = page /\ Shown' = Shown /\ untold' = untold
    BY <1>4 DEF Unheard, PageFails, Shown
  <2> QED BY <1>1, <1>2, <1>3, <2>1, OtherLists DEF SiteInv, Lists
<1>5. CASE PageLoads(c)
  <2>1. ~Shown /\ Shown' /\ page'.pending = None /\ page'.user = call[c].user /\ page'.keys = call[c].keys
    BY <1>1, <1>5, AnswerMoves DEF SiteInv
  <2>2. Awaited("create") = {} /\ Awaited("delete") = {} /\ untold' = untold
    BY <1>5, <2>1 DEF Awaited, SiteInv, CallsSound, CallSound, PageLoads
  <2>3. Accounted(call[c].user, call[c].keys)
    BY <1>5 DEF PageLoads, Arrived, Awaited, SiteInv, Lists
  <2>4. Accounted(page.user, page.keys)'
    BY <1>1, <2>1, <2>2, <2>3 DEF Accounted, OwnedBy, Live
  <2> QED BY <1>1, <1>2, <2>1, <2>2, <2>4, OtherLists DEF SiteInv, Lists
<1>6. CASE CreateFails(c) \/ DeleteFails(c)
  <2>1. Shown /\ Shown' /\ page'.pending = page.pending /\ page'.user = page.user /\ page'.keys = page.keys
    BY <1>1, <1>6, AnswerMoves DEF SiteInv
  <2>2. untold' = untold
    BY <1>6 DEF CreateFails, DeleteFails
  <2>3. Accounted(page.user, page.keys)'
    BY <1>1, <2>1, <2>2 DEF SiteInv, Lists, Accounted, OwnedBy, Live
  <2> QED BY <1>1, <1>2, <1>3, <2>1, <2>2, <2>3, OtherLists DEF SiteInv, Lists
<1>7. CASE Created(c)
  <2> PICK k : k = call[c].key
    OBVIOUS
  <2>1. /\ Shown /\ Shown' /\ k \in KeyIds /\ page'.user = page.user
        /\ page'.keys = page.keys \cup {k} /\ page'.pending = page.pending
    BY <1>1, <1>7, AnswerMoves DEF SiteInv
  <2>2. untold' = untold \ {<<k, "minted">>}
    BY <1>7 DEF Created, Told
  <2>3. c \in Awaited("create") /\ call[c].pc = "ok"
    BY <1>7 DEF Created, Arrived, Awaited
  <2>4. Live(k) \/ <<k, "revoked">> \in untold
    BY <2>3 DEF SiteInv, Lists
  <2>5. \A j : <<j, "revoked">> \in untold' <=> <<j, "revoked">> \in untold
    BY <2>2
  <2>6. Accounted(page.user, page.keys)'
    <3>1. \A j \in OwnedBy(page.user) \ (page.keys \cup {k}) : <<j, "minted">> \in untold'
      BY <2>1, <2>2 DEF SiteInv, Lists, Accounted
    <3>2. \A j \in page.keys \cup {k} : ~Live(j) => <<j, "revoked">> \in untold'
      BY <2>1, <2>4, <2>5 DEF SiteInv, Lists, Accounted
    <3> QED BY <1>1, <2>1, <3>1, <3>2 DEF Accounted, OwnedBy, Live
  <2>7. Awaited("list") = {} /\ Awaited("create")' = {}
    BY <1>1, <2>1, <2>3 DEF Awaited, SiteInv, CallsSound, CallSound, Spinning, SpinnersHonest
  <2>8. Awaited("list")' = {}
    BY <1>1, <2>7
  <2> QED BY <1>1, <1>2, <2>1, <2>5, <2>6, <2>7, <2>8 DEF SiteInv, Lists
<1>8. CASE Deleted(c)
  <2> PICK k : k = call[c].key
    OBVIOUS
  <2>1. /\ Shown /\ Shown' /\ k \in KeyIds /\ page'.user = page.user
        /\ page'.keys = page.keys \ {k} /\ page'.pending = None
    BY <1>1, <1>8, AnswerMoves DEF SiteInv
  <2>2. untold' = untold \ {<<k, "revoked">>}
    BY <1>8 DEF Deleted, Told
  <2>3. c \in Awaited("delete") /\ call[c].pc = "ok"
    BY <1>8 DEF Deleted, Arrived, Awaited
  <2>4. owner[k] = Revoked /\ k \in page.keys
    BY <2>3 DEF SiteInv, Lists
  <2>5. \A j : <<j, "minted">> \in untold' <=> <<j, "minted">> \in untold
    BY <2>2
  <2>6. \A j : j # k => (<<j, "revoked">> \in untold' <=> <<j, "revoked">> \in untold)
    BY <2>2
  <2>7. Accounted(page.user, page.keys)'
    <3>1. page.user \in Users
      BY <2>1 DEF SiteInv, TypeOK, Shown, Page
    <3>2. k \notin OwnedBy(page.user)
      BY <2>4, <3>1 DEF OwnedBy
    <3>3. \A j \in OwnedBy(page.user) \ (page.keys \ {k}) : <<j, "minted">> \in untold'
      BY <2>1, <2>5, <3>2 DEF SiteInv, Lists, Accounted
    <3>4. \A j \in page.keys \ {k} : ~Live(j) => <<j, "revoked">> \in untold'
      BY <2>1, <2>6 DEF SiteInv, Lists, Accounted
    <3> QED BY <1>1, <2>1, <3>3, <3>4 DEF Accounted, OwnedBy, Live
  <2>8. Awaited("list") = {} /\ Awaited("delete")' = {}
    BY <1>1, <2>1, <2>3 DEF Awaited, SiteInv, CallsSound, CallSound, Spinning, SpinnersHonest
  <2>9. Awaited("list")' = {}
    BY <1>1, <2>8
  <2>10. \A d \in Awaited("create")' : call'[d].pc = "ok" =>
           call'[d].key \notin page'.keys /\ (Live(call[d].key)' \/ <<call'[d].key, "revoked">> \in untold')
    <3> SUFFICES ASSUME NEW d \in Awaited("create")', call'[d].pc = "ok"
                 PROVE  call'[d].key \notin page'.keys /\ (Live(call[d].key)' \/ <<call'[d].key, "revoked">> \in untold')
      OBVIOUS
    <3>1. d \in Awaited("create") /\ call'[d] = call[d]
      BY <1>2
    <3>2. call[d].key \notin page.keys /\ (Live(call[d].key) \/ <<call[d].key, "revoked">> \in untold)
      BY <3>1 DEF SiteInv, Lists
    <3>3. call[d].key # k
      BY <2>4, <3>2
    <3> QED BY <1>1, <2>1, <2>6, <3>1, <3>2, <3>3 DEF Live
  <2>11. \A j \in KeyIds : <<j, "revoked">> \in untold' => owner'[j] = Revoked
    BY <1>1, <2>2 DEF SiteInv, Lists
  <2> QED BY <2>1, <2>7, <2>8, <2>9, <2>10, <2>11 DEF Lists
<1> QED BY <1>4, <1>5, <1>6, <1>7, <1>8 DEF Answer

(***************************************************************************)
(* The invariant, and what follows from it.                                *)
(***************************************************************************)
LEMMA SiteInitSound == Init => SiteInv
<1> SUFFICES ASSUME Init PROVE SiteInv
  OBVIOUS
<1> USE DashboardAssumption
<1>1. TypeOK /\ AuthInv
  BY SiteInitType, AuthInitSound DEF Init
<1>2. \A c \in Calls : call[c] = Idle /\ bearer[c] = Idle
  BY DEF Init, AuthInit
<1>3. ~Shown /\ shown = {} /\ untold = {} /\ \A op : Awaited(op) = {}
  BY <1>2 DEF Init, Shown, Awaited
<1>4. CallsSound
  BY <1>2 DEF CallsSound, CallSound
<1>5. Spinning /\ Secrets /\ Lists
  BY <1>2, <1>3 DEF Spinning, OneList, SpinnersHonest, Secrets, NewKey, Lists
<1> QED BY <1>1, <1>4, <1>5 DEF SiteInv

\* Every step of page, proxy, verifier and table keeps the invariant.
LEMMA SiteNextSound == SiteInv /\ [Next]_vars => SiteInv'
<1> SUFFICES ASSUME SiteInv, [Next]_vars PROVE SiteInv'
  OBVIOUS
<1>1. AuthInv'
  BY AuthMoves, AuthMoveSound DEF SiteInv
<1>2. TypeOK /\ CallsSound /\ OneList /\ AuthTypeOK'
  BY <1>1 DEF SiteInv, Spinning, AuthInv
<1>3. CASE Browse
  <2>1. TypeOK' /\ CallsSound'
    BY <1>2, <1>3, BrowseType, BrowseCalls
  <2>2. Spinning' /\ Secrets' /\ Lists'
    BY <1>3, SendSound, LeaveSound, DialogSound DEF Browse, DialogStep
  <2> QED BY <1>1, <2>1, <2>2 DEF SiteInv
<1>4. ASSUME NEW c \in Calls, Serve(c) PROVE SiteInv'
  <2>1. TypeOK' /\ CallsSound'
    BY <1>2, <1>4, ServeType, ServeCalls
  <2>2. CASE Quiet
    BY <1>1, <2>1, <2>2, QuietSound DEF SiteInv
  <2>3. CASE List(c)
    BY <1>1, <2>1, <2>3, ListSound DEF SiteInv
  <2>4. CASE Delete(c)
    BY <1>1, <2>1, <2>4, DeleteSound DEF SiteInv
  <2>5. ASSUME NEW k \in KeyIds, InsertKey(c, k) PROVE SiteInv'
    BY <1>1, <2>1, <2>5, InsertSound DEF SiteInv
  <2> QED BY <1>2, <1>4, <2>2, <2>3, <2>4, <2>5, ServeQuiet
<1>5. ASSUME NEW c \in Calls, Answer(c) PROVE SiteInv'
  <2>1. TypeOK' /\ CallsSound'
    BY <1>2, <1>5, AnswerType, AnswerCalls
  <2>2. Spinning' /\ Secrets' /\ Lists'
    BY <1>5, AnswerSpinning, AnswerSecrets, AnswerLists
  <2> QED BY <1>1, <2>1, <2>2 DEF SiteInv
<1>6. CASE Around
  <2>1. TypeOK' /\ CallsSound'
    BY <1>2, <1>6, AroundType, AroundCalls
  <2>2. CASE Quiet
    BY <1>1, <2>1, <2>2, QuietSound DEF SiteInv
  <2>3. ASSUME NEW u \in Users, NEW k \in KeyIds, RevokeElsewhere(u, k) PROVE SiteInv'
    <3>1. TableStep(k) /\ UNCHANGED <<page, call, shown>>
      BY <2>3 DEF RevokeElsewhere, TableStep
    <3> QED BY <1>1, <2>1, <3>1, ElsewhereSound DEF SiteInv
  <2>4. ASSUME NEW c \in Creators, NEW k \in KeyIds, MintAlone(c, k) PROVE SiteInv'
    <3>1. TableStep(k) /\ UNCHANGED <<page, call, shown>>
      BY <1>2, <2>4, MintType DEF MintAlone, Mint, TableStep
    <3> QED BY <1>1, <2>1, <3>1, ElsewhereSound DEF SiteInv
  <2> QED BY <1>2, <1>6, <2>2, <2>3, <2>4, AroundQuiet
<1>7. CASE UNCHANGED vars
  <2>1. Quiet
    BY <1>7 DEF vars, siteVars, Quiet
  <2>2. TypeOK' /\ CallsSound'
    BY <1>2, <1>7 DEF vars, siteVars, authVars, TypeOK, CallsSound, CallSound, Waiting, Shown
  <2> QED BY <1>1, <2>1, <2>2, QuietSound DEF SiteInv
<1> QED BY <1>3, <1>4, <1>5, <1>6, <1>7 DEF Next

\* The inductive invariant: tokens, fetches, spinners, secrets and the list
\* agree with each other and with the table.
THEOREM SiteInvariant == Spec => []SiteInv
  BY SiteInitSound, SiteNextSound, PTL DEF Spec

\* Every variable keeps to its kind.
THEOREM SiteTypeCorrect == Spec => []TypeOK
<1>1. SiteInv => TypeOK
  BY DEF SiteInv
<1> QED BY <1>1, SiteInvariant, PTL

\* A good token is never refused, whatever Clerk's keys and servers do.
THEOREM OutagesAreNotRefusals == Spec => []OutageNotRefusal
<1>1. SiteInv => OutageNotRefusal
  BY DEF SiteInv, AuthInv
<1> QED BY <1>1, SiteInvariant, PTL

\* A signing key withdrawn before the process started admits nobody.
THEOREM RestartEndsTrust == Spec => []TrustEndsAtRestart
<1>1. SiteInv => TrustEndsAtRestart
  BY DEF SiteInv, AuthInv
<1> QED BY <1>1, SiteInvariant, PTL

\* The page's list is the user's keys but for changes it was not told of.
THEOREM ListAlwaysAccounted == Spec => []ListAccounted
<1>1. SiteInv => ListAccounted
  BY DEF SiteInv, Lists, Accounted, ListAccounted
<1> QED BY <1>1, SiteInvariant, PTL

\* A spinner turns exactly while one answer is awaited.
THEOREM SpinnersAlwaysHonest == Spec => []SpinnersHonest
<1>1. SiteInv => SpinnersHonest
  BY DEF SiteInv, Spinning
<1> QED BY <1>1, SiteInvariant, PTL

\* A secret is shown once, and takes no other's place.
THEOREM SecretsShownOnce == Spec => SecretShownOnce
<1>1. ASSUME SiteInv, [Next]_vars, NEW k \in KeyIds,
             Shown, page' # None, page.revealed # k, page'.revealed = k
      PROVE  page.revealed = None /\ k \notin shown
  <2> USE DashboardAssumption
  <2>1. CASE Browse
    <3>1. CASE DialogStep
      BY <1>1, <3>1, DialogMoves DEF SiteInv
    <3>2. page \in Page
      BY <1>1 DEF SiteInv, TypeOK, Shown
    <3>3. ~Leave /\ \A c \in Calls : ~Visit(c)
      BY <1>1 DEF Leave, Visit, Shown
    <3>4. ASSUME NEW c \in Calls, HandleCreate(c) \/ HandleDelete(c) PROVE FALSE
      BY <1>1, <3>2, <3>4 DEF HandleCreate, HandleDelete, Page
    <3> QED BY <2>1, <3>1, <3>3, <3>4 DEF Browse, DialogStep
  <2>2. ASSUME NEW c \in Calls, Answer(c) PROVE page.revealed = None /\ k \notin shown
    <3>1. call[c] # Idle
      BY <1>1, <2>2, AnswerAwaited
    <3>2. Created(c)
      BY <1>1, <2>2, <3>1, AnswerMoves DEF SiteInv, Answer, PageFails, Unheard
    <3>3. call[c].key = k /\ NewKey(c) /\ c \in Awaited("create")
      BY <1>1, <3>1, <3>2, AnswerMoves DEF SiteInv, Created, Arrived, NewKey, Awaited
    <3>4. page.creating
      BY <1>1, <3>3 DEF SiteInv, Spinning, SpinnersHonest
    <3> QED BY <1>1, <3>3, <3>4 DEF SiteInv, Spinning, Secrets
  <2>3. CASE \E c \in Calls : Serve(c)
    BY <1>1, <2>3, ServeQuiet DEF SiteInv, Quiet, List, Delete, InsertKey, OffPage
  <2>4. CASE Around
    BY <1>1, <2>4, AroundQuiet DEF SiteInv, Quiet, RevokeElsewhere, MintAlone
  <2>5. CASE UNCHANGED vars
    BY <1>1, <2>5 DEF vars, siteVars
  <2> QED BY <1>1, <2>1, <2>2, <2>3, <2>4, <2>5 DEF Next
<1>2. SiteInv /\ [Next]_vars =>
        [\A k \in KeyIds :
           Shown /\ page' # None /\ page.revealed # k /\ page'.revealed = k =>
             page.revealed = None /\ k \notin shown]_vars
  BY <1>1
<1> QED BY <1>2, SiteInvariant, PTL DEF Spec, SecretShownOnce

(***************************************************************************)
(* The registry.  Only the table and the inserts under way are mapped, so  *)
(* a step that leaves both alone is a stutter there.                       *)
(***************************************************************************)
LEMMA RegistryInit == Init => Registry!Init
<1> SUFFICES ASSUME Init PROVE Registry!Init
  OBVIOUS
<1>1. {"gate"} \cup {} = {"gate"}
  OBVIOUS
<1> QED BY <1>1 DEF Init, Registry!Init, Registry!Resolvers

\* Counting keys means the same in both modules.
LEMMA SameCount == \A S : Registry!Cardinality(S) = Cardinality(S)
  BY DEF Registry!Cardinality, Cardinality

\* Every step of the site is a step of ApiKeys, or none.
LEMMA RegistryStep == SiteInv /\ [Next]_vars => [Registry!Next]_(Registry!vars)
<1> SUFFICES ASSUME SiteInv, [Next]_vars PROVE Registry!DashboardStep \/ UNCHANGED <<owner, minting>>
  BY DEF Registry!Next, Registry!vars
<1> USE DashboardAssumption
<1>1. CASE Browse
  BY <1>1 DEF Browse, Visit, Leave, OpenCreate, DismissCreate, HandleCreate, DismissReveal,
              AskDelete, DismissDelete, HandleDelete, OnPage, ServerIdle
<1>2. ASSUME NEW c \in Calls, Answer(c) PROVE UNCHANGED <<owner, minting>>
  BY <1>2 DEF Answer, PageLoads, PageFails, Created, CreateFails, Deleted, DeleteFails, Unheard,
              Received, ServerIdle
<1>3. ASSUME NEW c \in Creators, NEW k \in KeyIds, minting[c] # Idle, owner[k] = Unminted,
             owner' = [owner EXCEPT ![k] = minting[c]], minting' = [minting EXCEPT ![c] = Idle]
      PROVE  Registry!DashboardStep
  BY <1>3 DEF Registry!DashboardStep, Registry!InsertKey
<1>4. ASSUME NEW c \in Creators, minting[c] # Idle, owner' = owner, minting' = [minting EXCEPT ![c] = Idle]
      PROVE  Registry!DashboardStep
  BY <1>4 DEF Registry!DashboardStep, Registry!InsertFails
<1>5. ASSUME NEW c \in Creators, NEW u \in Users, minting[c] = Idle, owner' = owner,
             Cardinality(OwnedBy(u)) < MaxKeys, minting' = [minting EXCEPT ![c] = u]
      PROVE  Registry!DashboardStep
  BY <1>5, SameCount DEF Registry!DashboardStep, Registry!CountKeys, OwnedBy, Registry!OwnedBy
<1>6. ASSUME NEW u \in Users, NEW k \in KeyIds, owner[k] = u, minting' = minting,
             owner' = [owner EXCEPT ![k] = Revoked]
      PROVE  Registry!DashboardStep
  BY <1>6 DEF Registry!DashboardStep, Registry!Revoke
<1>7. ASSUME NEW c \in Calls, Serve(c) PROVE Registry!DashboardStep \/ UNCHANGED <<owner, minting>>
  <2>1. c \in Creators /\ (bearer[c] # Idle => bearer[c].user \in Users /\ Waiting(c, "forwarded"))
    BY DEF Creators, SiteInv, TypeOK, AuthTypeOK, Token, CallsSound, CallSound
  <2>2. (Waiting(c, "forwarded") => minting[c] = Idle) /\ (Waiting(c, "inserting") => minting[c] # Idle)
    BY DEF Waiting, SiteInv, CallsSound, CallSound
  <2>3. CASE CountKeys(c)
    BY <1>5, <2>1, <2>2, <2>3 DEF CountKeys, Handling, At
  <2>4. CASE Delete(c)
    <3>1. call[c].key \in KeyIds
      BY <2>4 DEF Delete, Handling, Waiting, SiteInv, CallsSound, CallSound
    <3> QED BY <1>6, <2>1, <2>4, <3>1 DEF Delete, Handling, At
  <2>5. CASE InsertFails(c)
    BY <1>4, <2>1, <2>2, <2>5 DEF InsertFails
  <2>6. ASSUME NEW k \in KeyIds, InsertKey(c, k) PROVE Registry!DashboardStep
    BY <1>3, <2>1, <2>6 DEF InsertKey, Mint
  <2>7. CASE RouteRefuses(c) \/ KeysProxy(c) \/ RequireUser(c) \/ RequireUserRefuses(c) \/ List(c)
               \/ AtCap(c) \/ DeleteMisses(c) \/ HandlerFails(c)
    BY <2>7 DEF RouteRefuses, KeysProxy, RequireUser, RequireUserRefuses, List, AtCap, DeleteMisses,
                HandlerFails, ServerIdle
  <2> QED BY <1>7, <2>3, <2>4, <2>5, <2>6, <2>7 DEF Serve
<1>8. CASE Around
  <2>1. ASSUME NEW c \in Creators, MintAloneFails(c) PROVE Registry!DashboardStep
    BY <1>4, <2>1 DEF MintAloneFails
  <2>2. ASSUME NEW c \in Creators, NEW k \in KeyIds, MintAlone(c, k) PROVE Registry!DashboardStep
    BY <1>3, <2>2 DEF MintAlone, Mint
  <2>3. ASSUME NEW o \in Others, NEW u \in Users, CountElsewhere(o, u) PROVE Registry!DashboardStep
    BY <1>5, <2>3 DEF CountElsewhere, Creators
  <2>4. ASSUME NEW u \in Users, NEW k \in KeyIds, RevokeElsewhere(u, k) PROVE Registry!DashboardStep
    BY <1>6, <2>4 DEF RevokeElsewhere
  <2>5. CASE \/ \E u \in Users \cup {None} : SwitchSession(u)
             \/ \E c \in Calls : InsertUnheard(c) \/ LoseAnswer(c) \/ ExpireToken(c)
             \/ \E s \in SigningKeys : RotateKeys(s)
             \/ Restart
    BY <2>5 DEF SwitchSession, InsertUnheard, LoseAnswer, ExpireToken, RotateKeys, Restart, ServerIdle
  <2> QED BY <1>8, <2>1, <2>2, <2>3, <2>4, <2>5 DEF Around
<1>9. CASE UNCHANGED vars
  BY <1>9 DEF vars
<1> QED BY <1>1, <1>2, <1>7, <1>8, <1>9 DEF Next

\* A step that moves a request moves the table for the user of its token, or not
\* at all: only the two statements of keys.go reach it, and each is given the
\* user the token check proved.
LEMMA BearerStep == SiteInv /\ [Next]_vars => [RequestsActForBearers]_vars
<1> SUFFICES ASSUME SiteInv, Next, NEW c \in Calls, call'[c] # call[c]
             PROVE  UNCHANGED <<owner, minting>> \/ ActsForBearer(c)
  BY DEF RequestsActForBearers
<1> USE DashboardAssumption
<1>1. CASE Browse
  BY <1>1 DEF Browse, Visit, Leave, OpenCreate, DismissCreate, HandleCreate, DismissReveal,
              AskDelete, DismissDelete, HandleDelete, OnPage, ServerIdle
<1>2. ASSUME NEW d \in Calls, Answer(d) PROVE UNCHANGED <<owner, minting>>
  BY <1>2 DEF Answer, PageLoads, PageFails, Created, CreateFails, Deleted, DeleteFails, Unheard,
              Received, ServerIdle
<1>3. ASSUME NEW d \in Calls, Serve(d) PROVE UNCHANGED <<owner, minting>> \/ ActsForBearer(c)
  <2>1. CASE RouteRefuses(d) \/ KeysProxy(d) \/ RequireUser(d) \/ RequireUserRefuses(d) \/ List(d)
               \/ AtCap(d) \/ DeleteMisses(d) \/ HandlerFails(d)
    BY <2>1 DEF RouteRefuses, KeysProxy, RequireUser, RequireUserRefuses, List, AtCap, DeleteMisses,
                HandlerFails, ServerIdle
  <2>2. CASE CountKeys(d) \/ InsertFails(d) \/ Delete(d) \/ \E k \in KeyIds : InsertKey(d, k)
    <3>1. d = c
      <4>1. call \in [Calls -> Call \cup {Idle}]
        BY DEF SiteInv, TypeOK
      <4>2. \E r : call' = [call EXCEPT ![d] = r]
        BY <2>2 DEF CountKeys, InsertFails, Delete, InsertKey, Step
      <4> QED BY <4>1, <4>2
    <3>2. (Waiting(c, "forwarded") => minting[c] = Idle) /\ (Waiting(c, "inserting") => minting[c] # Idle)
      BY DEF Waiting, SiteInv, CallsSound, CallSound
    <3>3. CASE CountKeys(c)
      BY <3>2, <3>3, SameCount DEF CountKeys, Handling, At, ActsForBearer, Registry!CountKeys,
                                   OwnedBy, Registry!OwnedBy
    <3>4. CASE Delete(c)
      BY <3>4 DEF Delete, Handling, ActsForBearer, Registry!Revoke
    <3>5. CASE InsertFails(c)
      BY <3>2, <3>5 DEF InsertFails, ActsForBearer, Registry!InsertFails
    <3>6. ASSUME NEW k \in KeyIds, InsertKey(c, k) PROVE ActsForBearer(c)
      BY <3>6 DEF InsertKey, Mint, ActsForBearer, Registry!InsertKey
    <3> QED BY <2>2, <3>1, <3>3, <3>4, <3>5, <3>6
  <2> QED BY <1>3, <2>1, <2>2 DEF Serve
<1>4. CASE Around
  <2>1. ASSUME \/ \E d \in Creators : MintAloneFails(d) \/ \E k \in KeyIds : MintAlone(d, k)
               \/ \E o \in Others, u \in Users : CountElsewhere(o, u)
               \/ \E u \in Users, k \in KeyIds : RevokeElsewhere(u, k)
        PROVE  call' = call
    BY <2>1 DEF MintAloneFails, MintAlone, CountElsewhere, RevokeElsewhere, siteVars
  <2>2. CASE \/ \E u \in Users \cup {None} : SwitchSession(u)
             \/ \E d \in Calls : InsertUnheard(d) \/ LoseAnswer(d) \/ ExpireToken(d)
             \/ \E s \in SigningKeys : RotateKeys(s)
             \/ Restart
    BY <2>2 DEF SwitchSession, InsertUnheard, LoseAnswer, ExpireToken, RotateKeys, Restart, ServerIdle
  <2> QED BY <1>4, <2>1, <2>2 DEF Around
<1> QED BY <1>1, <1>2, <1>3, <1>4 DEF Next

\* The site, with its tokens, pages and lost answers, uses the key table as
\* ApiKeys says it is used, and each request of the page uses it for the user
\* its token proves and for no other.
THEOREM SiteImplementsRegistry == Spec => ImplementsRegistry
  BY RegistryInit, RegistryStep, BearerStep, SiteInvariant, PTL
  DEF Spec, ImplementsRegistry, Registry!Spec
=============================================================================
