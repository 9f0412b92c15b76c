-------------------------- MODULE TokenCacheProofs --------------------------
(***************************************************************************)
(* Proofs about TokenCache, for any number of queries, any grants, any     *)
(* timeout and any margin of at least two timeouts.                        *)
(***************************************************************************)
EXTENDS TokenCache, TLAPS

\* The cached token is given up a margin before its announced end, counted from
\* an arrival that is at most one request later than the issue.
CacheTimely ==
  cached # None =>
    /\ cached.issued <= now
    /\ expiry <= cached.issued + Timeout + Ttl(cached) - Margin

\* A token request is within its timeout, and a token it carries was issued
\* meanwhile.
FetchTimely ==
  \A c \in Calls : At(c, "fetching") =>
    /\ call[c].sent <= now
    /\ now <= call[c].sent + Timeout
    /\ call[c].token # None => /\ call[c].sent <= call[c].token.issued
                               /\ call[c].token.issued <= now

\* A query is within its timeout, and its token would be accepted at the end of it.
QueryTimely ==
  \A c \in Calls : At(c, "querying") =>
    /\ call[c].token # None
    /\ now <= call[c].sent + Timeout
    /\ Sound(call[c].token) =>
         call[c].sent + Timeout < call[c].token.issued + call[c].token.lifetime

TokenInv ==
  /\ TypeOK
  /\ CacheTimely
  /\ FetchTimely
  /\ QueryTimely
  /\ NoNeedlessFetch

\* What the kinds say of a call that is in flight.
LEMMA CallFacts ==
  ASSUME TypeOK, NEW c \in Calls, call[c] # None
  PROVE  /\ call[c] \in Call
         /\ call[c].sent \in Nat
         /\ call[c].token # None => /\ call[c].token \in Token
                                    /\ call[c].token.issued \in Nat
                                    /\ call[c].token.lifetime \in Nat
                                    /\ Ttl(call[c].token) \in Nat
<1>1. call[c] \in Call
  BY DEF TypeOK
<1> QED BY <1>1, TokenAssumption DEF Call, Token, Ttl

\* And of the cached token.
LEMMA CachedFacts ==
  ASSUME TypeOK, cached # None
  PROVE  /\ cached \in Token
         /\ cached.issued \in Nat
         /\ cached.lifetime \in Nat
         /\ Ttl(cached) \in Nat
<1>1. cached \in Token
  BY DEF TypeOK
<1> QED BY <1>1, TokenAssumption DEF Token, Ttl

\* Only the named query changes, and only to what the action says.
LEMMA Others ==
  ASSUME TypeOK, NEW c \in Calls, NEW x, call' = [call EXCEPT ![c] = x]
  PROVE  /\ call'[c] = x
         /\ \A d \in Calls \ {c} : call'[d] = call[d]
BY DEF TypeOK

\* No token, nobody asking.
LEMMA InitInv == Init => TokenInv
BY TokenAssumption
   DEF Init, TokenInv, TypeOK, CacheTimely, FetchTimely, QueryTimely, NoNeedlessFetch, At, Fresh

\* Time passes no further than what is in flight may age.
LEMMA StepInv == TokenInv /\ [Next]_vars => TokenInv'
<1> SUFFICES ASSUME TokenInv, [Next]_vars PROVE TokenInv'
  OBVIOUS
<1> USE TokenAssumption
<1>a. TypeOK /\ now \in Nat
  BY DEF TokenInv, TypeOK
<1>1. CASE Tick
  <2>1. now' = now + 1 /\ now' \in 0 .. MaxTime /\ UNCHANGED <<cached, expiry, mu, call>>
    BY <1>1, <1>a DEF Tick, TypeOK
  <2>2. TypeOK'
    BY <1>a, <2>1 DEF TypeOK, At
  <2>3. CacheTimely'
    BY <1>a, <2>1, CachedFacts DEF TokenInv, CacheTimely, Ttl
  <2>4. FetchTimely'
    <3>1. ASSUME NEW c \in Calls, At(c, "fetching")
          PROVE  /\ call[c].sent <= now + 1
                 /\ now + 1 <= call[c].sent + Timeout
                 /\ call[c].token # None => /\ call[c].sent <= call[c].token.issued
                                            /\ call[c].token.issued <= now + 1
      <4>1. now < call[c].sent + Timeout
        BY <1>1, <3>1 DEF Tick
      <4>2. call[c].sent \in Nat /\ (call[c].token # None => call[c].token.issued \in Nat)
        BY <1>a, <3>1, CallFacts DEF At
      <4> QED BY <1>a, <3>1, <4>1, <4>2 DEF TokenInv, FetchTimely
    <3> QED BY <2>1, <3>1 DEF FetchTimely, At
  <2>5. QueryTimely'
    <3>1. ASSUME NEW c \in Calls, At(c, "querying") PROVE now + 1 <= call[c].sent + Timeout
      <4>1. now < call[c].sent + Timeout
        BY <1>1, <3>1 DEF Tick
      <4> QED BY <1>a, <3>1, <4>1, CallFacts DEF At
    <3> QED BY <2>1, <3>1 DEF TokenInv, QueryTimely, At, Sound, Ttl
  <2>6. NoNeedlessFetch'
    BY <1>a, <2>1 DEF TokenInv, NoNeedlessFetch, At, Fresh, TypeOK
  <2> QED BY <2>2, <2>3, <2>4, <2>5, <2>6 DEF TokenInv
<1>2. ASSUME NEW c \in Calls, Start(c) PROVE TokenInv'
  <2> DEFINE x == [pc |-> "waiting", sent |-> 0, token |-> None]
  <2>1. /\ UNCHANGED <<now, cached, expiry, mu>>
        /\ call'[c] = x /\ \A d \in Calls \ {c} : call'[d] = call[d]
        /\ ~ At(c, "fetching")
    BY <1>2, <1>a, Others DEF Start, At
  <2>2. TypeOK'
    <3>1. x \in Call
      BY DEF Call
    <3>2. call' \in [Calls -> Call \cup {None}]
      BY <1>2, <1>a, <3>1 DEF Start, TypeOK
    <3> QED BY <1>a, <2>1, <3>2 DEF TypeOK, At
  <2>3. CacheTimely' /\ NoNeedlessFetch'
    BY <2>1 DEF TokenInv, CacheTimely, NoNeedlessFetch, At, Fresh, Ttl
  <2>4. FetchTimely' /\ QueryTimely'
    BY <2>1 DEF TokenInv, FetchTimely, QueryTimely, At, Sound, Ttl
  <2> QED BY <2>2, <2>3, <2>4 DEF TokenInv
<1>3. ASSUME NEW c \in Calls, TakeCached(c) PROVE TokenInv'
  <2> DEFINE x == [pc |-> "querying", sent |-> now, token |-> cached]
  <2>1. /\ UNCHANGED <<now, cached, expiry, mu>>
        /\ call'[c] = x /\ \A d \in Calls \ {c} : call'[d] = call[d]
        /\ ~ At(c, "fetching")
    BY <1>3, <1>a, Others DEF TakeCached, At
  <2>2. TypeOK'
    <3>1. x \in Call
      BY <1>a DEF Call, TypeOK
    <3>2. call' \in [Calls -> Call \cup {None}]
      BY <1>3, <1>a, <3>1 DEF TakeCached, TypeOK
    <3> QED BY <1>a, <2>1, <3>2 DEF TypeOK, At
  <2>3. CacheTimely' /\ NoNeedlessFetch'
    BY <2>1 DEF TokenInv, CacheTimely, NoNeedlessFetch, At, Fresh, Ttl
  <2>4. FetchTimely'
    BY <2>1 DEF TokenInv, FetchTimely, At
  <2>5. Sound(cached) => now + Timeout < cached.issued + cached.lifetime
    <3>1. /\ cached # None /\ now < expiry /\ expiry \in Int
          /\ expiry <= cached.issued + Timeout + Ttl(cached) - Margin
      BY <1>3, <1>a DEF TakeCached, Fresh, TokenInv, CacheTimely, TypeOK
    <3>2. /\ cached.issued \in Nat /\ cached.lifetime \in Nat /\ Ttl(cached) \in Nat
      BY <1>a, <3>1, CachedFacts
    <3>3. Sound(cached) => Ttl(cached) <= cached.lifetime
      BY DEF Sound
    <3> QED BY <1>a, <3>1, <3>2, <3>3, MarginCoversRequests
  <2>6. cached # None
    BY <1>3 DEF TakeCached, Fresh
  <2>7. QueryTimely'
    BY <1>a, <2>1, <2>5, <2>6 DEF TokenInv, QueryTimely, At, Sound, Ttl
  <2> QED BY <2>2, <2>3, <2>4, <2>7 DEF TokenInv
<1>4. ASSUME NEW c \in Calls, FetchToken(c) PROVE TokenInv'
  <2> DEFINE x == [pc |-> "fetching", sent |-> now, token |-> None]
  <2>1. /\ UNCHANGED <<now, cached, expiry>> /\ mu' = c /\ mu = None /\ ~ Fresh
        /\ call'[c] = x /\ \A d \in Calls \ {c} : call'[d] = call[d]
    BY <1>4, <1>a, Others DEF FetchToken
  <2>2. \A d \in Calls : ~ At(d, "fetching")
    BY <1>a, <2>1 DEF TypeOK
  <2>3. TypeOK'
    <3>1. x \in Call
      BY <1>a DEF Call, TypeOK
    <3>2. call' \in [Calls -> Call \cup {None}]
      BY <1>4, <1>a, <3>1 DEF FetchToken, TypeOK
    <3>3. x # None
      BY <3>1
    <3> QED BY <1>a, <2>1, <2>2, <3>2, <3>3 DEF TypeOK, At
  <2>4. CacheTimely' /\ NoNeedlessFetch'
    BY <2>1, <2>2 DEF TokenInv, CacheTimely, NoNeedlessFetch, At, Fresh, Ttl
  <2>5. FetchTimely'
    BY <1>a, <2>1, <2>2 DEF TokenInv, FetchTimely, At
  <2>6. QueryTimely'
    BY <2>1 DEF TokenInv, QueryTimely, At, Sound, Ttl
  <2> QED BY <2>3, <2>4, <2>5, <2>6 DEF TokenInv
<1>5. ASSUME NEW c \in Calls, NEW g \in Grants, Issue(c, g) PROVE TokenInv'
  <2> DEFINE t == [issued |-> now, lifetime |-> g.lifetime, expiresIn |-> g.expiresIn]
             x == [call[c] EXCEPT !.token = t]
  <2>1. /\ UNCHANGED <<now, cached, expiry, mu>>
        /\ call' = [call EXCEPT ![c] = x]
        /\ At(c, "fetching") /\ call[c] \in Call
    BY <1>5, <1>a, CallFacts DEF Issue, At
  <2>2. call'[c] = x /\ \A d \in Calls \ {c} : call'[d] = call[d]
    BY <1>a, <2>1, Others
  <2>3. t \in Token /\ t.issued = now /\ t # None
    BY <1>a DEF Grant, Token
  <2>4. x \in Call /\ x.pc = "fetching" /\ x.sent = call[c].sent /\ x.token = t /\ x # None
    BY <2>1, <2>3 DEF Call, At
  <2>5. TypeOK'
    <3>1. call' \in [Calls -> Call \cup {None}]
      BY <1>a, <2>1, <2>4 DEF TypeOK
    <3> QED BY <1>a, <2>1, <2>2, <2>4, <3>1 DEF TypeOK, At
  <2>6. CacheTimely'
    BY <2>1 DEF TokenInv, CacheTimely, Ttl
  <2>7. NoNeedlessFetch'
    BY <2>1, <2>2, <2>4 DEF TokenInv, NoNeedlessFetch, At, Fresh
  <2>8. FetchTimely'
    BY <1>a, <2>1, <2>2, <2>3, <2>4 DEF TokenInv, FetchTimely, At
  <2>9. QueryTimely'
    BY <2>1, <2>2, <2>4 DEF TokenInv, QueryTimely, At, Sound, Ttl
  <2> QED BY <2>5, <2>6, <2>7, <2>8, <2>9 DEF TokenInv
<1>6. ASSUME NEW c \in Calls, StoreToken(c) PROVE TokenInv'
  <2> DEFINE t == call[c].token
             x == [call[c] EXCEPT !.pc = "querying", !.sent = now]
  <2>1. /\ now' = now /\ cached' = t /\ expiry' = ExpiryOf(t, now) /\ mu' = None
        /\ call' = [call EXCEPT ![c] = x]
        /\ At(c, "fetching") /\ t # None
    BY <1>6 DEF StoreToken, At
  <2>2. /\ call[c] \in Call /\ call[c].sent \in Nat /\ t \in Token
        /\ t.issued \in Nat /\ t.lifetime \in Nat /\ Ttl(t) \in Nat
    BY <1>a, <2>1, CallFacts DEF At
  <2>3. call'[c] = x /\ \A d \in Calls \ {c} : call'[d] = call[d]
    BY <1>a, <2>1, Others
  <2>4. x \in Call /\ x.pc = "querying" /\ x.sent = now /\ x.token = t /\ x # None
    BY <1>a, <2>2 DEF Call
  <2>5. \A d \in Calls : ~ At(d, "fetching")'
    <3>1. mu = c
      BY <1>a, <2>1 DEF TypeOK
    <3>2. \A d \in Calls \ {c} : ~ At(d, "fetching")
      BY <1>a, <3>1 DEF TypeOK
    <3> QED BY <2>3, <2>4, <3>2 DEF At
  <2>6. now <= t.issued + Timeout /\ t.issued <= now
    BY <1>a, <2>1, <2>2 DEF TokenInv, FetchTimely
  <2>7. TypeOK'
    <3>1. call' \in [Calls -> Call \cup {None}]
      BY <1>a, <2>1, <2>4 DEF TypeOK
    <3>2. expiry' \in Int
      BY <1>a, <2>1, <2>2 DEF ExpiryOf
    <3>3. \A d \in Calls : d # None
      OBVIOUS
    <3>4. mu' \in Calls \cup {None} /\ \A d \in Calls : mu' = d <=> At(d, "fetching")'
      BY <2>1, <2>5, <3>3
    <3>5. cached' \in Token \cup {None}
      BY <2>1, <2>2
    <3> QED BY <1>a, <2>1, <3>1, <3>2, <3>4, <3>5 DEF TypeOK
  <2>8. CacheTimely'
    BY <1>a, <2>1, <2>2, <2>6 DEF CacheTimely, ExpiryOf, Ttl
  <2>9. FetchTimely' /\ NoNeedlessFetch'
    BY <2>5 DEF FetchTimely, NoNeedlessFetch, At
  <2>10. Sound(t) => now + Timeout < t.issued + t.lifetime
    BY <1>a, <2>2, <2>6 DEF Sound
  <2>11. QueryTimely'
    BY <1>a, <2>1, <2>3, <2>4, <2>10 DEF TokenInv, QueryTimely, At, Sound, Ttl
  <2> QED BY <2>7, <2>8, <2>9, <2>11 DEF TokenInv
<1>7. ASSUME NEW c \in Calls, FetchFails(c) PROVE TokenInv'
  <2>1. /\ UNCHANGED <<now, cached, expiry>> /\ mu' = None /\ mu = c
        /\ call'[c] = None /\ \A d \in Calls \ {c} : call'[d] = call[d]
    BY <1>7, <1>a, Others DEF FetchFails, TypeOK
  <2>2. \A d \in Calls : ~ At(d, "fetching")'
    BY <1>a, <2>1 DEF TypeOK, At
  <2>3. TypeOK'
    <3>1. call' \in [Calls -> Call \cup {None}]
      BY <1>7, <1>a DEF FetchFails, TypeOK
    <3>2. \A d \in Calls : d # None
      OBVIOUS
    <3>3. \A d \in Calls : mu' = d <=> At(d, "fetching")'
      BY <2>1, <2>2, <3>2
    <3> QED BY <1>a, <2>1, <3>1, <3>3 DEF TypeOK
  <2>4. CacheTimely'
    BY <2>1 DEF TokenInv, CacheTimely, Ttl
  <2>5. FetchTimely' /\ NoNeedlessFetch'
    BY <2>2 DEF FetchTimely, NoNeedlessFetch, At
  <2>6. QueryTimely'
    BY <2>1 DEF TokenInv, QueryTimely, At, Sound, Ttl
  <2> QED BY <2>3, <2>4, <2>5, <2>6 DEF TokenInv
<1>8. ASSUME NEW c \in Calls, Finish(c) PROVE TokenInv'
  <2>1. /\ UNCHANGED <<now, cached, expiry, mu>>
        /\ call'[c] = None /\ \A d \in Calls \ {c} : call'[d] = call[d]
        /\ ~ At(c, "fetching")
    BY <1>8, <1>a, Others DEF Finish, At
  <2>2. TypeOK'
    <3>1. call' \in [Calls -> Call \cup {None}]
      BY <1>8, <1>a DEF Finish, TypeOK
    <3> QED BY <1>a, <2>1, <3>1 DEF TypeOK, At
  <2>3. CacheTimely' /\ NoNeedlessFetch'
    BY <2>1 DEF TokenInv, CacheTimely, NoNeedlessFetch, At, Fresh, Ttl
  <2>4. FetchTimely' /\ QueryTimely'
    BY <2>1 DEF TokenInv, FetchTimely, QueryTimely, At, Sound, Ttl
  <2> QED BY <2>2, <2>3, <2>4 DEF TokenInv
<1>9. CASE UNCHANGED vars
  BY <1>9 DEF vars, TokenInv, TypeOK, CacheTimely, FetchTimely, QueryTimely, NoNeedlessFetch,
              At, Fresh, Sound, Ttl
<1> QED BY <1>1, <1>2, <1>3, <1>4, <1>5, <1>6, <1>7, <1>8, <1>9 DEF Next

\* The inductive invariant holds in every reachable state.
THEOREM TokenInvariant == Spec => []TokenInv
<1>1. Init => TokenInv
  BY InitInv
<1>2. TokenInv /\ [Next]_vars => TokenInv'
  BY StepInv
<1> QED BY <1>1, <1>2, PTL DEF Spec

\* Every variable holds a value of its kind.
THEOREM TokenTypeCorrect == Spec => []TypeOK
<1>1. TokenInv => TypeOK
  BY DEF TokenInv
<1> QED BY <1>1, TokenInvariant, PTL

\* A margin of two timeouts is enough: a query's token is still good when the
\* query arrives, for every lifetime, timeout and interleaving.
THEOREM MarginSuffices == Spec => []AcceptedOnArrival
<1>1. TokenInv => AcceptedOnArrival
  <2> SUFFICES ASSUME TokenInv, NEW c \in Calls, At(c, "querying"), Sound(call[c].token)
               PROVE  Accepted(call[c].token)
    BY DEF AcceptedOnArrival
  <2> USE TokenAssumption
  <2>1. /\ call[c].token # None
        /\ now <= call[c].sent + Timeout
        /\ call[c].sent + Timeout < call[c].token.issued + call[c].token.lifetime
    BY DEF TokenInv, QueryTimely
  <2>2. now \in Nat /\ call[c].sent \in Nat
        /\ call[c].token.issued \in Nat /\ call[c].token.lifetime \in Nat
    BY <2>1, CallFacts DEF TokenInv, At, TypeOK
  <2> QED BY <2>1, <2>2 DEF Accepted
<1> QED BY <1>1, TokenInvariant, PTL

\* Nobody asks for a token while a fresh one is cached.
THEOREM OneFetchPerExpiry == Spec => []NoNeedlessFetch
<1>1. TokenInv => NoNeedlessFetch
  BY DEF TokenInv
<1> QED BY <1>1, TokenInvariant, PTL
=============================================================================
