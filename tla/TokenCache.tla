----------------------------- MODULE TokenCache -----------------------------
(***************************************************************************)
(* The Product Hunt client (internal/producthunt/client.go) with client    *)
(* credentials: every query takes a bearer token from ensureToken, which   *)
(* fetches and caches one under a lock held across the token request, and  *)
(* sends it to the GraphQL endpoint after the lock is gone.                *)
(*                                                                         *)
(* Time is a counter.  Both requests go through one http.Client, so either *)
(* is over, answered or not, Timeout after it was sent.  The token         *)
(* endpoint is external: it issues a token at some moment of the request   *)
(* and from then on the token is good for its lifetime.  A static token    *)
(* (PRODUCTHUNT_TOKEN) bypasses all of this and is left out.               *)
(***************************************************************************)
EXTENDS Integers, FiniteSets

CONSTANTS
  Calls,       \* queries that may be in flight at once
  Grants,      \* what the token endpoint may grant: lifetime and expires_in
  Margin,      \* the safety margin of ensureToken
  DefaultTtl,  \* assumed when the answer has no expires_in
  Timeout,     \* of the http.Client
  MaxTime,     \* bound: the clock
  None         \* no token, no holder, no call

\* expires_in is 0 when the answer leaves it out.
Grant == [lifetime : Nat \ {0}, expiresIn : Nat]
Token == [issued : Nat, lifetime : Nat \ {0}, expiresIn : Nat]
Call == [pc : {"waiting", "fetching", "querying"}, sent : Nat, token : Token \cup {None}]

ASSUME TokenAssumption ==
  /\ Grants \subseteq Grant
  /\ Margin \in Nat
  /\ DefaultTtl \in Nat
  /\ Timeout \in Nat
  /\ MaxTime \in Nat
  /\ None \notin Calls \cup Token \cup Call

\* 30 s for a request, a minute of margin: a token that was fresh when a call
\* took it has been through a whole token request and meets a whole query.
ASSUME MarginCoversRequests == 2 * Timeout <= Margin

VARIABLES
  now,     \* the clock
  cached,  \* cachedToken
  expiry,  \* tokenExpiry
  mu,      \* who holds the lock
  call     \* the queries in flight

vars == <<now, cached, expiry, mu, call>>

Ttl(t) == IF t.expiresIn > 0 THEN t.expiresIn ELSE DefaultTtl

\* Mutant of ExpiryOf: the margin is forgotten.
ExpiryOfWithoutMargin(t, at) == at + Ttl(t)

ExpiryOf(t, at) == at + Ttl(t) - Margin

Fresh == cached # None /\ now < expiry

\* A token the arithmetic can be held to: it outlasts two requests, and lives
\* as long as the answer said or, if that said nothing, as the client assumes.
Sound(t) == t.lifetime > 2 * Timeout /\ Ttl(t) <= t.lifetime

Accepted(t) == now < t.issued + t.lifetime

Init ==
  /\ now = 0
  /\ cached = None
  /\ expiry = 0
  /\ mu = None
  /\ call = [c \in Calls |-> None]

At(c, pc) == call[c] # None /\ call[c].pc = pc

\* No request outlives its timeout; the wait for the lock may.
Tick ==
  /\ now < MaxTime
  /\ \A c \in Calls : At(c, "fetching") \/ At(c, "querying") => now < call[c].sent + Timeout
  /\ now' = now + 1
  /\ UNCHANGED <<cached, expiry, mu, call>>

Start(c) ==
  /\ call[c] = None
  /\ call' = [call EXCEPT ![c] = [pc |-> "waiting", sent |-> 0, token |-> None]]
  /\ UNCHANGED <<now, cached, expiry, mu>>

\* The lock is free and the cached token is fresh: unlock, and query with it.
TakeCached(c) ==
  /\ At(c, "waiting")
  /\ mu = None
  /\ Fresh
  /\ call' = [call EXCEPT ![c] = [pc |-> "querying", sent |-> now, token |-> cached]]
  /\ UNCHANGED <<now, cached, expiry, mu>>

\* Mutant of FetchToken: the cache was looked at before the lock was taken, and
\* is not looked at again.
FetchTokenUnchecked(c) ==
  /\ At(c, "waiting")
  /\ mu = None
  /\ mu' = c
  /\ call' = [call EXCEPT ![c] = [pc |-> "fetching", sent |-> now, token |-> None]]
  /\ UNCHANGED <<now, cached, expiry>>

\* It is not: send the token request, holding the lock.
FetchToken(c) ==
  /\ At(c, "waiting")
  /\ mu = None
  /\ ~ Fresh
  /\ mu' = c
  /\ call' = [call EXCEPT ![c] = [pc |-> "fetching", sent |-> now, token |-> None]]
  /\ UNCHANGED <<now, cached, expiry>>

\* External: the endpoint issues a token; the answer is on its way.
Issue(c, g) ==
  /\ At(c, "fetching")
  /\ call[c].token = None
  /\ call' = [call EXCEPT ![c].token =
                [issued |-> now, lifetime |-> g.lifetime, expiresIn |-> g.expiresIn]]
  /\ UNCHANGED <<now, cached, expiry, mu>>

\* The answer arrives: cache the token, unlock, and query with it.
StoreToken(c) ==
  /\ At(c, "fetching")
  /\ call[c].token # None
  /\ cached' = call[c].token
  /\ expiry' = ExpiryOf(call[c].token, now)
  /\ mu' = None
  /\ call' = [call EXCEPT ![c].pc = "querying", ![c].sent = now]
  /\ UNCHANGED now

\* Mutant of FetchFails: the error path keeps the lock.
FetchFailsLocked(c) ==
  /\ At(c, "fetching")
  /\ call' = [call EXCEPT ![c] = None]
  /\ UNCHANGED <<now, cached, expiry, mu>>

\* An error, a refusal, the timeout or the caller's cancellation.  The deferred
\* unlock runs on every one of these paths, and the cache stays as it is.
FetchFails(c) ==
  /\ At(c, "fetching")
  /\ mu' = None
  /\ call' = [call EXCEPT ![c] = None]
  /\ UNCHANGED <<now, cached, expiry>>

\* The query has reached the endpoint or failed.  An answer of 401 or 403 does
\* not touch the cache.
Finish(c) ==
  /\ At(c, "querying")
  /\ call' = [call EXCEPT ![c] = None]
  /\ UNCHANGED <<now, cached, expiry, mu>>

Next ==
  \/ Tick
  \/ \E c \in Calls :
       \/ Start(c)
       \/ TakeCached(c)
       \/ FetchToken(c)
       \/ \E g \in Grants : Issue(c, g)
       \/ StoreToken(c)
       \/ FetchFails(c)
       \/ Finish(c)

Spec == Init /\ [][Next]_vars

\* A sync.Mutex starves nobody, and the timeout ends every token request.
FairSpec ==
  /\ Spec
  /\ \A c \in Calls : /\ SF_vars(TakeCached(c) \/ FetchToken(c))
                      /\ WF_vars(StoreToken(c) \/ FetchFails(c))
-----------------------------------------------------------------------------
\* Every variable holds a value of its kind, and the lock is held by exactly
\* the call whose token request is under way.
TypeOK ==
  /\ now \in 0 .. MaxTime
  /\ cached \in Token \cup {None}
  /\ expiry \in Int
  /\ mu \in Calls \cup {None}
  /\ call \in [Calls -> Call \cup {None}]
  /\ \A c \in Calls : mu = c <=> At(c, "fetching")

\* The margin is enough: whenever a query may reach the endpoint, its token is
\* still accepted there, however long the token request and the query take and
\* whoever fetched the token (ensureToken, client.go:172-179).
AcceptedOnArrival ==
  \A c \in Calls : At(c, "querying") /\ Sound(call[c].token) => Accepted(call[c].token)

\* A burst of queries asks for one token: nobody asks for a token while the
\* cache has a fresh one, because the cache is looked at under the lock.
NoNeedlessFetch == \A c \in Calls : At(c, "fetching") => ~ Fresh

\* A query gets past the lock, whatever becomes of the token requests of those
\* before it.
GetsPastLock == \A c \in Calls : At(c, "waiting") ~> ~ At(c, "waiting")
=============================================================================
