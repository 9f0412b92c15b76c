------------------------------ MODULE ApiKeys ------------------------------
(***************************************************************************)
(* The life of an API key: minted and revoked by its owner through         *)
(* internal/keysapi, admitted by the RequireAPIKey middleware of           *)
(* internal/mcpx, and resolved once more by the namespaces that scope      *)
(* their data by key (memory, event).  The middleware and each of those    *)
(* namespaces hold an auth.Resolver of their own, with a cache that is     *)
(* filled after a SELECT and never emptied.                                *)
(*                                                                         *)
(* A key string and its api_key_id determine each other, so one name       *)
(* stands for both.  A key of the wrong form is refused before any state   *)
(* is read (ErrMalformed) and is left out.                                 *)
(***************************************************************************)
EXTENDS Naturals, FiniteSets

CONSTANTS
  Users,        \* Clerk users
  KeyIds,       \* keys that can be minted (a bound), and guesses at them
  Creators,     \* POST /api/keys requests that may run at once
  Requests,     \* MCP requests that may be in flight at once
  Gate,         \* the resolver of RequireAPIKey
  Scoped,       \* the namespaces with a resolver of their own
  Plain,        \* the namespaces without one
  MaxKeys,      \* MaxKeysPerUser
  MaxRestarts,  \* bound: restarts of the process
  Nobody,       \* the owner of a key minted outside the dashboard
  Unminted,     \* "the table has never had this key"
  Revoked,      \* "the row was deleted"
  Idle          \* a request slot in no request

Resolvers == {Gate} \cup Scoped
Namespaces == Scoped \cup Plain
Outcomes == {"served", "unauthorized", "unavailable"}
Request == [pc : {"lookup", "found"} \cup Outcomes, key : KeyIds, ns : Namespaces,
            at : Resolvers, liveAtStart : BOOLEAN]

ASSUME KeysAssumption ==
  /\ IsFiniteSet(KeyIds)
  /\ IsFiniteSet(Creators) /\ Creators # {}
  /\ MaxKeys \in Nat \ {0}
  /\ MaxRestarts \in Nat
  /\ Gate \notin Namespaces
  /\ Scoped \cap Plain = {}
  /\ {Nobody, Unminted, Revoked} \cap Users = {}
  /\ Nobody \notin {Unminted, Revoked}
  /\ Unminted # Revoked
  /\ Idle \notin Users \cup Request

VARIABLES
  owner,      \* the api_keys table: who owns each key, or why there is no row
  minting,    \* the user each INSERT ... SELECT under way counted keys for
  cache,      \* the keys each resolver remembers
  req,        \* the request each slot serves
  restarts,   \* restarts so far
  forgotten   \* history: the keys already revoked when the process started

vars == <<owner, minting, cache, req, restarts, forgotten>>

Live(k) == owner[k] \in Users \cup {Nobody}
OwnedBy(u) == {k \in KeyIds : owner[k] = u}

\* Keys minted outside the dashboard (the dev key of 0003_api_keys.sql) may
\* be in the table from the start.
Init ==
  /\ owner \in [KeyIds -> {Unminted, Nobody}]
  /\ minting = [c \in Creators |-> Idle]
  /\ cache = [v \in Resolvers |-> {}]
  /\ req = [r \in Requests |-> Idle]
  /\ restarts = 0
  /\ forgotten = {}

(***************************************************************************)
(* keysapi.Store.  Create is one INSERT ... SELECT ... WHERE count < cap:  *)
(* the count is taken in the snapshot of the statement's start, and the    *)
(* row appears when the statement commits.  A count at the cap is          *)
(* ErrKeyLimit and changes nothing.                                        *)
(***************************************************************************)
\* Mutant of CountKeys: a count at the cap still mints.
CountKeysInclusive(c, u) ==
  /\ minting[c] = Idle
  /\ Cardinality(OwnedBy(u)) <= MaxKeys
  /\ minting' = [minting EXCEPT ![c] = u]
  /\ UNCHANGED <<owner, cache, req, restarts, forgotten>>

CountKeys(c, u) ==
  /\ minting[c] = Idle
  /\ Cardinality(OwnedBy(u)) < MaxKeys
  /\ minting' = [minting EXCEPT ![c] = u]
  /\ UNCHANGED <<owner, cache, req, restarts, forgotten>>

InsertKey(c, k) ==
  /\ minting[c] # Idle
  /\ owner[k] = Unminted
  /\ owner' = [owner EXCEPT ![k] = minting[c]]
  /\ minting' = [minting EXCEPT ![c] = Idle]
  /\ UNCHANGED <<cache, req, restarts, forgotten>>

InsertFails(c) ==
  /\ minting[c] # Idle
  /\ minting' = [minting EXCEPT ![c] = Idle]
  /\ UNCHANGED <<owner, cache, req, restarts, forgotten>>

\* Mutant of Revoke: no clerk_user_id in the WHERE.
RevokeAnyKey(u, k) ==
  /\ Live(k)
  /\ owner' = [owner EXCEPT ![k] = Revoked]
  /\ UNCHANGED <<minting, cache, req, restarts, forgotten>>

\* DELETE ... WHERE id = $1 AND clerk_user_id = $2.  No cache is told.
Revoke(u, k) ==
  /\ owner[k] = u
  /\ owner' = [owner EXCEPT ![k] = Revoked]
  /\ UNCHANGED <<minting, cache, req, restarts, forgotten>>

\* auth.Resolver.Create, behind memory.Store.CreateAPIKey: a key with no owner,
\* remembered by the resolver that minted it.
CreateUnowned(v, k) ==
  /\ owner[k] = Unminted
  /\ owner' = [owner EXCEPT ![k] = Nobody]
  /\ cache' = [cache EXCEPT ![v] = @ \cup {k}]
  /\ UNCHANGED <<minting, req, restarts, forgotten>>

(***************************************************************************)
(* A request: RequireAPIKey resolves the key at the gate; a scoped         *)
(* namespace resolves it again at its own resolver (callerScope).          *)
(***************************************************************************)
Arrive(r, k, ns) ==
  /\ req[r] = Idle
  /\ req' = [req EXCEPT ![r] = [pc |-> "lookup", key |-> k, ns |-> ns, at |-> Gate,
                                liveAtStart |-> Live(k)]]
  /\ UNCHANGED <<owner, minting, cache, restarts, forgotten>>

\* Resolve returned the key's id: on to the namespace's own lookup, or served.
Passed(r) ==
  req' = [req EXCEPT ![r] =
            IF @.at = Gate /\ @.ns \in Scoped
              THEN [req[r] EXCEPT !.at = req[r].ns, !.pc = "lookup"]
              ELSE [req[r] EXCEPT !.pc = "served"]]

LookingUp(r) == req[r] # Idle /\ req[r].pc = "lookup"
Missed(r) == LookingUp(r) /\ req[r].key \notin cache[req[r].at]

CacheHit(r) ==
  /\ LookingUp(r)
  /\ req[r].key \in cache[req[r].at]
  /\ Passed(r)
  /\ UNCHANGED <<owner, minting, cache, restarts, forgotten>>

\* Mutant of SelectFound: ErrNoRows taken for a row.
SelectFoundAlways(r) ==
  /\ Missed(r)
  /\ req' = [req EXCEPT ![r].pc = "found"]
  /\ UNCHANGED <<owner, minting, cache, restarts, forgotten>>

SelectFound(r) ==
  /\ Missed(r)
  /\ Live(req[r].key)
  /\ req' = [req EXCEPT ![r].pc = "found"]
  /\ UNCHANGED <<owner, minting, cache, restarts, forgotten>>

SelectNone(r) ==
  /\ Missed(r)
  /\ ~Live(req[r].key)
  /\ req' = [req EXCEPT ![r].pc = "unauthorized"]
  /\ UNCHANGED <<owner, minting, cache, restarts, forgotten>>

\* Mutant of SelectFails: any error is ErrUnauthorized.
SelectFailsUnauthorized(r) ==
  /\ Missed(r)
  /\ req' = [req EXCEPT ![r].pc = "unauthorized"]
  /\ UNCHANGED <<owner, minting, cache, restarts, forgotten>>

SelectFails(r) ==
  /\ Missed(r)
  /\ req' = [req EXCEPT ![r].pc = "unavailable"]
  /\ UNCHANGED <<owner, minting, cache, restarts, forgotten>>

\* Under the write lock, after the SELECT and apart from it.
Remember(r) ==
  /\ req[r] # Idle
  /\ req[r].pc = "found"
  /\ cache' = [cache EXCEPT ![req[r].at] = @ \cup {req[r].key}]
  /\ Passed(r)
  /\ UNCHANGED <<owner, minting, restarts, forgotten>>

Reply(r) ==
  /\ req[r] # Idle
  /\ req[r].pc \in Outcomes
  /\ req' = [req EXCEPT ![r] = Idle]
  /\ UNCHANGED <<owner, minting, cache, restarts, forgotten>>

\* Mutant of Restart: the caches outlive the process.
RestartKeepsCaches ==
  /\ restarts < MaxRestarts
  /\ restarts' = restarts + 1
  /\ req' = [r \in Requests |-> Idle]
  /\ forgotten' = {k \in KeyIds : owner[k] = Revoked}
  /\ UNCHANGED <<owner, minting, cache>>

\* The caches go with the process; an INSERT the database already runs may
\* still commit.
Restart ==
  /\ restarts < MaxRestarts
  /\ restarts' = restarts + 1
  /\ cache' = [v \in Resolvers |-> {}]
  /\ req' = [r \in Requests |-> Idle]
  /\ forgotten' = {k \in KeyIds : owner[k] = Revoked}
  /\ UNCHANGED <<owner, minting>>

DashboardStep ==
  \/ \E c \in Creators, u \in Users : CountKeys(c, u)
  \/ \E c \in Creators, k \in KeyIds : InsertKey(c, k)
  \/ \E c \in Creators : InsertFails(c)
  \/ \E u \in Users, k \in KeyIds : Revoke(u, k)

ResolveStep(r) ==
  \/ CacheHit(r)
  \/ SelectFound(r)
  \/ SelectNone(r)
  \/ SelectFails(r)
  \/ Remember(r)

Next ==
  \/ DashboardStep
  \/ \E v \in Scoped, k \in KeyIds : CreateUnowned(v, k)
  \/ \E r \in Requests, k \in KeyIds, ns \in Namespaces : Arrive(r, k, ns)
  \/ \E r \in Requests : ResolveStep(r) \/ Reply(r)
  \/ Restart

Spec == Init /\ [][Next]_vars
-----------------------------------------------------------------------------
\* Every variable holds a value of its kind.
TypeOK ==
  /\ owner \in [KeyIds -> Users \cup {Nobody, Unminted, Revoked}]
  /\ minting \in [Creators -> Users \cup {Idle}]
  /\ cache \in [Resolvers -> SUBSET KeyIds]
  /\ req \in [Requests -> Request \cup {Idle}]
  /\ restarts \in 0 .. MaxRestarts
  /\ forgotten \subseteq KeyIds

MintingFor(u) == {c \in Creators : minting[c] = u}

\* What statements that overlap leave of the cap of MaxKeysPerUser, though count
\* and insert are one statement (keys.go:101-104): a user's keys and the inserts
\* under way for them never exceed it by more than the other creators.
KeyCapPlusCreators ==
  \A u \in Users : Cardinality(OwnedBy(u)) + Cardinality(MintingFor(u))
                     <= MaxKeys + Cardinality(Creators) - 1

\* A key nobody minted opens nothing: no resolver remembers it and no request
\* that presents it is served.
OnlyMintedServed ==
  /\ \A v \in Resolvers : \A k \in cache[v] : owner[k] # Unminted
  /\ \A r \in Requests : req[r] # Idle /\ req[r].pc = "served" => owner[req[r].key] # Unminted

\* How long a revoked key can still be served: not past a restart.  A SELECT
\* that raced the revocation cannot carry it over either.
RestartEndsAccess ==
  /\ \A v \in Resolvers : cache[v] \cap forgotten = {}
  /\ \A r \in Requests : req[r] # Idle /\ req[r].pc \in {"found", "served"} => req[r].key \notin forgotten

\* A request whose key was live when it arrived is told "unauthorized" only if
\* the key was revoked meanwhile: refusals are not remembered, so probing a
\* key before it is minted does it no harm.
NoFalseRefusal ==
  \A r \in Requests :
    req[r] # Idle /\ req[r].pc = "unauthorized" /\ req[r].liveAtStart => owner[req[r].key] = Revoked

\* A key is minted once and revoked once: it never changes hands, never comes
\* back, and the dashboard cannot revoke a key that belongs to no user.
OwnershipStable ==
  [][\A k \in KeyIds : owner'[k] # owner[k] =>
       \/ owner[k] = Unminted /\ owner'[k] # Revoked
       \/ owner[k] \in Users /\ owner'[k] = Revoked]_vars
=============================================================================
