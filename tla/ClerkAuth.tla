----------------------------- MODULE ClerkAuth -----------------------------
(***************************************************************************)
(* clerkauth.RequireUser in front of the key-management API: a bearer      *)
(* token names the signing key it was made with; the key comes from a      *)
(* cache that is filled from Clerk's published keys and never emptied, and *)
(* the token is verified against it.                                       *)
(*                                                                         *)
(* The module is a component: its actions leave the rest of the system     *)
(* alone and Dashboard joins them to the requests they admit.  Tokens are  *)
(* those Clerk issues; what Clerk does is modelled from how it is used.    *)
(***************************************************************************)
EXTENDS Naturals, FiniteSets

CONSTANTS
  Users,        \* Clerk users
  Calls,        \* requests to the key API that may be in flight at once
  SigningKeys,  \* signing keys Clerk may ever publish, by key id
  Idle          \* no token

Verdicts == {"verified", "unauthorized", "unavailable"}
Token == [user : Users, kid : SigningKeys, expired : BOOLEAN,
          pc : {"presented", "fetched"} \cup Verdicts]

ASSUME ClerkAssumption == Idle \notin Users \cup Token

VARIABLES
  signing,     \* Clerk: what has become of each signing key
  jwks,        \* Authenticator.jwks: the signing keys remembered
  bearer,      \* the token of each request, as far as it got
  goneAtStart  \* history: the keys withdrawn before the process started

authVars == <<signing, jwks, bearer, goneAtStart>>

Published == {s \in SigningKeys : signing[s] = "published"}
Withdrawn == {s \in SigningKeys : signing[s] = "withdrawn"}

AuthInit ==
  /\ signing \in [SigningKeys -> {"future", "published"}]
  /\ Published # {}
  /\ jwks = {}
  /\ bearer = [c \in Calls |-> Idle]
  /\ goneAtStart = {}

At(c, pc) == bearer[c] # Idle /\ bearer[c].pc = pc

\* getToken() signed with a key Clerk publishes, and the request is sent.
Present(c, u) ==
  /\ bearer[c] = Idle
  /\ \E s \in Published :
       bearer' = [bearer EXCEPT ![c] = [user |-> u, kid |-> s, expired |-> FALSE,
                                        pc |-> "presented"]]
  /\ UNCHANGED <<signing, jwks, goneAtStart>>

\* The lifetime of a session token ends while its request is on the way.
Expire(c) ==
  /\ bearer[c] # Idle
  /\ bearer[c].pc \in {"presented", "fetched"}
  /\ bearer' = [bearer EXCEPT ![c].expired = TRUE]
  /\ UNCHANGED <<signing, jwks, goneAtStart>>

\* jwt.Verify with the key in hand: the signature is good, the lifetime may
\* have ended.
Verified(c) ==
  bearer' = [bearer EXCEPT ![c].pc = IF bearer[c].expired THEN "unauthorized" ELSE "verified"]

KeyCached(c) ==
  /\ At(c, "presented")
  /\ bearer[c].kid \in jwks
  /\ Verified(c)
  /\ UNCHANGED <<signing, jwks, goneAtStart>>

FetchKey(c) ==
  /\ At(c, "presented")
  /\ bearer[c].kid \notin jwks
  /\ bearer[c].kid \in Published
  /\ bearer' = [bearer EXCEPT ![c].pc = "fetched"]
  /\ UNCHANGED <<signing, jwks, goneAtStart>>

\* Mutant of FetchFails: any failure is a bad credential.
FetchFailsRefused(c) ==
  /\ At(c, "presented")
  /\ bearer[c].kid \notin jwks
  /\ bearer' = [bearer EXCEPT ![c].pc = "unauthorized"]
  /\ UNCHANGED <<signing, jwks, goneAtStart>>

\* Clerk cannot be reached, or no longer has the key.
FetchFails(c) ==
  /\ At(c, "presented")
  /\ bearer[c].kid \notin jwks
  /\ bearer' = [bearer EXCEPT ![c].pc = "unavailable"]
  /\ UNCHANGED <<signing, jwks, goneAtStart>>

\* Under the write lock, after the fetch and apart from it; then verify.
StoreKey(c) ==
  /\ At(c, "fetched")
  /\ jwks' = jwks \cup {bearer[c].kid}
  /\ Verified(c)
  /\ UNCHANGED <<signing, goneAtStart>>

AuthStep(c) == KeyCached(c) \/ FetchKey(c) \/ FetchFails(c) \/ StoreKey(c)

\* Clerk rotates its keys: one appears, or one goes and never comes back.
Rotate(s) ==
  /\ \/ signing[s] = "future" /\ signing' = [signing EXCEPT ![s] = "published"]
     \/ Published \ {s} # {} /\ s \in Published /\ signing' = [signing EXCEPT ![s] = "withdrawn"]
  /\ UNCHANGED <<jwks, bearer, goneAtStart>>

\* The requests the process was serving; one on its way there arrives at the
\* next process.
Inside(c) == bearer[c] # Idle /\ bearer[c].pc # "presented"

\* Mutant of AuthRestart: the cache outlives the process.
AuthRestartKeepsKeys ==
  /\ bearer' = [c \in Calls |-> IF Inside(c) THEN Idle ELSE bearer[c]]
  /\ goneAtStart' = Withdrawn
  /\ UNCHANGED <<signing, jwks>>

AuthRestart ==
  /\ jwks' = {}
  /\ bearer' = [c \in Calls |-> IF Inside(c) THEN Idle ELSE bearer[c]]
  /\ goneAtStart' = Withdrawn
  /\ UNCHANGED signing

\* The handler, or the refusal, is done with the token.
Answered(c) ==
  /\ bearer' = [bearer EXCEPT ![c] = Idle]
  /\ UNCHANGED <<signing, jwks, goneAtStart>>
-----------------------------------------------------------------------------
\* Every variable holds a value of its kind.
AuthTypeOK ==
  /\ signing \in [SigningKeys -> {"future", "published", "withdrawn"}]
  /\ jwks \subseteq SigningKeys
  /\ bearer \in [Calls -> Token \cup {Idle}]
  /\ goneAtStart \subseteq SigningKeys

\* What RequireUser says of an outage (clerkauth.go:77-79): it is not reported
\* as a credential failure.  A user with a good token is told "unauthorized"
\* by no fetch, rotation or restart.
OutageNotRefusal ==
  \A c \in Calls : At(c, "unauthorized") => bearer[c].expired

\* How long a withdrawn signing key can still admit anyone: not past a restart
\* of the server, though a token made with it before may arrive after.
TrustEndsAtRestart ==
  /\ jwks \cap goneAtStart = {}
  /\ \A c \in Calls : At(c, "fetched") \/ At(c, "verified") => bearer[c].kid \notin goneAtStart
=============================================================================
