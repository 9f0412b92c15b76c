--------------------------- MODULE ApiKeysProofs ---------------------------
(***************************************************************************)
(* Proofs about ApiKeys, for every number of users, keys, creators,        *)
(* requests and namespaces, and every cap.                                 *)
(***************************************************************************)
EXTENDS ApiKeys, FiniteSetTheorems, TLAPS

\* The marks in the owner and minting columns are not users.
LEMMA MarksApart ==
  /\ Nobody # Unminted /\ Nobody # Revoked /\ Unminted # Revoked
  /\ Nobody \notin Users /\ Unminted \notin Users /\ Revoked \notin Users
  /\ Idle \notin Users /\ Idle \notin Request
  BY KeysAssumption

\* One more element.
LEMMA OneMore ==
  ASSUME NEW S, IsFiniteSet(S), NEW x
  PROVE  Cardinality(S \cup {x}) \in Nat /\ Cardinality(S \cup {x}) <= Cardinality(S) + 1
<1>1. Cardinality(S) \in Nat /\ IsFiniteSet(S \cup {x})
  BY FS_CardinalityType, FS_AddElement
<1>2. Cardinality(S \cup {x}) = Cardinality(S) \/ Cardinality(S \cup {x}) = Cardinality(S) + 1
  BY FS_AddElement
<1>3. QED
  BY <1>1, <1>2

(***************************************************************************)
(* Types.                                                                  *)
(***************************************************************************)
LEMMA KeysInitType == Init => TypeOK
  BY KeysAssumption DEF Init, TypeOK

\* The lookup that passes at the gate goes on to a resolver of the request's
\* namespace, and to nowhere else.
LEMMA PassedType ==
  ASSUME TypeOK, NEW r \in Requests, req[r] # Idle, Passed(r)
  PROVE  req' \in [Requests -> Request \cup {Idle}]
<1>1. req[r] \in Request
  BY DEF TypeOK
<1>2. req[r].ns \in Scoped => req[r].ns \in Resolvers
  BY DEF Resolvers
<1>3. [req[r] EXCEPT !.at = req[r].ns, !.pc = "lookup"] \in Request \/ req[r].ns \notin Scoped
  BY <1>1, <1>2 DEF Request
<1>4. [req[r] EXCEPT !.pc = "served"] \in Request
  BY <1>1 DEF Request, Outcomes
<1>5. QED
  BY <1>3, <1>4 DEF Passed, TypeOK

\* Every step keeps each variable in its set.
LEMMA KeysNextType == TypeOK /\ [Next]_vars => TypeOK'
<1> SUFFICES ASSUME TypeOK, [Next]_vars PROVE TypeOK'
  OBVIOUS
<1> USE KeysAssumption
<1>1. CASE DashboardStep
  <2>1. ASSUME NEW c \in Creators, NEW u \in Users, CountKeys(c, u)
        PROVE  TypeOK'
    BY <2>1 DEF CountKeys, TypeOK
  <2>2. ASSUME NEW c \in Creators, NEW k \in KeyIds, InsertKey(c, k)
        PROVE  TypeOK'
    BY <2>2 DEF InsertKey, TypeOK
  <2>3. ASSUME NEW c \in Creators, InsertFails(c)
        PROVE  TypeOK'
    BY <2>3 DEF InsertFails, TypeOK
  <2>4. ASSUME NEW u \in Users, NEW k \in KeyIds, Revoke(u, k)
        PROVE  TypeOK'
    BY <2>4 DEF Revoke, TypeOK
  <2>5. QED
    BY <1>1, <2>1, <2>2, <2>3, <2>4 DEF DashboardStep
<1>2. ASSUME NEW v \in Scoped, NEW k \in KeyIds, CreateUnowned(v, k)
      PROVE  TypeOK'
  BY <1>2 DEF CreateUnowned, TypeOK, Resolvers
<1>3. ASSUME NEW r \in Requests, NEW k \in KeyIds, NEW ns \in Namespaces, Arrive(r, k, ns)
      PROVE  TypeOK'
  <2>1. [pc |-> "lookup", key |-> k, ns |-> ns, at |-> Gate,
         liveAtStart |-> Live(k)] \in Request
    <3>1. Live(k) \in BOOLEAN
      BY DEF Live
    <3>2. QED
      BY <3>1 DEF Request, Resolvers
  <2>2. QED
    BY <1>3, <2>1 DEF Arrive, TypeOK
<1>4. ASSUME NEW r \in Requests, ResolveStep(r)
      PROVE  TypeOK'
  <2>1. req[r] \in Request
    BY <1>4 DEF ResolveStep, CacheHit, SelectFound, SelectNone, SelectFails, Remember, Missed,
                LookingUp, TypeOK
  <2>2. \A p \in {"found"} \cup Outcomes : [req[r] EXCEPT !.pc = p] \in Request
    BY <2>1 DEF Request
  <2>3. CASE CacheHit(r)
    BY <2>3, PassedType DEF CacheHit, LookingUp, TypeOK
  <2>4. CASE SelectFound(r) \/ SelectNone(r) \/ SelectFails(r)
    BY <2>2, <2>4 DEF SelectFound, SelectNone, SelectFails, TypeOK, Outcomes
  <2>5. CASE Remember(r)
    <3>1. req[r].at \in Resolvers /\ req[r].key \in KeyIds
      BY <2>1 DEF Request
    <3>2. cache' \in [Resolvers -> SUBSET KeyIds]
      BY <2>5, <3>1 DEF Remember, TypeOK
    <3>3. QED
      BY <2>5, <3>2, PassedType DEF Remember, TypeOK
  <2>6. QED
    BY <1>4, <2>3, <2>4, <2>5 DEF ResolveStep
<1>5. ASSUME NEW r \in Requests, Reply(r)
      PROVE  TypeOK'
  BY <1>5 DEF Reply, TypeOK
<1>6. CASE Restart
  BY <1>6 DEF Restart, TypeOK
<1>7. CASE UNCHANGED vars
  BY <1>7 DEF vars, TypeOK
<1>8. QED
  BY <1>1, <1>2, <1>3, <1>4, <1>5, <1>6, <1>7 DEF Next

\* Every variable of the key's life holds a value of its kind, in every run.
THEOREM KeysTypeCorrect == Spec => []TypeOK
  BY KeysInitType, KeysNextType, PTL DEF Spec

(***************************************************************************)
(* The cap.  A creator that has counted is as good as a key: the sum only  *)
(* grows when a creator counts fewer than MaxKeys keys, and at most the    *)
(* other creators can have counted before it.                              *)
(***************************************************************************)
LEMMA CountsFinite ==
  ASSUME NEW u
  PROVE  /\ IsFiniteSet(OwnedBy(u)) /\ Cardinality(OwnedBy(u)) \in Nat
         /\ IsFiniteSet(MintingFor(u)) /\ Cardinality(MintingFor(u)) \in Nat
         /\ Cardinality(Creators) \in Nat \ {0}
<1>1. IsFiniteSet(OwnedBy(u)) /\ IsFiniteSet(MintingFor(u))
  BY KeysAssumption, FS_Subset DEF OwnedBy, MintingFor
<1>2. Cardinality(Creators) \in Nat \ {0}
  BY KeysAssumption, FS_CardinalityType, FS_EmptySet
<1>3. QED
  BY <1>1, <1>2, FS_CardinalityType

\* No creation is under way at the start.
LEMMA CapInit == Init => KeyCapPlusCreators
<1> SUFFICES ASSUME Init, NEW u \in Users
             PROVE  Cardinality(OwnedBy(u)) + Cardinality(MintingFor(u))
                      <= MaxKeys + Cardinality(Creators) - 1
  BY DEF KeyCapPlusCreators
<1>1. OwnedBy(u) = {} /\ MintingFor(u) = {}
  BY MarksApart DEF Init, OwnedBy, MintingFor
<1>2. QED
  BY <1>1, CountsFinite, FS_EmptySet, KeysAssumption

\* A step that adds neither a key of the user nor a mint under way for them.
LEMMA CapKept ==
  ASSUME KeyCapPlusCreators, NEW u \in Users,
         OwnedBy(u)' \subseteq OwnedBy(u), MintingFor(u)' \subseteq MintingFor(u)
  PROVE  Cardinality(OwnedBy(u)') + Cardinality(MintingFor(u)')
           <= MaxKeys + Cardinality(Creators) - 1
<1>1. /\ Cardinality(OwnedBy(u)') <= Cardinality(OwnedBy(u))
      /\ Cardinality(MintingFor(u)') <= Cardinality(MintingFor(u))
      /\ IsFiniteSet(OwnedBy(u)') /\ IsFiniteSet(MintingFor(u)')
  BY CountsFinite, FS_Subset
<1>2. Cardinality(OwnedBy(u)') \in Nat /\ Cardinality(MintingFor(u)') \in Nat
  BY <1>1, FS_CardinalityType
<1>3. QED
  BY <1>1, <1>2, CountsFinite, KeysAssumption DEF KeyCapPlusCreators

\* A creation that has counted is in the sum until its key is; nothing else adds to it.
LEMMA CapNext == TypeOK /\ KeyCapPlusCreators /\ [Next]_vars => KeyCapPlusCreators'
<1> SUFFICES ASSUME TypeOK, KeyCapPlusCreators, [Next]_vars, NEW u \in Users
             PROVE  Cardinality(OwnedBy(u)') + Cardinality(MintingFor(u)')
                      <= MaxKeys + Cardinality(Creators) - 1
  BY DEF KeyCapPlusCreators
<1> USE KeysAssumption
<1>1. ASSUME NEW c \in Creators, NEW v \in Users, CountKeys(c, v)
      PROVE  Cardinality(OwnedBy(u)') + Cardinality(MintingFor(u)')
               <= MaxKeys + Cardinality(Creators) - 1
  <2>1. CASE v # u
    <3>1. OwnedBy(u)' = OwnedBy(u) /\ MintingFor(u)' \subseteq MintingFor(u)
      BY <1>1, <2>1 DEF CountKeys, OwnedBy, MintingFor, TypeOK
    <3>2. QED
      BY <3>1, CapKept
  <2>2. CASE v = u
    <3>1. /\ OwnedBy(u)' = OwnedBy(u)
          /\ Cardinality(OwnedBy(u)) < MaxKeys
          /\ MintingFor(u)' = MintingFor(u) \cup {c}
          /\ MintingFor(u) \subseteq Creators \ {c}
      BY <1>1, <2>2, MarksApart DEF CountKeys, OwnedBy, MintingFor, TypeOK
    <3>2. Cardinality(Creators \ {c}) = Cardinality(Creators) - 1 /\ IsFiniteSet(Creators \ {c})
      BY FS_RemoveElement
    <3>3. Cardinality(MintingFor(u)) <= Cardinality(Creators) - 1
      BY <3>1, <3>2, FS_Subset
    <3>4. Cardinality(MintingFor(u)') <= Cardinality(MintingFor(u)) + 1
          /\ Cardinality(MintingFor(u)') \in Nat
      BY <3>1, OneMore, CountsFinite
    <3>5. Cardinality(OwnedBy(u)') = Cardinality(OwnedBy(u))
      BY <3>1
    <3>6. QED
      BY <3>1, <3>3, <3>4, <3>5, CountsFinite
  <2>3. QED
    BY <2>1, <2>2
<1>2. ASSUME NEW c \in Creators, NEW k \in KeyIds, InsertKey(c, k)
      PROVE  Cardinality(OwnedBy(u)') + Cardinality(MintingFor(u)')
               <= MaxKeys + Cardinality(Creators) - 1
  <2>1. CASE minting[c] # u
    <3>1. OwnedBy(u)' \subseteq OwnedBy(u) /\ MintingFor(u)' \subseteq MintingFor(u)
      BY <1>2, <2>1, MarksApart DEF InsertKey, OwnedBy, MintingFor, TypeOK
    <3>2. QED
      BY <3>1, CapKept
  <2>2. CASE minting[c] = u
    <3>1. /\ OwnedBy(u)' = OwnedBy(u) \cup {k}
          /\ MintingFor(u)' = MintingFor(u) \ {c}
          /\ c \in MintingFor(u)
      BY <1>2, <2>2, MarksApart DEF InsertKey, OwnedBy, MintingFor, TypeOK
    <3>2. Cardinality(OwnedBy(u) \cup {k}) <= Cardinality(OwnedBy(u)) + 1
          /\ Cardinality(OwnedBy(u) \cup {k}) \in Nat
      BY OneMore, CountsFinite
    <3>3. Cardinality(MintingFor(u) \ {c}) = Cardinality(MintingFor(u)) - 1
      BY <3>1, FS_RemoveElement, CountsFinite
    <3>4. Cardinality(OwnedBy(u)) + Cardinality(MintingFor(u))
            <= MaxKeys + Cardinality(Creators) - 1
      BY DEF KeyCapPlusCreators
    <3>5. QED
      BY <3>1, <3>2, <3>3, <3>4, CountsFinite
  <2>3. QED
    BY <2>1, <2>2
<1>3. ASSUME NEW c \in Creators, InsertFails(c)
      PROVE  OwnedBy(u)' \subseteq OwnedBy(u) /\ MintingFor(u)' \subseteq MintingFor(u)
  BY <1>3, MarksApart DEF InsertFails, OwnedBy, MintingFor, TypeOK
<1>4. ASSUME NEW v \in Users, NEW k \in KeyIds, Revoke(v, k)
      PROVE  OwnedBy(u)' \subseteq OwnedBy(u) /\ MintingFor(u)' \subseteq MintingFor(u)
  BY <1>4, MarksApart DEF Revoke, OwnedBy, MintingFor, TypeOK
<1>5. ASSUME NEW v \in Scoped, NEW k \in KeyIds, CreateUnowned(v, k)
      PROVE  OwnedBy(u)' \subseteq OwnedBy(u) /\ MintingFor(u)' \subseteq MintingFor(u)
  BY <1>5, MarksApart DEF CreateUnowned, OwnedBy, MintingFor, TypeOK
<1>6. CASE UNCHANGED <<owner, minting>>
  BY <1>6, CapKept DEF OwnedBy, MintingFor
<1>7. QED
  BY <1>1, <1>2, <1>3, <1>4, <1>5, <1>6, CapKept
  DEF Next, DashboardStep, Arrive, ResolveStep, CacheHit, SelectFound, SelectNone, SelectFails,
      Remember, Reply, Restart, vars

\* Overlapping creations never take a user past MaxKeysPerUser by more than
\* the number of creations beyond the first: the gap between count and insert
\* is bounded by the requests in it.
THEOREM KeyCapOverrunBounded == Spec => []KeyCapPlusCreators
<1>1. Init => TypeOK /\ KeyCapPlusCreators
  BY KeysInitType, CapInit
<1>2. TypeOK /\ KeyCapPlusCreators /\ [Next]_vars => (TypeOK /\ KeyCapPlusCreators)'
  BY KeysNextType, CapNext
<1>3. QED
  BY <1>1, <1>2, PTL DEF Spec

(***************************************************************************)
(* Access.  What a resolver remembers, and what a lookup has found, was    *)
(* minted, and was not yet revoked when the process started.               *)
(***************************************************************************)
Good(k) == owner[k] # Unminted /\ k \notin forgotten
Admitted(r) == req[r] # Idle /\ req[r].pc \in {"found", "served"}

ForgottenRevoked == \A k \in forgotten : owner[k] = Revoked
CachesGood == \A v \in Resolvers : \A k \in cache[v] : Good(k)
AdmittedGood == \A r \in Requests : Admitted(r) => Good(req[r].key)
LiveOnceMinted ==
  \A r \in Requests : req[r] # Idle /\ req[r].liveAtStart => owner[req[r].key] # Unminted

AccessInv ==
  /\ TypeOK
  /\ ForgottenRevoked
  /\ CachesGood
  /\ AdmittedGood
  /\ LiveOnceMinted
  /\ NoFalseRefusal

\* Every cache is empty at the start.
LEMMA AccessInit == Init => AccessInv
  BY KeysInitType, MarksApart
  DEF Init, AccessInv, ForgottenRevoked, CachesGood, AdmittedGood, LiveOnceMinted, NoFalseRefusal,
      Admitted

\* The table keeps what it has minted, and what it has revoked.
LEMMA OwnerMonotone ==
  ASSUME TypeOK, [Next]_vars
  PROVE  \A k \in KeyIds : /\ owner[k] # Unminted => owner'[k] # Unminted
                           /\ owner[k] = Revoked => owner'[k] = Revoked
<1> USE MarksApart
<1>1. ASSUME NEW c \in Creators, NEW k \in KeyIds, InsertKey(c, k)
      PROVE  \A n \in KeyIds : /\ owner[n] # Unminted => owner'[n] # Unminted
                               /\ owner[n] = Revoked => owner'[n] = Revoked
  BY <1>1 DEF InsertKey, TypeOK
<1>2. ASSUME NEW u \in Users, NEW k \in KeyIds, Revoke(u, k)
      PROVE  \A n \in KeyIds : /\ owner[n] # Unminted => owner'[n] # Unminted
                               /\ owner[n] = Revoked => owner'[n] = Revoked
  BY <1>2 DEF Revoke, TypeOK
<1>3. ASSUME NEW v \in Scoped, NEW k \in KeyIds, CreateUnowned(v, k)
      PROVE  \A n \in KeyIds : /\ owner[n] # Unminted => owner'[n] # Unminted
                               /\ owner[n] = Revoked => owner'[n] = Revoked
  BY <1>3 DEF CreateUnowned, TypeOK
<1>4. CASE UNCHANGED owner
  BY <1>4
<1>5. QED
  BY <1>1, <1>2, <1>3, <1>4
  DEF Next, DashboardStep, CountKeys, InsertFails, Arrive, ResolveStep, CacheHit, SelectFound,
      SelectNone, SelectFails, Remember, Reply, Restart, vars

\* Steps that leave the requests, the caches and the history alone.
LEMMA AccessOfTable ==
  ASSUME AccessInv, [Next]_vars, UNCHANGED <<cache, req, forgotten>>
  PROVE  AccessInv'
<1>1. TypeOK'
  BY KeysNextType DEF AccessInv
<1>2. \A k \in KeyIds : /\ owner[k] # Unminted => owner'[k] # Unminted
                        /\ owner[k] = Revoked => owner'[k] = Revoked
  BY OwnerMonotone DEF AccessInv
<1>3. \A r \in Requests : req[r] # Idle => req[r].key \in KeyIds
  BY DEF AccessInv, TypeOK, Request
<1>4. ForgottenRevoked' /\ CachesGood'
  BY <1>2 DEF AccessInv, TypeOK, ForgottenRevoked, CachesGood, Good
<1>5. AdmittedGood' /\ LiveOnceMinted' /\ NoFalseRefusal'
  BY <1>2, <1>3 DEF AccessInv, AdmittedGood, Admitted, LiveOnceMinted, NoFalseRefusal, Good
<1>6. QED
  BY <1>1, <1>4, <1>5 DEF AccessInv

\* Steps of one request that only fill caches with good keys.
LEMMA AccessOfRequest ==
  ASSUME AccessInv, [Next]_vars, UNCHANGED <<owner, forgotten>>, CachesGood',
         NEW r \in Requests,
         \A s \in Requests : s # r => req'[s] = req[s],
         Admitted(r)' => Good(req'[r].key),
         req'[r] # Idle /\ req'[r].liveAtStart => owner[req'[r].key] # Unminted,
         req'[r] # Idle /\ req'[r].pc = "unauthorized" /\ req'[r].liveAtStart
           => owner[req'[r].key] = Revoked
  PROVE  AccessInv'
<1>1. TypeOK'
  BY KeysNextType DEF AccessInv
<1>2. ForgottenRevoked' /\ AdmittedGood' /\ LiveOnceMinted' /\ NoFalseRefusal'
  BY DEF AccessInv, ForgottenRevoked, AdmittedGood, LiveOnceMinted, NoFalseRefusal, Good, Admitted
<1>3. QED
  BY <1>1, <1>2 DEF AccessInv

\* A lookup that returned a good key moves its request on, key and history kept.
LEMMA PassedKeeps ==
  ASSUME TypeOK, NEW r \in Requests, req[r] # Idle, Passed(r)
  PROVE  /\ \A s \in Requests : s # r => req'[s] = req[s]
         /\ req'[r] # Idle
         /\ req'[r].key = req[r].key
         /\ req'[r].liveAtStart = req[r].liveAtStart
         /\ req'[r].pc \in {"lookup", "served"}
<1>1. req[r] \in Request
  BY DEF TypeOK
<1>2. req'[r] = [req[r] EXCEPT !.at = req[r].ns, !.pc = "lookup"]
      \/ req'[r] = [req[r] EXCEPT !.pc = "served"]
  BY DEF Passed, TypeOK
<1>3. \A s \in Requests : s # r => req'[s] = req[s]
  BY DEF Passed, TypeOK
<1>4. req'[r].key = req[r].key /\ req'[r].liveAtStart = req[r].liveAtStart
      /\ req'[r].pc \in {"lookup", "served"}
  BY <1>1, <1>2 DEF Request
<1>5. req'[r] \in Request
  <2>1. req[r].ns \in Scoped => [req[r] EXCEPT !.at = req[r].ns, !.pc = "lookup"] \in Request
    BY <1>1 DEF Request, Resolvers
  <2>2. [req[r] EXCEPT !.pc = "served"] \in Request
    BY <1>1 DEF Request, Outcomes
  <2>3. QED
    BY <2>1, <2>2 DEF Passed, TypeOK
<1>6. QED
  BY <1>3, <1>4, <1>5, MarksApart

\* A lookup reads the table, a cache is filled from a lookup, a restart empties it.
LEMMA AccessNext == AccessInv /\ [Next]_vars => AccessInv'
<1> SUFFICES ASSUME AccessInv, [Next]_vars PROVE AccessInv'
  OBVIOUS
<1>0. TypeOK /\ CachesGood /\ AdmittedGood /\ LiveOnceMinted /\ ForgottenRevoked /\ NoFalseRefusal
  BY DEF AccessInv
<1>1. CASE DashboardStep \/ UNCHANGED vars
  BY <1>1, AccessOfTable DEF DashboardStep, CountKeys, InsertKey, InsertFails, Revoke, vars
<1>2. ASSUME NEW v \in Scoped, NEW k \in KeyIds, CreateUnowned(v, k)
      PROVE  AccessInv'
  <2>1. TypeOK'
    BY KeysNextType, <1>0
  <2>2. \A n \in KeyIds : /\ owner[n] # Unminted => owner'[n] # Unminted
                          /\ owner[n] = Revoked => owner'[n] = Revoked
    BY OwnerMonotone, <1>0
  <2>3. \A r \in Requests : req[r] # Idle => req[r].key \in KeyIds
    BY <1>0 DEF TypeOK, Request
  <2>4. ForgottenRevoked' /\ AdmittedGood' /\ LiveOnceMinted' /\ NoFalseRefusal'
    BY <1>0, <1>2, <2>2, <2>3 DEF CreateUnowned, TypeOK, ForgottenRevoked, AdmittedGood, Admitted,
                                  LiveOnceMinted, NoFalseRefusal, Good
  <2>5. Good(k)'
    BY <1>0, <1>2, MarksApart DEF CreateUnowned, Good, ForgottenRevoked, TypeOK
  <2>6. \A w \in Resolvers : cache'[w] \subseteq cache[w] \cup {k}
    BY <1>0, <1>2 DEF CreateUnowned, TypeOK
  <2>7. \A n \in KeyIds : Good(n) => Good(n)'
    BY <1>2, <2>2 DEF CreateUnowned, Good
  <2>8. CachesGood'
    BY <1>0, <2>5, <2>6, <2>7 DEF CachesGood, TypeOK
  <2>9. QED
    BY <2>1, <2>4, <2>8 DEF AccessInv
<1>3. ASSUME NEW r \in Requests, NEW k \in KeyIds, NEW ns \in Namespaces, Arrive(r, k, ns)
      PROVE  AccessInv'
  <2>1. UNCHANGED <<owner, forgotten>> /\ CachesGood' /\ \A s \in Requests : s # r => req'[s] = req[s]
    BY <1>0, <1>3 DEF Arrive, CachesGood, Good, TypeOK
  <2>2. req'[r].pc = "lookup" /\ req'[r].key = k /\ req'[r].liveAtStart = Live(k)
    BY <1>0, <1>3 DEF Arrive, TypeOK
  <2>3. Live(k) => owner[k] # Unminted
    BY MarksApart DEF Live
  <2>4. QED
    BY <2>1, <2>2, <2>3, AccessOfRequest DEF Admitted
<1>4. ASSUME NEW r \in Requests, CacheHit(r)
      PROVE  AccessInv'
  <2>1. req[r] # Idle /\ req[r] \in Request /\ Passed(r) /\ UNCHANGED <<owner, cache, forgotten>>
    BY <1>0, <1>4 DEF CacheHit, LookingUp, TypeOK
  <2>2. Good(req[r].key)
    BY <1>0, <1>4, <2>1 DEF CacheHit, CachesGood, Request
  <2>3. CachesGood'
    BY <1>0, <2>1 DEF CachesGood, Good
  <2>4. QED
    BY <1>0, <2>1, <2>2, <2>3, PassedKeeps, AccessOfRequest DEF LiveOnceMinted
<1>5. ASSUME NEW r \in Requests, Remember(r)
      PROVE  AccessInv'
  <2>1. req[r] # Idle /\ req[r] \in Request /\ Passed(r) /\ UNCHANGED <<owner, forgotten>>
    BY <1>0, <1>5 DEF Remember, TypeOK
  <2>2. Good(req[r].key)
    BY <1>0, <1>5, <2>1 DEF Remember, AdmittedGood, Admitted
  <2>3. \A v \in Resolvers : cache'[v] \subseteq cache[v] \cup {req[r].key}
    BY <1>0, <1>5 DEF Remember, TypeOK
  <2>4. CachesGood'
    BY <1>0, <2>1, <2>2, <2>3 DEF CachesGood, Good
  <2>5. QED
    BY <1>0, <2>1, <2>2, <2>4, PassedKeeps, AccessOfRequest DEF LiveOnceMinted
<1>6. ASSUME NEW r \in Requests, SelectFound(r) \/ SelectNone(r) \/ SelectFails(r)
      PROVE  AccessInv'
  <2>1. req[r] # Idle /\ req[r] \in Request /\ UNCHANGED <<owner, cache, forgotten>>
    BY <1>0, <1>6 DEF SelectFound, SelectNone, SelectFails, Missed, LookingUp, TypeOK
  <2>2. PICK p \in {"found", "unauthorized", "unavailable"} : req' = [req EXCEPT ![r].pc = p]
    BY <1>6 DEF SelectFound, SelectNone, SelectFails
  <2>3. /\ req'[r].pc = p
        /\ req'[r].key = req[r].key
        /\ req'[r].liveAtStart = req[r].liveAtStart
        /\ \A s \in Requests : s # r => req'[s] = req[s]
    BY <1>0, <2>1, <2>2 DEF TypeOK, Request
  <2>4. /\ SelectFound(r) => req'[r].pc = "found"
        /\ SelectNone(r) => req'[r].pc = "unauthorized"
        /\ SelectFails(r) => req'[r].pc = "unavailable"
    BY <1>0, <2>1 DEF SelectFound, SelectNone, SelectFails, TypeOK, Request
  <2>5. p = "found" => Good(req[r].key)
    <3>1. p = "found" => Live(req[r].key)
      BY <1>6, <2>3, <2>4 DEF SelectFound
    <3>2. QED
      BY <1>0, <3>1, MarksApart DEF Live, Good, ForgottenRevoked
  <2>6. p = "unauthorized" /\ req[r].liveAtStart => owner[req[r].key] = Revoked
    <3>1. p = "unauthorized" => ~Live(req[r].key)
      BY <1>6, <2>3, <2>4 DEF SelectNone
    <3>2. req[r].key \in KeyIds
      BY <2>1 DEF Request
    <3>3. QED
      BY <1>0, <2>1, <3>1, <3>2 DEF Live, LiveOnceMinted, TypeOK
  <2>7. CachesGood'
    BY <1>0, <2>1 DEF CachesGood, Good
  <2>8. QED
    BY <1>0, <2>1, <2>3, <2>5, <2>6, <2>7, AccessOfRequest DEF Admitted, LiveOnceMinted, Good
<1>7. ASSUME NEW r \in Requests, Reply(r)
      PROVE  AccessInv'
  <2>1. UNCHANGED <<owner, cache, forgotten>> /\ req'[r] = Idle
        /\ \A s \in Requests : s # r => req'[s] = req[s]
    BY <1>0, <1>7 DEF Reply, TypeOK
  <2>2. CachesGood'
    BY <1>0, <2>1 DEF CachesGood, Good
  <2>3. QED
    BY <2>1, <2>2, AccessOfRequest DEF Admitted
<1>8. CASE Restart
  <2>1. TypeOK'
    BY KeysNextType, <1>0
  <2>2. QED
    BY <1>8, <2>1 DEF Restart, AccessInv, ForgottenRevoked, CachesGood, AdmittedGood, Admitted,
                      LiveOnceMinted, NoFalseRefusal
<1>9. QED
  BY <1>1, <1>2, <1>3, <1>4, <1>5, <1>6, <1>7, <1>8 DEF Next, ResolveStep

\* What a cache or a lookup holds was minted, and not revoked before the start.
LEMMA AccessInvariant == Spec => []AccessInv
  BY AccessInit, AccessNext, PTL DEF Spec

\* A key nobody minted is never remembered by a resolver and never served,
\* whatever guesses arrive and however the lookups interleave with minting.
THEOREM GuessesNeverServed == Spec => []OnlyMintedServed
<1>1. AccessInv => OnlyMintedServed
  BY DEF AccessInv, CachesGood, AdmittedGood, Admitted, Good, OnlyMintedServed
<1>2. QED
  BY <1>1, AccessInvariant, PTL

\* A key revoked before the process started is remembered by no resolver and
\* serves no request: a restart ends the access a stale cache still gives.
THEOREM RestartRevokes == Spec => []RestartEndsAccess
<1>1. AccessInv => RestartEndsAccess
  BY DEF AccessInv, CachesGood, AdmittedGood, Admitted, Good, RestartEndsAccess
<1>2. QED
  BY <1>1, AccessInvariant, PTL

\* A key that was live when its request arrived is refused as unauthorized
\* only if it was revoked in the meantime.
THEOREM RefusalsAreJust == Spec => []NoFalseRefusal
<1>1. AccessInv => NoFalseRefusal
  BY DEF AccessInv
<1>2. QED
  BY <1>1, AccessInvariant, PTL

(***************************************************************************)
(* What a single step may do to the table.                                 *)
(***************************************************************************)
Kept(k) == owner'[k] # owner[k] =>
             \/ owner[k] = Unminted /\ owner'[k] # Revoked
             \/ owner[k] \in Users /\ owner'[k] = Revoked

\* A step leaves a key with its owner, or mints it, or revokes it for good.
LEMMA OwnerKept ==
  ASSUME TypeOK, [Next]_vars
  PROVE  \A k \in KeyIds : Kept(k)
<1> USE MarksApart DEF Kept
<1>1. ASSUME NEW c \in Creators, NEW k \in KeyIds, InsertKey(c, k)
      PROVE  \A n \in KeyIds : Kept(n)
  <2>1. minting[c] \in Users
    BY <1>1 DEF InsertKey, TypeOK
  <2>2. owner'[k] = minting[c] /\ \A n \in KeyIds : n # k => owner'[n] = owner[n]
    BY <1>1 DEF InsertKey, TypeOK
  <2>3. QED
    BY <1>1, <2>1, <2>2 DEF InsertKey
<1>2. ASSUME NEW u \in Users, NEW k \in KeyIds, Revoke(u, k)
      PROVE  \A n \in KeyIds : Kept(n)
  BY <1>2 DEF Revoke, TypeOK
<1>3. ASSUME NEW v \in Scoped, NEW k \in KeyIds, CreateUnowned(v, k)
      PROVE  \A n \in KeyIds : Kept(n)
  BY <1>3 DEF CreateUnowned, TypeOK
<1>4. CASE UNCHANGED owner
  BY <1>4
<1>5. QED
  BY <1>1, <1>2, <1>3, <1>4
  DEF Next, DashboardStep, CountKeys, InsertFails, Arrive, ResolveStep, CacheHit, SelectFound,
      SelectNone, SelectFails, Remember, Reply, Restart, vars

\* A key never changes hands and never comes back, and one that belongs to no
\* user stays out of the dashboard's reach, however users' requests overlap.
THEOREM KeysStayWithOwners == Spec => OwnershipStable
<1>1. TypeOK /\ [Next]_vars => [\A k \in KeyIds : owner'[k] # owner[k] =>
                                  \/ owner[k] = Unminted /\ owner'[k] # Revoked
                                  \/ owner[k] \in Users /\ owner'[k] = Revoked]_vars
  BY OwnerKept DEF Kept
<1>2. QED
  BY <1>1, KeysTypeCorrect, PTL DEF Spec, OwnershipStable
=============================================================================
