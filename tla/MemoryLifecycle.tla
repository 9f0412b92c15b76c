-------------------------- MODULE MemoryLifecycle --------------------------
(***************************************************************************)
(* What the memory namespace promises about a memory, whatever runs behind *)
(* it: a per-key ring buffer of rows whose vectors arrive later.           *)
(*                                                                         *)
(*   - a memory is stored once, under one key, and never comes back;       *)
(*   - storing may drop older memories of the same key only, and one is    *)
(*     dropped only after Cap newer memories of its key were stored        *)
(*     (store.go:24-27, 320-336);                                          *)
(*   - a vector appears on a row that has none, and it is the vector of    *)
(*     the content the row holds at that moment; an edit clears it         *)
(*     (store.go:102-104, 191-198, 360-365);                               *)
(*   - deleting a key erases its memories and no others.                   *)
(***************************************************************************)
EXTENDS Naturals, FiniteSets

CONSTANTS Keys, Contents, Ids, Cap, NoVec, NoKey, Absent

VARIABLES
  keys,    \* the keys that exist
  rows,    \* the memories that exist
  owner    \* the key under which each id was ever stored

vars == <<keys, rows, owner>>

Init ==
  /\ keys = Keys
  /\ rows = [i \in Ids |-> Absent]
  /\ owner = [i \in Ids |-> NoKey]

Held(k) == {i \in Ids : rows[i] # Absent /\ rows[i].key = k}

\* Memory i is stored under key k.  What is dropped may include i itself: a
\* write that began before Cap others of its key and commits after them.
Store(k, i, x, dropped) ==
  /\ k \in keys
  /\ owner[i] = NoKey
  /\ owner' = [owner EXCEPT ![i] = k]
  /\ dropped \subseteq Held(k) \cup {i}
  /\ \A d \in dropped : Cardinality({j \in Ids : j > d /\ owner'[j] = k}) >= Cap
  /\ rows' = [j \in Ids |->
                IF j \in dropped THEN Absent
                ELSE IF j = i THEN [key |-> k, content |-> x, vec |-> NoVec]
                ELSE rows[j]]
  /\ UNCHANGED keys

Edit(i, x) ==
  /\ rows[i] # Absent
  /\ rows' = [rows EXCEPT ![i] = [@ EXCEPT !.content = x, !.vec = NoVec]]
  /\ UNCHANGED <<keys, owner>>

Index(i) ==
  /\ rows[i] # Absent
  /\ rows[i].vec = NoVec
  /\ rows' = [rows EXCEPT ![i].vec = rows[i].content]
  /\ UNCHANGED <<keys, owner>>

Remove(i) ==
  /\ rows[i] # Absent
  /\ rows' = [rows EXCEPT ![i] = Absent]
  /\ UNCHANGED <<keys, owner>>

Revoke(k) ==
  /\ k \in keys
  /\ keys' = keys \ {k}
  /\ rows' = [i \in Ids |-> IF i \in Held(k) THEN Absent ELSE rows[i]]
  /\ UNCHANGED owner

Next ==
  \/ \E k \in Keys, i \in Ids, x \in Contents :
       \E dropped \in SUBSET (Held(k) \cup {i}) : Store(k, i, x, dropped)
  \/ \E i \in Ids, x \in Contents : Edit(i, x)
  \/ \E i \in Ids : Index(i) \/ Remove(i)
  \/ \E k \in Keys : Revoke(k)

Spec == Init /\ [][Next]_vars
=============================================================================
