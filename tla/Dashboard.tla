----------------------------- MODULE Dashboard -----------------------------
(***************************************************************************)
(* The keys page of the web site and everything behind it: the page's own  *)
(* copy of the key list and its dialogs (api-keys-manager.tsx), the Next.js *)
(* route handlers that add the session's token (lib/api-keys.ts), the      *)
(* server's token check (ClerkAuth) and the key table (keysapi).           *)
(*                                                                         *)
(* One browser shows one keys page at a time.  What other tabs, browsers   *)
(* and other users do is done to the table directly.  Labels, masks and    *)
(* dates are left out.                                                     *)
(***************************************************************************)
EXTENDS ClerkAuth

CONSTANTS
  KeyIds,       \* keys that can be minted (a bound)
  Others,       \* creations that may run at once from other browsers
  MaxKeys,      \* MaxKeysPerUser, the page's max
  Nobody,       \* the owner of a key minted outside the dashboard
  Unminted,     \* "the table has never had this key"
  Revoked,      \* "the row was deleted"
  None,         \* no key, no page, no session
  MaxTroubles   \* bound: disturbances from outside the page

Creators == Calls \cup Others
Changes == KeyIds \X {"minted", "revoked"}
Page == [user : Users, keys : SUBSET KeyIds, createOpen : BOOLEAN, creating : BOOLEAN,
         revealed : KeyIds \cup {None}, pending : KeyIds \cup {None}, deleting : BOOLEAN]
Call == [op : {"list", "create", "delete"}, key : KeyIds \cup {None}, live : BOOLEAN,
         user : Users \cup {None}, keys : SUBSET KeyIds,
         pc : {"sent", "forwarded", "inserting", "ok", "error"}]

ASSUME DashboardAssumption ==
  /\ IsFiniteSet(KeyIds)
  /\ IsFiniteSet(Creators) /\ Creators # {}
  /\ Calls \cap Others = {}
  /\ MaxKeys \in Nat \ {0}
  /\ MaxTroubles \in Nat
  /\ {Nobody, Unminted, Revoked, None} \cap Users = {}
  /\ Nobody \notin {Unminted, Revoked}
  /\ Unminted # Revoked
  /\ None \notin KeyIds \cup Page
  /\ Idle \notin Call

VARIABLES
  owner,     \* the api_keys table: who owns each key, or why there is no row
  minting,   \* the user each INSERT ... SELECT under way counted keys for
  session,   \* the Clerk session the browser's cookies hold
  page,      \* the keys page the browser shows
  call,      \* the browser's fetches
  untold,    \* history: changes of the table the page has not been told of
  shown,     \* history: keys whose secret has been displayed
  troubles   \* disturbances so far

siteVars == <<session, page, call, untold, shown, troubles>>
vars == <<authVars, owner, minting, siteVars>>

Live(k) == owner[k] \in Users \cup {Nobody}
OwnedBy(u) == {k \in KeyIds : owner[k] = u}

Init ==
  /\ AuthInit
  /\ owner \in [KeyIds -> {Unminted, Nobody}]
  /\ minting = [c \in Creators |-> Idle]
  /\ session \in Users \cup {None}
  /\ page = None
  /\ call = [c \in Calls |-> Idle]
  /\ untold = {}
  /\ shown = {}
  /\ troubles = 0

Trouble == troubles < MaxTroubles /\ troubles' = troubles + 1
-----------------------------------------------------------------------------
(***************************************************************************)
(* The page.  A dialog is modal: input goes to the one opened last, and    *)
(* the reveal can only open above another.  Escape, the overlay and the    *)
(* close button dismiss a dialog even while its buttons are disabled.      *)
(***************************************************************************)
Shown == page # None
InFront(dialog) ==
  /\ Shown
  /\ CASE dialog = "reveal" -> page.revealed # None
       [] dialog = "create" -> page.createOpen /\ page.revealed = None
       [] dialog = "delete" -> page.pending # None /\ page.revealed = None
NoDialog == Shown /\ ~page.createOpen /\ page.revealed = None /\ page.pending = None

ServerIdle == UNCHANGED <<authVars, owner, minting>>

Free(c) == call[c] = Idle /\ minting[c] = Idle

Fetch(c, op, k) ==
  /\ Free(c)
  /\ call' = [call EXCEPT ![c] = [op |-> op, key |-> k, live |-> TRUE, user |-> None,
                                  keys |-> {}, pc |-> "sent"]]

Loading == \E c \in Calls : call[c] # Idle /\ call[c].op = "list" /\ call[c].live

\* The browser asks for /doc/keys: KeysPage calls listKeys on the server.
Visit(c) ==
  /\ ~Shown /\ ~Loading
  /\ Fetch(c, "list", None)
  /\ ServerIdle
  /\ UNCHANGED <<session, page, untold, shown, troubles>>

\* Reload, Back, or the search palette, which Ctrl+K opens above any dialog:
\* the page goes, its fetches go on, and nobody waits for them.
Leave ==
  /\ Shown \/ Loading
  /\ Trouble
  /\ page' = None
  /\ call' = [c \in Calls |-> IF call[c] = Idle THEN Idle ELSE [call[c] EXCEPT !.live = FALSE]]
  /\ ServerIdle
  /\ UNCHANGED <<session, untold, shown>>

OnPage == ServerIdle /\ UNCHANGED <<session, untold, troubles>>

\* The button is disabled at the limit the page knows of.
OpenCreate ==
  /\ NoDialog
  /\ Cardinality(page.keys) < MaxKeys
  /\ page' = [page EXCEPT !.createOpen = TRUE]
  /\ OnPage /\ UNCHANGED <<call, shown>>

DismissCreate ==
  /\ InFront("create")
  /\ page' = [page EXCEPT !.createOpen = FALSE]
  /\ OnPage /\ UNCHANGED <<call, shown>>

\* Mutant of HandleCreate: Enter is not ignored while creating.
HandleCreateAgain(c) ==
  /\ InFront("create")
  /\ Fetch(c, "create", None)
  /\ page' = [page EXCEPT !.creating = TRUE]
  /\ OnPage /\ UNCHANGED shown

\* Enter or the button, both ignored while creating.
HandleCreate(c) ==
  /\ InFront("create")
  /\ ~page.creating
  /\ Fetch(c, "create", None)
  /\ page' = [page EXCEPT !.creating = TRUE]
  /\ OnPage /\ UNCHANGED shown

DismissReveal ==
  /\ InFront("reveal")
  /\ page' = [page EXCEPT !.revealed = None]
  /\ OnPage /\ UNCHANGED <<call, shown>>

AskDelete(k) ==
  /\ NoDialog
  /\ k \in page.keys
  /\ page' = [page EXCEPT !.pending = k]
  /\ OnPage /\ UNCHANGED <<call, shown>>

DismissDelete ==
  /\ InFront("delete")
  /\ page' = [page EXCEPT !.pending = None]
  /\ OnPage /\ UNCHANGED <<call, shown>>

HandleDelete(c) ==
  /\ InFront("delete")
  /\ ~page.deleting
  /\ Fetch(c, "delete", page.pending)
  /\ page' = [page EXCEPT !.deleting = TRUE]
  /\ OnPage /\ UNCHANGED shown
-----------------------------------------------------------------------------
(***************************************************************************)
(* The answers.  One that reaches a page the browser has left changes      *)
(* nothing.                                                                *)
(***************************************************************************)
Arrived(c, op, pc) == call[c] # Idle /\ call[c].pc = pc /\ call[c].op = op /\ call[c].live
Told(k, change) == untold' = untold \ {<<k, change>>}
Received(c) ==
  /\ call' = [call EXCEPT ![c] = Idle]
  /\ ServerIdle
  /\ UNCHANGED <<session, troubles>>

PageLoads(c) ==
  /\ Arrived(c, "list", "ok")
  /\ page' = [user |-> call[c].user, keys |-> call[c].keys, createOpen |-> FALSE,
              creating |-> FALSE, revealed |-> None, pending |-> None, deleting |-> FALSE]
  /\ Received(c)
  /\ UNCHANGED <<untold, shown>>

\* listKeys throws, or the page redirects to the sign-in form.
PageFails(c) ==
  /\ Arrived(c, "list", "error")
  /\ Received(c)
  /\ UNCHANGED <<page, untold, shown>>

Created(c) ==
  /\ Arrived(c, "create", "ok")
  /\ page' = [page EXCEPT !.keys = @ \cup {call[c].key}, !.createOpen = FALSE,
                          !.revealed = call[c].key, !.creating = FALSE]
  /\ shown' = shown \cup {call[c].key}
  /\ Told(call[c].key, "minted")
  /\ Received(c)

\* Mutant of CreateFails: no finally.
CreateFailsForGood(c) ==
  /\ Arrived(c, "create", "error")
  /\ Received(c)
  /\ UNCHANGED <<page, untold, shown>>

\* A refusal, or no answer at all: a toast.
CreateFails(c) ==
  /\ Arrived(c, "create", "error")
  /\ page' = [page EXCEPT !.creating = FALSE]
  /\ Received(c)
  /\ UNCHANGED <<untold, shown>>

\* The dialog that is open now is closed, whichever key it asks about.
Deleted(c) ==
  /\ Arrived(c, "delete", "ok")
  /\ page' = [page EXCEPT !.keys = @ \ {call[c].key}, !.pending = None, !.deleting = FALSE]
  /\ Told(call[c].key, "revoked")
  /\ Received(c)
  /\ UNCHANGED shown

\* Mutant of DeleteFails: the key goes from the list without a look at res.ok.
DeleteFailsForgets(c) ==
  /\ Arrived(c, "delete", "error")
  /\ page' = [page EXCEPT !.keys = @ \ {call[c].key}, !.deleting = FALSE]
  /\ Received(c)
  /\ UNCHANGED <<untold, shown>>

DeleteFails(c) ==
  /\ Arrived(c, "delete", "error")
  /\ page' = [page EXCEPT !.deleting = FALSE]
  /\ Received(c)
  /\ UNCHANGED <<untold, shown>>

Unheard(c) ==
  /\ call[c] # Idle
  /\ call[c].pc \in {"ok", "error"}
  /\ ~call[c].live
  /\ Received(c)
  /\ UNCHANGED <<page, untold, shown>>

Answer(c) ==
  \/ PageLoads(c) \/ PageFails(c)
  \/ Created(c) \/ CreateFails(c)
  \/ Deleted(c) \/ DeleteFails(c)
  \/ Unheard(c)
-----------------------------------------------------------------------------
(***************************************************************************)
(* The server side of a fetch: the Next.js handler, then the Go server.    *)
(***************************************************************************)
Step(c, pc) == call' = [call EXCEPT ![c].pc = pc]
Waiting(c, pc) == call[c] # Idle /\ call[c].pc = pc
OffPage == UNCHANGED <<session, page, shown, troubles>>

\* proxy.ts and the userId check, for a signed-out browser.
RouteRefuses(c) ==
  /\ Waiting(c, "sent")
  /\ session = None
  /\ Step(c, "error")
  /\ ServerIdle /\ OffPage /\ UNCHANGED untold

\* keysProxy: the token is that of the session of this moment, not of the
\* user the page was loaded for.
KeysProxy(c) ==
  /\ Waiting(c, "sent")
  /\ session # None
  /\ Present(c, session)
  /\ Step(c, "forwarded")
  /\ UNCHANGED <<owner, minting, untold>> /\ OffPage

RequireUser(c) ==
  /\ AuthStep(c)
  /\ UNCHANGED <<owner, minting, call, untold>> /\ OffPage

RequireUserRefuses(c) ==
  /\ At(c, "unauthorized") \/ At(c, "unavailable")
  /\ Answered(c)
  /\ Step(c, "error")
  /\ UNCHANGED <<owner, minting, untold>> /\ OffPage

Handling(c, op) == At(c, "verified") /\ Waiting(c, "forwarded") /\ call[c].op = op

\* A new page knows of every change so far.
List(c) ==
  /\ Handling(c, "list")
  /\ Answered(c)
  /\ call' = [call EXCEPT ![c].pc = "ok", ![c].user = bearer[c].user,
                          ![c].keys = OwnedBy(bearer[c].user)]
  /\ untold' = IF call[c].live THEN {} ELSE untold
  /\ UNCHANGED <<owner, minting>> /\ OffPage

\* Mutant of CountKeys: one too many.
CountKeysOffByOne(c) ==
  /\ Handling(c, "create")
  /\ Cardinality(OwnedBy(bearer[c].user)) <= MaxKeys
  /\ minting' = [minting EXCEPT ![c] = bearer[c].user]
  /\ Answered(c)
  /\ Step(c, "inserting")
  /\ UNCHANGED <<owner, untold>> /\ OffPage

\* The INSERT counts in the snapshot of its start.
CountKeys(c) ==
  /\ Handling(c, "create")
  /\ Cardinality(OwnedBy(bearer[c].user)) < MaxKeys
  /\ minting' = [minting EXCEPT ![c] = bearer[c].user]
  /\ Answered(c)
  /\ Step(c, "inserting")
  /\ UNCHANGED <<owner, untold>> /\ OffPage

AtCap(c) ==
  /\ Handling(c, "create")
  /\ Cardinality(OwnedBy(bearer[c].user)) >= MaxKeys
  /\ Answered(c)
  /\ Step(c, "error")
  /\ UNCHANGED <<owner, minting, untold>> /\ OffPage

Mint(c, k) ==
  /\ minting[c] # Idle
  /\ owner[k] = Unminted
  /\ owner' = [owner EXCEPT ![k] = minting[c]]
  /\ minting' = [minting EXCEPT ![c] = Idle]
  /\ untold' = untold \cup {<<k, "minted">>}

InsertKey(c, k) ==
  /\ Waiting(c, "inserting")
  /\ Mint(c, k)
  /\ call' = [call EXCEPT ![c].pc = "ok", ![c].key = k]
  /\ UNCHANGED authVars /\ OffPage

InsertFails(c) ==
  /\ Waiting(c, "inserting")
  /\ minting' = [minting EXCEPT ![c] = Idle]
  /\ Step(c, "error")
  /\ UNCHANGED <<authVars, owner, untold>> /\ OffPage

\* The handler has given up on a statement the database still runs.
InsertUnheard(c) ==
  /\ Waiting(c, "inserting")
  /\ Trouble
  /\ Step(c, "error")
  /\ ServerIdle /\ UNCHANGED <<session, page, untold, shown>>

\* Mutant of Delete: no clerk_user_id in the WHERE.
DeleteAnyones(c) ==
  /\ Handling(c, "delete")
  /\ Live(call[c].key)
  /\ owner' = [owner EXCEPT ![call[c].key] = Revoked]
  /\ untold' = untold \cup {<<call[c].key, "revoked">>}
  /\ Answered(c)
  /\ \E pc \in {"ok", "error"} : Step(c, pc)
  /\ UNCHANGED minting /\ OffPage

\* DELETE ... WHERE id = $1 AND clerk_user_id = $2.  The row may be gone and
\* the answer still be an error.
Delete(c) ==
  /\ Handling(c, "delete")
  /\ owner[call[c].key] = bearer[c].user
  /\ owner' = [owner EXCEPT ![call[c].key] = Revoked]
  /\ untold' = untold \cup {<<call[c].key, "revoked">>}
  /\ Answered(c)
  /\ \E pc \in {"ok", "error"} : Step(c, pc)
  /\ UNCHANGED minting /\ OffPage

\* 404: no such key of this user.
DeleteMisses(c) ==
  /\ Handling(c, "delete")
  /\ owner[call[c].key] # bearer[c].user
  /\ Answered(c)
  /\ Step(c, "error")
  /\ UNCHANGED <<owner, minting, untold>> /\ OffPage

HandlerFails(c) ==
  /\ At(c, "verified") /\ Waiting(c, "forwarded")
  /\ Answered(c)
  /\ Step(c, "error")
  /\ UNCHANGED <<owner, minting, untold>> /\ OffPage

Serve(c) ==
  \/ RouteRefuses(c) \/ KeysProxy(c)
  \/ RequireUser(c) \/ RequireUserRefuses(c)
  \/ List(c)
  \/ CountKeys(c) \/ AtCap(c) \/ InsertFails(c)
  \/ \E k \in KeyIds : InsertKey(c, k)
  \/ Delete(c) \/ DeleteMisses(c)
  \/ HandlerFails(c)
-----------------------------------------------------------------------------
(***************************************************************************)
(* What happens around the page.                                           *)
(***************************************************************************)
\* An INSERT nobody waits for, of another browser or of a request given up.
Alone(c) == c \in Calls => ~Waiting(c, "inserting")

MintAlone(c, k) ==
  /\ Alone(c)
  /\ Mint(c, k)
  /\ UNCHANGED <<authVars, session, page, call, shown, troubles>>

MintAloneFails(c) ==
  /\ Alone(c)
  /\ minting[c] # Idle
  /\ minting' = [minting EXCEPT ![c] = Idle]
  /\ UNCHANGED <<authVars, owner, siteVars>>

CountElsewhere(o, u) ==
  /\ minting[o] = Idle
  /\ Cardinality(OwnedBy(u)) < MaxKeys
  /\ Trouble
  /\ minting' = [minting EXCEPT ![o] = u]
  /\ UNCHANGED <<authVars, owner, session, page, call, untold, shown>>

RevokeElsewhere(u, k) ==
  /\ owner[k] = u
  /\ Trouble
  /\ owner' = [owner EXCEPT ![k] = Revoked]
  /\ untold' = untold \cup {<<k, "revoked">>}
  /\ UNCHANGED <<authVars, minting, session, page, call, shown>>

\* Signing out or in, or switching users, in another tab: the cookies change
\* and the page stays.
SwitchSession(u) ==
  /\ u # session
  /\ Trouble
  /\ session' = u
  /\ ServerIdle /\ UNCHANGED <<page, call, untold, shown>>

\* The browser, or the route handler, never gets the answer: fetch rejects.
LoseAnswer(c) ==
  /\ Waiting(c, "ok")
  /\ Trouble
  /\ Step(c, "error")
  /\ ServerIdle /\ UNCHANGED <<session, page, untold, shown>>

ExpireToken(c) ==
  /\ Trouble
  /\ Expire(c)
  /\ UNCHANGED <<owner, minting, session, page, call, untold, shown>>

RotateKeys(s) ==
  /\ Trouble
  /\ Rotate(s)
  /\ UNCHANGED <<owner, minting, session, page, call, untold, shown>>

\* The Go process goes, with the requests it was serving; a statement the
\* database runs goes on.
Restart ==
  /\ Trouble
  /\ AuthRestart
  /\ call' = [c \in Calls |->
                IF Inside(c) \/ Waiting(c, "inserting")
                  THEN [call[c] EXCEPT !.pc = "error"] ELSE call[c]]
  /\ UNCHANGED <<owner, minting, session, page, untold, shown>>

Around ==
  \/ \E c \in Creators : MintAloneFails(c) \/ \E k \in KeyIds : MintAlone(c, k)
  \/ \E o \in Others, u \in Users : CountElsewhere(o, u)
  \/ \E u \in Users, k \in KeyIds : RevokeElsewhere(u, k)
  \/ \E u \in Users \cup {None} : SwitchSession(u)
  \/ \E c \in Calls : InsertUnheard(c) \/ LoseAnswer(c) \/ ExpireToken(c)
  \/ \E s \in SigningKeys : RotateKeys(s)
  \/ Restart

Browse ==
  \/ \E c \in Calls : Visit(c) \/ HandleCreate(c) \/ HandleDelete(c)
  \/ Leave
  \/ OpenCreate \/ DismissCreate \/ DismissReveal \/ DismissDelete
  \/ \E k \in KeyIds : AskDelete(k)

Next ==
  \/ Browse
  \/ \E c \in Calls : Serve(c) \/ Answer(c)
  \/ Around

Spec == Init /\ [][Next]_vars
-----------------------------------------------------------------------------
\* Every variable holds a value of its kind.
TypeOK ==
  /\ AuthTypeOK
  /\ owner \in [KeyIds -> Users \cup {Nobody, Unminted, Revoked}]
  /\ minting \in [Creators -> Users \cup {Idle}]
  /\ session \in Users \cup {None}
  /\ page \in Page \cup {None}
  /\ call \in [Calls -> Call \cup {Idle}]
  /\ untold \subseteq Changes
  /\ shown \subseteq KeyIds
  /\ troubles \in 0 .. MaxTroubles

\* The list on the page, which is never loaded again (api-keys-manager.tsx:94):
\* it differs from the user's keys only by changes the page was not told of,
\* because an answer was lost, is on its way, or went to another page.  No
\* order of answers drops a key that lives or keeps one the page saw revoked.
ListAccounted ==
  Shown =>
    /\ \A k \in OwnedBy(page.user) \ page.keys : <<k, "minted">> \in untold
    /\ \A k \in page.keys : ~Live(k) => <<k, "revoked">> \in untold

\* "Shown only once" (api-keys-manager.tsx:101, 254-257): a secret comes up on a
\* page that shows no other, and has never come up before.  What takes it off
\* the page is the user.
SecretShownOnce ==
  [][\A k \in KeyIds :
       Shown /\ page' # None /\ page.revealed # k /\ page'.revealed = k =>
         page.revealed = None /\ k \notin shown]_vars

\* A dialog's spinner turns exactly while the page waits for the answer of one
\* request (the finally of handleCreate and handleDelete), whatever is dismissed,
\* left, refused or lost meanwhile: it is never stuck, and two never overlap.
Awaited(op) == {c \in Calls : call[c] # Idle /\ call[c].op = op /\ call[c].live}
SpinnersHonest ==
  Shown =>
    /\ page.creating <=> Awaited("create") # {}
    /\ page.deleting <=> Awaited("delete") # {}
    /\ \A op \in {"create", "delete"} : \A c, d \in Awaited(op) : c = d

\* The key registry of ApiKeys, as the page, the route handlers and the token
\* check use its table.
Registry == INSTANCE ApiKeys WITH
  Users <- Users, KeyIds <- KeyIds, Creators <- Creators, Requests <- {},
  Gate <- "gate", Scoped <- {}, Plain <- {}, MaxKeys <- MaxKeys, MaxRestarts <- 0,
  Nobody <- Nobody, Unminted <- Unminted, Revoked <- Revoked, Idle <- Idle,
  owner <- owner, minting <- minting,
  cache <- [v \in {"gate"} |-> {}], req <- [r \in {} |-> Idle],
  restarts <- 0, forgotten <- {}

\* What one request does to the table: the statement of the user its verified
\* token names, for a deletion on the key that was asked for, or the end of the
\* INSERT it began so.
ActsForBearer(c) ==
  \/ At(c, "verified") /\ Registry!CountKeys(c, bearer[c].user)
  \/ At(c, "verified") /\ Registry!Revoke(bearer[c].user, call[c].key)
  \/ \E k \in KeyIds : Registry!InsertKey(c, k)
  \/ Registry!InsertFails(c)

RequestsActForBearers ==
  \A c \in Calls : call'[c] # call[c] => UNCHANGED <<owner, minting>> \/ ActsForBearer(c)

\* The table moves only as the registry lets it, under the cap and between owners
\* that never change, and a request of the page moves it only for the user its
\* token proves (clerk_user_id of keys.go): a session switched under the page
\* can neither revoke the old user's key nor mint under the old user's name.
ImplementsRegistry == Registry!Spec /\ [][RequestsActForBearers]_vars
=============================================================================
