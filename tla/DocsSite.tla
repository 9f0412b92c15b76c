------------------------------ MODULE DocsSite ------------------------------
(***************************************************************************)
(* A reader on the web site: the landing page, the documentation, the      *)
(* sign-in pages and the keys page, with what lies over them (the search   *)
(* palette, the menus), what stays across a navigation (the bar at the top *)
(* and all that hangs from it), and the redirects that hang on the         *)
(* session.  The reader, or an agent handed the page, makes the calls the  *)
(* documentation names.                                                    *)
(*                                                                         *)
(* Links to other sites and the looks of the pages are left out.           *)
(***************************************************************************)
EXTENDS DocsContent

CONSTANTS
  None,         \* no navigation under way, no call made
  MaxSurprises  \* bound: clicks over a navigation under way, and sign-ins and
                \* sign-outs in other tabs

ASSUME SiteAssumption ==
  /\ MaxSurprises \in Nat
  /\ None \notin {"as documented", "otherwise"}

Served == INSTANCE Gateway

VARIABLES
  at,        \* the place the browser shows: a page and an anchor on it
  going,     \* the place it has asked for
  session,   \* signed in or not, as the cookies have it
  palette,   \* SearchButton: open
  menu,      \* TopNav: the open menu, "nav" (the Sheet), "theme" or "none"
  answer,    \* what came of the call or the installation tried from this page
  surprises

vars == <<at, going, session, palette, menu, answer, surprises>>

Place(page, anchor) == [page |-> page, anchor |-> anchor]
Top(page) == Place(page, "")

Docs(page) == page \in DOMAIN pages
InDocs == Docs(at.page) \/ at.page = "keys"
OnPage == IF Docs(at.page) THEN Shown(at.page) ELSE <<>>

homeAnchors == {"namespaces", "features"}
Anchors(page) ==
  CASE page = "home" -> homeAnchors
    [] Docs(page) -> {Shown(page)[i].id : i \in tocOf(Shown(page))}
    [] OTHER -> {}

Init ==
  /\ at = Top("home")
  /\ going = None
  /\ session \in BOOLEAN
  /\ palette = FALSE
  /\ menu = "none"
  /\ answer = None
  /\ surprises = 0

Surprise == surprises < MaxSurprises /\ surprises' = surprises + 1

\* A link, or router.push: the page shown stays until the new one is there,
\* and a second click replaces the first.
Go(place) ==
  /\ going' = place
  /\ IF going = None THEN UNCHANGED surprises ELSE Surprise
-----------------------------------------------------------------------------
(***************************************************************************)
(* Where the links lead.                                                   *)
(***************************************************************************)
KeyPlace == Top(IF session THEN "keys" ELSE "sign-in")

LandingNav == {Place("home", "namespaces"), Place("home", "features"), Top("overview"), Top("home")}
HeroLinks == {Top("overview")}
NamespaceCards == {Top(key) : key \in Keys}
HomeLinks == {Top("architecture"), Top("quickstart"), Top("overview")}

SidebarNav == {Top(slug) : slug \in nav}
TopNav == {Top("overview")} \cup {Top(slug) : slug \in topNav} \cup {KeyPlace}
TocLinks == {Place(at.page, id) : id \in Anchors(at.page)}
CardGrid == {Top(slug) : slug \in LinkedFrom(OnPage)}
ApiKeyCallout == IF AsksForKey(OnPage) THEN {KeyPlace} ELSE {}
DocLinks == SidebarNav \cup TopNav \cup TocLinks \cup CardGrid \cup ApiKeyCallout

AuthLinks == {Top("home")}
ClerkFormLinks == {Top("sign-in"), Top("sign-up")}

LinksShown ==
  CASE at.page = "home" -> LandingNav \cup HeroLinks \cup NamespaceCards \cup HomeLinks
    [] InDocs -> DocLinks
    [] at.page \in {"sign-in", "sign-up"} -> AuthLinks \cup ClerkFormLinks
    [] OTHER -> {}

buildIndex == {Top(slug) : slug \in nav} \cup {Place(key, "tools") : key \in Keys}
-----------------------------------------------------------------------------
(***************************************************************************)
(* What the reader does.                                                   *)
(***************************************************************************)
Uncovered == ~palette /\ menu = "none"

Follow ==
  /\ Uncovered
  /\ \E place \in LinksShown : Go(place)
  /\ answer' = None
  /\ UNCHANGED <<at, session, palette, menu>>

OpenNav ==
  /\ InDocs /\ Uncovered
  /\ menu' = "nav"
  /\ UNCHANGED <<at, going, session, palette, answer, surprises>>

ThemeToggle ==
  /\ InDocs \/ at.page = "home"
  /\ Uncovered
  /\ menu' = "theme"
  /\ UNCHANGED <<at, going, session, palette, answer, surprises>>

CloseMenu ==
  /\ menu # "none" /\ ~palette
  /\ menu' = "none"
  /\ UNCHANGED <<at, going, session, palette, answer, surprises>>

\* The Sheet is not told of the navigation: it stays open.
FollowInMenu ==
  /\ menu = "nav" /\ ~palette
  /\ \E place \in SidebarNav : Go(place)
  /\ answer' = None
  /\ UNCHANGED <<at, session, palette, menu>>

\* Ctrl+K, whatever else is open; the button only opens it.
TogglePalette ==
  /\ InDocs
  /\ palette' = ~palette
  /\ UNCHANGED <<at, going, session, menu, answer, surprises>>

\* Escape, or a click beside it.
ClosePalette ==
  /\ palette
  /\ palette' = FALSE
  /\ UNCHANGED <<at, going, session, menu, answer, surprises>>

Pick ==
  /\ palette
  /\ palette' = FALSE
  /\ \E place \in buildIndex : Go(place)
  /\ answer' = None
  /\ UNCHANGED <<at, session, menu>>

Try(holds) ==
  /\ answer = None
  /\ answer' = IF holds THEN "as documented" ELSE "otherwise"
  /\ UNCHANGED <<at, going, session, palette, menu, surprises>>

\* A copy the browser refuses copies nothing, and is not tried.
CopyCode ==
  /\ Docs(at.page) /\ Uncovered
  /\ \E call \in CodeCalls(OnPage) : Try(Served!Accepts(call))

CopyPage ==
  /\ Docs(at.page) /\ Uncovered
  /\ \E call \in pageMarkdown(OnPage) : Try(Served!Accepts(call))

\* By hand, after the tables.
TryCall ==
  /\ Docs(at.page) /\ Uncovered
  /\ \E call \in BlockCalls(OnPage) : Try(Served!Accepts(call))

\* A request the diagrams draw, with the credentials they ask for or without.
TryDrawn ==
  /\ Docs(at.page) /\ Uncovered
  /\ \E drawn \in DrawnOn(OnPage), key \in {"none", "unregistered", "registered"},
        user \in BOOLEAN :
       \E method \in drawn.methods :
         LET admitted == /\ drawn.asks = "key" => key = "registered"
                         /\ drawn.asks = "user" => user
             request == Served!Request(method, drawn.path, key, user)
         IN  Try(Served!Handler(request) = IF admitted THEN drawn.target ELSE "401")

\* A request to any route without a registered key, after the Authentication
\* page.  The page says "the whole mux" and overlooks the key API, which takes a
\* session in place of a key (registry.go:158-160): there it is not taken at its
\* word, everywhere else it is.
TryWithoutKey ==
  /\ Docs(at.page) /\ Uncovered
  /\ \E guard \in Blocks(OnPage, "guard"), route \in Served!Routes,
        key \in {"none", "unregistered"}, user \in BOOLEAN :
       LET request == Served!Request(route[1], route[2], key, user)
           admitted == route \in guard.exempt \/ (user /\ route \in Served!keysapiRoutes)
       IN  Try(Served!Handler(request) = "401" <=> ~admitted)

\* The landing page shows the same client configuration.
TryConfig ==
  /\ at.page = "home"
  /\ \E call \in clientExample : Try(Served!Accepts(call))

(***************************************************************************)
(* The skill, from the Memory page: the file itself, by a link the browser *)
(* follows with its cookies or by curl, which has none; or its text, from  *)
(* the clipboard.                                                          *)
(***************************************************************************)
isProtectedRoute(path) == path \in {"/doc/keys", "/api/keys"}

ROUTE == "/api/skills/stateful-memory"

GET(path, signedIn) ==
  IF isProtectedRoute(path) /\ ~signedIn THEN {} ELSE statefulSkillMarkdown

OffersSkill == Blocks(OnPage, "skill") # {}

CopySkill == statefulSkillMarkdown

SkillDownload ==
  /\ OffersSkill /\ Uncovered
  /\ \E file \in {GET(ROUTE, session), GET(ROUTE, FALSE), CopySkill} :
       Try(file # {} /\ \A call \in file : Served!Accepts(call))

\* Clerk's form: forceRedirectUrl.
SignIn ==
  /\ at.page \in {"sign-in", "sign-up"} /\ ~session
  /\ session' = TRUE
  /\ Go(Top("keys"))
  /\ UNCHANGED <<at, palette, menu, answer>>

\* UserButton: afterSignOutUrl.
SignOut ==
  /\ InDocs /\ Uncovered /\ session
  /\ session' = FALSE
  /\ Go(Top("home"))
  /\ answer' = None
  /\ UNCHANGED <<at, palette, menu>>

SessionElsewhere ==
  /\ Surprise
  /\ session' = ~session
  /\ UNCHANGED <<at, going, palette, menu, answer>>

\* An address typed, a bookmark, a link from elsewhere: /doc, or any page.
Arrive ==
  /\ going = None
  /\ \E page \in nav \cup {"home", "doc", "sign-in", "sign-up"} : going' = Top(page)
  /\ palette' = FALSE /\ menu' = "none"
  /\ answer' = None
  /\ UNCHANGED <<at, session, surprises>>
-----------------------------------------------------------------------------
(***************************************************************************)
(* What the web server answers.                                            *)
(***************************************************************************)
\* Mutant of SignInPage: the session is not looked at.
SignInPageAlways(place) == Top("keys")

SignInPage(place) == IF session THEN Top("keys") ELSE place
KeysPage(place) ==
  IF isProtectedRoute("/doc/keys") /\ ~session THEN Top("sign-in") ELSE place

Answered(place) ==
  CASE place.page = "doc" -> Top("overview")
    [] place.page = "keys" -> KeysPage(place)
    [] place.page \in {"sign-in", "sign-up"} -> SignInPage(place)
    [] OTHER -> place

Redirect ==
  /\ going # None
  /\ Answered(going) # going
  /\ going' = Answered(going)
  /\ UNCHANGED <<at, session, palette, menu, answer, surprises>>

Exists(page) == Docs(page) \/ page \in {"home", "keys", "sign-in", "sign-up"}

Layout(page) == IF Docs(page) \/ page = "keys" THEN "doc" ELSE page

\* The new page, or notFound().  The bar at the top, its palette and its menus
\* are those of the layout and go with it.
Land ==
  /\ going # None
  /\ Answered(going) = going
  /\ at' = IF Exists(going.page) THEN going ELSE Top("not-found")
  /\ going' = None
  /\ LET kept == Layout(going.page) = Layout(at.page)
     IN  palette' = (palette /\ kept) /\ menu' = IF kept THEN menu ELSE "none"
  /\ answer' = None
  /\ UNCHANGED <<session, surprises>>

Read ==
  \/ Follow \/ FollowInMenu \/ Pick \/ Arrive
  \/ OpenNav \/ ThemeToggle \/ CloseMenu \/ TogglePalette \/ ClosePalette
  \/ CopyCode \/ CopyPage \/ TryCall \/ TryConfig \/ TryDrawn \/ TryWithoutKey \/ SkillDownload
  \/ SignIn \/ SignOut \/ SessionElsewhere

Next == Read \/ Redirect \/ Land

Spec == Init /\ [][Next]_vars

\* A request that was made is answered.  The reader owes nothing.
FairSpec == Spec /\ WF_vars(Redirect \/ Land)
-----------------------------------------------------------------------------
\* No control of the site, and no redirect, leads to a page that is not there
\* (page.tsx's notFound) or to a heading its page does not have: the sidebar,
\* the palette's entries and the links are kept apart from the pages.
NoDeadEnds ==
  /\ at.page # "not-found"
  /\ at.anchor \in {""} \cup Anchors(at.page)

\* A call made as the documentation, the copied page or the downloadable skill
\* says is one the server's schemas admit, at the path they give; a request the
\* architecture page draws ends where it is drawn to end, with the credentials
\* asked for and without; a request without a registered key is refused but where
\* the Authentication page exempts it, and at the key API, of which the page is
\* wrong (docs.tsx:1052, 1062-1067); the skill installs each way the page offers.
DocumentedCallsAccepted == answer # "otherwise"

\* Every navigation ends: the gate before the keys page and the redirect behind
\* the sign-in pages (proxy.ts:14, sign-in/page.tsx:8) never chase each other.
VisitsLand == going # None ~> going = None
=============================================================================
