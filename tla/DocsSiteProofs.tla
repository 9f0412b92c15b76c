--------------------------- MODULE DocsSiteProofs ---------------------------
(***************************************************************************)
(* Proofs about the documentation site: wherever a reader goes there is a  *)
(* page, and whatever is done as a page says the Go server admits.  The    *)
(* first three parts are about the content alone (DocsContent against      *)
(* Gateway and ToolSchemas), the last about the reader of DocsSite.        *)
(***************************************************************************)
EXTENDS DocsSite, SequenceTheorems, TLAPS

ServerSlugs == {"memory", "skills", "gsc", "producthunt", "event"}
PlatformSlugs == {"platform", "agents", "workflows", "deployments"}
OtherSlugs == {"overview", "quickstart", "authentication", "architecture"}

\* Which pages there are.
LEMMA Slugs ==
  /\ DOMAIN pages = OtherSlugs \cup ServerSlugs \cup PlatformSlugs
  /\ DOMAIN platformPages = PlatformSlugs
  /\ Keys = ServerSlugs
  BY DEF pages, platformPages, Keys, servers, OtherSlugs, ServerSlugs, PlatformSlugs

\* A page under development is shown empty; the others are shown as they are.
LEMMA ShownPages ==
  /\ \A slug \in PlatformSlugs : Shown(slug) = <<>>
  /\ \A slug \in OtherSlugs \cup ServerSlugs : Shown(slug) = pages[slug]
  BY Slugs DEF Shown, ComingSoon, OtherSlugs, ServerSlugs, PlatformSlugs

(***************************************************************************)
(* The documented tools and the registered ones.                           *)
(***************************************************************************)
\* Every documented tool is served; what the server requires the documentation
\* marks as required, and it names no field the server does not admit.
Fits(docs, served) ==
  \A t \in DOMAIN docs :
    /\ t \in DOMAIN served
    /\ served[t].required \subseteq docs[t].required
    /\ docs[t].required \cup docs[t].optional \subseteq served[t].required \cup served[t].optional

\* Namespace by namespace, by the fields of the input structs.
LEMMA MemoryFits == Fits(MemoryTools, Served!MemoryServed)
  BY DEF Fits, MemoryTools, Params, Served!MemoryServed, Served!MemorySearch,
         Served!MemoryWrite, Served!MemoryId, Served!MemoryUpdate, Served!MemoryList,
         Served!Input

LEMMA SkillsFits == Fits(SkillsTools, Served!SkillsServed)
  BY DEF Fits, SkillsTools, Params, Served!SkillsServed, Served!Ping, Served!Find,
         Served!Download, Served!Input

LEMMA EventFits == Fits(EventTools, Served!EventServed)
  BY DEF Fits, EventTools, Params, Served!EventServed, Served!Publish, Served!Consume,
         Served!CreateTopic, Served!DeleteTopic, Served!NoInput, Served!Input

LEMMA ProductHuntFits == Fits(ProductHuntTools, Served!ProductHuntServed)
  BY DEF Fits, ProductHuntTools, Params, Served!ProductHuntServed, Served!ListPosts,
         Served!PostRef, Served!PostComments, Served!ListTopics, Served!TopicRef,
         Served!ListCollections, Served!CollectionRef, Served!UserRef, Served!RawGraphQL,
         Served!NoInput, Served!Input

LEMMA GscFits == Fits(GscTools, Served!GscServed)
  BY DEF Fits, GscTools, Params, Served!GscServed, Served!SiteURL, Served!SearchAnalytics,
         Served!Advanced, Served!PerformanceOverview, Served!Compare, Served!PageQuery,
         Served!Inspect, Served!BatchInspect, Served!ListSitemaps, Served!SitemapURL,
         Served!NoInput, Served!Input

\* The server behind each namespace's path.
LEMMA Paths ==
  /\ servers["memory"].path = "/memory/mcp" /\ servers["memory"].tools = MemoryTools
  /\ servers["skills"].path = "/skills/mcp" /\ servers["skills"].tools = SkillsTools
  /\ servers["gsc"].path = "/gsc/mcp" /\ servers["gsc"].tools = GscTools
  /\ servers["producthunt"].path = "/producthunt/mcp" /\ servers["producthunt"].tools = ProductHuntTools
  /\ servers["event"].path = "/event/mcp" /\ servers["event"].tools = EventTools
  /\ Keys = {"memory", "skills", "gsc", "producthunt", "event"}
  BY DEF servers, Server, Keys

\* The mux, path by path.
LEMMA Mounts ==
  /\ DOMAIN Served!Mounted = {"/memory/mcp", "/skills/mcp", "/gsc/mcp", "/producthunt/mcp", "/event/mcp"}
  /\ Served!Mounted["/memory/mcp"] = Served!MemoryServed
  /\ Served!Mounted["/skills/mcp"] = Served!SkillsServed
  /\ Served!Mounted["/gsc/mcp"] = Served!GscServed
  /\ Served!Mounted["/producthunt/mcp"] = Served!ProductHuntServed
  /\ Served!Mounted["/event/mcp"] = Served!EventServed
  BY DEF Served!Mounted

\* Each namespace is documented at its own server's path.
LEMMA TablesFit ==
  ASSUME NEW key \in Keys
  PROVE  /\ servers[key].path \in DOMAIN Served!Mounted
         /\ Fits(servers[key].tools, Served!Mounted[servers[key].path])
<1>1. CASE key = "memory"
  BY <1>1, Paths, Mounts, MemoryFits
<1>2. CASE key = "skills"
  BY <1>2, Paths, Mounts, SkillsFits
<1>3. CASE key = "gsc"
  BY <1>3, Paths, Mounts, GscFits
<1>4. CASE key = "producthunt"
  BY <1>4, Paths, Mounts, ProductHuntFits
<1>5. CASE key = "event"
  BY <1>5, Paths, Mounts, EventFits
<1> QED BY <1>1, <1>2, <1>3, <1>4, <1>5, Paths

\* A client that only connects is at a server's path.
LEMMA JoinsAccepted ==
  ASSUME NEW keys \in SUBSET Keys, NEW call \in ConnectCalls(keys)
  PROVE  Served!Accepts(call)
<1>1. PICK k \in keys : call = Call(servers[k].path, "tools/list", {})
  BY DEF ConnectCalls, Joins
<1>2. call.path = servers[k].path /\ call.tool = "tools/list"
  BY <1>1 DEF Call
<1> QED BY <1>2, TablesFit DEF Served!Accepts

\* So is one configured as the site shows.
LEMMA ConfigAccepted ==
  /\ \A call \in clientExample : Served!Accepts(call)
  /\ \A key \in Keys : \A call \in serverConfigJson(key) : Served!Accepts(call)
<1>1. ASSUME NEW call \in clientExample PROVE Served!Accepts(call)
  <2>1. PICK p \in DOMAIN Served!Mounted : call = Call(p, "tools/list", {})
    BY Mounts DEF clientExample, Joins
  <2>2. call.path = p /\ call.tool = "tools/list"
    BY <2>1 DEF Call
  <2> QED BY <2>2 DEF Served!Accepts
<1>2. ASSUME NEW key \in Keys, NEW call \in serverConfigJson(key) PROVE Served!Accepts(call)
  <2>1. call = Call(servers[key].path, "tools/list", {})
    BY <1>2 DEF serverConfigJson, Joins
  <2>2. call.path = servers[key].path /\ call.tool = "tools/list"
    BY <2>1 DEF Call
  <2> QED BY <2>2, TablesFit DEF Served!Accepts
<1> QED BY <1>1, <1>2

\* A call made after a table: the arguments are any that are documented and
\* complete.
LEMMA TableCallsAccepted ==
  ASSUME NEW key \in Keys, NEW call \in ToolListCalls(key)
  PROVE  Served!Accepts(call)
<1> DEFINE docs == servers[key].tools
           served == Served!Mounted[servers[key].path]
<1>1. PICK t \in DOMAIN docs :
        \E args \in SUBSET docs[t].optional : call = Call(servers[key].path, t, args \cup docs[t].required)
  BY DEF ToolListCalls
<1>2. PICK args \in SUBSET docs[t].optional : call = Call(servers[key].path, t, args \cup docs[t].required)
  BY <1>1
<1>3. call.path = servers[key].path /\ call.tool = t /\ call.args = args \cup docs[t].required
  BY <1>2 DEF Call
<1>4. /\ t \in DOMAIN served
      /\ served[t].required \subseteq docs[t].required
      /\ docs[t].required \cup docs[t].optional \subseteq served[t].required \cup served[t].optional
  BY TablesFit DEF Fits
<1>5. served[t].required \subseteq call.args /\ call.args \subseteq served[t].required \cup served[t].optional
  BY <1>3, <1>4
<1> QED BY <1>3, <1>4, <1>5, TablesFit DEF Served!Accepts

\* The calls written out in full.
LEMMA WrittenCallsAccepted ==
  /\ Served!Accepts(publishCall) /\ Served!Accepts(consumeCall)
  /\ statefulSkillMarkdown # {} /\ \A call \in statefulSkillMarkdown : Served!Accepts(call)
<1>1. Served!Accepts(publishCall) /\ Served!Accepts(consumeCall)
  BY Mounts DEF Served!Accepts, publishCall, consumeCall, Call, Served!EventServed,
                Served!Publish, Served!Consume, Served!Input
<1>2. ASSUME NEW call \in statefulSkillMarkdown PROVE Served!Accepts(call)
  <2>1. call.path = "/memory/mcp" /\ call.tool \in {"memory_list", "memory_search", "memory_write"}
    BY <1>2 DEF statefulSkillMarkdown, Call
  <2>2. /\ call.tool = "memory_list" => call.args = {"tags"}
        /\ call.tool = "memory_search" => call.args \in {{"query", "limit"}, {"query", "tags"}}
        /\ call.tool = "memory_write" => call.args = {"content", "tags"}
    BY <1>2 DEF statefulSkillMarkdown, Call
  <2> QED BY <2>1, <2>2, Mounts DEF Served!Accepts, Served!MemoryServed,
                                    Served!MemoryList, Served!MemorySearch,
                                    Served!MemoryWrite, Served!Input
<1> QED BY <1>1, <1>2 DEF statefulSkillMarkdown

(***************************************************************************)
(* The diagrams and the routes.                                            *)
(***************************************************************************)
\* With every credential, a drawn request ends where it is drawn to.
AsDrawn(drawn) ==
  \A method \in drawn.methods, key \in {"none", "unregistered", "registered"}, user \in BOOLEAN :
    LET admitted == /\ drawn.asks = "key" => key = "registered"
                    /\ drawn.asks = "user" => user
        request == Served!Request(method, drawn.path, key, user)
    IN  Served!Handler(request) = IF admitted THEN drawn.target ELSE "401"

\* Where the mux sends a request: the routes are apart.
LEMMA Routes ==
  ASSUME NEW request
  PROVE  /\ request.path \in DOMAIN Served!Mounted =>
              Served!Handler(request) = Served!RequireAPIKey(request, request.path)
         /\ <<request.method, request.path>> \in Served!keysapiRoutes =>
              Served!Handler(request) = Served!RequireUser(request, "keysapi")
<1> DEFINE m == request.method
           p == request.path
<1>1. ASSUME p \in DOMAIN Served!Mounted
      PROVE  <<m, p>> # <<"GET", "/healthz">> /\ <<m, p>> \notin Served!keysapiRoutes
  BY <1>1, Mounts DEF Served!keysapiRoutes
<1>2. ASSUME <<m, p>> \in Served!keysapiRoutes
      PROVE  p \notin DOMAIN Served!Mounted /\ <<m, p>> # <<"GET", "/healthz">>
  BY <1>2, Mounts DEF Served!keysapiRoutes
<1> QED BY <1>1, <1>2 DEF Served!Handler

\* The route of a namespace asks for a key, that of the keys for a user.
LEMMA MuxDrawn ==
  ASSUME NEW path \in DOMAIN Served!Mounted
  PROVE  AsDrawn(Drawn({"GET", "POST", "DELETE"}, path, "key", path))
<1> DEFINE drawn == Drawn({"GET", "POST", "DELETE"}, path, "key", path)
<1>1. drawn.path = path /\ drawn.asks = "key" /\ drawn.target = path
  BY DEF Drawn
<1> SUFFICES ASSUME NEW method, NEW key, NEW user
             PROVE  LET request == Served!Request(method, drawn.path, key, user)
                    IN  Served!Handler(request) = IF key = "registered" THEN path ELSE "401"
  BY <1>1 DEF AsDrawn
<1> DEFINE request == Served!Request(method, path, key, user)
<1>2. request.path = path /\ request.key = key
  BY DEF Served!Request
<1>3. Served!Handler(request) = Served!RequireAPIKey(request, path)
  BY <1>2, Routes
<1> QED BY <1>1, <1>2, <1>3 DEF Served!RequireAPIKey

\* The routes of the key-management API ask for a user, whatever the key.
LEMMA KeysapiDrawn ==
  ASSUME NEW methods, NEW path, \A method \in methods : <<method, path>> \in Served!keysapiRoutes
  PROVE  AsDrawn(Drawn(methods, path, "user", "keysapi"))
<1> DEFINE drawn == Drawn(methods, path, "user", "keysapi")
<1>1. drawn.methods = methods /\ drawn.path = path /\ drawn.asks = "user" /\ drawn.target = "keysapi"
  BY DEF Drawn
<1> SUFFICES ASSUME NEW method \in methods, NEW key, NEW user \in BOOLEAN
             PROVE  LET request == Served!Request(method, drawn.path, key, user)
                    IN  Served!Handler(request) = IF user THEN "keysapi" ELSE "401"
  BY <1>1 DEF AsDrawn
<1> DEFINE request == Served!Request(method, path, key, user)
<1>2. request.path = path /\ request.method = method /\ request.user = user
  BY DEF Served!Request
<1>3. Served!Handler(request) = Served!RequireUser(request, "keysapi")
  BY <1>2, Routes
<1> QED BY <1>1, <1>2, <1>3 DEF Served!RequireUser

\* What is refused without a registered key: all but the uptime probe, and the key
\* API when a user asks.
LEMMA KeyGuards ==
  ASSUME NEW route \in Served!Routes, NEW key \in {"none", "unregistered"}, NEW user \in BOOLEAN
  PROVE  Served!Handler(Served!Request(route[1], route[2], key, user)) = "401" <=>
           ~(route = <<"GET", "/healthz">> \/ (user /\ route \in Served!keysapiRoutes))
<1> DEFINE Methods == {"GET", "POST", "DELETE"}
           Places == DOMAIN Served!Mounted \cup {"/healthz", "/api/keys", "/api/keys/{id}"}
<1>1. PICK method \in Methods, path \in Places : route = <<method, path>>
  <2>1. route \in Methods \X Places
    BY DEF Served!Routes
  <2> HIDE DEF Methods, Places
  <2>2. route = <<route[1], route[2]>> /\ route[1] \in Methods /\ route[2] \in Places
    BY <2>1
  <2> QED BY <2>2
<1>2. route[1] = method /\ route[2] = path
  BY <1>1
<1> DEFINE request == Served!Request(method, path, key, user)
           entitled == Served!Request(method, path, "registered", TRUE)
<1>3. /\ request.method = method /\ request.path = path /\ request.key = key /\ request.user = user
      /\ entitled.method = method /\ entitled.path = path
  BY DEF Served!Request
<1>4. Served!Handler(entitled) # "404 or 405"
  BY <1>2 DEF Served!Routes
<1> HIDE DEF request, entitled
<1> SUFFICES Served!Handler(request) = "401" <=>
               ~(<<method, path>> = <<"GET", "/healthz">> \/ (user /\ <<method, path>> \in Served!keysapiRoutes))
  BY <1>1, <1>2 DEF request
<1>5. CASE path \in DOMAIN Served!Mounted
  <2>1. Served!Handler(request) = "401"
    BY <1>3, <1>5, Routes DEF Served!RequireAPIKey
  <2>2. <<method, path>> # <<"GET", "/healthz">> /\ <<method, path>> \notin Served!keysapiRoutes
    BY <1>5, Mounts DEF Served!keysapiRoutes
  <2> QED BY <2>1, <2>2
<1>6. CASE <<method, path>> \in Served!keysapiRoutes
  <2>1. Served!Handler(request) = IF user THEN "keysapi" ELSE "401"
    BY <1>3, <1>6, Routes DEF Served!RequireUser
  <2>2. <<method, path>> # <<"GET", "/healthz">>
    BY <1>6 DEF Served!keysapiRoutes
  <2> QED BY <1>6, <2>1, <2>2
<1>7. CASE path \notin DOMAIN Served!Mounted /\ <<method, path>> \notin Served!keysapiRoutes
  <2>1. <<method, path>> = <<"GET", "/healthz">>
    BY <1>3, <1>4, <1>7 DEF Served!Handler
  <2>2. Served!Handler(request) = "ok"
    BY <1>3, <1>7, <2>1 DEF Served!Handler
  <2> QED BY <2>1, <2>2
<1> QED BY <1>5, <1>6, <1>7

\* Hence both diagrams are right about every request they draw.
LEMMA FlowsDrawn == \A drawn \in RequestFlow \cup RegisterFlow : AsDrawn(drawn)
<1>1. AsDrawn(Drawn({"GET"}, "/healthz", "nothing", "ok"))
  BY Mounts DEF AsDrawn, Drawn, Served!Handler, Served!Request, Served!RequireAPIKey,
                Served!keysapiRoutes
<1>2. AsDrawn(Drawn({"GET", "POST"}, "/api/keys", "user", "keysapi"))
  BY KeysapiDrawn DEF Served!keysapiRoutes
<1>3. AsDrawn(Drawn({"DELETE"}, "/api/keys/{id}", "user", "keysapi"))
  BY KeysapiDrawn DEF Served!keysapiRoutes
<1>4. \A n \in {"memory", "skills", "gsc", "producthunt", "event"} : mcpPath[n] \in DOMAIN Served!Mounted
  BY Mounts DEF mcpPath
<1>5. \A drawn \in RegisterFlow : AsDrawn(drawn)
  BY <1>4, MuxDrawn DEF RegisterFlow, DrawnNamespaces
<1> QED BY <1>1, <1>2, <1>3, <1>5 DEF RequestFlow, RegisterFlow
(***************************************************************************)
(* The blocks of the pages.                                                *)
(***************************************************************************)
\* A block holds what it says: its links lead to pages, its calls are admitted,
\* its servers and requests are there.
Leads(block) == block.kind = "links" => block.slugs \subseteq DOMAIN pages \cup {"keys"}
Calls(block) ==
  /\ block.kind = "connect" => block.keys \subseteq Keys
  /\ block.kind = "code" => \A call \in block.calls : Served!Accepts(call)
  /\ block.kind = "tools" => block.key \in Keys
  /\ block.kind = "diagram" => \A drawn \in block.flow : AsDrawn(drawn)
  /\ block.kind = "guard" => block.exempt = {<<"GET", "/healthz">>}
Holds(block) == Leads(block) /\ Calls(block)
Sincere(page) == (\E n \in Nat : DOMAIN page = 1 .. n) /\ \A i \in DOMAIN page : Holds(page[i])

\* Each block a page is made of holds, by the two parts before.
LEMMA BlocksHold ==
  /\ \A id : Holds(Heading(id))
  /\ \A keys \in SUBSET Keys : Holds(Connect(keys))
  /\ Holds(Code(clientExample)) /\ \A key \in Keys : Holds(Code(serverConfigJson(key)))
  /\ Holds(Code({publishCall})) /\ Holds(Code({consumeCall}))
  /\ \A key \in Keys : Holds(ToolsOf(key))
  /\ Holds(Diagram(RequestFlow)) /\ Holds(Diagram(RegisterFlow))
  /\ Holds(Skill) /\ Holds(admission)
  /\ Holds(Links({"keys"})) /\ Holds(Links(ServerSlugs))
<1>1. /\ \A id : Holds(Heading(id))
      /\ Holds(Skill) /\ Holds(admission)
      /\ \A keys \in SUBSET Keys : Holds(Connect(keys))
      /\ \A key \in Keys : Holds(ToolsOf(key))
  BY DEF Holds, Leads, Calls, Heading, Skill, admission, Guard, Connect, ToolsOf
<1>2. /\ Holds(Code(clientExample)) /\ \A key \in Keys : Holds(Code(serverConfigJson(key)))
      /\ Holds(Code({publishCall})) /\ Holds(Code({consumeCall}))
  BY ConfigAccepted, WrittenCallsAccepted DEF Holds, Leads, Calls, Code
<1>3. Holds(Diagram(RequestFlow)) /\ Holds(Diagram(RegisterFlow))
  BY FlowsDrawn DEF Holds, Leads, Calls, Diagram
<1>4. Holds(Links({"keys"})) /\ Holds(Links(ServerSlugs))
  BY Slugs DEF Holds, Leads, Calls, Links
<1> QED BY <1>1, <1>2, <1>3, <1>4

\* A namespace's page has six blocks of its own before the extra ones.
Opens(page, key, extra) ==
  /\ DOMAIN page = 1 .. 6 + Len(extra)
  /\ page[1] = Heading("connect") /\ page[2] = Connect({key}) /\ page[3] = Links({"keys"})
  /\ page[4] = Code(serverConfigJson(key)) /\ page[5] = Heading("tools") /\ page[6] = ToolsOf(key)
  /\ \A n \in 1 .. Len(extra) : page[6 + n] = extra[n]

\* The extra blocks follow them, wherever the page came from.
LEMMA ServerPage ==
  ASSUME NEW key, NEW S, NEW extra \in Seq(S)
  PROVE  Opens(serverPage(key, extra), key, extra)
<1> DEFINE start == <<Heading("connect"), Connect({key}), Links({"keys"}), Code(serverConfigJson(key)),
                      Heading("tools"), ToolsOf(key)>>
           T == S \cup {Heading("connect"), Connect({key}), Links({"keys"}), Code(serverConfigJson(key)),
                        Heading("tools"), ToolsOf(key)}
           L == Len(extra)
           page == start \o extra
<1>1. start \in Seq(T) /\ Len(start) = 6
  OBVIOUS
<1>2. extra \in Seq(T) /\ L \in Nat
  OBVIOUS
<1>3. /\ start[1] = Heading("connect") /\ start[2] = Connect({key}) /\ start[3] = Links({"keys"})
      /\ start[4] = Code(serverConfigJson(key)) /\ start[5] = Heading("tools") /\ start[6] = ToolsOf(key)
  OBVIOUS
<1>4. serverPage(key, extra) = page
  BY DEF serverPage
<1> HIDE DEF start, T, L
<1>5. /\ page \in Seq(T) /\ Len(page) = Len(start) + Len(extra)
      /\ \A n \in 1 .. Len(start) + Len(extra) :
           page[n] = IF n <= Len(start) THEN start[n] ELSE extra[n - Len(start)]
  BY <1>1, <1>2, ConcatProperties
<1> HIDE DEF page
<1>6. DOMAIN page = 1 .. 6 + L
  BY <1>1, <1>2, <1>5 DEF L
<1>7. \A n \in 1 .. 6 : page[n] = start[n]
  BY <1>1, <1>2, <1>5 DEF L
<1>8. \A n \in 1 .. L : page[6 + n] = extra[n]
  <2> TAKE n \in 1 .. L
  <2>1. 6 + n \in 1 .. 6 + L /\ ~(6 + n <= 6) /\ (6 + n) - 6 = n
    BY <1>2
  <2> QED BY <1>1, <1>5, <2>1 DEF L
<1> QED BY <1>3, <1>4, <1>6, <1>7, <1>8 DEF L, Opens

\* Every namespace's page holds what it says if the extra blocks do, and has the
\* heading the palette leads to.
LEMMA ServerPagesSincere ==
  ASSUME NEW key \in Keys, NEW S, NEW extra \in Seq(S), \A n \in 1 .. Len(extra) : Holds(extra[n])
  PROVE  Sincere(serverPage(key, extra)) /\ serverPage(key, extra)[5] = Heading("tools")
<1> DEFINE page == serverPage(key, extra)
           L == Len(extra)
<1>1. L \in Nat
  OBVIOUS
<1>2. /\ DOMAIN page = 1 .. 6 + L
      /\ page[1] = Heading("connect") /\ page[2] = Connect({key}) /\ page[3] = Links({"keys"})
      /\ page[4] = Code(serverConfigJson(key)) /\ page[5] = Heading("tools") /\ page[6] = ToolsOf(key)
      /\ \A n \in 1 .. L : page[6 + n] = extra[n]
  <2>1. Opens(page, key, extra)
    BY ServerPage
  <2> HIDE DEF page
  <2> QED BY <2>1 DEF Opens
<1> HIDE DEF page, L
<1>3. ASSUME NEW i \in 1 .. 6 + L PROVE Holds(page[i])
  <2>1. CASE i <= 6
    <3>1. i = 1 \/ i = 2 \/ i = 3 \/ i = 4 \/ i = 5 \/ i = 6
      BY <1>1, <2>1
    <3> QED BY <1>2, <3>1, BlocksHold
  <2>2. CASE i > 6
    <3>1. i - 6 \in 1 .. L /\ 6 + (i - 6) = i
      BY <1>1, <2>2
    <3>2. page[i] = extra[i - 6]
      BY <1>2, <3>1
    <3> QED BY <3>1, <3>2 DEF L
  <2> QED BY <1>1, <2>1, <2>2
<1>4. 6 + L \in Nat
  BY <1>1
<1> QED BY <1>2, <1>3, <1>4 DEF Sincere, page

\* Every page that is shown holds what it says.
LEMMA PagesSincere ==
  /\ \A slug \in DOMAIN pages : Sincere(Shown(slug))
  /\ \A key \in Keys : 5 \in DOMAIN Shown(key) /\ Shown(key)[5] = Heading("tools")
<1>1. Sincere(<<>>)
  BY DEF Sincere
<1>2. Sincere(overview)
  <2>1. DOMAIN overview = 1 .. 5
    BY DEF overview
  <2>2. /\ overview[1] = Heading("the-namespaces") /\ overview[2] = Links(ServerSlugs)
        /\ overview[3] = Heading("connect") /\ overview[4] = Connect(Keys) /\ overview[5] = Code(clientExample)
    BY DEF overview, ServerSlugs
  <2>3. \A i \in 1 .. 5 : i = 1 \/ i = 2 \/ i = 3 \/ i = 4 \/ i = 5
    OBVIOUS
  <2> QED BY <2>1, <2>2, <2>3, BlocksHold DEF Sincere
<1>3. Sincere(quickstart)
  <2>1. DOMAIN quickstart = 1 .. 4
    BY DEF quickstart
  <2>2. /\ quickstart[1] = Heading("run-the-server") /\ quickstart[2] = Heading("point-a-client")
        /\ quickstart[3] = Connect(Keys) /\ quickstart[4] = Code(clientExample)
    BY DEF quickstart
  <2>3. \A i \in 1 .. 4 : i = 1 \/ i = 2 \/ i = 3 \/ i = 4
    OBVIOUS
  <2> QED BY <2>1, <2>2, <2>3, BlocksHold DEF Sincere
<1>4. Sincere(authentication)
  <2>1. DOMAIN authentication = 1 .. 3
    BY DEF authentication
  <2>2. /\ authentication[1] = Heading("api-key") /\ authentication[2] = admission
        /\ authentication[3] = Heading("scope")
    BY DEF authentication
  <2>3. \A i \in 1 .. 3 : i = 1 \/ i = 2 \/ i = 3
    OBVIOUS
  <2> QED BY <2>1, <2>2, <2>3, BlocksHold DEF Sincere
<1>5. Sincere(architecture)
  <2>1. DOMAIN architecture = 1 .. 6
    BY DEF architecture
  <2>2. /\ architecture[1] = Heading("request-lifecycle") /\ architecture[2] = Diagram(RequestFlow)
        /\ architecture[3] = Heading("self-registration") /\ architecture[4] = Diagram(RegisterFlow)
        /\ architecture[5] = Heading("layout") /\ architecture[6] = Heading("adding")
    BY DEF architecture
  <2>3. \A i \in 1 .. 6 : i = 1 \/ i = 2 \/ i = 3 \/ i = 4 \/ i = 5 \/ i = 6
    OBVIOUS
  <2> QED BY <2>1, <2>2, <2>3, BlocksHold DEF Sincere
<1>6. \A slug \in ServerSlugs : /\ Sincere(pages[slug])
                               /\ pages[slug][5] = Heading("tools") /\ 5 \in DOMAIN pages[slug]
  <2>0. ASSUME NEW key \in Keys, NEW extra, \E S : extra \in Seq(S), \A n \in 1 .. Len(extra) : Holds(extra[n])
        PROVE  /\ Sincere(serverPage(key, extra)) /\ serverPage(key, extra)[5] = Heading("tools")
               /\ 5 \in DOMAIN serverPage(key, extra)
    <3>1. PICK S : extra \in Seq(S)
      BY <2>0
    <3>2. Len(extra) \in Nat /\ DOMAIN serverPage(key, extra) = 1 .. 6 + Len(extra)
      <4>1. Opens(serverPage(key, extra), key, extra)
        BY <3>1, ServerPage
      <4> QED BY <3>1, <4>1 DEF Opens
    <3>3. 5 \in 1 .. 6 + Len(extra)
      BY <3>2
    <3> QED BY <2>0, <3>1, <3>2, <3>3, ServerPagesSincere
  <2>1. /\ <<>> \in Seq({}) /\ \A n \in 1 .. Len(<<>>) : Holds(<<>>[n])
    OBVIOUS
  <2>2. /\ memorySkillSection \in Seq({Heading("stateful-skill"), Skill})
        /\ \A n \in 1 .. Len(memorySkillSection) : Holds(memorySkillSection[n])
    <3> DEFINE s == memorySkillSection
    <3>1. s \in Seq({Heading("stateful-skill"), Skill}) /\ Len(s) = 2
      BY DEF memorySkillSection
    <3>2. \A n \in 1 .. Len(s) : s[n] \in {Heading("stateful-skill"), Skill}
      BY <3>1
    <3> QED BY <3>1, <3>2, BlocksHold
  <2>3. /\ eventTaskQueueWalkthrough \in Seq({Heading("task-queue"), Code({publishCall}), Code({consumeCall})})
        /\ \A n \in 1 .. Len(eventTaskQueueWalkthrough) : Holds(eventTaskQueueWalkthrough[n])
    <3> DEFINE s == eventTaskQueueWalkthrough
    <3>1. s \in Seq({Heading("task-queue"), Code({publishCall}), Code({consumeCall})}) /\ Len(s) = 3
      BY DEF eventTaskQueueWalkthrough
    <3>2. \A n \in 1 .. Len(s) : s[n] \in {Heading("task-queue"), Code({publishCall}), Code({consumeCall})}
      <4> DEFINE T == {Heading("task-queue"), Code({publishCall}), Code({consumeCall})}
      <4>1. s \in Seq(T)
        BY <3>1
      <4> HIDE DEF s, T
      <4>2. \A n \in 1 .. Len(s) : s[n] \in T
        BY <4>1
      <4> QED BY <4>2 DEF T
    <3> QED BY <3>1, <3>2, BlocksHold
  <2>4. /\ pages["memory"] = serverPage("memory", memorySkillSection)
        /\ pages["skills"] = serverPage("skills", <<>>)
        /\ pages["gsc"] = serverPage("gsc", <<>>)
        /\ pages["producthunt"] = serverPage("producthunt", <<>>)
        /\ pages["event"] = serverPage("event", eventTaskQueueWalkthrough)
    BY DEF pages, serverPages
  <2>5. Sincere(pages["memory"]) /\ pages["memory"][5] = Heading("tools") /\ 5 \in DOMAIN pages["memory"]
    BY <2>0, <2>2, <2>4, Paths
  <2>6. Sincere(pages["event"]) /\ pages["event"][5] = Heading("tools") /\ 5 \in DOMAIN pages["event"]
    BY <2>0, <2>3, <2>4, Paths
  <2>7. ASSUME NEW key \in Keys, pages[key] = serverPage(key, <<>>)
        PROVE  Sincere(pages[key]) /\ pages[key][5] = Heading("tools") /\ 5 \in DOMAIN pages[key]
    BY <2>0, <2>1, <2>7
  <2> QED BY <2>4, <2>5, <2>6, <2>7, Paths DEF ServerSlugs
<1>7. /\ pages["overview"] = overview /\ pages["quickstart"] = quickstart
      /\ pages["authentication"] = authentication /\ pages["architecture"] = architecture
  BY DEF pages
<1>8. \A slug \in OtherSlugs : Sincere(pages[slug])
  BY <1>2, <1>3, <1>4, <1>5, <1>7 DEF OtherSlugs
<1> QED BY <1>1, <1>6, <1>8, Slugs, ShownPages

(***************************************************************************)
(* The reader.                                                             *)
(***************************************************************************)
\* A place the browser may ask for.
Sound(place) ==
  /\ Exists(place.page) \/ place.page = "doc"
  /\ place.anchor \in {""} \cup Anchors(place.page)

\* The pages outside the documentation are none of its own, and all the navigation
\* names is a page.
LEMMA NamesApart ==
  /\ {"home", "keys", "sign-in", "sign-up", "not-found", "doc"} \cap DOMAIN pages = {}
  /\ nav \subseteq DOMAIN pages \cup {"keys"} /\ topNav \subseteq DOMAIN pages
  /\ Keys \subseteq DOMAIN pages
  /\ {"overview", "architecture", "quickstart"} \subseteq DOMAIN pages
  BY Slugs DEF OtherSlugs, ServerSlugs, PlatformSlugs, nav, topNav

\* The top of a page is always there.
LEMMA TopsSound ==
  ASSUME NEW page, Exists(page) \/ page = "doc"
  PROVE  Sound(Top(page))
  BY DEF Sound, Top, Place

\* What a page of the documentation links to is there.
LEMMA LinkedSound ==
  ASSUME NEW page, Docs(page), NEW slug \in LinkedFrom(Shown(page))
  PROVE  Sound(Top(slug))
<1>1. PICK b \in Blocks(Shown(page), "links") : slug \in b.slugs
  BY DEF LinkedFrom
<1>2. \E i \in DOMAIN Shown(page) : b = Shown(page)[i] /\ b.kind = "links"
  BY <1>1 DEF Blocks
<1>3. Leads(b)
  BY <1>2, PagesSincere DEF Sincere, Holds, Docs
<1>4. slug \in DOMAIN pages \cup {"keys"}
  BY <1>1, <1>2, <1>3 DEF Leads
<1> QED BY <1>4, TopsSound DEF Exists, Docs

\* The palette's second entry for a namespace has its heading.
LEMMA ToolsThere == \A key \in Keys : "tools" \in Anchors(key)
<1> TAKE key \in Keys
<1>1. Docs(key) /\ key # "home"
  BY NamesApart DEF Docs
<1>2. 5 \in DOMAIN Shown(key) /\ Shown(key)[5] = Heading("tools")
  BY PagesSincere
<1>3. 5 \in tocOf(Shown(key)) /\ Shown(key)[5].id = "tools"
  BY <1>2 DEF tocOf, Heading
<1> QED BY <1>1, <1>3 DEF Anchors

\* What the reader may call after some blocks that hold what they say.
LEMMA ToldAccepted ==
  ASSUME NEW page, \A i \in DOMAIN page : Holds(page[i])
  PROVE  /\ \A call \in CodeCalls(page) : Served!Accepts(call)
         /\ \A call \in BlockCalls(page) : Served!Accepts(call)
<1>1. \A kind : \A b \in Blocks(page, kind) : b.kind = kind /\ Holds(b)
  BY DEF Blocks
<1>2. ASSUME NEW call \in CodeCalls(page) PROVE Served!Accepts(call)
  <2>1. PICK b \in Blocks(page, "code") : call \in b.calls
    BY DEF CodeCalls
  <2> QED BY <1>1, <2>1 DEF Holds, Calls
<1>3. ASSUME NEW call \in BlockCalls(page) PROVE Served!Accepts(call)
  <2>1. CASE \E b \in Blocks(page, "tools") : call \in ToolListCalls(b.key)
    <3>1. PICK b \in Blocks(page, "tools") : call \in ToolListCalls(b.key)
      BY <2>1
    <3>2. b.key \in Keys
      BY <1>1, <3>1 DEF Holds, Calls
    <3> QED BY <3>1, <3>2, TableCallsAccepted
  <2>2. CASE \E b \in Blocks(page, "connect") : call \in ConnectCalls(b.keys)
    <3>1. PICK b \in Blocks(page, "connect") : call \in ConnectCalls(b.keys)
      BY <2>2
    <3>2. b.keys \subseteq Keys
      BY <1>1, <3>1 DEF Holds, Calls
    <3> QED BY <3>1, <3>2, JoinsAccepted
  <2>3. CASE call \in statefulSkillMarkdown
    BY <2>3, WrittenCallsAccepted
  <2> QED BY <2>1, <2>2, <2>3 DEF BlockCalls
<1> QED BY <1>2, <1>3

\* The copied text is the page without its skill: nothing is added.
LEMMA CopiedAccepted ==
  ASSUME NEW page, \A i \in DOMAIN page : Holds(page[i]), NEW call \in pageMarkdown(page)
  PROVE  Served!Accepts(call)
<1> DEFINE text == [i \in {j \in DOMAIN page : page[j].kind # "skill"} |-> page[i]]
<1>1. \A i \in DOMAIN text : Holds(text[i])
  OBVIOUS
<1>2. call \in CodeCalls(text) \cup BlockCalls(text)
  BY DEF pageMarkdown
<1> HIDE DEF text
<1> QED BY <1>1, <1>2, ToldAccepted

\* The browser shows a place that is there and has asked for one, at most.
SiteInv ==
  /\ Exists(at.page) /\ Sound(at)
  /\ going # None => Sound(going)

\* Every link shown leads somewhere, on any page and for either session.
LEMMA LinksSound ==
  ASSUME SiteInv, NEW place \in LinksShown
  PROVE  Sound(place)
<1>1. \A slug \in nav \cup topNav \cup Keys : Sound(Top(slug))
  BY NamesApart, TopsSound DEF Exists, Docs
<1>2. /\ Sound(Top("home")) /\ Sound(Top("keys")) /\ Sound(Top("sign-in")) /\ Sound(Top("sign-up"))
      /\ Sound(Top("overview")) /\ Sound(Top("architecture")) /\ Sound(Top("quickstart"))
  BY NamesApart, TopsSound DEF Exists, Docs
<1>3. \A id \in homeAnchors : Sound(Place("home", id))
  <2>1. Anchors("home") = homeAnchors
    BY NamesApart DEF Anchors, Docs
  <2> QED BY <2>1 DEF Sound, Place, Exists
<1>4. Sound(KeyPlace)
  BY <1>2 DEF KeyPlace
<1>5. CASE place \in LandingNav \cup HeroLinks \cup NamespaceCards \cup HomeLinks
  BY <1>1, <1>2, <1>3, <1>5 DEF LandingNav, HeroLinks, NamespaceCards, HomeLinks,
                                homeAnchors
<1>6. CASE place \in AuthLinks \cup ClerkFormLinks
  BY <1>2, <1>6 DEF AuthLinks, ClerkFormLinks
<1>7. CASE place \in DocLinks
  <2>1. CASE place \in SidebarNav \cup TopNav
    BY <1>1, <1>2, <1>4, <2>1 DEF SidebarNav, TopNav
  <2>2. CASE place \in TocLinks
    <3>1. PICK id \in Anchors(at.page) : place = Place(at.page, id)
      BY <2>2 DEF TocLinks
    <3>2. place.page = at.page /\ place.anchor = id
      BY <3>1 DEF Place
    <3> QED BY <3>1, <3>2 DEF Sound, SiteInv
  <2>3. CASE place \in CardGrid
    <3>1. PICK slug \in LinkedFrom(OnPage) : place = Top(slug)
      BY <2>3 DEF CardGrid
    <3>2. CASE Docs(at.page)
      BY <3>1, <3>2, LinkedSound DEF OnPage
    <3>3. CASE ~Docs(at.page)
      <4>1. OnPage = <<>>
        BY <3>3 DEF OnPage
      <4>2. LinkedFrom(<<>>) = {}
        BY DEF LinkedFrom, Blocks
      <4> QED BY <3>1, <4>1, <4>2
    <3> QED BY <3>2, <3>3
  <2>4. CASE place \in ApiKeyCallout
    BY <1>4, <2>4 DEF ApiKeyCallout
  <2> QED BY <1>7, <2>1, <2>2, <2>3, <2>4 DEF DocLinks
<1> QED BY <1>5, <1>6, <1>7 DEF LinksShown

\* No click, redirect, sign-in or landing disturbs it.
LEMMA SiteSteps == SiteInv /\ [Next]_vars => SiteInv'
<1> SUFFICES ASSUME SiteInv, [Next]_vars PROVE SiteInv'
  OBVIOUS
<1>1. ASSUME NEW place, Sound(place), going' = place, UNCHANGED at
      PROVE  SiteInv'
  BY <1>1 DEF SiteInv
<1>2. ASSUME UNCHANGED <<at, going>>
      PROVE  SiteInv'
  BY <1>2 DEF SiteInv
<1>3. CASE Follow
  BY <1>1, <1>3, LinksSound DEF Follow, Go
<1>4. CASE FollowInMenu \/ Pick \/ Arrive \/ SignIn \/ SignOut
  <2>1. \A page \in nav \cup {"home", "doc", "sign-in", "sign-up", "keys"} : Sound(Top(page))
    BY NamesApart, TopsSound DEF Exists, Docs
  <2>2. ASSUME NEW key \in Keys PROVE Sound(Place(key, "tools"))
    BY ToolsThere, NamesApart DEF Sound, Place, Exists, Docs
  <2>3. CASE FollowInMenu
    BY <1>1, <2>1, <2>3 DEF FollowInMenu, Go, SidebarNav
  <2>4. CASE Pick
    BY <1>1, <2>1, <2>2, <2>4 DEF Pick, Go, buildIndex
  <2>5. CASE Arrive
    BY <1>1, <2>1, <2>5 DEF Arrive
  <2>6. CASE SignIn \/ SignOut
    BY <1>1, <2>1, <2>6 DEF SignIn, SignOut, Go
  <2> QED BY <1>4, <2>3, <2>4, <2>5, <2>6
<1>5. CASE OpenNav \/ ThemeToggle \/ CloseMenu \/ TogglePalette \/ ClosePalette \/ SessionElsewhere
  BY <1>2, <1>5 DEF OpenNav, ThemeToggle, CloseMenu, TogglePalette, ClosePalette,
                    SessionElsewhere
<1>6. CASE CopyCode \/ CopyPage \/ TryCall \/ TryConfig \/ TryDrawn \/ TryWithoutKey \/ SkillDownload
  BY <1>2, <1>6 DEF CopyCode, CopyPage, TryCall, TryConfig, TryDrawn, TryWithoutKey,
                    SkillDownload, Try
<1>7. CASE Redirect
  <2>1. Sound(Top("overview")) /\ Sound(Top("sign-in")) /\ Sound(Top("keys")) /\ Sound(going)
    BY <1>7, NamesApart, TopsSound DEF Exists, Docs, Redirect, SiteInv
  <2>2. Sound(Answered(going))
    BY <2>1 DEF Answered, KeysPage, SignInPage
  <2> QED BY <1>1, <1>7, <2>2 DEF Redirect
<1>8. CASE Land
  <2>1. Sound(going) /\ Answered(going) = going
    BY <1>8 DEF Land, SiteInv
  <2>2. going.page # "doc"
    <3> SUFFICES ASSUME going.page = "doc" PROVE FALSE
      OBVIOUS
    <3>1. Answered(going) = Top("overview")
      BY DEF Answered
    <3>2. Top("overview").page = "overview"
      BY DEF Top, Place
    <3> QED BY <2>1, <3>1, <3>2
  <2>3. Exists(going.page)
    BY <2>1, <2>2 DEF Sound
  <2>4. at' = going /\ going' = None
    BY <1>8, <2>3 DEF Land
  <2> QED BY <2>1, <2>3, <2>4 DEF SiteInv
<1>9. CASE UNCHANGED vars
  BY <1>2, <1>9 DEF vars
<1> QED BY <1>3, <1>4, <1>5, <1>6, <1>7, <1>8, <1>9 DEF Next, Read

\* Wherever the reader is or is going, there is a page (page.tsx, layout.tsx,
\* proxy.ts): the site's inductive invariant.
THEOREM SiteInvariant == Spec => []SiteInv
<1>1. Init => SiteInv
  <2> SUFFICES ASSUME Init PROVE SiteInv
    OBVIOUS
  <2>1. at = Top("home") /\ at.page = "home" /\ going = None
    BY DEF Init, Top, Place
  <2>2. Exists(at.page) /\ Sound(at)
    BY <2>1, TopsSound DEF Exists
  <2> QED BY <2>1, <2>2 DEF SiteInv
<1> QED BY <1>1, SiteSteps, PTL DEF Spec

\* Hence no control of the site leads to notFound() or to a missing heading.
THEOREM NoWayLeadsNowhere == Spec => []NoDeadEnds
<1>1. SiteInv => NoDeadEnds
  BY NamesApart DEF SiteInv, NoDeadEnds, Sound, Exists, Docs
<1> QED BY <1>1, SiteInvariant, PTL

\* An answer is to a call the page holds, and every one of them is admitted.
LEMMA AnswerSteps == DocumentedCallsAccepted /\ [Next]_vars => DocumentedCallsAccepted'
<1> SUFFICES ASSUME DocumentedCallsAccepted, [Next]_vars PROVE answer' # "otherwise"
  BY DEF DocumentedCallsAccepted
<1> USE SiteAssumption
<1>1. ASSUME NEW holds \in BOOLEAN, holds, Try(holds)
      PROVE  answer' # "otherwise"
  BY <1>1 DEF Try
<1>2. ASSUME answer' = None \/ UNCHANGED answer
      PROVE  answer' # "otherwise"
  BY <1>2 DEF DocumentedCallsAccepted
<1>3. ASSUME Docs(at.page) PROVE \A i \in DOMAIN OnPage : Holds(OnPage[i])
  BY <1>3, PagesSincere DEF Sincere, OnPage, Docs
<1>4. CASE CopyCode
  <2>1. PICK call \in CodeCalls(OnPage) : Try(Served!Accepts(call))
    BY <1>4 DEF CopyCode
  <2>2. Served!Accepts(call)
    BY <1>3, <1>4, ToldAccepted DEF CopyCode
  <2> QED BY <1>1, <2>1, <2>2
<1>5. CASE TryCall
  <2>1. PICK call \in BlockCalls(OnPage) : Try(Served!Accepts(call))
    BY <1>5 DEF TryCall
  <2>2. Served!Accepts(call)
    BY <1>3, <1>5, ToldAccepted DEF TryCall
  <2> QED BY <1>1, <2>1, <2>2
<1>6. CASE CopyPage
  <2>1. PICK call \in pageMarkdown(OnPage) : Try(Served!Accepts(call))
    BY <1>6 DEF CopyPage
  <2>2. Served!Accepts(call)
    BY <1>3, <1>6, CopiedAccepted DEF CopyPage
  <2> QED BY <1>1, <2>1, <2>2
<1>7. CASE TryConfig
  BY <1>1, <1>7, ConfigAccepted DEF TryConfig
<1>8. CASE TryDrawn
  <2>1. PICK drawn \in DrawnOn(OnPage) :
          \E key \in {"none", "unregistered", "registered"}, user \in BOOLEAN, method \in drawn.methods :
            Try(Served!Handler(Served!Request(method, drawn.path, key, user)) =
                  IF (drawn.asks = "key" => key = "registered") /\ (drawn.asks = "user" => user)
                  THEN drawn.target ELSE "401")
    BY <1>8 DEF TryDrawn
  <2>2. AsDrawn(drawn)
    <3>1. PICK b \in Blocks(OnPage, "diagram") : drawn \in b.flow
      BY DEF DrawnOn
    <3>2. b.kind = "diagram" /\ Holds(b)
      BY <1>3, <1>8 DEF Blocks, TryDrawn
    <3> QED BY <3>1, <3>2 DEF Holds, Calls
  <2> QED BY <1>1, <2>1, <2>2 DEF AsDrawn
<1>9. CASE SkillDownload
  <2>1. PICK file \in {GET(ROUTE, session), GET(ROUTE, FALSE), CopySkill} :
          Try(file # {} /\ \A call \in file : Served!Accepts(call))
    BY <1>9 DEF SkillDownload
  <2>2. file = statefulSkillMarkdown
    BY DEF GET, ROUTE, CopySkill, isProtectedRoute
  <2> QED BY <1>1, <2>1, <2>2, WrittenCallsAccepted
<1>10. CASE Follow \/ FollowInMenu \/ Pick \/ Arrive \/ SignOut \/ Land
  BY <1>2, <1>10 DEF Follow, FollowInMenu, Pick, Arrive, SignOut, Land
<1>11. CASE \/ OpenNav \/ ThemeToggle \/ CloseMenu \/ TogglePalette \/ ClosePalette
            \/ SignIn \/ SessionElsewhere \/ Redirect
  BY <1>2, <1>11 DEF OpenNav, ThemeToggle, CloseMenu, TogglePalette, ClosePalette,
                     SignIn, SessionElsewhere, Redirect
<1>12. CASE TryWithoutKey
  <2>1. PICK guard \in Blocks(OnPage, "guard") :
          \E route \in Served!Routes, key \in {"none", "unregistered"}, user \in BOOLEAN :
            Try(Served!Handler(Served!Request(route[1], route[2], key, user)) = "401" <=>
                  ~(route \in guard.exempt \/ (user /\ route \in Served!keysapiRoutes)))
    BY <1>12 DEF TryWithoutKey
  <2>2. guard.exempt = {<<"GET", "/healthz">>}
    BY <1>3, <1>12 DEF Blocks, TryWithoutKey, Holds, Calls
  <2>3. PICK route \in Served!Routes, key \in {"none", "unregistered"}, user \in BOOLEAN :
          Try(Served!Handler(Served!Request(route[1], route[2], key, user)) = "401" <=>
                ~(route \in guard.exempt \/ (user /\ route \in Served!keysapiRoutes)))
    BY <2>1
  <2>4. Served!Handler(Served!Request(route[1], route[2], key, user)) = "401" <=>
          ~(route \in guard.exempt \/ (user /\ route \in Served!keysapiRoutes))
    BY <2>2, KeyGuards
  <2> QED BY <1>1, <2>3, <2>4
<1>13. CASE UNCHANGED vars
  BY <1>2, <1>13 DEF vars
<1> QED BY <1>4, <1>5, <1>6, <1>7, <1>8, <1>9, <1>10, <1>11, <1>12, <1>13 DEF Next, Read

\* Every call, installation and request a page tells of is admitted by the Go
\* server as the page tells it, over everything the site documents.
THEOREM DocumentedCallsAdmitted == Spec => []DocumentedCallsAccepted
<1>1. Init => DocumentedCallsAccepted
  BY SiteAssumption DEF Init, DocumentedCallsAccepted
<1> QED BY <1>1, AnswerSteps, PTL DEF Spec
=============================================================================
