---------------------------- MODULE DocsContent ----------------------------
(***************************************************************************)
(* What the documentation site says (lib/docs.tsx): the tools it documents *)
(* for each namespace and the blocks of its pages.  A page is the sequence *)
(* of its blocks that a reader can go to, follow, connect with or call;    *)
(* prose and icons are left out.                                           *)
(***************************************************************************)
EXTENDS Naturals, Sequences

Params(required, optional) == [required |-> required, optional |-> optional]

\* Mutant of MemoryTools: the query's name has drifted from the server's.
MemoryToolsDrifted ==
  [memory_search |-> Params({"text"}, {"limit", "min_score", "tags"})]

MemoryTools ==
  [memory_search |-> Params({"query"}, {"limit", "min_score", "tags"}),
   memory_write |-> Params({"content"}, {"tags", "metadata"}),
   memory_get |-> Params({"id"}, {}),
   memory_update |-> Params({"id", "content"}, {}),
   memory_delete |-> Params({"id"}, {}),
   memory_list |-> Params({}, {"tags", "limit"})]

SkillsTools ==
  [skills_find |-> Params({}, {"requirement", "requirements"}),
   skills_download |-> Params({"source"}, {})]

GscTools ==
  LET site(optional) == Params({"site_url"}, optional)
      with(required) == Params({"site_url"} \cup required, {})
  IN [gsc_capabilities |-> Params({}, {}),
      gsc_list_properties |-> Params({}, {}),
      gsc_get_site_details |-> site({}),
      gsc_add_site |-> site({}),
      gsc_delete_site |-> site({}),
      gsc_search_analytics |-> site({"days", "dimensions", "row_limit"}),
      gsc_advanced_search_analytics |->
        site({"start_date", "end_date", "search_type", "row_limit", "data_state"}),
      gsc_performance_overview |-> site({"days"}),
      gsc_compare_periods |->
        Params({"site_url", "period1_start", "period1_end", "period2_start", "period2_end"},
               {"limit"}),
      gsc_search_by_page_query |-> Params({"site_url", "page_url"}, {"days", "row_limit"}),
      gsc_inspect_url |-> with({"page_url"}),
      gsc_batch_inspect_urls |-> with({"urls"}),
      gsc_check_indexing_issues |-> with({"urls"}),
      gsc_list_sitemaps |-> site({"sitemap_index"}),
      gsc_get_sitemap |-> with({"sitemap_url"}),
      gsc_submit_sitemap |-> with({"sitemap_url"}),
      gsc_delete_sitemap |-> with({"sitemap_url"})]

ProductHuntTools ==
  [producthunt_capabilities |-> Params({}, {}),
   producthunt_list_posts |-> Params({}, {"order", "topic", "posted_after", "first", "after"}),
   producthunt_get_post |-> Params({}, {"id", "slug"}),
   producthunt_get_post_comments |-> Params({}, {"id", "slug", "order", "first"}),
   producthunt_list_topics |-> Params({}, {"query", "order", "first"}),
   producthunt_get_topic |-> Params({}, {"id", "slug"}),
   producthunt_list_collections |-> Params({}, {"featured", "user_id", "post_id", "first"}),
   producthunt_get_collection |-> Params({}, {"id", "slug", "first"}),
   producthunt_get_user |-> Params({}, {"id", "username", "posts"}),
   producthunt_viewer |-> Params({}, {}),
   producthunt_graphql |-> Params({"query"}, {"variables"})]

EventTools ==
  [event_capabilities |-> Params({}, {}),
   event_publish |-> Params({"value"}, {"topic", "key", "headers"}),
   event_consume |-> Params({}, {"topic", "from", "group", "max", "timeout_ms"}),
   event_topics |-> Params({}, {}),
   event_create_topic |-> Params({"topic"}, {"partitions", "replication_factor"}),
   event_delete_topic |-> Params({"topic"}, {})]

Server(path, tools) == [path |-> path, tools |-> tools]
servers ==
  [memory |-> Server("/memory/mcp", MemoryTools),
   skills |-> Server("/skills/mcp", SkillsTools),
   gsc |-> Server("/gsc/mcp", GscTools),
   producthunt |-> Server("/producthunt/mcp", ProductHuntTools),
   event |-> Server("/event/mcp", EventTools)]
Keys == DOMAIN servers

nav ==
  {"overview", "quickstart", "authentication", "keys"}
    \cup {"memory", "skills", "gsc", "producthunt", "event"}
    \cup {"platform", "agents", "workflows", "deployments"}
    \cup {"architecture"}
topNav == {"overview", "memory", "skills", "architecture"}
-----------------------------------------------------------------------------
(***************************************************************************)
(* Blocks.                                                                 *)
(***************************************************************************)
Call(path, tool, args) == [path |-> path, tool |-> tool, args |-> args]

Heading(id) == [kind |-> "heading", id |-> id]
Connect(keys) == [kind |-> "connect", keys |-> keys]
Code(calls) == [kind |-> "code", calls |-> calls]
ToolsOf(key) == [kind |-> "tools", key |-> key]
Links(slugs) == [kind |-> "links", slugs |-> slugs]
Skill == [kind |-> "skill"]
Guard(exempt) == [kind |-> "guard", exempt |-> exempt]
Diagram(flow) == [kind |-> "diagram", flow |-> flow]

\* tools/list is what a client sends once it is connected.
Joins(paths) == {Call(p, "tools/list", {}) : p \in paths}
clientExample ==
  Joins({"/memory/mcp", "/skills/mcp", "/gsc/mcp", "/producthunt/mcp", "/event/mcp"})
serverConfigJson(key) == Joins({servers[key].path})

publishCall == Call("/event/mcp", "event_publish", {"topic", "key", "headers", "value"})
consumeCall == Call("/event/mcp", "event_consume", {"topic", "from", "max", "timeout_ms"})
eventTaskQueueWalkthrough ==
  <<Heading("task-queue"), Code({publishCall}), Code({consumeCall})>>

memorySkillSection == <<Heading("stateful-skill"), Skill>>

\* The calls SKILL.md tells an agent to make.
statefulSkillMarkdown ==
  {Call("/memory/mcp", "memory_list", {"tags"}),
   Call("/memory/mcp", "memory_search", {"query", "limit"}),
   Call("/memory/mcp", "memory_search", {"query", "tags"}),
   Call("/memory/mcp", "memory_write", {"content", "tags"})}

\* Mutant of serverPage: the section has been renamed.
serverPageRenamed(key, extra) ==
  <<Heading("connect"), Connect({key}), Links({"keys"}), Code(serverConfigJson(key)),
    Heading("tool-reference"), ToolsOf(key)>> \o extra

serverPage(key, extra) ==
  <<Heading("connect"), Connect({key}), Links({"keys"}), Code(serverConfigJson(key)),
    Heading("tools"), ToolsOf(key)>> \o extra

(***************************************************************************)
(* The two diagrams: for some requests, the credential asked for, what     *)
(* they reach with it, and otherwise a 401.                                *)
(***************************************************************************)
Drawn(methods, path, asks, target) ==
  [methods |-> methods, path |-> path, asks |-> asks, target |-> target]

\* The route the diagram draws as "/*/mcp", with the names drawn under it.
mcpPath ==
  [memory |-> "/memory/mcp", skills |-> "/skills/mcp", gsc |-> "/gsc/mcp",
   producthunt |-> "/producthunt/mcp", event |-> "/event/mcp"]
DrawnNamespaces(names) ==
  {Drawn({"GET", "POST", "DELETE"}, mcpPath[n], "key", mcpPath[n]) : n \in names}

RequestFlow ==
  {Drawn({"GET"}, "/healthz", "nothing", "ok"),
   Drawn({"GET", "POST"}, "/api/keys", "user", "keysapi"),
   Drawn({"DELETE"}, "/api/keys/{id}", "user", "keysapi")}
    \cup DrawnNamespaces({"memory", "skills", "gsc", "producthunt", "event"})

RegisterFlow == DrawnNamespaces({"memory", "skills", "gsc", "producthunt", "event"})

platformPage == <<>>

overview ==
  <<Heading("the-namespaces"), Links({"memory", "skills", "gsc", "producthunt", "event"}),
    Heading("connect"), Connect(Keys), Code(clientExample)>>
quickstart ==
  <<Heading("run-the-server"), Heading("point-a-client"), Connect(Keys), Code(clientExample)>>

\* Admission as the page tells it: "the whole mux", but for an uptime probe.
admission == Guard({<<"GET", "/healthz">>})
authentication == <<Heading("api-key"), admission, Heading("scope")>>
serverPages ==
  [memory |-> serverPage("memory", memorySkillSection),
   skills |-> serverPage("skills", <<>>),
   gsc |-> serverPage("gsc", <<>>),
   producthunt |-> serverPage("producthunt", <<>>),
   event |-> serverPage("event", eventTaskQueueWalkthrough)]
platformPages ==
  [platform |-> platformPage, agents |-> platformPage,
   workflows |-> platformPage, deployments |-> platformPage]
architecture ==
  <<Heading("request-lifecycle"), Diagram(RequestFlow), Heading("self-registration"),
    Diagram(RegisterFlow), Heading("layout"), Heading("adding")>>

pages ==
  [overview |-> overview, quickstart |-> quickstart, authentication |-> authentication,
   memory |-> serverPages.memory, skills |-> serverPages.skills, gsc |-> serverPages.gsc,
   producthunt |-> serverPages.producthunt, event |-> serverPages.event,
   platform |-> platformPages.platform, agents |-> platformPages.agents,
   workflows |-> platformPages.workflows, deployments |-> platformPages.deployments,
   architecture |-> architecture]
-----------------------------------------------------------------------------
(***************************************************************************)
(* What the renderers make of a page.                                      *)
(***************************************************************************)
\* A page under development shows none of its blocks, has no table of contents
\* and leads to the preview site only.
ComingSoon(slug) == <<>>
Shown(slug) == IF slug \in DOMAIN platformPages THEN ComingSoon(slug) ELSE pages[slug]

\* The places of its headings.
tocOf(page) == {i \in DOMAIN page : page[i].kind = "heading"}

Blocks(page, kind) == {page[i] : i \in {j \in DOMAIN page : page[j].kind = kind}}

LinkedFrom(page) == UNION {b.slugs : b \in Blocks(page, "links")}
AsksForKey(page) == Blocks(page, "connect") # {}

\* ToolList: any call whose arguments are documented and complete.
ToolListCalls(key) ==
  UNION {{Call(servers[key].path, t, args \cup servers[key].tools[t].required) :
            args \in SUBSET servers[key].tools[t].optional} :
         t \in DOMAIN servers[key].tools}

CodeCalls(page) == UNION {b.calls : b \in Blocks(page, "code")}

ConnectCalls(keys) == Joins({servers[k].path : k \in keys})

BlockCalls(page) ==
  UNION ({ToolListCalls(b.key) : b \in Blocks(page, "tools")}
           \cup {ConnectCalls(b.keys) : b \in Blocks(page, "connect")}
           \cup {statefulSkillMarkdown : b \in Blocks(page, "skill")})

\* The text CopyPageButton copies: it has what the page's own blocks say, and
\* a link in place of the skill.
pageMarkdown(page) ==
  LET text == [i \in {j \in DOMAIN page : page[j].kind # "skill"} |-> page[i]]
  IN  CodeCalls(text) \cup BlockCalls(text)

DrawnOn(page) == UNION {b.flow : b \in Blocks(page, "diagram")}
=============================================================================
