---------------------------- MODULE ToolSchemas ----------------------------
(***************************************************************************)
(* The tools the five namespaces of the Go server register, each with the  *)
(* fields of its input struct.  The schema the MCP library derives from a  *)
(* struct requires the fields without omitempty and admits no others.      *)
(*                                                                         *)
(* The server is one with every key configured: without OPENAI_API_KEY it  *)
(* has no skills_find, without a database no memory namespace.             *)
(***************************************************************************)

Input(required, optional) == [required |-> required, optional |-> optional]
NoInput == Input({}, {})

\* internal/memory/tools.go
MemorySearch == Input({"query"}, {"limit", "min_score", "tags"})
MemoryWrite == Input({"content"}, {"tags", "metadata"})
MemoryId == Input({"id"}, {})
MemoryUpdate == Input({"id", "content"}, {})
MemoryList == Input({}, {"tags", "limit"})

MemoryServed ==
  [memory_search |-> MemorySearch, memory_write |-> MemoryWrite, memory_get |-> MemoryId,
   memory_update |-> MemoryUpdate, memory_delete |-> MemoryId, memory_list |-> MemoryList]

\* internal/skills
Ping == Input({}, {"message"})
Find == Input({}, {"requirement", "requirements"})
Download == Input({"source"}, {})

SkillsServed == [skills_ping |-> Ping, skills_find |-> Find, skills_download |-> Download]

\* internal/gsc
SiteURL == Input({"site_url"}, {})
SearchAnalytics == Input({"site_url"}, {"days", "dimensions", "row_limit"})
Advanced ==
  Input({"site_url"}, {"start_date", "end_date", "dimensions", "search_type", "row_limit",
                       "start_row", "sort_by", "sort_direction", "filter_dimension",
                       "filter_operator", "filter_expression", "data_state"})
PerformanceOverview == Input({"site_url"}, {"days"})
Compare ==
  Input({"site_url", "period1_start", "period1_end", "period2_start", "period2_end"},
        {"dimensions", "limit"})
PageQuery == Input({"site_url", "page_url"}, {"days", "row_limit"})
Inspect == Input({"site_url", "page_url"}, {})
BatchInspect == Input({"site_url", "urls"}, {})
ListSitemaps == Input({"site_url"}, {"sitemap_index"})
SitemapURL == Input({"site_url", "sitemap_url"}, {})

GscServed ==
  [gsc_capabilities |-> NoInput, gsc_list_properties |-> NoInput,
   gsc_get_site_details |-> SiteURL, gsc_add_site |-> SiteURL, gsc_delete_site |-> SiteURL,
   gsc_search_analytics |-> SearchAnalytics, gsc_advanced_search_analytics |-> Advanced,
   gsc_performance_overview |-> PerformanceOverview, gsc_compare_periods |-> Compare,
   gsc_search_by_page_query |-> PageQuery,
   gsc_inspect_url |-> Inspect, gsc_batch_inspect_urls |-> BatchInspect,
   gsc_check_indexing_issues |-> BatchInspect,
   gsc_list_sitemaps |-> ListSitemaps, gsc_get_sitemap |-> SitemapURL,
   gsc_submit_sitemap |-> SitemapURL, gsc_delete_sitemap |-> SitemapURL]

\* internal/producthunt
ListPosts ==
  Input({}, {"order", "featured", "topic", "posted_after", "posted_before", "first", "after"})
PostRef == Input({}, {"id", "slug"})
PostComments == Input({}, {"id", "slug", "order", "first", "after"})
ListTopics == Input({}, {"query", "order", "first", "after"})
TopicRef == Input({}, {"id", "slug"})
ListCollections == Input({}, {"featured", "user_id", "post_id", "order", "first", "after"})
CollectionRef == Input({}, {"id", "slug", "first"})
UserRef == Input({}, {"id", "username", "posts"})
RawGraphQL == Input({"query"}, {"variables"})

ProductHuntServed ==
  [producthunt_capabilities |-> NoInput, producthunt_list_posts |-> ListPosts,
   producthunt_get_post |-> PostRef, producthunt_get_post_comments |-> PostComments,
   producthunt_list_topics |-> ListTopics, producthunt_get_topic |-> TopicRef,
   producthunt_list_collections |-> ListCollections,
   producthunt_get_collection |-> CollectionRef, producthunt_get_user |-> UserRef,
   producthunt_viewer |-> NoInput, producthunt_graphql |-> RawGraphQL]

\* internal/event
Publish == Input({"value"}, {"topic", "key", "headers"})
Consume == Input({}, {"topic", "group", "max", "timeout_ms", "from"})
CreateTopic == Input({"topic"}, {"partitions", "replication_factor"})
DeleteTopic == Input({"topic"}, {})

EventServed ==
  [event_capabilities |-> NoInput, event_publish |-> Publish, event_consume |-> Consume,
   event_topics |-> NoInput, event_create_topic |-> CreateTopic,
   event_delete_topic |-> DeleteTopic]

\* The mux: one server per path.
Mounted ==
  [path \in {"/memory/mcp", "/skills/mcp", "/gsc/mcp", "/producthunt/mcp", "/event/mcp"} |->
     CASE path = "/memory/mcp" -> MemoryServed
       [] path = "/skills/mcp" -> SkillsServed
       [] path = "/gsc/mcp" -> GscServed
       [] path = "/producthunt/mcp" -> ProductHuntServed
       [] path = "/event/mcp" -> EventServed]

\* tools/call, and tools/list for a client that only connects.
Accepts(call) ==
  /\ call.path \in DOMAIN Mounted
  /\ call.tool # "tools/list" =>
       /\ call.tool \in DOMAIN Mounted[call.path]
       /\ LET in == Mounted[call.path][call.tool]
          IN  in.required \subseteq call.args /\ call.args \subseteq in.required \cup in.optional
=============================================================================
