# Verification of go-mcp-server

go-mcp-server serves several MCP namespaces (memory, event, skills, gsc,
producthunt) over streamable HTTP from one Go process, behind API keys that a
web dashboard mints and revokes. The state that outlives a request is in two
PostgreSQL tables, `api_keys` and `memories`, in a Kafka topic, and in caches
and queues inside the process; the web site adds the state of a page in a
browser. This directory models the parts of it where order, overlap and failure
decide what is right, checks the models with TLC, and proves the main results
with TLAPS.

## 1. The system

| Component | State | Operations | Interacts with | What is hard, what must hold |
|---|---|---|---|---|
| Memory store (`internal/memory/store.go`) | rows of `memories`; queue `embedQ`; jobs inside workers and spilled goroutines; `baseCtx` | Write, Update, Delete, Get, List, enqueueEmbed, embedWorker, runEmbed, backfillPending, Close | PostgreSQL, the embedder, the key resolver, the process's signal context | transactions and late jobs interleave; crashes lose the queue; a row's vector must be of its current content, no row may wait for ever unnoticed, a key holds only its newest rows |
| Memory search (`store.go`, Search, fuse) | two goroutines under one context | vectorSearch, keywordSearch, fuse | the same tables, twice, in two snapshots | an arm fails, or sees another version of a row than its sibling; the answer must be one ranking of things as they were |
| Key resolver (`internal/auth/apikey.go`) | a cache per instance | Resolve, Create | `api_keys`; used by the middleware, memory and event | the cache is filled after a SELECT and never emptied |
| Key management (`internal/keysapi/keys.go`) | rows of `api_keys` | List, Create (capped), Delete | `api_keys`, and `memories` by cascade; Clerk identity | overlapping creations against the cap; revocation against caches |
| Middleware and routing (`internal/mcpx`) | none of its own but the resolver | RequireAPIKey, Recover, LogRequests, Handler | wraps every namespace | a refusal must be the key's fault; an outage must not look like one |
| Clerk authentication (`internal/clerkauth`) | cache of signing keys | jsonWebKey, RequireUser | Clerk's published keys | the cache is filled after a fetch and never emptied, while Clerk rotates |
| Event namespace (`internal/event`) | consumer-group offsets in Kafka | publish, consume, topic administration | Kafka, the key resolver | offsets are committed before the caller has the records; other callers' records are skipped |
| Skills namespace (`internal/skills`) | per-call conversation, directory stack, semaphores and result slots | find (agent loop), download (walk), scrape | OpenAI, GitHub, Firecrawl | services that answer anything or nothing; limits on steps, files and depth; bounded fan-out |
| Product Hunt (`internal/producthunt`) | cached token and its expiry | ensureToken, queries | OAuth and GraphQL endpoints | expiry against use, a lock held over a request |
| Search Console (`internal/gsc`) | per-call result slots | inspectMany, queries | Google APIs | bounded fan-out |
| Server process (`cmd/server/main.go`) | signal context, listener | start, shutdown | everything | the store closes at once, requests have ten more seconds |
| Dashboard (`frontend`, the keys page) | the page's copy of the key list, its dialogs and spinners, the one-time secret | create, reveal once, revoke | Next.js route handlers, Clerk, key management | stale copy, lost answers, dialogs dismissed while a request runs, a session that changes underneath |
| Documentation site (`frontend`, everything else) | where the reader is; palette, menus, session | follow, search, copy, sign in, redirect | the pages' data; the server's routes and tool schemas, which the pages describe | three lists of pages kept apart (pages, sidebar, palette); redirects both ways; documented calls that must be those the server takes |

`PROJECT.json` lists under "hazards" what is hard to test in each, with its
line and the properties that would catch it going wrong.

## 2. The modules

```
 MemoryLifecycle  <--refines--  MemoryTable  <--EXTENDS / refines--  MemoryStore
                                  ^    ^                                  ^
                                  |    +--EXTENDS-- MemorySearch          |
                                  |                      ^                |
                  MemoryTableProofs <---EXTENDS--- MemoryProofs ----------+

 ApiKeys <--refines--  Dashboard --EXTENDS-->  ClerkAuth
    ^                      ^
 ApiKeysProofs        DashboardProofs

 EventLog   <- EventLogProofs        ParallelMap <--refines-- Fanout <----+
 TokenCache <- TokenCacheProofs                                          SkillsProofs
                                     SkillFinder, SkillWalk <--EXTENDS-- Skills <-+

 ToolSchemas <--EXTENDS-- Gateway <--INSTANCE-- DocsSite --EXTENDS--> DocsContent
                                                  ^
                                            DocsSiteProofs
```

ApiKeys stands between every caller and every tool: the caller a module below
speaks of is the key that ApiKeys let in. `MC*.tla` add the symmetry sets and
structured constants TLC uses; everything else a run needs is in its `.cfg`.

### MemoryLifecycle: what a memory is promised

An abstract specification over `keys`, `rows` and `owner` (under which key an id
was ever stored). A memory is stored once; storing may drop only memories of the
same key that `Cap` newer memories of that key have overrun; an edit clears the
vector; a vector appears only on a row that lacks one, and it is the one of the
content the row holds; nothing comes back; revoking a key erases its memories
and no others. It says nothing of queues, transactions or jobs.

### MemoryTable: the statements, under READ COMMITTED

The statements of `store.go` over the tables, as they interleave on the server.

| Code | Model |
|---|---|
| `Write`: BEGIN, INSERT, eviction DELETE, COMMIT | `Begin`, `Scan`, `Commit`, or `Rollback`; the row and the evictions become visible at `Commit` |
| `Update`, `Delete` | `UpdateRow`, `DeleteRow`: one statement, scoped to the key |
| the guarded `UPDATE ... embedding` of `runEmbed` | `SetVector`, callable at any time with any content |
| `ON DELETE CASCADE` of `0003_api_keys.sql` | `DeleteKey`, which waits for the transactions that hold the key's share lock |
| a process that dies | `DropConnections` |

A row is named by its place in the order `(created_at, id)`. `created_at`
defaults to `now()`, the start of the transaction, so the place is given out by
`Begin` and not by `Commit`; a slow write can commit an old row. A vector is
represented by the content it was computed from, so "the vector of another
content" is a statement about two values. The DELETE of the eviction sees the
committed rows and the transaction's own, which is what READ COMMITTED gives it.

Row locks are not modelled. A statement that meets a locked row waits and then
sees the row as the other transaction left it, which is what it would have seen
had it started later. The statements that wait for the key row's share lock are
modelled, because there the order matters.

### MemoryStore: requests, queue and goroutines

Extends MemoryTable with what the process does. `CommitWrite` and `Update` leave
a job in the request's hand; `HandOff` is `enqueueEmbed`: into the queue, to a
detached goroutine when the queue is full, or nowhere when the store is closed.
`TakeJob`, `EmbedOk`, `EmbedRetry`, `EmbedGiveUp`, `WriteBack` and
`WriteBackFail` are `embedWorker` and `runEmbed`; the `Backfill*` actions are
`backfillPending`; `Close` cancels `baseCtx`; `Restart` is a start after a
shutdown or a crash at any point, which keeps the tables and loses the rest.
`CommitWriteLost` and `UpdateLost` are the outcome every networked database
offers and no test produces: the statement took effect and the client got an
error.

Two history variables say what somebody was told: `logged` holds the pending
rows whose last job ended with a log line, `errored` those whose write or edit
came back as an error though it took effect.

### MemorySearch: two arms and one ranking

Extends MemoryTable with one search at a time. `Ask` begins it, `EmbedQuery`
is the embedding the vector arm waits for, `VectorArm` and `KeywordArm` are the
two SELECTs, each over the rows of its own moment; `ArmFails`, `Cancelled` and
`WaitErr` are the errgroup; `Wait` fuses and cuts. Every action of MemoryTable
may come between any two of them, so a row can be edited, embedded, evicted or
revoked between the arms.

How close a content is to the query, and which words it has, are constants, and
a hit's score is represented by the content it was computed from. `vectorSearch`
sees only rows with a vector, and may miss rows, because the HNSW index is
approximate. `fuse` is reciprocal rank fusion with `rrfK` 60 as written: the
entries are ranged over in any order (a Go map) and put in place by insertion,
ties staying as they came; sums of fractions are pairs of integers. `BestFirst`
compares the answer with the definition of the fused rank.

### ApiKeys: minting, admission, caches, revocation

The table's owner column, creations as a count and a later insert (one
statement, but its snapshot is taken at its start), revocation, and requests
that pass the gate's resolver and, in a scoped namespace (memory, event), a
second one. A lookup that misses is a SELECT followed, apart, by the filling of
the cache (`Resolve` takes the lock only then). `Restart` empties the caches.
Keys of the wrong form are refused before any state is read and are left out; a
key string and its id determine each other and are one name.

### ClerkAuth and Dashboard: the keys page and everything behind it

ClerkAuth is `RequireUser`: a bearer token names the signing key it was made
with; `KeyCached` verifies with the cached key, `FetchKey` and `StoreKey` are a
miss (the fetch, and apart from it the store under the write lock), `FetchFails`
is every failure of Clerk to hand over a key. Clerk rotates its keys, tokens
expire on the way, and a restart empties the cache. What makes a signature good
is the library's and is one bit here.

Dashboard joins it to the page. One browser shows the keys page
(`api-keys-manager.tsx`): its list, the limit, the create, reveal and revoke
dialogs, the spinners, the secret. A fetch goes through the Next.js handler
(`KeysProxy`, with the token of the session of that moment), the Go server
(`RequireUser`, then `List`, `CountKeys` and `InsertKey`, or `Delete`) and back
(`PageLoads`, `Created`, `Deleted` and their failures). Meanwhile the user
dismisses dialogs, leaves and returns, another tab creates and revokes
(`CountElsewhere`, `RevokeElsewhere`), the session switches, answers are lost,
Clerk rotates and the server restarts. A dialog is modal, as Radix makes it:
input goes to the one opened last.

`untold` is history: the changes of the user's keys that the page has not been
told of. `ListAccounted` says that the list differs from the table by no more
than those. `ImplementsRegistry` maps the whole onto ApiKeys (with no requests
to the tools): behind the page, the proxy and the token check, the key table
does nothing that the registry does not allow. The registry alone would let any
user revoke, so the property also ties each request of the page to the user its
bearer token proves (`RequestsActForBearers`), which is the `clerk_user_id` of
the statements: a `Delete` that looks at the id alone violates it.

### DocsContent, DocsSite, ToolSchemas, Gateway: the site and what it says

DocsContent is the site's data as `docs.tsx` and `stateful-skill.ts` hold it:
the pages with their kinds of blocks, headings and links, the sidebar, the
documented parameters, the sample calls, the diagrams. ToolSchemas is what the
server has in their place: the mounted paths and each tool's input schema, taken
from the Go structs. Gateway is `mcpx.Handler`, which request goes where behind
which admission.

DocsSite is a visit: links, the sidebar and its mobile sheet, the search palette,
signing in and out, the redirects of `proxy.ts` and the sign-in pages, and the
reader who tries what a page shows. A call that is tried is put to `Gateway` and
`ToolSchemas`, so `DocumentedCallsAccepted` compares two texts written apart, in
two languages.

The Authentication page makes a claim about every route (`Guard`: which ones are
exempt), and `TryWithoutKey` tries each route of the mux without a registered
key. The claim is wrong of `/api/keys`, which asks for a session and no key (see
"Claims that do not hold"); `DocumentedCallsAccepted` holds it to be right of
every other route, and of `/api/keys` without a session.

### EventLog: publishing and polling over Kafka

One topic that all callers share, as a sequence of records per partition.
`Publish` is `event_publish`: the caller's headers with the owner header
replaced (`StampOwner`), then an append to whichever partition the balancer
chose. A poll is `event_consume`: `OpenPoll` (`newReader`; a peek from latest may
begin at either end, for kafka-go heeds `StartOffset` only with a group), `Fetch` (one turn of
the loop: collect, and keep the message if its owner header names the caller),
then `CommitOk`, `CommitRefused` or `CommitLost` (the commit took effect and an
error came back), then `Answer` or `AnswerLost`. The loop may end at any moment,
because the deadline and the caller's departure end it without an error;
`FetchFails` is every other error and the death of the process.

External, from how the code uses it: the consumer group. `Rebalance` shares out
a group's partitions among the polls that are fetching, in any way, and each
reads on from the committed cursor. Nothing stops a poll that has lost a
partition from committing what it had read of it, and a commit may move a cursor
back; both are in the model, and `NothingSkipped` holds all the same. The group's
protocol with its coordinator, heartbeats and generations is not modelled: a
broker that refuses the commit of a late member is `CommitRefused`.

Headers are functions from the header names that matter to callers, and a
record carries as history who published it, so `OwnEventsOnly` is about
publishers and not about headers. `handed` and `lost` are history.

`produce` makes a new `kafka.Hash` for every record, so its round robin for
records without a key begins anew each time, and all of them go to the first
partition. The model leaves the partition open; its properties hold for every
choice.

### TokenCache: the Product Hunt token

Time is a counter, and `Tick` may not pass the end of a request's timeout. A
query waits for the lock, takes the cached token (`TakeCached`) or fetches one
holding the lock (`FetchToken`, `Issue` at the endpoint, `StoreToken` or
`FetchFails`), and then sends its query with no lock (`Finish`). The assumption
`MarginCoversRequests` is the code's one minute against two requests of at most
30 seconds; with one second less of margin or one more of timeout the property
`AcceptedOnArrival` would not follow.

### Fanout: bounded fan-outs, and ParallelMap, what they promise

`findHandler`, `Download` and `inspectMany` have the same shape in two styles:
goroutines that wait for a place in a channel (`Spawn`, `Acquire`), or a loop
that waits before it starts one (`Go`, errgroup's `SetLimit`). Then `Finish`
(the slot is written), `Release` and `Done` (the deferred calls), and `Wait`.
`style` is chosen in the initial state, so one run covers all three. ParallelMap
is the promise: one answer, every item's outcome in its own place, and no item
given up for another's failure, but only because the caller has left (`gone`).
A call may hang: `Ends` says which calls are sure to end. Those of skills are,
by their clients' timeouts; those of gsc only once the request's context is over.
A place that is not given back shows in `Returns`, and not in `InFlightBounded`,
which only bounds from above.

### SkillFinder, SkillWalk, Skills: the agent's loop and the directory walk

SkillFinder is `Find`: `Complete` is a round trip, after which the chat model
may have asked for any calls, of tools that exist or not; `Dispatch` carries out
one and appends its answer; the loop ends with a message without calls, with an
error, or after `maxAgentSteps`. SkillWalk is the recursion of `Download`: a
stack of listings, each asked for over the network (`Listed`, `ListFails`) and
gone through in order (`Take`, `Pass`, `Enter`, `Return`). A listing holds
whatever GitHub answers at that moment. Skills is the namespace as a caller
meets it, one call at a time, with `skills_find` there only when there is a key
for the model; the fan-out around the walk is Fanout, of which `Fetch` is the
outcome.

## 3. What the runs check

Every property has a mutant in `PROJECT.json`: a plausible bug in the code, under
which TLC finds that property violated in the same run. Type invariants are not
run: TLAPS proves those of the proved modules for every instance.

| Run | Question | Bounds, and why they are enough |
|---|---|---|
| `memory_tables` | Do the statements keep the promises of a memory's life, isolate keys, and never leave a stale vector or an orphan? How far can overlapping writers overrun the cap? | 2 keys, 2 contents, 3 writers, cap 1, 4 writes: an eviction can be pending while the other key writes, all writers overlap on a full key, one more sees the overrun, and a row can be evicted by a write older than the one that stored it |
| `memory_pipeline` | Is any pending row forgotten, through eviction, retries, a full queue, shutdown and restart? Does the store implement MemoryTable? | 2 writes, 1 edit, 1 restart, a queue of one with a worker and one spill, 2 attempts |
| `memory_liveness` | One row edited to another content and back while jobs for each run on two goroutines: does every pending row stop waiting? | 1 write, 2 edits, 1 restart, 2 attempts |
| `memory_search` | Does an answer show each memory as it was scored, ranked as the definition of the fused rank says? Is half an answer ever given, and does a search with a dead arm end? | 1 key, 1 writer, 3 writes, cap 2, contents found by meaning only, by both, by words only; Limit 2, and `OverFetch` 1 for the code's 4, so that both the arms' LIMIT and the final cut bite; edits and late vectors between the arms |
| `api_keys` | Is only what was minted served; does a restart end the access of a revoked key; is every refusal just; does a key keep its owner; how far can overlapping creations overrun the cap? | 2 users, 3 keys, 2 creators, cap 1, 1 scoped and 1 plain namespace, 1 restart. One request slot, used again and again: requests meet revocations, creations and restarts in every order, and each other through the caches |
| `dashboard` | Is what the page shows accounted for, is every spinner somebody's, is a secret shown once, is an outage told from a bad credential, and does all of it stay within the registry, each request within its own user's keys? | 2 users, 2 keys, 2 fetches, 1 other browser, 2 signing keys, cap 1, and two troubles (a session switched, an answer lost, a token expired, a key rotated, a restart): one fetch can overtake another, and the second trouble can meet what the first left |
| `docs_site` | Does any way through the site lead nowhere or chase redirects? Does the server take every call the pages show? | one reader and two surprises (a session changed elsewhere, a second click before the first page is there): the session can change in the middle of a redirect, and back. The pages are all of the site's, the calls all that they show |
| `event_log` | Does anybody read another's events; is an own event ever passed over; do events come in order? | 2 callers, 2 polls of either, peeks beside them, 2 records, an answer of at most 2; the partition changes hands at any point |
| `event_drain` | Does a caller that keeps polling get all its events? | 2 callers, 3 records, one message per poll: another's record can be in front, or between two own ones |
| `token_cache` | Is every token good on arrival; does a burst fetch one token; does every query get past the lock? | 3 queries, timeout 1, margin 2, lifetimes of 4 (announced or not) and 1, time up to 5: a token is fetched, expires while cached, and is replaced |
| `fanout` | Do the fan-outs implement the parallel map and keep the limit; does skills always return, and gsc once its caller has gone? | 4 items, 2 places: two goroutines wait while two call |
| `skills` | Does the conversation stay one the model accepts, are the sources the pages read, do the walk's limits cut nothing they need not, and does every call come back? | 3 round trips of at most 2 calls (the code has 8 round trips), 2 URLs; at most 3 files, depth 2, 2 items per listing: both limits are met, and met by directories of every kind of item |

Every bound is a CONSTANT. Writes, edits and restarts are bounded in their
guards (`MaxWrites`, `MaxEdits`, `MaxRestarts`), keys by `KeyIds`, troubles and
surprises by `MaxTroubles` and `MaxSurprises`, calls of a message by `MaxCalls`,
items of a listing by `MaxItems`, spilled goroutines by `Detached`: a hand-off
that finds the queue full and every detached goroutine busy waits in the model,
where the code would start one more goroutine. Records are bounded by
`MaxEvents` per partition, polls by `Polls`, time by `MaxTime`; at the bound of
time requests still end, so no query is cut off. `CHECK_DEADLOCK FALSE` is set
where these bounds, and not the code, make the system stop.

### Claims that do not hold

Statements of comments and pages that the models contradict, and what does hold
in their place.

| Claim | What happens |
|---|---|
| "The `RequireAPIKey` middleware guards the whole mux", "`GET /healthz` is the one exempt route", "no second mechanism" (`docs.tsx:1051-1053`, `1062-1067`; `README.md:109`) | `/api/keys` is mounted behind Clerk's `RequireUser` alone (`registry.go:158-160`): a session and no key gets in, and a key without a session does not. `DocumentedCallsAccepted` holds with that one exception (`TryWithoutKey`); the architecture page draws `/api/keys` as the code has it |
| "Only memory uses it to partition data — the other tools hold no per-caller state, so any valid key sees the same thing" (`docs.tsx:1091-1093`) | the event namespace stamps and filters by key and scopes its groups (`apikey.go`, `tools.go:146-181`), as `README.md:273-284` says. `OwnEventsOnly` holds |
| consume from "latest" starts at the end (`newReader`, `client.go:281-283`) | kafka-go uses `StartOffset` only together with a `GroupID`; EventLog leaves the start of such a peek open, and no property depends on it |
| "a reader never sees the key briefly holding maxMemoriesPerKey+1 rows" (`store.go:295-297`) | two overlapping writes miss each other's insert and both commit; the key stays above the cap until its next write. `CapPlusWriters` holds |
| a job that loses to an edit may be dropped, because the edit "enqueued its own job" (`store.go:191-198`) | an edit that took effect but returned an error enqueues none; the row waits for the next start. `PendingAccountedFor` holds |
| a revoked key's users "will immediately lose access" (`api-keys-manager.tsx:349-354`) | a resolver that has cached the key goes on serving it. `RestartEndsAccess` holds |
| "each task is handed out once and a restarted agent resumes where it left off" (`docs.tsx:773-775`) | a commit that took effect with an error, or an answer that reaches nobody, leaves records behind the cursor for good; and two overlapping polls of one caller return the same record. `NothingSkipped` and `HandedInOrder` hold |
| a user's key count cannot pass the cap, because "the count and the insert are one statement" (`keys.go:101-104`) | two such statements count in overlapping snapshots. `KeyCapPlusCreators` holds |
| the namespace's lookup "is a map hit" on the gate's cache (`middleware.go:70-73`) | it is another instance, with a cache of its own, and misses once per key |
| every request leaves a completion line (`middleware.go:33-35`) | one whose handler panics leaves none: Recover is outside LogRequests and the line is not deferred |

### Fairness

Seven runs use any.

`memory_liveness`: weak fairness of `HandOff`, of
`TakeJob` while the store is open, of each runner's next step and of the
backfill: these are runnable goroutines that the Go scheduler will run, and each
attempt ends because it has a deadline (`embedJobTimeout`). Nothing is assumed
of clients, of commits, of the embedder's success, or of the process staying up.
`RunStep` is fair as a whole, so the run covers an embedder that fails every
attempt: the row is then reported, which is one of the ends
`PendingResolved` accepts.

`memory_search`: weak fairness of `Cancelled` and of `WaitErr` only. A driver call
whose context is cancelled returns, and then `g.Wait` does. The database and the
embedding service owe no answer, so a search may hang while neither arm fails.

`event_drain`: a caller that keeps polling, and a broker that is reachable now
and then. Strong fairness of opening a poll of a group, of its rebalance, of
reading from a partition that has records and of committing: each may be
interrupted by failures again and again, but not for ever. Weak fairness of
ending a committed poll. Without the first the caller has stopped asking, and
without the others the broker is gone; the code then promises nothing.

`token_cache`: strong fairness of each query's turn at the lock, which
`sync.Mutex` gives in its starvation mode, and weak fairness of the end of a
token request, which the client's timeout forces.

`fanout`: weak fairness of the loop and of every goroutine, and of the end of a
call where something ends it (`Ends`). The clients of skills have timeouts (60,
90 and 120 s, below). The Search Console service has none
(`gsc/client.go:79,90`), and `inspect` has only the request's context: its calls
are fair only once that is over. So `Returns` promises an answer of skills always, and of
gsc after its caller has gone. A goroutine that waits for a place is not starved,
because every other goroutine needs a place only once.

`skills`: weak fairness of the server's next step in the call at hand. Each of its
requests ends by its client's timeout: 60 s for GitHub (`github.go:52`), 90 s for
the model (`openai.go:43`), 120 s for Firecrawl (`firecrawl.go:47`).

`docs_site`: weak fairness of answering the request under way (`Redirect`,
`Land`). The reader owes nothing.

The `dashboard` run has none: the page waits for its fetches without a timeout of
its own.

## 4. What is proved

For every set of keys, contents, callers, users, workers and requests, every cap,
queue size, limit and number of attempts. Assumptions are those named in the
modules that declare the constants (`TableAssumption`, `CallersAssumption`,
`StoreAssumption`, `SearchAssumption`, `KeysAssumption`, `ClerkAssumption`,
`DashboardAssumption`, and so on): numbers are natural numbers, what is counted
is finite, and the marks for "no value" are not values.

**Tables** (`MemoryTableProofs`). `TableInv` is inductive. Freshness of vectors
is inductive by itself. That evictions are just is not: a `Commit` acts on
victims chosen at an earlier `Scan`, so the invariant carries, for every open
transaction, that each victim is of its own key and that `Cap` newer ids of that
key exist, counted over ids ever stored (`owner`), which only grow, and not over
rows, which come and go (`VictimsOverrun`); and that ids of open transactions
are their own (`TxIdsFresh`). From it follow `VectorsAreFresh`,
`NoRowOutlivesItsKey`, `KeysAreIsolated`, and the refinement
`TablesImplementLifecycle`, step by step.

How far the cap is overrun (`CapOverrunBounded`) needs one thing more,
`RoomForWriters`. Writers that overlap miss each other's rows, and each commits
victims chosen in the past. But among any set S of writers of a key that have
chosen, one chose last, and it made room for the others: were it alone to commit
now, it would leave the key with at most Cap + |Callers| - |S| rows. That is
what survives each step: a scan leaves `Cap` rows and the other writers; a commit
makes S smaller and adds at most the one row that was allowed for.

**Store** (`MemoryProofs`). `StoreInv` adds that a job which has its vector
has that of its own content, that a request with a job in hand has no
transaction open, and `PendingAccountedFor`. The proof follows a row's job
through the places it can be (hand, queue, runner, backlog): every step either
keeps the row and moves its job from one place to the next, or changes the row
and leaves a job for the new content, or a report. Since every step of the store
is a step of the tables or leaves them alone (`StoreDrivesTable`), the theorems
about the tables hold of the store: `StoreVectorsAreFresh`, `StoreCapBounded`,
`StoreRowsHaveKeys`, `StoreKeysAreIsolated`, `StoreImplementsLifecycle`.

**Search** (`MemoryProofs`). A search only reads (`SearchesOnlyRead`), so the
tables' theorems hold beside it. That a vector arm's hit is scored by the
content it shows is `VectorsAreFresh` at the moment of its SELECT, and a hit in
hand no longer changes: `ArmsFindOneVersion`, for any interleaving.
`HalfAnswersNeverGiven`: an answer is drawn from two arms that both looked.

That the answer is in order (`AnswersBestFirst`) is the correctness of `fuse`'s
insertion sort, for lists of any length. The fused ranks are fractions; that "not
more" is transitive and that no two are more than each other is arithmetic with
cross products (`NotMoreTransitive`, `NotBoth`). `Settled` is one turn: the entry
stops behind the last one it does not beat, so what was in order stays so and
nothing is lost. `TurnsSort` is the induction over the turns: `Unfold` shows that
the recursive function in `Sorted` exists, and `SetInduction`, from the
well-foundedness of the numbers, stands in for the library's induction rule, which
would need a predicate as a parameter. Since the sort begins with a permutation of the map's
keys, whichever it is, and loses none, each memory appears once (`FuseOrders`), and the cut
at the limit leaves out only what comes later (`WaitAnswers`). Both copies of a
memory that a merge may choose between are sound, hence `AnswersShowOneVersion`.

**Both** (`MemoryProofs`). The runs check a search beside single statements of the
tables, which keeps them small. `BesideSpec` puts it beside the whole store, with its
queue, retries, backfill, crashes and closing. Since the store drives the tables by
their own statements and the search moves nothing, this is a behaviour of
`MemorySearch` (`SearchesBesideTheStore`), and what was shown of its answers holds
there too (`StoreAnswersSound`): no run need explore the product.

**Keys** (`ApiKeysProofs`). `KeyCapOverrunBounded`: a user's keys plus the
creations that have counted for the user never exceed the cap by more than the
other creations; inductive, by counting finite sets. `AccessInv` says that
whatever a cache holds or a lookup has found was minted and was not revoked
before the process started; `GuessesNeverServed`, `RestartRevokes` and
`RefusalsAreJust` follow. `KeysStayWithOwners` is an action property, by cases of
the steps that touch the table.

**Dashboard** (`DashboardProofs`). `SiteInv` joins what must be carried along.
Of the token check: no cached or fetched key was withdrawn before the process
started, and a request told "unauthorized" had an expired token
(`OutagesAreNotRefusals`, `RestartEndsTrust`). Of each fetch: which of the places
on its way it is at, with which token and which statement (`CallsSound`). Of the
page: a spinner turns for exactly the fetches it awaits, and nothing is revealed
while a creation is under way (`Spinning`); an answer with a key is the only one
with that key, and the key was never shown (`Secrets`); each list, on the page or
on its way to it, differs from the table by no more than `untold` (`Lists`). With
these `ListAlwaysAccounted`, `SpinnersAlwaysHonest`, `SecretsShownOnce`, and the
refinement `SiteImplementsRegistry` into ApiKeys. That a request acts for its
bearer only (`BearerStep`) takes from `CallsSound` that a request has begun no count
before its statement, and that one that inserts has.

**Events** (`EventLogProofs`). That cursors skip nothing is not inductive: a
commit acts on what a poll collected earlier, perhaps on partitions it no longer
has, at a cursor that has moved. The invariant says of every group poll that is
still fetching that each own record up to where it collected is in its batch or
was accounted for before (`PollCovers`), that cursors are sound and stay within
the log, and that batches are in order; since `handed`, `lost` and the batches of
committed polls only pass records on, this survives any overlap. From it:
`CallersAreIsolated`, `CursorsSkipNothing`, `EventsComeInOrder`, for any number
of callers, polls, partitions and records.

**Tokens** (`TokenCacheProofs`). The invariant bounds the age of what is in
flight: a token request and its token by the timeout, the cached token's expiry
by its issue plus a timeout plus the lifetime less the margin, a query's end by
its token's end. `MarginSuffices` is then arithmetic, from
`MarginCoversRequests`. It speaks of tokens that outlast two requests and live as
long as announced, or as long as the client assumes when nothing is announced;
of others nobody could promise it.

**Skills** (`SkillsProofs`). Of the conversation (`TranscriptAlwaysSound`): that
answers follow their completion in turn is not inductive without knowing where the
loop is. `TurnsDone` says that only the last completion can have calls without an
answer, and that `answered` counts those that have one; each new answer is then the
one of the next call, and a page fetched is the next of the pages, whose number is
the number of the sources.

Of the walk (`WalkAlwaysWithinLimits`): that nothing is cut needlessly is said only
of its end, by which the directories are gone from the stack. `Accounted` carries it
there: while the limit on files is not met, the files shown are those taken and the
files still ahead in the listings on the stack, and the directories still owed a
request are those ahead above the greatest depth. What is ahead is a set of places
(`Left`), and each step takes away one place or adds those of one listing
(`LeftPast`, `LeftListed` and their kin), counted as finite sets. Any listing of
any length is covered, and any limits.

**Fan-out** (`SkillsProofs`). The channel and the wait group are counters, and the
invariant says what they count: the goroutines that hold a place, and those that
have not left. `LimitKept`, `FailuresApart` and `FanoutImplementsMap` follow by
counting.

**Documentation site** (`DocsSiteProofs`). The content is data, and the first part
is about it alone: each documented tool fits the one registered at the same path,
required fields and admitted fields (`TablesFit`, from one lemma per namespace);
each route answers each credential as the diagrams draw it (`FlowsDrawn`); hence
every block of every page holds what it says (`BlocksHold`, `PagesSincere`), be the
page written out or built by `serverPage`. The second part is the reader.
`NoDeadEnds` is not inductive: what the browser has asked for must be there too, and
/doc, which is only ever a redirect, is let through until it is answered (`SiteInv`).
`SiteInvariant` and `NoWayLeadsNowhere` follow, for any number of surprises, which
TLC bounds by two. `DocumentedCallsAdmitted`: each answer is to a call that one of
these blocks, the landing page or the skill names, or to a route tried without a
registered key (`KeyGuards`).

Every invariant and every action property the runs check is stated by one of these
theorems. Only model-checked is liveness, which is out of the prover's reach:
`PendingResolved`, `Drained`, `GetsPastLock`, `Returns`, `FailureEndsSearch`,
`CallsEnd`, `VisitsLand`.

## 5. What is not modelled

General.

- Tags, metadata, labels, masks, time stamps other than the order of creation;
  wording, rendering and JSON.
- PostgreSQL itself, beyond READ COMMITTED snapshots, the foreign key and the
  rollback of dropped connections.
- Topic administration, static tokens and the pure queries of gsc and
  producthunt: one request each, no state of the server.
- The ordered shutdown of the listener: the store's part (`Close`, `Restart`) is
  in MemoryStore.
- Panic recovery and logging.

Memory. The embedder's cache answers as the service would and is left out; it
keeps every text for the life of the process. Tags restrict both arms alike.
`truncate` (`tools.go:260`) cuts at a byte, perhaps in the middle of a rune. A row
still pending is invisible to the vector arm, and the approximate index may miss
others, so "Nothing relevant is stored" can be said of a memory just written:
`NoHalfAnswer` is about arms that failed, not about what they may overlook.
Each arm fetches four times the limit, so a row far down both lists can
be missing though its fused rank over full lists would be higher: `BestFirst` is
about what the arms found.

Keys and dashboard. The page's toasts and the clipboard are left out: a copy that
the browser refuses is not caught (`api-keys-manager.tsx:66-85`), a refusal with a
plain-text body (the 401 and 503 of `RequireUser`) makes `res.json()` throw and is
told as "Network error", and so is an answer lost on the way, though the key may
exist. Leaving the page (Back, the search palette) while a creation runs or a
secret is shown loses the secret for good; `SecretShownOnce` is what is promised.
A session switched in another tab lets the page create under the new user and
list the result among the old user's keys, which `ListAccounted` allows for.
Next's client cache, which may show an old page on Back, is not modelled.

Events. The balancer's round-robin counter lives for one record
(`client.go:217`); the models leave the partition open.

Product Hunt. A token that the endpoint rejects with 401 or 403 stays cached
until it expires (`client.go:232`); TokenCache's endpoint accepts what it issued
until it expires.

Skills. The last round trip's tool calls are carried out though no completion
follows, and a search that fails drops its sources: both are in the model and no
property forbids them. The number of listing requests is bounded only by breadth
and depth, not by the limit on files. Calls refused before anything is sent are
left out, and so is `parseSkillRef`.

Search Console. An inspection that never answers holds its handler for as long as
the caller stays; the model shows it, and `Returns` does not forbid it.

Documentation site. The session is one flag, the same for `proxy.ts` and for the
pages: readers of Clerk's cookies that disagree for good are not covered, and
`VisitsLand` is about a session that changes between two of them. The highlight of
the table of contents, which compares with the items of the page shown
(`toc.tsx:36-42`), is left out. Styling, the theme's choice, copy ticks and what the clipboard
holds; the browser's Back; the moment before hydration, when the install command
has no host; an outage of the key lookup, which answers 503 where the diagram
draws only 401. Tools the server serves and no page describes (`skills_ping`, and
several parameters of gsc and producthunt) are not wrong in the sense of
`DocumentedCallsAccepted`; nor is `skills_find`, which a server without
`OPENAI_API_KEY` does not have. The mobile menu stays open after a link in it
is followed, and Ctrl+K opens the palette above a menu: both are in the model.

Component library. Dialog, alert dialog, sheet, menu and command palette are in
Dashboard and DocsSite as their pages use them. The rest of `components/ui` is
generated shadcn/ui code that no page uses, or presentation.

## 6. Plan

Done: `MemoryTable` and `MemoryLifecycle`, `MemoryStore`, `ApiKeys`, `EventLog`,
`TokenCache`, `Fanout` and `ParallelMap`, `MemorySearch`, `ClerkAuth` and
`Dashboard`, `DocsContent`, `ToolSchemas`, `Gateway` and `DocsSite`, `SkillFinder`,
`SkillWalk` and `Skills`, with their runs, and the proofs of section 4.

Left, in this order:

1. `Server`: main and Handler composed with MemoryStore, for the ten seconds in
   which requests go on while the store is closed. `Close` may already come at
   any point of a request, so its effects on memories are covered; what is left
   is the order of the listener's and the store's ends.
2. Topic administration beside EventLog: a topic deleted under a poll.
