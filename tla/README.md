# A TLA+ verification of Cortadel's client side

This directory holds TLA+ models of the code in this repository, the TLC runs
that check them on small instances, and proofs, checked by TLAPS, that the main
properties hold for every value of the constants.

The repository is the *client side* of Cortadel, a memory server for agents:
three SDKs, twelve integrations into agent frameworks, and an editor plugin. The
server is not here. What can go wrong in this code is nearly always the same
thing. An integration remembers, in bounded tables in the memory of its process,
what it has sent or shown, for whom and when; it updates those tables before or
after an `await`; and meanwhile other calls run, the request fails after the
server has acted on it, the caller cancels, or a table is full and forgets. The
models are about those tables.

## The system

| Part | State it keeps | Operations | What is hard |
|---|---|---|---|
| Google ADK memory service (`integrations/google-adk/cortadel_google_adk/memory_service.py`) | an LRU ledger, per (user, session), of fingerprints of ingested events | `_ingest`, `_claim_new_events`, `_release_events` | claims are made before the write is awaited; failures, cancellations and evictions fall in between |
| ADK client pool (`_clients.py`) | an LRU map of one client per user, a closed flag | `get`, `aclose` | closing a client awaits the network outside the lock; others use the client, or close the pool, meanwhile |
| OpenAI Agents session (`integrations/openai-agents/src/session.ts`) | a buffer of messages, a set of background writes; a one-entry recall cache | `addItems`, `popItem`, `clearSession`, `flush`, `close`; `filterModelInput`, `recall` | operations interleave at the awaits of the transcript and of the writes; the buffer is taken before a write is awaited; the cache is filled after an await |
| Mastra processor (`integrations/mastra/src/processor.ts`) | a latch per thread for the last written turn; a ledger of injected ids; a client pool | `processOutputResult`; `processInput` | writes of one thread overlap, fail late, and find their latch replaced or dropped |
| LangGraph (`integrations/langgraph/src`) | key aliases, namespaces; a persist cursor and a block cache per thread | `put`, `get`, `delete`, `search`, `listNamespaces`, `batch`; `recallNode`, `rememberNode` | late answers to puts and deletes; the cursor moves at dispatch; tool loops and runs that die |
| Claude Agent SDK (`integrations/claude-agent-sdk/src`) | pending writes, remembered prompts, an LRU of LRUs of injected ids | `onUserPromptSubmit`, `onStop`, `flush` | the transcript is read back while it grows; flush against new writes |
| Vercel AI SDK (`integrations/vercel-ai-sdk/src`) | a recall cache with a time limit, a bounded set of persisted turns | `transformParams`, `wrapGenerate`, `wrapStream` | late failures against claims evicted and made again |
| Deep Agents (`integrations/deepagents/src`) | three keys of the thread's checkpointed state | `beforeAgent`, `wrapModelCall`, `afterAgent` | runs die between a write and the checkpoint; threads are summarised |
| n8n (`integrations/n8n-nodes-cortadel`) | halves of a turn, fingerprints, a recall cache; the rows of a walk | `saveContext`, `chatHistory`, `loadMemoryVariables`, `clear`; `execute` | a turn comes whole, in halves or both ways; pages shift while they are walked |
| OpenClaw (`integrations/openclaw/src`) | circuit breaker, recall ledger, clients per user | `call`, the hooks, the tools, the corpus | answers of old calls after the breaker changed state; resets during a recall; one identity out of several contexts |
| Pydantic AI (`integrations/pydantic-ai/cortadel_pydantic_ai/_backend.py`) | pending background writes, clients per user | `spawn`, `drain`, `aclose`, `client_for` | writes spawned while draining; cancellation |
| Microsoft Agent Framework (`integrations/microsoft-agent-framework/.../CortadelContextProvider.cs`) | pending writes under a lock, remembered ids in the session's state bag | `StoreAIContextAsync`, `DisposeAsync`, `ProvideAIContextAsync` | real threads; disposal against late writes |
| CrewAI (`integrations/crewai/cortadel_crewai/memory.py`) | a ring of returned ids | `recall` | threads without a lock |
| TypeScript SDK (`sdk/typescript/src/client.ts`) | none between calls | one request per call, error translation | signals shared by calls, timeouts, bodies that do not parse |
| Python SDK (`sdk/python/cortadel`) | the blocking client: an event loop on a thread, a closed flag | the seven calls, `close` | threads that call while others close |
| Editor plugin (`cortadel-plugin/scripts`) | a log file shared by short-lived processes; options on disk and in the environment | the hooks, `doctor`, `reconcile` | log rotation races; a transcript that grows while it is read |
| .NET SDK, generated clients, packaging, website, docs | none | none | none |

The parts meet in two places only: every integration calls an SDK client, which
calls the server; and the framework calls the integration, on one event loop
(JavaScript, asyncio), on several threads (.NET, CrewAI), or in processes of its
own (the plugin). The integrations do not call each other. That is why each
model is of one part, composed with an environment that is the framework (which
operations it calls, and when) and the server (a request may be stored or not,
and the answer may be lost or not).

What makes each part correct, and where it stands:

- *ADK ingestion*: no event is skipped that was not confirmed; nothing is sent
  again without a reason. Checked, proved.
- *ADK pool*: no closed client is handed out, no client leaks, a client is closed
  under a call only under pressure, a closed pool drains. Checked; safety proved.
- *OpenAI session*: each message is sent at most once and dropped only for a
  reason; flush waits for what is owed; the buffer is the transcript's tail.
  Checked; safety and the refinement of `Delivery` proved. Recall: memories are
  those of the question asked, and of a search since the conversation advanced.
  Checked, proved.
- *Mastra*: no turn is swallowed by a latch; a turn is written again only after a
  reported failure or a displaced latch. Recall and user as below. Checked, proved.
- *LangGraph*: what was put is what is found, deletes hit their own memory, pages
  are exact; each message is submitted at most once and none is skipped; one
  search per turn. Checked, proved.
- *OpenClaw gateway*, *Vercel writes*: calls to a failing server are contained; an
  exchange is written once and not swallowed. Checked, proved.
- *The others*: checked and proved, as parts of `integrations`.

## The modules

### Parts with runs of their own

- `Lru` is the bounded least-recently-used order (a Python `OrderedDict` with
  `move_to_end` and `popitem(last=False)`, a JavaScript `Map` with delete and
  set) as operators on sequences: `Touch`, `Without`, `Newest`, `Oldest`.
  `LruProofs` proves what they keep. Every ledger below is built from it.
- `AdkIngest`: `tracked` and `seen` are the keys and values of `_ingested`;
  `phase`, `key`, `fresh` are the local variables of each call of `_ingest`. One
  action is the code between two waits: `Ingest` runs from the call to the
  request, `WriteConfirmed`, `WriteFailed` and `WriteRaised` from the reply to the
  return. `ServerStores` is the server. `acked`, `unsure` and `evicted` are history.
  Building messages from events is abstracted to which events have text.
- `AdkClientPool`: `order` and `clientOf` are `_clients`. `GetPooled`, `GetBuilds`
  and `Aclose` each do what their lock protects, and begin the first close;
  `CloseEnds` and `Cancelled` go on from there; `CallEnds` is the end of the call
  that fetched the client. `askedSince` and `abandoned` are history. `Clients` is a
  set of places: a place is used again once its client is closed and nobody
  holds it, so the number of clients built over time is not bounded.
- `OpenAISession` is the storage half of `CortadelSession`: an operation is split
  at its awaits (`AddItems`/`AddItemsBuffers`, `PopItem`/`PopItemDrops`,
  `ClearSession`/`ClearSessionBuffer`, `Flush`/`FlushWrites`/`FlushReturns`), a write
  ends in `WriteSucceeds` or `WriteFails`. The transcript is the external `Session`
  that `CortadelSession` wraps.
- `Delivery` is the abstract specification: what an integration that never
  retries promises about each message. `OpenAISession` implements it under the
  refinement mapping `Fate`.
- `MastraPersist` is `processOutputResult`: `latch` and `order` are
  `#lastPersisted`; `Join`, `Persist` are the two ways through the method,
  `WriteSucceeds` and `WriteFails` the handlers chained to the write. Latches are
  compared by identity in the code; here a latch is identified by the slot of the
  write it was made for, which is in use as long as that comparison can happen.
- `LangGraphStore` is the alias table of `CortadelStore` and its batches: a `put`,
  `get` or `delete` resolves its key in `Execute`, waits, and changes the table in
  `PutReturns` or `DeleteReturns`; several batches are under way at a time. A put is
  answered with the id of a new memory, or of any the server has, since its dedup may
  skip or supersede, so that several slots can share a memory; or with no id
  (`PutReturnsNoId`), and then the slot keeps the entry it had. `putFor` is history:
  the slots whose puts stored a memory or were answered with it.
- `LangGraphQueries` is what the store computes: a page cut from a
  search whose filter the server enforces only in part, or nothing when the request
  fails, and a page of the namespaces. A page is not compared with another way of
  computing it but judged by position: as many rows that pass come before a row as
  its place on the page says, a short page is the last one where it has to be, and a
  listing has the namespaces whose place in the order is on the page.
- `LangGraphMemory` is the two nodes: `cursor` and `cached` are the bounded tables
  of `CortadelMemory`. A graph goes from recall to the model to remember, loops
  when the model calls a tool, and may die at any node.
- `MCLangGraph` puts the three side by side: a behaviour is one of them, chosen by
  `part`.

### Parts of `MCIntegrations`

`MCIntegrations` has an instance of each of the following. A behaviour is one of
the 23 parts, chosen by `part`; the variables of the others are `None`. The parts
do not interact in the code either, so nothing is lost by that, and one run
states a promise, say `ShownOnce`, for all parts that make it.

Recall:

- `ClaudeRecall`, `OpenClawRecall`, `MastraRecall`, `FrameworkRecall`, `CrewRecall`:
  the ledgers of what a conversation was shown. Five answers to one problem: an
  LRU of LRUs written in the step that reads it; the same, with resets of a
  conversation in between; per thread; a list in the session's state, read
  (`RememberReads`) and set (`RememberSets`) without a lock some steps after hits were
  compared with it, so that two writers of one session may lose each other's ids; and
  a ring without a lock. The last two can show a memory twice in a race, and their
  `ShownOnce` says exactly when.
- `VercelRecall`, `OpenAIRecall`: the caches that make a tool loop search once.

Writing:

- `ClaudeCapture`: the transcript as two readers see it, the pairing of prompts
  and answers, and `flush` against writes that start others. The reader that asks the
  SDK takes every entry for a person's (`HumanTo`); the one that reads the file does
  not. `ReaderOf` is the fallback from one to the other and to the hook's own input.
- `VercelPersist`: `Claim`, `Unclaim` on the bounded `persistedTurns`. A write
  that is reported as failed may have been stored (`LosesAnswer`).
- `DeepAgents`: the checkpointed keys; a node's update is kept only when the node
  returns (`RunDies`), so a detached write is dispatched in one step
  (`AfterDispatches`) and counted in another (`AfterReturns`).
- `N8nMemory`: halves, fingerprints, and the recall cache of `CortadelChatMemory`,
  whose key is the query in small letters (`LowerCase`).
- `PluginStop`: which exchange the Stop hook takes from a growing transcript.
- `PydanticBackend`, `FrameworkStore`: background writes against `aclose` and
  `DisposeAsync`. The first runs on one loop, so that the end of a drain and the
  taking of the clients are one step; in the second, a step is what one lock
  protects.

Whose memories:

- `OpenClawScope`: the id that hooks, tools and corpus derive from one turn.
- `RunIdentity`: the user of a run in Vercel, Deep Agents, Mastra and LangGraph. The
  tools of Mastra look at the agent's own resource before the request's
  (`MastraToolScope`), the processor at the request's and then the messages'.
- `PluginConfig`: the options a hook and a skill's script find.

Calls:

- `MemoryTools`: `search_memory` and `add_memories` of ten hosts, with requests
  that fail after the server stored the fact.
- `SdkCalls`: one call of the TypeScript client, from `invoke` to its outcome.
- `SyncClient`: the blocking Python client. The loop is `running`, `stopping` (it
  finishes what is ready), `stopped` or `closed`.
- `OpenClawGateway`: the breaker under overlapping calls.
- `N8nNode`: the items of one execution and the walk over a list that others change,
  up to the guard of 1000 pages (`MaxPages`), which ends it with rows left.
- `PluginHooks`: processes that rotate one log file.

An operator named `X_Y`, with `X` an operator of the same module, is `X` with a
plausible mistake `Y`. No specification uses it. Substituted for `X`, it makes TLC
find a counterexample to the property named in `PROJECT.json`.

## The runs

| Run | Checks | Instance | States |
|---|---|---|---|
| `adk_ingest` | `TypeOK`, `NoSilentLoss`, `StoredOnce` | 2 sessions, 3 events (one without text), 2 calls, a ledger of 1 | 874 000 |
| `adk_recovery` | `EveryEventConfirmed` | 2 sessions, 2 events (one without text), 2 calls, a ledger of 1 | 25 000 |
| `adk_eviction` | `ConcurrentCallsShipApart`, violated | 2 sessions, 1 event, 2 calls, a ledger of 1 | stops at the counterexample |
| `adk_pool` | `TypeOK`, `PooledOpen`, `NoLeak`, `ClosedUnderPressure`, `ClosedPoolDrains` | 3 users, 2 places in the pool, 2 calls, 4 clients at a time | 63 000 |
| `openai_session` | `TypeOK`, `PendingIsTail`, `DeliversOnce`, `FlushAloneLands`, `AssistantSettles` | 3 messages, one of them the assistant's, 2 operations, 2 writes, both values of `awaitPersist` | 213 000 |
| `openai_flush` | `FlushLands`, violated | the same | stops at the counterexample |
| `mastra_persist` | `TypeOK`, `NothingSwallowed`, `JoinsOwnTurn`, `WrittenOnce` | 2 threads, 2 turns, 2 waiting calls, 3 writes, 1 tracked thread, both values of `awaitPersist` | 119 000 |
| `mastra_in_air` | `InAirOnce`, violated | 1 thread, 2 turns, 3 calls, 3 writes | stops at the counterexample |
| `langgraph` | `TypeOK`, `RoundTrip`, `DeletesOwn`, `PagesExact`, `SubmittedOnce`, `NothingSkipped`, `OneSearchPerTurn`, `BlockMatchesTurn` | store: 2 namespaces, 1 key, 2 ids, 2 batches, 1 alias, puts of at most 2 slots; queries: up to 3 rows, 2 labels; nodes: 2 threads of 4 and 2 messages, 1 tracked | 663 000 |
| `integrations` | `TypeOK` and the 13 properties below | one small instance per part | 1 131 000 |
| `sdk_null` | `NullMeansMissing`, violated | 2 calls that may share a signal | stops at the counterexample |
| `sync_hangs` | `NoCallHangs`, violated | 2 threads that call, 2 that close | stops at the counterexample |

The properties of `integrations`, each the conjunction of what the modules state:

| Property | Of the parts | It says |
|---|---|---|
| `ShownOnce` | the five ledgers | a memory comes back only when a bound pushed it out, or after a race that the module names |
| `HiddenOnlyIfShown` | the five ledgers | nothing is suppressed that was not shown |
| `CapturesFinishedTurn` | `ClaudeCapture` | the exchange handed over is that of the turn that ended, in the words of a person unless the SDK's reader served |
| `MemoriesAreOwn` | the caches, `DeepAgents`, `N8nMemory`, the three about users | what is recalled is of the own user, session and question, and the ways into a run reach one user |
| `WrittenOnce` | `VercelPersist`, `DeepAgents`, `N8nMemory` | no turn twice, under retries and late failures, but once more for an answer that was lost |
| `NothingSwallowed` | `VercelPersist`, `DeepAgents` | a failed write is not taken for a done one |
| `PairsMatch` | `N8nMemory`, `PluginStop` | a prompt is stored with its own answer |
| `Contained` | `OpenClawGateway`, `PluginHooks`, `SyncClient` | calls to a failing server, the log and the loop of a closed client stay bounded |
| `ReportedIsStored` | `MemoryTools` | the model is not told that more is stored than is |
| `OwnStatus` | `SdkCalls` | an outcome is that of the call's own response |
| `WalkMissesNothing` | `N8nNode` | a walk over the pages misses nothing before the guard's last page and repeats nothing, up to what others delete or add |
| `FlushDrains` | `ClaudeCapture`, `PydanticBackend`, `FrameworkStore` | who waits for the writes behind the runs, alone, waits for all of them |
| `StepsReuse` | `VercelRecall`, `OpenAIRecall` | a tool loop searches once, and gets nothing stale |

Why the bounds are enough to be interesting. A ledger of one place and two
sessions already evicts a session under a write in flight and brings it back
before the write fails; the pool of two places and three users evicts under two
calls and can be closed in the middle; four places for clients are one more than
can be pooled and held at once, so `GetBuilds` is never stopped by the model
alone in the cases the properties are about. Three writes let a latch be
replaced twice while the first write is out. Three messages with one of the
assistant in the middle give a batch before, with and after the reply. In
`langgraph`, one alias and two namespaces evict an entry under a put that is still
out, and four messages are two turns, of which the first may be trimmed past the
cursor before the second, or one turn after runs that died; two threads with one place
in the tables drop each other's cursor and block in between. In `integrations`, the tables of the ledgers hold one or two entries, so
that two hits evict; `MaxLog` (3 to 5 injections, by part) leaves room for a memory
to be shown, pushed out and shown again; the set of persisted turns holds two of
three exchanges; the breaker opens at two failures with three callers; two writes,
two closers and a client replaced once (`MaxBuilt`) let a write be spawned during
a drain and between two calls of `aclose`; a guard of two pages of two rows and lists of
up to six rows let a walk end at the last page or at the guard with rows left, and two
changes shift the pages; two spellings of one query and another query fill the cache
of n8n with entries that share a key and one that does not. The messages, threads, events and
calls do not differ in anything the code compares, which is what the symmetry
sets of the ADK, OpenAI and Mastra runs rely on, and so are the memories and the
batches of `langgraph`; there `FewPutSlots` bounds the puts of a behaviour to two slots,
whichever they are, which with two ids is enough for one memory to be two slots' and for one slot to have
had two memories; the runs that check liveness use none, and neither does
`integrations`.
The proofs below remove the bounds that are constants from all safety properties.
What a module fixes by itself stays in its theorems (in `LangGraphQueries`, the
filters of at most two keys, the rows that fail at most one, and the registry of
paths of at most two labels), but the lemmas on a search and on a listing
(`SearchStaysExact`, `ListStaysExact`) do not use it: they are about any rows and
any finite registry.

Deadlock is not checked: each of these components is a library that may have
nothing left to do, once all messages are given or while nobody calls. Where
waiting for ever is the question, it is stated as a property (`NoCallHangs`).

### What the violated ones show

- `adk_eviction`: the docstring of `_claim_new_events` says that claiming under the
  lock keeps two concurrent invocations on a session from shipping the same turn
  twice. It does so only as long as the ledger does not drop the session while
  the first write is out. What does hold without that proviso is `NoSilentLoss`,
  and with it `StoredOnce`.
- `openai_flush`: `drainBackgroundPersists` empties `persistTasks` before it awaits
  them, so a second `flush` finds nothing and returns while writes are out. The
  comment on `flush` calls an awaited flush "a hard synchronisation point". What
  holds is `FlushAloneLands`.
- `mastra_in_air`: there is one latch per thread, so with another turn in between
  the same turn has two writes in the air, against the comment on the latch. What
  holds is `WrittenOnce`.
- `sdk_null`: a cancelled `fetch` rejects with the reason of its signal, one object
  for all calls that were given the signal, and `attachFallbackStatus` keeps the
  first status written to it. A `get` that was cancelled before any response can
  so be taken for a 404 that another call received, and answers `null`. What holds
  is `OwnStatus` for every error and every value.
- `sync_hangs`: `close` of the blocking client stops the loop once the HTTP client
  is closed. A call of another thread that is still on the loop, or that passed
  the check of `_closed` and is submitted after, is never run, and its thread waits
  on `result()` without a timeout. The module says that a method blocks "until the
  coroutine finishes". What holds is `NothingOutlives` (in `Contained`): whoever
  closes, and however often, the loop and the thread end.

### Other disagreements met while modelling

They have no run; the property named is the one that holds with the exception.

- Vercel (`README.md:70-71`): "a retry cannot write the same exchange twice" - it can
  when the write was stored and its answer lost, because the handler of the failure
  frees the claim whatever the failure was (`middleware.ts:356-361`; `WrittenOnce`,
  `lost`).
- Claude Agent SDK (`transcript.ts:97-98`): the SDK's "filtering already guarantees" that
  all its entries count as a person's. A task notification has an `origin.kind` and no
  `isMeta` (`stop-capture.test.mjs:302-321`), and with this reader is stored as what the
  user said (`CapturesFinishedTurn`, `by`).
- Mastra (`tools.ts:117-123`, `processor.ts:324-331`): with an agent whose resource is not
  that of the request context, or without one of the newest message, tools and processor
  are of two users (`MemoriesAreOwn`, `apart`).
- n8n (`Cortadel.node.ts:240`): "Walks every page" - up to a thousand, after which the walk
  ends like any other (248; `WalkMissesNothing`, `MaxPages`).
- OpenClaw (`gateway.ts:53`): "then allow one probe" - after the cooldown every call
  passes until `maxFailures` have failed again (`Contained`).
- Deep Agents (`middleware.ts:69`): after a failed search the memories of an earlier
  turn are still there and are given to the model (`MemoriesAreOwn`, `missed`).
- LangGraph (`store.ts:441`): without a query a `sessionId` filter has no effect.
  (`store.ts:37-40`): "put(); get() round-trips" does not hold of a put whose answer has
  no id (493): a key bound before gets the older memory. Nor of one whose answer is the
  key itself (678): the entry of the key stays and names what it named before. And since
  dedup may answer two puts with one memory, `delete` of one key removes what the other
  gets. `RoundTrip` and `DeletesOwn` say what holds with these.
  (`tools.ts:227`): "Stored N memories" after failures a store that does not throw
  has hidden (`ReportedIsStored`, `Hidden`).
- OpenClaw (`index.ts:103`): a recall under way during a reset marks its memories as
  shown in the new conversation. `ShownOnce` and `HiddenOnlyIfShown` go by the
  conversation the marks are in.
- Plugin (`plugin-config.mjs:77`): with an option given both ways, the doctor looks
  elsewhere than the hooks (`MemoriesAreOwn`, `Unambiguous`). (`doctor.mjs:129`): one
  failed check does not fail the script. (`stop-capture.mjs:123`): after a prompt
  without text, the reply is stored with an older prompt (`PairsMatch`).
- n8n (`shared/memory.ts:379`): after a turn with two empty halves, a turn that
  comes in halves and whole is stored twice, as a pair and as its first half;
  `WrittenOnce` is about identical pairs.
- Pydantic AI (`_backend.py:226`): a second `aclose` during the first closes clients
  under the writes the first one waits for (`AcloseDrains`, `overlapped`).
- Microsoft Agent Framework (`CortadelContextProvider.cs:228`): a timeout of the
  HTTP client is an `OperationCanceledException` in .NET and is rethrown as if the
  caller had cancelled, so a slow server fails the turn (`ReportedIsStored`,
  `Cancelled`).

## Fairness

- `AdkClientPool!Fairness`: a close that has begun ends, because the transport
  closes it or fails, or the waiting task is cancelled.
- `OpenAISession!Fairness`: the event loop resumes an operation that can go on, and
  every request ends, because the SDK's client has a timeout. Nothing is assumed
  about which way it ends, or about new operations.
- `AdkIngest!RecoverySpec`: every call ends, because the client's requests time
  out. `Recovers(k)` is about the environment and not about the code, and is the
  hypothesis of `EveryEventConfirmed` for that reason: ADK ingests session `k`
  again and again, and the server does not reject its writes for ever. It is
  strong fairness because a session's writes and failures alternate. Nothing is
  assumed about the other sessions, so that an eviction by them cannot be what
  brings a lost event back.

The side-by-side runs check no liveness and assume no fairness.

## The proofs

The theorems are of the form `Spec => []Inv`, or `Spec => [][A]_vars` for what a
step may not do, for every value of the constants that meets the modules'
assumptions: capacities are positive, and the values that stand for "none" are not
members of the sets they complete.

**`LruProofs`.** `Touch` keeps an order an order and adds the entry it touches
at the recent end (`TouchKeepsOrder`, `TouchMembers`), leaves the others in their
relative order (`TouchKeepsRelativeOrder`), and followed by `Newest` it stays
within the capacity and keeps that entry (`UseKeepsOrder`). `WithoutFacts` is the
same for deleting.

**`AdkIngestProofs`.** `NeverLosesSilently` (`NoSilentLoss`) is inductive with
`TypeOK`: a claim adds only marks its own call carries, an eviction only removes
marks, and a failing write removes every mark it was carrying. `StoresOnce` needs
more: that every call in flight on a session never evicted still owns its marks,
apart from those of other calls, and that confirmed events keep theirs
(`ClaimsOwned`). `ForgetsWhole` says that eviction leaves nothing behind.

**`AdkClientPoolProofs`.** `PoolHandsOutOpenClients` and `PoolDoesNotLeak` follow
from `Hands`: every client that is not closed is pooled for one user only, or in
one task's hands once, or given up, and what is pooled is open.
`PoolClosesUnderPressureOnly` follows from `Aging`, the argument one would give on
paper for an LRU pool: as long as the client a call holds is pooled, every user
more recent than the call's own was asked for since; so when its user becomes
the oldest of a full pool and a new user comes, that is `MaxClients` users
(`FullPoolPressure`); and from then on the number only grows (`PressureGrows`).

**`MastraPersistProofs`.** `NeverSwallows` is inductive with `TypeOK`, and
`JoinersWaitForTheirTurn` with it. `WritesOnce` follows from two facts that are
inductive together: a write in flight has the latch of its thread or that latch
was displaced (`OwnedOrDisplaced`), and a written turn is held by a permanent
latch or that latch was displaced (`WrittenIsHeld`). The identity check in the
failure handler is what the proof of both turns on.

**`OpenAISessionProofs`.** Three arguments, each on top of `TypeCorrect`.
`ImplementsDelivery` is the refinement: a message is at hand of an operation, in
the buffer, in one batch in flight, or settled, and in one of these only
(`OnePlace`); no buffer or batch repeats one (`NoRepeats`); messages are given in
order (`InOrder`). With that, where a message is determines its `Fate`
(`FateFacts`), and every step takes it along an arrow of `Delivery` (`Moves`) or
leaves it. `FlushesLand` follows from two facts about a flush that nothing
overlaps: every write in flight is a known background task or waited for by a
flush (`WritesKnown`), and what such a flush owes is settled, in the buffer it has
yet to write, or in a write it waits for (`AloneKnows`).
`BufferIsTail` needs to say what holds in the middle of an operation on the
transcript: the buffer with the items being added, or up to the item being
popped, is the transcript's tail (`TailInv`). Its lemmas are about tails of sequences under append, `Front` and
concatenation.

**`LangGraphProofs`.** The run's module composes three parts and a behaviour is of
one of them, so each theorem comes from an invariant per part. For the store,
`RoundTrip` alone does not say that the ids in the table are the right ones:
`AliasesOwn` adds that each was the answer to a put of its slot, which is what a delete
that resolves its key relies on, and `TargetsOwn` that this stays true of a request
that is out although the table changes under it, because the slots an id was stored
for or answered to only become more. For the nodes, one invariant per thread (`ThreadInv`):
ids grow along the transcript (`Grows`), a run is about the last message of the user,
which neither the cursor nor the cache has met (`TurnOpen`), all that was sent is up
to the cursor unless the bound dropped it (`SentUpTo`), what is up to the cursor and
still shown was sent (`Kept`), and what was searched for is covered by the cache
(`CacheCovers`). `SubmitsOnce`, `SkipsNothing`, `SearchesOncePerTurn` and
`BlocksMatch` follow.

For the queries, the state says little (`QueriesInv`: the registry is finite, and the
last answer is exact); the work is in what the answer was computed with. Sorting is a
`CHOOSE` among the sequences in order, so first there has to be one: a finite set that
an order sorts has one (`CanBeSorted`), because a least size without one would be one
more than a size with one (`SortedGrows`). The place of an entry in it is then the
number of members before it (`SortedFacts`), from a bijection. `BeforeSorts` says that
`compareNamespaces` is such an order: two paths differ at a first place, where one
ends or has the smaller label (`Parts`). Slicing and filtering are followed through
positions (`SliceFacts`, `KeptFacts`): the kept rows before one are in bijection with
the rows that pass before it, whatever the server cut off after them, which is what
makes filtering first and slicing second right (`PageFacts`). `PagesAreExact` follows.

**`IntegrationsMemoryProofs` and `IntegrationsCallProofs`.** `MCIntegrations` runs
its parts side by side, one per behaviour, so the proofs are one inductive invariant
per part (`<Part>Inv`, with `<Part>Starts` and `<Part>Keeps`), two lemmas that say a
behaviour of the whole that is this part's is one of the part (`<Part>Begins`,
`<Part>Goes`), and theorems that put the parts together. The second module extends the
first because `TypesHold`, the type invariant of the run, is of all the parts. What each invariant adds to
the properties it proves:

| Part | Beside the property |
|---|---|
| `VercelPersist` | an exchange that is not claimed, and that the bound never dropped, has no write in flight and none that landed but those whose answers were lost: what the late failure, which removes a claim, has to establish |
| `DeepAgents` | messages carry their places until the thread is summarised, what the user said last stays what it was while the model speaks, and what has landed is behind the count unless a write's end is unknown |
| `N8nMemory` | a pair counts as written exactly while its fingerprint is kept, and what waits for its other half can only meet the half of its own turn |
| `PluginStop` | a turn opens with what the human asks, and nothing the human asks follows in it |
| `VercelRecall` | no more entries of the cache follow one than searches came back since it was brought in, and a key says all of its request |
| `ClaudeRecall`, `OpenClawRecall`, `MastraRecall` | what was shown and is no longer in a table was pushed out: `Ledger`, below |
| `FrameworkRecall` | each session's ids, and those an invocation read to add to, are on the session's trail; and what a recall that nothing raced is about to inject is not among them, and it read them as they are (`Apart`) |
| `CrewRecall` | the ring is the end of what was returned (`Last`), and what a search matched alone is not in it (`Apart`) |
| `OpenAIRecall` | what the cache has was put there since the conversation last advanced, or was in flight then |
| `OpenClawScope`, `RunIdentity`, `PluginConfig` | what was used is what the definition of that way says |
| `N8nNode` | what was there is collected or ahead, what is collected is not ahead, and a page ends where the next begins, also at the guard's |
| `ClaudeCapture` | the turn a session is in begins with its prompt, which only machines follow until the answer ends it (`Told`), and an exchange is of a turn that is over, so that what it is about no longer changes (`Past`) |
| `PydanticBackend` | a spawned write that has not ended is pending or an `aclose` waits for it (`Held`), no two acloses take the same client (`Taken`), and one that is alone has taken none that a spawned write has (`Apart`) |
| `FrameworkStore` | a write that goes on behind its turn is pending or a disposal waits for it |
| `MemoryTools` | what the server acknowledged, it has |
| `SdkCalls` | types of the responses, and that a body of a health check belongs to a call of `health` |
| `OpenClawGateway` | while the breaker is closed each call begun since the last success is a counted failure or still out |
| `PluginHooks` | each line that is still to come is accounted for: of those that will append, and, once there is an older generation, of those whose rename may fail |
| `SyncClient` | whoever is past a stage of `close` has brought the loop that far, and once the client is closed somebody is still closing it or the loop is closed |

The ledgers have one argument, stated once over a record of what was shown to whom
(`Ledger`) and cited for the three parts that are LRUs of LRUs. `ShownOnce` says
how often others were shown between two showings of one memory; no state of the
tables says that, so the invariant has to say it of what is *not* in them. It has
four parts: the tables are orders and a conversation is tracked exactly while it has
hits (`Held`); whatever is more recent in an order than an entry was shown after the
entry was shown last (`Followed`), which makes a full order a witness of that many
others; what is in a table was shown (`Shown`, hence `HiddenOnlyIfShown`); and what was
shown is in its table or was pushed out (`Known`). `LedgerGrows` proves that a block
of new hits keeps it, where the work is to count what is in a full table as labels
of later showings (`Pushes`), `LedgerForgets` that a reset does, and
`ShowsOnce` that something shown again had been pushed out. `Trail` is the same for
the Agent Framework's sessions, whose list is written some steps after it was read:
only the showings that nothing raced have to be followed. There `ShownOnce` counts
showings and not different hits, because invocations that race can put one id into a
list twice, where it takes two of the places.

The gateway's is the plainest case of why `Contained` is not inductive by itself:
a closed breaker says nothing of the calls that were begun.

The proofs of the ledgers made one property stronger: `ShownOnce` of `MastraRecall`
counted showings, and now counts different hits, as the other LRUs of LRUs do. The
proof of `VercelRecall` corrected the model: an entry whose key is in the cache
already is refreshed in its old place (`Map.set` keeps it), so it is evicted
earlier than one that is new, which with two entries cannot be seen. `StepReuses` is
now about searches whose key was new (`again`); TLC found nothing against it with
three entries either (5 064 000 states). `NothingSkipped` was too
weak to be inductive and is now said of every message from where the thread last
began anew (`restart`, a history).

Assumptions the proofs add to the types: the sets of callers, processes and users that
are counted are finite (`GatewayAssumption`, `HooksAssumption`, `IdentityAssumption`); the
values for "none" are not members.

Only model-checked: the liveness properties (`EveryEventConfirmed`,
`ClosedPoolDrains`, `AssistantSettles`), which are beyond this prover because they
need fairness and `ENABLED`. Every safety property of the passing runs is stated by a
theorem.

## What the models leave out

- Calls that return before they change anything: a closed pool, a missing user, a
  turn without text, a rejected transcript operation, an option that turns the
  operation off.
- Text. A message, event or turn is a value; fingerprints and signatures are
  taken to tell different ones apart. Mastra's is a 32-bit hash, which can
  collide: two different turns in a row that do would be taken for one. No
  property covers it.
- In n8n the fingerprint of a turn stays when its write failed, so that a repeated
  call does not write it either. The code logs the failure and promises no retry;
  no property asks for one.
- A hit that renders to an empty line. The ledgers of Mastra and of the Agent Framework
  remember such a hit although nothing of it is shown; every hit of the models has text.
- A cache that is turned off (`recallCacheTtlMs` of zero or less): then each recall
  searches and there is nothing to be stale.
- Time is an event that may happen at any step (`Expire`, `Cooldown`, `TimesOut`), not
  a number.
- Several processes, except for the plugin, whose hooks are processes. Every other
  table belongs to one process, and a restart begins with the initial state and
  history forgotten; Deep Agents' state is the exception and is restored.

## Not modelled

- *.NET SDK*, *asynchronous Python client*: one request per call and no state between
  calls. `SdkCalls` models the TypeScript client and says nothing of these; what the
  .NET client does with a timeout is in `MemoryTools`.
- *Generated API clients* under the three SDKs: generated from `spec/openapi.json`.
- *Packaging, website and docs*: build-time generation and prose.
- Of the modelled parts: rendering and wording of what is injected, conversion of
  message shapes, validation of options, the declared fields of the n8n node, the
  reports of `doctor` and `reconcile`, CrewAI's write path and listener (one
  blocking call each). `PROJECT.json` says it per component.

## What is left

In order of what matters most:

1. Liveness of the drains: an `aclose` or a disposal returns when writes end and no
   more are spawned.
2. CrewAI's `remember` with its placeholder records, and the listener.
