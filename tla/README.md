# A verification project for django-ai-sdk

TLA+ models of django-ai-sdk: of the parts where several processes, tasks or
coroutines work on the same rows and caches, and of the rules that must agree
with one another wherever they are asked (permissions, endpoints, definitions,
errors, tools); the TLC runs that check them on small instances, and theorems
proved with TLAPS for every instance. Paths are
relative to the repository, `sdk/` stands for `src/django_ai_sdk/`.

    tlc -workers 2 -config WorkflowRun_settles.cfg MCWorkflowRun.tla
    tlapm WorkflowRun_proofs.tla

`PROJECT.json` lists the runs, the code lines of every definition, the mutant
that breaks each checked property, the findings, the hazards and the theorems.

## 1. The system

django-ai-sdk is a Django library for chat agents on Haystack. Its state is in
database rows (threads, messages, memories, documents, workflow runs, tokens),
in in-process caches (RAG instances, integration tool lists, in-memory threads)
and in vector indexes. Web processes serve requests on an event loop; workers
take `django-tasks` tasks from a queue; management commands run beside both.

| component | state | operations | hard behaviour | correct when | module |
|---|---|---|---|---|---|
| workflow execution (`sdk/workflows/`) | run row, one row per step, the task queue | start, resume, forced resume, deliver, claim, replay, skip, record, stamp | at-least-once delivery, two workers on one run, a worker dying anywhere, writes that fail | one delivery runs a step; a finished run has a row per step and publishes what the rows say; an opened run is stamped | `WorkflowRun` |
| workflow definitions (`definitions.py`, `registry.py`, `checks.py`, `schemas.py`) | stored definitions, what a deployment exposes | submit, check, store, update, deactivate, queue, compile in the worker | a definition checked by one process and compiled by another, later; fields that contradict themselves | what is accepted compiles, runs as it was accepted, and takes the values its schema shows | `WorkflowDefinition` |
| document processing (`memories/tasks.py`, `files/pipeline.py`) | document row, entries | process: extract, checkpoints, entry, link | cancel, delete and retry at any await, dead workers, timeouts | completed means indexed; nothing stays PROCESSING | `DocumentPipeline` |
| memory services (`memories/services.py`) | memories, links, documents | upload, retry, cancel, delete, poll; share, link | a status poll that fails documents; row locks | a poll fails only stuck documents; one file memory per thread | `DocumentPipeline` (documents), `Threads` (links, the file memory), `Sharing`, `Access` |
| RAG provider (`rags/provider.py`) | LRU cache, a lock per memory | get, warm up, reindex, add, remove, clear | coroutines interleaving at every await, eviction of locks | one build per memory; no lock left held | `RagProvider` |
| index signals and commands (`memories/signals.py`, `reindex_memories.py`) | the index signature in a memory's metadata | index or forget on save and delete; rebuild and sign | a change during a build, another process rebuilding | a signed index holds its documents | `RagProvider` |
| RAG backends (`rags/qdrant_hybrid.py`, `bm25.py`, `chroma.py`) | indexes, in the process or on a server | warm up, add, remove, retrieve | recreating a shared collection | as above | `RagProvider` (contents only) |
| integrations (`sdk/integrations/`) | registry, row cache, `ResilientCache` | tools, status, invalidate | fetches that outlive an invalidation, breakers | a cached toolset belongs to the connection the user has; a breaker does not give up for good | `Integration` |
| MCP and OAuth (`sdk/integrations/mcp/`) | OAuth tokens, client credentials | authorize, refresh, disconnect | two refreshes redeeming one rotating token, a disconnect meanwhile, lost answers | an older grant never replaces a newer one; only a lost answer strands a user | `Integration` |
| stream adapter (`adapters/base.py`, `common.py`) | chunk queue, message being written | prepare, stream a turn, finalize, excuse, cancel | pipeline, client and storage failing at any await | a reply that began is stored once, and is what the client was shown, then and when it returns | `ChatTurn`, `Conversation` |
| citations (`adapters/citations/`) | source registry, grounder's tasks | register, ground, cancel | tasks finishing after the turn | what was shown is not taken back; no task outlives the turn | `ChatTurn` |
| protocols (`sdk/protocols/`) | open blocks of a response | translate events, convert messages both ways | closing a block in one of four places; a client that sends the history back | one end, parts in order; the next prompt fits | `ChatTurn`, `Conversation` (Vercel) |
| conversation storage (`sdk/storage/`, `sdk/conversation/`) | threads, messages, feedback, links | create, patch, chat, rate, hide, delete | read-modify-write of rows, deletions in steps, eviction | nothing outlives its thread; what could be made twice is made once | `Threads` |
| permissions, memory and agent shares (`permissions.py`, both `services.py`) | objects, user rows, group rows | decide; share, change, revoke, edit, delete | a row read, then written after it was revoked or its object deleted | no share outlives its object; nothing revoked comes back; the rules agree; a call reads and writes what its caller may | `Sharing`, `Access` |
| agents (`sdk/agents/`) | registry, runtime configs, the messages of a run | assemble tools, build, run, delegate | tool budget and required tools against the step limit; parts left open; agents that declare one another | the run ends, within its budget, and hands back what it found; its tools have names of their own and are what the user may use | `Delegation`, `Tools`, `Access` |
| HTTP APIs (`contrib/ninja`, `contrib/drf`, `views/`) | none | check, call services, answer | two layers written apart; a call after a write that can still fail | they answer alike; a refused request wrote nothing; flags and lists tell what is allowed | `Endpoints` |
| errors (`errors.py`) | hooks | classify, describe, answer | an error wrapped by a pipeline, two providers' classes | the cause is told; a refusal has its status | `Errors` |
| generators, files, artifacts, tracing, migrations, demos | little or none | configure, log, dispatch | - | - | no (the calls that read traces: `Access`) |

How they interact. An upload writes a document row and queues a task; the task
writes an `Entry`, whose `post_save` signal calls the RAG provider of every RAG
agent, and the provider writes an index or the signal forgets the memory's index
signature. A chat turn warms the provider for the thread's memories, collects
tools from integrations (each behind a `ResilientCache`, some behind an OAuth
token), runs the pipeline in a task that feeds the stream adapter's queue, and
stores the message through the storage adapter. A workflow run is queued by the
service and walked by a worker; its steps may call agents.

## 2. The modules

### WorkflowRun

One run, its step rows, and the deliveries of `execute_workflow`. Every database
statement is one step; what a delivery does between two statements is local.

| state | code |
|---|---|
| `run` | the `WorkflowRun` row: status and outputs (`models.py`) |
| `rows` | the `WorkflowRunStep` rows: status and output |
| `pc`, `at` | where a delivery is, and the step its walk has reached |
| `recorded` | the outputs of COMPLETED rows it read before walking (`executor.py:65`) |
| `outcome` | its own `StepOutcome`s (`runner.py`) |
| `lost` | recorder writes that raised and were only logged (`runner.py:85`) |

`StartRun`, `ResumeRun`, `Redeliver` are the service and the queue; `Fetch`,
`Open`, `FailToCompile`, `ReadRecorded` the task before the walk; `Replay`,
`Skip`, `ClaimInsert`, `ClaimUpdate`, `Refuse`, `ClaimLost`, `FinishStep` one
step of it; `Abandon`, `EndAbandon` what follows a FAIL step; `RecordRunEnd`,
`StampFailed`, `StampCompleted` its end; `Crash` the worker's death at any point.
What a step produces is named by the delivery that ran it, so outputs mixed from
two attempts are told apart. `Adversity` says what the environment may do.

`WorkflowPromise` is the abstract specification: a step's output, once kept, is
kept, and what is published is what is kept. `WorkflowRun` implements it
(`KeepsPromise`) as long as no two deliveries are at work at once.

### DocumentPipeline

One uploaded document, the service calls on it, and the tasks processing it.
`doc` is the `EntryDocument` row (`status`, `cancelled_at`, `processing_step`,
`entry`, `task_id`), `entries` the entries created for it, `pc` the tasks, `call`
and `seen` the callers and the copy of the row each acts on. `Upload`, `Submit`,
`Tag`, `RetryRead`/`RetrySave`, `Cancel`, `DeleteRead`/`Delete`,
`PollRead`/`PollTask`/`Sweep` are the calls, split at their database statements;
`Fetch` to `MarkCancelled` are `run_file_pipeline`. A conditional update
(`filter(processing_status=...)`) is one step whose guard is the filter; a
`save()` of a copy read earlier is an unconditional step. `DocumentLifecycle` is
the abstract specification: the statuses a caller may see follow each other as
it says, and the entry is linked once, on completion.

### RagProvider

`RAGProvider` in one event loop, the `Entry` signals, and `reindex_memories` in
its own process. A call is a coroutine and a step of it ends where the code
awaits.

| state | code |
|---|---|
| `documents` | the `Entry` rows of each memory |
| `signed` | whether `metadata["sdk"]["rag"]` holds the index's signature |
| `cache` | `_cache`, least recently used first; an instance is named by the call that built it |
| `lock`, `queue` | `_warmup_locks`, and each lock's holder and waiters, in order |
| `index` | what each index holds: one per instance, or one per memory on a server (`Remote`) |
| `call` | each coroutine: what it does, where it is, the documents it read |

`Ask` runs to the first await of `_get_or_create_rag`, fast path included;
`Resume` is the check after the lock; `Read`, `Open`, `Recreate`, `Index` are
`get_rag_pipeline` and the backend's `warmup`; `Built` caches, evicts and
releases; `BuildFails` and `GiveUp` are the ways out. `Save` and `Delete` commit
a row, `Pick` and `Write` are its signal; `Command` is `reindex_memories`, which
builds and signs an in-process index too, one that is gone when it exits;
`ClearCache` is `clear_cache`. Reading a row and looking up the cache are one
step of `Pick`, and embedding and writing one step of `Index`.

### Integration

One OAuth MCP integration behind its `ResilientCache`. `row` is the
`MCPOAuthToken` of each user, `redeemable` what the identity provider still
accepts, `cache` and `breaker` the `ResilientCache`, `call` the coroutines. A
pair of tokens is named by the order in which it was issued, and `grant` records
which authorization it descends from. An authorization may be answered without a
refresh token (`alone`): `set_tokens` then keeps the one of the row, and the row is
`mixed`, an access token of one grant beside a refresh token of an earlier one,
until an answer with both or a disconnect. `Ask`, `CheckToken`, `Get` are
`get_status` and the cache; `Read`, `Exchange`, `Persist`, `Reload`, `Reread`
are `_fetch_oauth` and `refresh_oauth_token` at their awaits; `Connect` and
`FetchFails` end a fetch; `Callback`, `CreateRow`, `SaveToken` are the OAuth
callback; `Disconnect`, `Reconnect`, `Test` clear the cache; `Cron`,
`NextToken` are `refresh_integrations`, whose own process has its own cache.
`Lapse`, `Expire`, `Cooldown` are the clock.

### ChatTurn

One reply: the pipeline's task, whose callback queues chunks (`Say`, `CallTool`,
`SkipTool`, `TaskEnds`), the coroutine of `Stream.stream` (`Begin` to `Save`,
one action per await), the `Grounder`'s tasks (`Ground`), and the client, who
may go away at any await (`Leave`). `writer` is the `StreamWriter`'s message,
`kept` the stored row, `client` what a client makes of the Vercel parts. Text is
counted in chunks; a call's arguments are named by the call they belong to, so
arguments given to another call are told apart. Before the try block the turn
warms up (`Prepare`); when the pipeline fails, `Excuse` adds the error to the
reply and `ErrorAnswer` is the response of a turn that had none.

### Conversation

`ChatTurn` together with what is made of its stored reply: the parts a client
that returns is given (`Reopened`, from `StoredPart`) beside those it was streamed
(`Live`), the message as the Vercel protocol carries it there and back
(`ProtocolMessage`, `FromProtocol`, `ToChatMessages`), and the prompt of the next
turn (`Prompt`, message by message with `Added`, `ReplayHandoff` and `Merged`). Its properties are checked in
every state of `ChatTurn`, so over every reply a turn can leave.

### Threads

Requests on threads in the database and in the memory storage. A request looks
its thread up (`Begin`) and then takes the steps in its `todo`, one database
statement each: `Patch` unlinks, merges, saves and links; `Chat` asks, sets a
title and replies; `Delete` finds, clears and drops. The memory storage does not
await, so its operations are one step. `thread`, `messages`, `feedback`, `links`
are the rows, `order` the memory storage's insertion order, `files` counts the
file memories a thread was ever given.

### Sharing

A memory or an agent with its user rows and group rows, the default rules that
read them (`MemoryRule`, `AgentRule`, `Listed`), and the calls that change them.
Each call looks up and asks the rule in one step and writes in another. Agents
and memories differ where the code does: which group rows count, whether a save
names its columns, whether a share is deleted by its row or by its user.

### Access, Endpoints and Errors

`Access` has the default permission rules of every domain and each service call
that asks them, as the sequence of its steps: a row it looks up (`Find`), a
question it asks (`Ask`), a condition it checks (`Need`), what it reads or writes.
A call stops at the first step that fails (`Taken`, `Outcome`). A world says who
asks, what is theirs and which rows exist; who shares the memory or the agent is
the state of `Sharing`, so the rules are asked in every state that overlapping
shares, edits and deletions can reach. `Flags` is every set of flags that
`get_object_permissions_map` may show, whichever operation stands for a tier.

`Endpoints` has the two HTTP layers and the chat view as tables: the calls that
the handler of each endpoint makes, in order (`Together` looks a name up in the one
table that has it). A call stops with the kind of its first failing step: not found,
denied, a conflict, invalid input, or a stored definition that is no longer legal
when a run checks it again, which is a configuration error (500) and no refusal of
the caller. `Errors` has `classify_error` with
its rules in their order, the walk down the causes, and what each layer answers;
the answer of a step that fails is the class the services raise for it.

### WorkflowDefinition

A definition from its author to the worker. `draft` is what is submitted,
`exposed` the step types and actions the deployment has, `row` the
`WorkflowSettings` row, `call` a service call between its read and its write,
`run` a run with its snapshot. `Coherent` and `Bounded` are the validators of
`FieldDefinition`, `CheckNames` to `Completed` those of a pipeline, `ModelOf` the
compilation to pydantic, `Accepts` what such a model takes. The deployment may
change between storing, queueing and walking. TLC takes every field with one thing
wrong with it, and pipelines of up to three steps: about 700 drafts, two levels of
nesting, two fields and two literals at most, 1.6 million states.

### Tools

The tools a run is given, as pure functions of a setting: what agents and
integrations the classes declare, what the user may view and use, what works.
`Declared` and `Delegates` are `get_agent_tools` and the guard of
`build_subagent`; `GetTools` builds a subagent around its own tools; `RagTools`
are those of the thread's memories; `Warmup` is what a client is told while they
are got ready. The properties go through every way three agents may declare up to
two (or one) of them, every order of three memories under three names, and every
order in which integrations answer, and are checked where a run of `Delegation`
starts. Parts of ids used in names are taken as distinct.

### Delegation

`SubagentStreamFilter` around one run of a subagent, with `ToolCallBudgetHook`
and `RequireToolsHook`. `calls` is every call in the conversation with how it
ended, how many results of it reached the client and how long its result is,
`seen` the filter's set, `output` what the coordinator gets: the answer, or the
digest (`Gathered`), which takes the results in their order while some of its limit
is left and cuts the one that goes over it (`Cut`). Haystack's loop between the hooks is
external and modelled as the hooks and the wrapper use it.

## 3. The runs

| run | instance | shows |
|---|---|---|
| `WorkflowRun_sequential` | 3 deliveries one after the other, 3 steps (the first feeds the second), crashes, forced resumes, definitions that stop compiling | the promise is kept, and completed rows are final; what is published is what the rows hold |
| `WorkflowRun_settles` | 2 deliveries at once, fair, a middle step that fails the run, one lost write | one holder per step; a row left RUNNING has its delivery; a RUNNING run has a worker and is stamped; a run that ended has every row |
| `DocumentPipeline_orderly` | 2 callers, 3 tasks, retries only when nothing is under way, no polls | a cancel wins; task and status fit; the link is kept; the lifecycle is implemented |
| `DocumentPipeline_settles` | 2 callers, 2 tasks, fair, polls, retries, crashes, endless queues | a COMPLETED document has its entry; no document stays PROCESSING |
| `RagProvider_local` | 3 calls of any kind, an in-process and a server memory, a cache for both | one build per memory, no lock left held (`WarmupsAreLocked`); an in-process index that misses a change is not signed, unless the command signed one of its own; a forced reindex is fresh |
| `Integration_races` | 1 user, 2 calls at once, 3 pairs, rotating refresh tokens, a second authorization with or without one, timeouts between an exchange and its save, fair | for a row that is not mixed: a newer grant wins; only a lost answer strands a user; a cached toolset is of this grant. The breaker recovers |
| `ChatTurn_reply` | 2 tool calls (one with an artifact, one a handoff), 2 chunks of text or reasoning, a queue of 2, a stream cancelled up to twice, fair | the stored reply is whole, stored once and what was shown; parts are in order, reopen as they were shown and make a prompt that fits; nothing is taken back; the stream ends |
| `Threads_overlap` | 3 requests of any kind, a database thread and two in memory with a cap of 1, 3 agents that share a memory | made once, nothing outlives its thread, updates keep the rest, eviction is oldest first |
| `Sharing_overlap` | 2 requests at once, 2 users, one in 2 groups and one in 1, a memory or an agent; every endpoint, asked by anybody in every world | requests read and write what their caller may, and write nothing when refused; both layers answer alike; flags, lists and knowledge tell what is allowed; no shares of nothing; nothing is restored |
| `Sharing_runs` | the same | finding: who may chat with an agent is refused by the endpoints that run it |
| `Delegation_run` | 2 tools, one required, replies of up to 2 calls, a budget of 2, 4 steps, 2 nudges, fair; the tools of all settings of `Tools` | the hooks hold; nothing is lost but what the digest's limit leaves out, the end of the conversation; a run starts with tools that are sound; the run ends |
| `WorkflowDefinition_life` | ~700 drafts, 2 deployments, 9 suppliers | accepted exactly when it can be run; schemas hold; a run goes as it was accepted |

Every property has a mutant in `PROJECT.json`: a change to one mapped definition,
of the kind a bug in that code would be, that makes TLC find the property
violated under the run's own configuration.

**Bounds.** Two deliveries are needed for every race on a claim, a third to see
what the next attempt makes of it; three steps give a step with a successor,
with two dependants, and one that fails after another completed. One lost write
separates "every write was made" from "one was not". Two callers and two or
three tasks give a retry racing another call while an earlier task still runs.
Three calls on the provider are a build, a waiter and a change; two memories give
the cache an order, two documents one that is read and one that is missed. No
counter of the code is cut short otherwise: `MaxLost` bounds lost writes, and the
sets of deliveries, tasks and calls bound how often things are asked for. That is
why deadlock is not checked: the systems stop when nothing more is asked.

`Integration` needs three pairs for a grant, its refresh and a second grant (or a
second refresh), where an authorization without a refresh token also uses one: it is
the second (`Bare`), with a grant before it and a refresh or a grant after it; two
calls are every pair of overlapping operations, the command
included. Two chunks and two tools are enough for text before and after a call,
for two blocks of citations and for results in either order; a second
cancellation is what separates the first await of the clean-up from the later
ones. Three requests in `Threads` are two that overlap and a third that sees the
outcome or evicts. `Sharing` keeps going as long as somebody manages the object,
with two requests at a time. `Delegation`'s budget is smaller than two full
replies, so it is met exactly and overshot, and its steps are fewer than calls,
nudges and answers together could take; results of 0, 1 and 2 characters against a
digest of 2 fit exactly, go over by one and come when nothing is left.

**Refuted statements.** The modules keep some statements the code does not
satisfy, most of them quoted from its docs or tests. They are listed under the
hazards; TLC refutes each in the run named, with the change given.

| statement | refuted in | what happens; what is said of it |
|---|---|---|
| `WorkflowRun.OneHolder` | `WorkflowRun_settles` with 3 deliveries, `StepCount = 2`, `Requires <- Chain`, `FailSteps = {1, 2}` | a delivery that abandons a step upserts over the row another is running, a third claims it; `workflows/actions.py:94` "only one may hold it" |
| `WorkflowRun.RunningRunHasWorker` | the same, `Requires <- Independent`, `FailSteps = {}` | each delivery is refused by a row another one completed, and nobody stamps the run; `docs/content/workflow-steps.md:150` |
| `WorkflowRun.CompletedRowIsFinal` | `WorkflowRun_settles` with `Adversity = {"overlap", "crash", "force", "drift"}` | a skip or an abandonment upserts over a completed row; while deliveries do not overlap it holds, as part of `KeepsPromise` |
| `WorkflowRun.FailedRunFullyRecorded` | `WorkflowRun_settles` with `Guarded = {2}` | a `skip_when` that raises is awaited outside the walk's handler (`runner.py:117`) |
| `DocumentPipeline.OneEntry` | `DocumentPipeline_settles` with one caller, `Allowed = {"cancel", "retry"}` | a cancel between the entry and its link, then a retry, leaves two entries of one file; `memories/services.py:1071` "re-processing would create duplicate index entries" |
| `DocumentPipeline.PollSparesWorkers` | the same, `Allowed = {"retry", "poll"}` | a retry's task starts before its id is recorded, and a poll asks about the old one and fails the document; `memories/services.py:121` |
| `RagProvider.ServerIndexIsHonest` | `RagProvider_local` with two calls, `Memory = Remote = {m1}`, `Allowed = {"force", "save"}` | a save during a rebuild of a server collection is lost, and the index is signed; also with two saves to an empty collection, and with `reindex_memories` beside one save; `tests/unit/test_memory_signals.py:48` |
| `RagProvider.OneWarmup` | `RagProvider_local` with 4 calls, `MaxCache = 1` | evicting a memory pops the lock somebody waits for (`provider.py:298`); `docs/content/manual/rag.md:111`. The code's capacity is 100; with room for every memory it holds, as part of `WarmupsStayLocked` |
| `RagProvider.LocalIndexIsHonest` | `RagProvider_local` with `"rush"` in `Allowed` | a row is deleted while its own save is on the way to the index |
| the same without `~SignedElsewhere(m)` | `RagProvider_local` | a row changes while a chat builds the index, its signal finds nothing cached and forgets the signature, and `reindex_memories` signs again what it built in its own process (`reindex_memories.py:61`, `:152`, no check of the storage): the cached index misses the change and is signed; `tests/unit/test_memory_signals.py:73` |
| `Integration.ActiveMeansConnected` | `Integration_races` with one call, two pairs | a refresh fails and `_fetch_oauth` returns the empty list, which is cached as a value (`loader.py:339`): ACTIVE without tools; `loader.py:172` "ACTIVE always means the last real attempt succeeded" |
| `Integration.NewerGrantWins`, `OnlyLossStrands` and `CachedForThisGrant` without `~Mixed(u)` | `Integration_races` | a re-authorization answered without a refresh token leaves the earlier one's in the row (`mcp/models.py:82`), where the next refresh replaces the newer grant's access token; saved from a copy older than a refresh, it puts back a token that was rotated away (`mcp/services.py:196-198`) |
| `Integration.WinnersAreKept` | `Integration_races` | `_persist` takes the row for unchanged by its refresh token, which a re-authorization without one leaves as it was, and overwrites the newer access token; `loader.py:632` "Only persist our result if the row still holds the refresh_token we read — otherwise we lost the race and must not clobber the winner's tokens" |
| `ChatTurn.InputIsOwn` | `ChatTurn_reply` with `Index <- Alike` | two subagents stream a call each under index 0, and a fragment goes to the later one; `tests/unit/test_streamed_tool_calls.py:1` |
| `ChatTurn.EndMarkerSent` | `ChatTurn_reply` | `warm_up` raises outside the try block (`base.py:836`), and the response breaks off; `tests/unit/test_stream_end.py:1`, `docs/content/manual/stream-events.md:67` |
| `Threads.LinksFollowAgent` | `Threads_overlap` | two overlapping switches of agents leave one agent's thread with the other's memories; `contrib/ninja/threads.py:100` "moving the linked memories along" |
| `Delegation.NotDuplicated` | `Delegation_run` | the flush goes over the whole conversation of the run, so results of the coordinator's own earlier calls are sent again, as the subagent's; `agents/subagent.py:197` "results the run produced without streaming them" |
| `Delegation.NoneCrowdedOut` | `Delegation_run` | the limit of the digest goes to the results in order, the coordinator's handed-over ones first (`agents/subagent.py:116-128`), so one of them may leave out all of the run's own; `docs/content/manual/agent.md:126` "budgeted across all results so one large page cannot crowd out the rest" |
| `Conversation.HandoffsAreReplayed` | `ChatTurn_reply` | the chat view passes the client's messages through `to_chat_messages`, which drops their tool calls, so `replay_handoff` has nothing to replay over HTTP; `docs/content/manual/agent.md:179` |
| `Sharing.ManagersManage` | `Sharing_overlap` | of several group rows the rule reads the first (`permissions.py:323`), so who manages by a later one is refused; `permissions.py:246` "Manager (can_manage=True): full access." |
| `WorkflowDefinition.EveryDefaultFits` | `WorkflowDefinition_life` | a field authored as `x: int \| None = 3` refuses null once it is compiled from its declaration (`schemas.py:77`) |

One run checks such a statement, `Sharing_runs` (`UsersMayRun`).

Statements of the docs that are narrower in the code, met while modelling and
stated in the properties only as far as they hold:

- A call of a stored reply that has no result reopens as one that returned
  nothing (`ReopenedAsShown` speaks of calls that ended).
- Names are kept apart within one kind of tools only: `get_agent_tools` and
  `get_rag_tools` have a `used_names` each, and integration `a` with tool `b_c`
  and integration `a_b` with tool `c` give the same name, against
  `docs/content/integrations.md:28` "unrelated integrations never collide".
- The chain that stops cyclic delegation starts at `build_subagent`, so a
  coordinator may be built once inside its own subagent
  (`docs/content/manual/agent.md:105`).
- A memory called "Uploaded documents" that is linked before the file memory takes
  the name `search_uploaded_documents`, to which messages with files point
  (`base.py:684`, `attachments.py:45`).

**How the passing runs are configured around them.** `WorkflowRun_sequential`
has no two deliveries at once, and `settles` leaves out the third, crashes,
definitions that stop compiling and the raising `skip_when`; what holds of rows left RUNNING and of ended runs with all of
these together rests on the theorems, and so does `TypeOK` of every module that
has one.
`DocumentPipeline_orderly` has no polls. A cancel between a task's fetch and its
first save is overwritten with PROCESSING (`tasks.py:93`); the document does not
complete, and `DocumentLifecycle` is implemented because `Visible` counts
`cancelled_at`. A reindex without force that queues behind an older build returns
that build's instance, although `rag.md:107` promises the new one: hence
`ForcedReindexIsFresh`. `ChatTurn_reply` streams its two calls under two indexes,
and `CachedForThisGrant` leaves out values fetched across a clearing of the cache,
as `EvictsOldestAtCap` leaves out replies that end after an eviction.

**Fairness.** `WorkflowRun`: weak fairness of each delivery's own steps, since a
worker that lives goes on, and the work inside a step ends. The second half is an
assumption about the step: `docs/content/workflow-steps.md:248` says a step has no
timeout of its own and that `AI_SDK_LLM_TIMEOUT` bounds a model call, but no code
reads that setting, so the bound is the model client's. No fairness of `Crash`,
`Redeliver` or resuming, so a run may stay as a dead worker left it.
`DocumentPipeline`: weak fairness of a started call and of a task inside the
pipeline (bounded by `AI_SDK_FILE_PIPELINE_TIMEOUT`), none of the queue nor of
indexing an entry, and strong fairness of polling: the client polls a document
that is PROCESSING until it is not, and other calls cannot keep it from ever
doing so. With weak fairness a delete that fails over and over may occupy the
callers for ever. `RagProvider` has no liveness run; `WarmupsAreLocked` has the
safety half (no one who has returned holds a lock).
`Integration`: weak fairness of a coroutine that can go on (a fetch has a
timeout, so it connects or fails), strong fairness of connecting, that is, a
server asked again and again answers some time, of the clock, and of a user who
keeps opening the status page; `Recovers` speaks of users whose token stays
valid. `ChatTurn`: weak fairness of the stream's own steps only, whose waits other
than the queue are for the database, a thread or a timeout; none of the model,
the grounding or the client, hence the premise of `StreamEnds`. `Delegation`: weak
fairness of the run, whose model answers or fails. `Threads`, `Sharing` and
`WorkflowDefinition` have no liveness property: a request takes a fixed number of
steps.

## 4. The proofs

Eight modules prove theorems for every value of the constants (any pipeline, any
set of deliveries, callers, tasks, memories, users and tools, any adversity), from
the named assumptions of the modules. `TypeOK` is proved in each, and every
invariant below is inductive given the types. A theorem with a further hypothesis
names it as an operator. A hypothesis stands where the code breaks the property without it, as
section 3 shows for each, and it restricts the environment (what may go wrong, how
much overlaps, how large a cache is), never the code.

`WorkflowRun_proofs`:

- `RunningRowsAreHeld`: `RunningRowHasHolder` is inductive: a claim makes the row
  and the place together, and only the end of the step or the delivery's death
  leaves it.
- `CompletedRunsAreFullyRecorded`: the run's status alone says nothing of the
  rows, so the invariant `WalkRecorded` says that whoever walks has left a row
  for every step passed, that what was read as recorded has a row, and that
  whoever stamps has passed them all. Rows are never deleted (`RowsStay`).
- `EndedRunsAreFullyRecorded`: the same for a FAILED run, with `OnlyStepsFail`: no
  `skip_when` that may raise and no definition that stops compiling. Without it
  the code breaks the property, as above.
- `PublishedRunsAreSound` and the refinement `RunsKeepThePromise`, while `Sequential`
  (no two deliveries at work at once, no lost write; crashes, redeliveries,
  releases by force and drifting definitions are allowed). What is published is
  read from a delivery's memory, what the promise speaks of from the rows, so
  `SequentialInv` relates the two step by step: a delivery that does not walk yet
  knows nothing (`FreshAttempt`); behind a walk its outcomes agree with the rows,
  ahead of it every completed row is one it has read (`AttemptAgrees`); completed
  rows are closed under what they require (`RowsSound`); nothing is published before
  the run is COMPLETED (`PublishedOnce`). The refinement maps each step to a step of
  `WorkflowPromise` or to a stutter.
- `ClaimsAreExclusive`, while `ClaimsStand`: nothing is resumed by force, and there
  are two deliveries or no step is ever skipped. A skip writes over the row of
  the step another delivery is inside, so "the row is RUNNING" is not inductive;
  `ClaimShows` is: whoever wrote over it is past the step, and a third delivery
  would be needed to enter it.
- `RunningRunsHaveWorkers`, with at most two deliveries, while no write is lost. A
  refused duplicate stamps nothing, which is right only because somebody else is
  at work: `WorkerInv` says that a row completed ahead of a walk was completed by
  another delivery now past it (`Overtaken`), and not by one that is done while
  the run says RUNNING (`NotOvertakenByDone`).

`DocumentPipeline_proofs`:

- `CompletedDocumentsHaveEntries`, unconditionally. `LinkedByDone` says that
  a linked entry was made by a task that is done and still exists, and, in its last
  conjunct, that an entry about to be deleted is never one a task has yet to link.
- `CancelledDocumentsNeverComplete` and `LinkedEntriesAreKept`, with
  `OneRetryAtATime` (no retry overlaps a call or a task at work; two that do leave
  two tasks, the second of which completes what was cancelled for the first).
  `OrderlyInv` says that one task attempts the document and one call queues it, what
  that call may find (`BeforeQueue`, `BeforeTag`), that a cancelled document is
  PROCESSING only where the next checkpoint stops its task (`CancelSticks`), and that
  the link is the last thing to happen (`LinkIsLast`).
- `TasksMatchStatuses`, the same with nobody polling, since a poll clears the step
  of a document whose task is alive.
- `DocumentsKeepTheLifecycle`, the refinement of `DocumentLifecycle`, under
  `OneRetryAtATime` and `PollsAreRight`: callers do not both poll and meet tasks slow
  enough to be taken for dead. `TimelyInv` says that until a task saves PROCESSING
  nothing but a cancel or a delete has happened to the row.

`RagProvider_proofs`, for any calls, memories, documents and capacity:

- `ForcedReindexesAreFresh`, unconditionally. A row can be missing from what a
  forced reindex read only because it was deleted for good: `FreshInv` carries
  that from the request to the return, past the wait for the lock.
- `WarmupsStayLocked`, with `EveryMemoryFits` (the cache has room for every
  memory; the code's capacity is 100). With less, TLC finds that an eviction pops
  the lock somebody waits for. `LockInv` says that those who wait for a lock are
  readers of the memory that still has it, that they wait once, and that whoever
  builds is at the head of a queue; `CacheInv`, which needs no hypothesis, that the
  cache holds one returned instance for each memory.
- `LocalIndexesAreHonest`, with `EveryMemoryFits` and no row deleted while its own
  save is on its way. The signature and the index change in different steps of
  different calls, so `HonestInv` says of every trusted index which signals are yet
  to come for it: a row it lacks has a save coming, a row it should not have a
  deletion (`CachedSettle`, `BuildersSettle`), signals come in order, and they write
  to an instance of their own memory (`SignalsInOrder`, `TargetsStand`). Trusted are
  the signed memories that no forced reindex and no command has touched
  (`NobodySigns`, `UnsignedBefore`).

`ChatTurn_proofs`, for any tools, indexes, queue and client, about `ChatTurn` and
the view of a reply in `Conversation`:

- `RepliesAreSound` needs what the message, the queue and the pipeline have to do
  with one another. `TurnInv` says that every chunk is in the message or in the
  queue (`Counted`); that behind the sentinel there are only citations, and that it
  comes when the task has ended (`SentinelIsLast`); that the chunks of a call are
  queued in their order, as far as the pipeline is with it (`CallsInOrder`); which
  tasks there are in which phase (`TasksFit`, `TurnFits`); and how the client's
  message stands to the one being written (`ClientFits`, `CitesFit`).
- `NothingIsTakenBack`, the action property, from the same invariant and what each
  action keeps (`StepKeeps`).
- `PartsComeInOrder`, `InputsAreOwn` and `ReopenedRepliesAreAsShown`, three of the
  five parts of `PartsAreSound`. `InputsAreOwn` needs `IndexesApart`: two calls that
  stream under one index get each other's fragments, as section 3 has it.
- `TurnsAreToldWhole`: all of `PartsAreSound`, so with `IndexesApart` too. The
  conversation of the next turn has three messages, so `Prompt` and `ToChatMessages`
  are written out call by call (`PromptOfThree`, `ReadThree`) and not by an induction.
  What remains general is the reply: any text and any finite set of handoffs, with
  `Merge` or without. `ReplayIs` says what its part of the prompt is, position by
  position, and `ReplayedFits` that every result is there once (`SetToSeqIs`) and right
  behind its call.

`Threads_proofs`, for any requests, threads, agents, memories and caps, all
unconditionally: `FilesAndRatingsAreMadeOnce`, `UpdatesAlwaysKeepTheRest`,
`TheOldestGoAtTheCap` and `LinksAndMessagesAlwaysFit`. A request is a list of
statements with what it read, so `RequestInv` says that what is left to do is a
suffix of one of the services' sequences (`Ordered`) and that what it holds is of
its thread. `MessageInv` says that only chats send, `Ghostless` that nothing is left
of a thread that is gone, and `QuietInv`, while no two requests have overlapped,
what each statement of a switch of agents has done to the links (`Claim`): between
the statements a thread has neither agent's memories, so the property by itself is
not inductive.

`Integration_proofs`, for any number of users, calls and pairs:

- `OnlyALossStrands`: the invariant `TokenInv` says that a refresh token belongs to one
  row (`OneOwner`), that a refresh token about to be stored is still accepted and known
  to one call only (`HeldAlone`), and that a stored token that is refused, in a row
  that is not mixed, was redeemed by a call whose answer was lost or is yet to be
  stored (`Accounted`).
- `NewerGrantAlwaysWins`: the refresh writes under the condition that the row has the
  refresh token that was read, and in a row that is not mixed the access token is of
  its grant (`Matched`), so a row that changes its grant is written by a callback.
  All three theorems leave mixed rows out, of which they are false.
- `CacheFollowsTheGrant`: `FetchFits` says that a fetch which no clearing overtook
  copied a row of the present grant, or a call is on its way from changing the row
  to clearing the cache.

`Sharing_proofs`, for any users, groups, memberships and overlapping requests, about
`Sharing` and the modules over it (`Access`, `Errors`, `Endpoints`), all
unconditionally:

- `SharesGoWithTheirObject`, `NothingComesBack` and `RulesAlwaysAgree`. The invariant
  `SharesInv` adds `HeldIsThere` to the property: a share read to be changed or
  revoked, and not deleted since, is still there, so that a save of a share that is
  gone fails instead of bringing it back.
- `RequestsAreSafe`, that no path through any endpoint reads or writes more than the
  rows give its caller, and none fails after it wrote. What an endpoint does is a
  sequence of steps, so the theorem has two halves. One is a fact of each sequence,
  `Guarded`: before every read and write there is a question about the same object
  whose answer grants it (`Grants`), and after the first write comes nothing that can
  fail, or only what was asked before (`Again`). It is proved table by table
  (`MemoryCallsAreGuarded` and so on) from the calls written out (`MemoryCallsSteps`),
  then for the endpoints that make several calls. The other is about the rules and the
  rows: where a granting question is not denied, the caller has the right
  (`MemoryGrants`, `ThreadGrants`, `AgentGrants`, ...), in every typed state of the
  shares.
- `LayersAlwaysAgree`, that both HTTP layers offer the same endpoints and answer
  alike. Most endpoints are the same call in both; for the others the sequences are
  compared, down to the first step that fails. What is answered is `Classify`, whose
  walk down the causes and whose lists of rules are taken rule by rule (`FirstRuleAt`:
  the first that fits decides).
- `ShownIsAlwaysAllowed`, that flags, lists and a model's tools show what will be
  answered. `Told` says of a sequence that each question in it is a flag that some
  step takes (`Pair`), or one that anybody is granted, and `ToldIsTold` that the flags
  then tell its outcome; `ListsTell` compares every list with the endpoint that opens
  its items, and `KnowledgeTells` the tools of a thread's memories with reading one.

`Delegation_proofs`: `HooksAlwaysHold` and `NothingIsEverLost`. The invariant
`RunInv` says that a call under way is of the present step (`StepsFit`), that while
calls run the earlier steps have left some of the budget (`BudgetLeft`), that the
run closes with its required tools called unless steps or nudges are spent
(`ClosesComplete`), that the client has the results of exactly the calls that ran
until the flush (`StreamedFits`), and that the calls are in the order of their steps
and the first is refused by a budget of nothing only (`Ordered`, `FirstRuns`), so
that a run handed nothing has a first result of its own. Of the digest
`DigestInOrder` says what its limit keeps, for any lengths: `Length` counts the
characters of some results as a set of pairs, so more of them are never shorter
(`Lengths`).

Left to TLC: liveness and `ENABLED`, which the prover does not reach;
`WorkflowDefinition`, which uses recursive operators for nested fields (what is
accepted at any depth of nesting would be an induction over data); and
`MCDelegation.RunsStartSound`, which goes through every setting of a few agents,
memories and integrations, and states nothing beyond them. Induction over data is out
of reach only as a schema: where the length is fixed, or the least of a set of
positions is asked for, a recursive function is given its solution explicitly
(`Classify`, `Prompt`, `ThreadMemories`) or the order on an interval is used
(`WellFoundedInduction`).

## 5. What is not modelled

Components without a module are listed in `PROJECT.json` with the reason. In the
modelled ones:

`WorkflowRun`: the error and timestamp columns, the steps' own effects, deleting a
run. `WorkflowDefinition`: names and slugs of workflows declared in code, action
constructors that raise on their config, enum values of another type than the
field's, the number of top-level fields (which `MAX_FIELDS` does not bound), the
resolution of an agent's id.

`DocumentPipeline`: deletion of the memory, redelivery of a document task, documents
without a memory, the duplicate-hash check of two uploads (no constraint backs
it), previews. `RagProvider`: more than one RAG agent per memory, Qdrant's folder
lock and its retries, retrieval, content versions of an edited row, the rest of a
memory's metadata (both writers of the signature write the whole of it back),
`reindex_memories --missing` and a rebuild whose vectors are left incomplete. Its run
has a cache for both memories, so nothing is evicted in it.

`Integration`: `refresh_integrations` invalidates the cache of its own process only;
a token stored after its row was deleted is inserted again; the EXPIRED status,
client registration and the cache of server rows. A refresh answered without a
refresh token is stored with the one that was redeemed (authlib puts it back),
encrypted anew: a pair of its own in the model, so a provider that keeps a token
through one such answer and ends it with the next is not modelled.

`ChatTurn` and `Conversation`: the OpenAI handler, which keeps one current call and
so gives parallel calls each other's arguments (`protocols/openai.py:88`);
suggestions; the part of a skipped call, which stays open on the client; a message
lost by a second cancellation during the save; citations that were shown live and
fail to be placed or stored, which a reload does not show; two stretches of
reasoning, which are two parts live and one on reload; a reply without text, which
the client's own history drops.

`Threads`: a generated title that overwrites a renaming; a memory storage's PATCH
that keeps `agent_id` in its metadata only; a late reply to an evicted thread; a
full save that brings a removed link or a hidden message back; a file memory that
outlives its thread; `update_thread` returning False, which no caller looks at; the
`unique_together` that does not bind anonymous users. `Sharing`: a full save of a
memory deleted meanwhile; a last manager who leaves; a permission checked and then
acted on later.

`Access`, `Endpoints` and `Errors`: custom permission classes (`IsOwner`,
`IsInAllowedGroups`), an agent's `is_public`, runtime agents' best-effort shares at
creation, status polls that fail an orphaned document, what the frameworks answer
themselves (422 or 400 for a malformed body, 200 or 201 for a success; 422 from
Ninja and 400 from DRF for an agent declared in code where an endpoint of shares or
runtime agents takes a UUID: a runtime agent in the model is one by id, with a row
or without), `raise ... from None` (which `classify_error` still reads through
`__context__`), "Thread has no agent", a ValueError, the deletion of a file of a
thread that has none, which answers ok, and what no endpoint reaches: `force`, which
none sends, and `get_inputs_schema`. The flags of agents declared in code are all
off, agents and threads have no tier for deleting, and the flags go by the default
rules whatever classes an agent has; the properties speak of the flags that
remain. Of a thread whose agent is inactive the history is refused while the
thread is listed, and the PATCH of a thread unlinks memories before it asks for
UPDATE_THREAD; both are in the model, as the code has them.

`Delegation` and `Tools`: results sent twice by the flush, `_sources` that lists
the coordinator's and skipped calls, a run that raises (which does not flush), the
two characters that mark a cut, stubs of the coordinator's own budget among what it
hands over, `ToolOutputLimitHook`, calls without ids; the names
of class-level, artifact and configured tools, a tool `_namespaced` cannot rename,
a warm-up that raises.

## 6. The plan

Written so far, in the order of the modules in section 2: the workflow engine, the
document pipeline, the RAG provider, integrations with their tokens, the chat turn
and the conversation it leaves, threads, sharing with the rules and both HTTP
layers over it, definitions, delegation and tools. To come:

1. `RagProvider`: a fair run (every call returns), two agents per memory, the
   persistent folder with its lock; then its composition with `DocumentPipeline`
   (`CreateEntry` and `Delete` as the source of signals).
2. The cache of server rows in front of `Integration` (`integrations/registry.py`),
   and client registration.
3. The warm-up as a state machine beside `ChatTurn`, whose `Prepare` is one step.
4. The OpenAI handlers as a second client of `ChatTurn`.
5. The matching of citations, as functions against a definition of a quote.

Theorems to come: `RunsStartSound` for any tools; `WarmupsAreLocked` with evictions,
for memories that are not evicted while somebody waits for them; `AcceptedIffRunnable`
for definitions without nested fields.
