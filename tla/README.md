# TLA+ models of the ERP RAG system

Models, model checks and machine-checked proofs of the concurrent and fault-handling parts of
the ERP RAG back end: a FastAPI process that answers natural-language questions over documents
and an ERP database, and a pool of Celery workers that prepares uploaded documents for retrieval.
Paths below are relative to the repository root; the application lives in `src/`.

## 1. The system

### Processes and shared state

| process | runs | keeps |
|---|---|---|
| API (uvicorn, one event loop) | middleware stack, routes, agents, LLM selectors | in memory: rate-limit windows, circuit breakers, degraded-mode cache, query log |
| Celery workers (`--concurrency=4`) | `ingest_asset`, `embed_asset` | a container of adapters per process, built at its first task |
| MongoDB | | `chunks`, `processed_assets`, `failed_tasks`, `users` |
| Milvus | | per tenant: a chunk collection and a `_state` collection with one record per embedded asset |
| Redis | | the job queue and the result backend |
| MinIO or local disk | | the uploaded bytes |

### Inventory

| component | state it keeps | operations | what makes it hard | correct when |
|---|---|---|---|---|
| upload route (`routes/data.py`) | none | save bytes, queue the ingest | two calls, either fails | an accepted upload has a job |
| ingest task and use case | chunk store, idempotency store | check, read, chunk, delete, insert, mark, dispatch embed | redelivery, retry, time limits, crash at any call; two deliveries at once | the chunks of a processed asset are one chunking; nothing is lost silently |
| embed task and use case | vector store and its state records | check, load, upsert each, record the count | as above; loaded chunks go stale | a recorded count means the vectors are there |
| dead letters, Celery results | `failed_tasks`, task states | save, mark FAILURE | several ways to end | a lost job leaves a trace |
| model selector, breakers | counters, opening times, one gauge | skip, attempt, success, failure, reset | clock and calls interleave, three selectors share a gauge | a failing provider is called a bounded number of times per cooldown; no provider is avoided without cause |
| degraded mode | answers by prompt | get, set, placeholder | stale entries | an answer out of the cache fits the question and its context |
| rate limiter | two tables of sliding windows | increment, reject, admit | window boundaries, order of the two checks | no window admits more than its limit; rejections have a cause |
| classifier, router | none | classify, route | outage and nonsense are handled differently | an outage never refuses a query |
| RAG, SQL, hybrid agents | none | retrieve, generate, validate, execute, merge | each step fails by itself | flags, payload and status agree with what happened |
| SQL pipeline | schema cache, query log | describe, generate, offline statement, validate, execute | two filters on statements, a cached failure, invented rows without a database | the filters agree; synthetic rows are declared; the pipeline's own statement does not fail |
| accounts, tokens | `users` or a table per process, a signing key | register, login (re-hash), reset, verify | read-then-write without a condition in several processes; restarts take keys and tables along | whoever is let in is known; resets stick and reach the right account |
| RBAC policy, PII masking, logging | none | per request | pure | a total, fail-closed matrix |
| tenant vector store, Milvus provider | two collections per tenant | look up a marker, create on first write, upsert, mark, drop a tenant | every call checks and then acts, remotely; drops meet running embeds | a marker means stored vectors; races cost no job; tenants never meet |
| asset storage | files | save, read | | bytes are there |
| chunkers, context builder, reranker, prompts | none | pure functions, HTTP calls | boundaries, fall back to input order | budget kept, order kept |
| wiring (`di/factory.py`), observability, admin routes | containers | choose adapters at start-up | differs between API and workers | every port is bound |
| evaluation, notebooks, planning kit | | offline | | not part of the running system |

The interactions: a request passes logging, authentication, rate limit, RBAC and PII masking
before its route. The upload route saves bytes, then publishes to Redis. A worker that finishes
an ingest publishes the embed of the same asset. The query route awaits router, classifier and
one or two agents, which call the selectors; the agents' selector is wrapped by degraded mode.
Retrieval reads the vectors that workers write meanwhile.

`PROJECT.json` lists the hazards with their lines and the properties that cover them.

## 2. Modules

| module | models | kind |
|---|---|---|
| `IngestPipeline` | upload, broker, workers, both tasks, all stores | state machine, properties |
| `IngestInvariants` | | inductive invariant of `IngestPipeline` |
| `AssetLifecycle` | what the pipeline promises of an upload | abstract specification |
| `IngestPipelineProofs` | | proofs |
| `IngestProgress` | the task runs an upload can still cause, and how far a run is from its end | measures of `IngestPipeline`, a property |
| `IngestProgressProofs` | | proofs |
| `IngestClaims` | | documented sentences the code does not keep |
| `LlmResilience` | selectors, breakers, gauge, cache membership, clock | state machine, properties, inductive invariant |
| `CircuitBreaker` | independent breakers without clock or loop | abstract specification of `LlmResilience` |
| `LlmResilienceProofs` | | proofs |
| `RateLimit` | both windows and the order of their checks, clock | state machine, properties, inductive invariant |
| `SlidingLog` | a log of every request and two counts over it | abstract specification of `RateLimit` |
| `RateLimitProofs` | | proofs |
| `QueryPath` | one query after the other through router, agents, cache and response | state machine, properties |
| `QueryPathProofs` | | proofs |
| `SqlPipeline` | generator, schema provider, validator and executor behind the SQL branch of `QueryPath` | state machine, properties, inductive invariant; refines `QueryPath` |
| `SqlPipelineProofs` | | proofs |
| `TenantStore` | the tenant vector store over Milvus, call by call, under workers that embed and a drop | state machine, properties, inductive invariant |
| `VectorStore` | what `VectorStorePort` promises | abstract specification |
| `TenantStoreProofs` | | proofs |
| `Accounts` | accounts, bearer tokens and password resets of several API processes, and who is let in | state machine, properties, inductive invariant |
| `AccountsProofs` | | proofs |
| `MCIngestPipeline`, `MCRateLimit`, `MCQueryPath`, `MCAccounts`, `MCTenantStore` | | symmetry sets and constants for TLC |

An operator whose comment begins with "Mutant" is a plausible bug of the operator that follows it.
No specification uses it: substituted for the real operator it must break a property, which shows
that the property depends on that line of the code.

### IngestPipeline

A message is a job with its retry counter; `queue` is a bag of them, since a redelivery and a
retry of one job can be queued together. `pc[w]` names the external call worker `w` makes next,
and every call is an action: another worker, an exception (`Raise`), the time limit (`TimeLimit`)
or the loss of the process (`Crash`) can come between any two. `MarkProcessed` and `SaveVectors`
may also take effect and raise, as an upsert whose answer is lost does. `Publish` by `Retry`,
`DispatchIngest` and `DispatchEmbed` may fail. A chunk is `<<generation, position>>`: the chunk
ids are fresh UUIDs, so each chunking is a generation of its own, and a vector is the chunk it was
computed of, as `upsert` is keyed by `chunk_id`. Several assets share nothing but the workers and
the broker. The result backend (`failure`), the dead letters (`failed_tasks`) and error lines in
the log that are the only trace of a loss (`error_log`) are sets of `<<task, asset>>`.
`IngestProgress` gives every message the number of task runs it can lead to (`Runs`), adds them up
over the queue, the workers and what a worker loss may put back (`RunsLeft`), and orders the steps
of one run (`Distance`).
`overlapped` and `torn` are history variables that name the two situations the code does not
protect against, so that the properties can say exactly what holds in all others.

### LlmResilience

One call at a time: `complete()` is synchronous inside a coroutine. `Begin`, then per provider
`Skip` or `Attempt` followed by `Succeed` or `Fail`, and `GiveUp` when the list is exhausted.
`Attempt` includes the reset that `is_open()` does when the cooldown has elapsed. `Tick` may come
anywhere, also while a provider works. `failures[b]` (history) is the list of times of the
failures since the last success; `started` when the running call began.

`CircuitBreaker` knows no time: an open breaker has a number of seconds left, which `Second` takes
down. The refinement mapping computes them from `opened_at` and the clock, so the reset that
`is_open()` makes when it is next asked, any time later, is invisible (`ImplementsBreakers`).

### RateLimit

`dispatch` awaits nothing before both checks are made: one request is one `Dispatch` step with
three outcomes. A window keeps the requests themselves rather than their times, which makes the
length of the deque the cardinality of the set.
`SlidingLog` remembers every request and evicts none; `ImplementsLog` says that nobody can tell.
Its variables are history variables here and have the same names. `arrivals`, `requests`, `passed`, `admitted` are
history.

### QueryPath

Nothing on the path suspends, so a process runs one query at a time and `asyncio.gather` runs the
RAG branch before the SQL branch. Each agent step has every outcome its calls can have: answered,
nobody answered (which brings in the cache), answered nonsense. `corpus` counts the writes of the
workers that retrieval can see; without an embedding of the query, retrieval finds nothing and the
branch goes on with the empty context (`Retrieve`). `database` is "none" when no ERP database is configured, which is
when rows are invented. `unanswered` and `malformed` record what went wrong in this query.
Refusals and errors carry the HTTP status the route sends.

### SqlPipeline

`QueryPath` lets the SQL branch write any kind of statement and end in any way; this module says
which. A statement is what the two filters and the database can tell apart: whether it is a SELECT,
the names that follow a FROM or a JOIN in it, whether the tenant is the bound parameter or a literal, what Stage 2 takes
offence at, a trailing semicolon, and the columns and clauses of the offline statement. The model
may write any of them (`Written`), as JSON, bare, or unreadably. `Unsafe` is `_reject_unsafe`,
`Errors` is `validate`; they are written apart in the code and share one regular expression.
`Describe` caches its first outcome for the life of the process, `Restart` forgets it, and the
database may go and come between any two steps. The table filter sees what its two regular
expressions find (`query_generator.py:308`): a table after a comma or in quotes escapes it, and the
column of an `EXTRACT(... FROM column)` counts as one. So `tables` holds these names, `DefaultTable`
among them stands for any that `ALLOWED_TABLES` has not, and a table out of the filter's sight that
the database has not is "unknown", as a column is. PostgreSQL is external: `Accepts` says what it
answers with rows, for the tables and columns of `docker/dev-data/erp_seed.sql`, which says of itself
that it matches what the generator emits. The date and status filters of the offline statement name
columns every table of that file has and are left out. `Whole` is the refinement mapping to
`QueryPath`.

### TenantStore

Every remote call of an embed is an action: look up whether the marker's collection exists
(`Lookup`), query it (`Query`), check for the collection of a record (`Check`), create it
(`Create`), write (`Upsert`); `drop_tenant` is four more. Any number of workers and one drop at a
time interleave between them. A call may raise with or without its effect (`CallFails`), a worker may be lost
(`WorkerLost`). A job is an embed message with its own retry counter: an ingest queues one
(`Dispatch`), and the broker may deliver one that is not acknowledged yet once more, with the counter
it carries (`Redeliver`). So several attempts at one asset may run at a time, as in `IngestPipeline`:
two ingests that overlapped, or a redelivery beside the retry. Creating a collection that
exists either raises or leaves it alone, since what Milvus answers is outside the repository. Records are
numbered in the order an embed writes them, the marker last, and each `insert_one` is one batch.
A collection is named by the readable part of the tenant and a hash; the instance that TLC checks
has two tenants with the same readable part. `disturbed` holds the jobs whose running attempt lost
vectors to a drop, each until its next attempt starts to write. `outlived` holds the assets whose marker
outlives their vectors: it stood when a drop took them, or an attempt wrote it that had lost some so;
an undisturbed attempt that writes it anew, and the drop of the markers, end that. `excused` holds the
jobs that met more than races. These three are history and name the exceptions; `drop_tenant` has no
caller in `src/` yet, so they wait for one.

Assumed: all attempts at an asset embed the same chunks, that is no ingest chunks it again in between
(`IngestPipeline` models that, in `ReplayConverges` and `NoDuplicateVectors`); drops come one at a
time; and the task's time limit, which ends an attempt as `WorkerLost` does but without a new
delivery, is left to `IngestPipeline`.

### Accounts

Several API processes start, stop and serve requests. `durable` and `configured` say whether
`MONGODB_URI` and a key pair are set: without the first each process has a table of its own
(`users[p]`, otherwise `users[Mongo]`), without the second a key of its own, numbered by its start;
both are gone with the process. No handler suspends, so a process is in one request at a time, and
`job[p]` is the request between its read of an account and its write: a login that renews a
deprecated digest, a request that attaches a reset token, a reset that found its holder. Requests
of other processes, a restart or a database error come between. `Register` is one step: the unique
index decides. `Status` is what `AuthMiddleware` and `RBACMiddleware` answer any other request; the
module and table guards of the latter read `erp_module` and `erp_table` of the request state, which
nothing in `src/` sets, so they never act. `chosen` and `born` of an account, `holder` and `spent`
are history. An account is its name: names are unique, nothing deletes an account, and tenants
are not modelled.

Two exceptions are part of the properties. A login that has read an old `sha256_crypt` digest can
renew it after a reset in another process, which then is undone (`ResetsStick` says it happens to
no other account). With a configured key but tables in memory a token outlives its account
(`AdmittedIsKnown` is about the other three settings).

## 3. Runs

| run | instance | shows |
|---|---|---|
| `ingest_safety` | 1 asset, 2 workers, 2 chunks, 1 retry, 1 crash | the type invariant, three safety properties, and that chunks stay |
| `ingest_refines` | the same with 1 chunk | the refinement of `AssetLifecycle`; the runs that are left only go down (`WorkRunsOut`) |
| `ingest_settles` | 1 asset, 1 worker, 2 chunks, 1 retry, 2 crashes | `EveryUploadSettles` |
| `llm_safety` | 2 selectors, 2 providers, threshold 2, cooldown 2, clock to 3 | four properties of what breakers block and show; the refinement of `CircuitBreaker` |
| `rate_limit` | 2 users, 2 addresses, limits 2 and 3, window 2, 6 requests | the budgets of every window, and the causes of rejections; the refinement of `SlidingLog` |
| `query_path` | 2 queries, 2 versions of the corpus | five properties of answers |
| `sql_pipeline` | 2 tables, every question and every statement | which statements are refused, which prompts are poor, which offline statements fail; the refinement of `QueryPath` |
| `tenant_store` | 2 tenants with an asset each, 2 jobs for one and 1 for the other, 2 workers, 1 chunk, 2 retries, 1 fault, 2 drops | markers, races to create, the refinement of `VectorStore` |
| `accounts` | 2 processes, 3 starts, 2 names, 2 passwords, 2 roles, 2 reset tokens, at most 2 accounts at a time | who is let in, and the fate of passwords and reset tokens |
| three `claim_...` runs | the smallest instance that shows it | a sentence of the documentation that the code does not keep |

Why the bounds are enough. Two workers are what an overlap takes, two chunks what a partial write
takes, one retry distinguishes the last attempt from the others, and a crash gives the redelivery
that runs beside the retry of the same job. One asset: assets interact only through the queue,
and the proofs hold for any number of them. In `llm_safety` two providers are needed for one to be passed over, two
selectors for the shared gauge, and three ticks fit a cooldown and the calls around it. In
`rate_limit` six requests exceed both limits and four ticks move every one out of the window.
In `query_path` two queries and two corpus versions make four prompts, so an entry can be stale in
either part. In `accounts` two processes are what an overlap or a foreign key takes, the third start
is a restart, two names and two tokens let a reset reach the wrong account, and two accounts are
enough for both names or for one name in both tables. `sql_pipeline` is unbounded: its state
is finite, and a second table lets a question name more than one. In
`tenant_store` two workers race for each of the two collections of a tenant, which takes the two
retries, and run two jobs of one asset beside each other, which a job of another asset of the tenant
would not do worse; the third job is the neighbour's. One fault and two drops come at every moment,
so an attempt can lose vectors, the drop can end, and another attempt at the asset start. One chunk
and the marker go to different collections, which is what the two kinds of record differ in, and
the proofs hold for any number. `MaxCrashes`, `MaxTime`, `MaxRequests`,
`MaxCorpus`, `MaxStarts`, `MaxAccounts`, `MaxFaults` and `MaxDrops` bound the behaviours and appear as guards of `Crash`,
`Tick`, `Dispatch`, `CorpusChanges`, `Start`, `Register`, `CallFails`, `WorkerLost`, `DropFails` and
`BeginDrop`; nothing else is cut off.

Deadlock checking is off where the modelled behaviour ends: the bounded clock and request count
(`llm_safety`, `rate_limit`, `accounts`), the ingest pipeline, which rests once every upload is settled,
and `tenant_store`, which rests once all jobs are over and no drop is left.

Fairness. `FairSpec` assumes that a worker that can take a step eventually does: a busy worker
because both tasks have `time_limit=300` (`TimeLimit` is part of the fair action, no particular
call has to return), an idle one because it consumes from the broker while it lives and
`restart: unless-stopped` brings it back. No fairness is assumed of uploads, crashes or clocks.

### Documented sentences the code does not keep

Three runs each check one sentence of a comment or document and TLC finds a behaviour against it;
`PROJECT.json` quotes the sentence and describes the behaviour. In short:

* A job that dies, or whose mark raises after taking effect, leaves an asset that is marked
  processed and never embedded; its retry reports "skipped" (`EveryIngestIsEmbedded`).
* Two overlapping deliveries of an ingest leave duplicate vectors (`NoDuplicateVectors`).
* A task stopped by its time limit, or whose container cannot be built, ends in FAILURE without
  the dead letter (`FailureHasDeadLetter`).

Others show in the definitions, without a run of their own:

* `circuit_breaker.py:6` speaks of a half-open state with one attempt; `is_open` (line 52) closes
  the breaker fully, so `MaxFailures` attempts follow (`Close`, `FailureBudget`).
* `query_classifier_agent.py:118` says that in an outage the hybrid path returns "whichever
  succeeds"; the merge has no provider either and keeps the RAG result alone (`hybrid_agent.py:172`,
  `Merge`).
* `_reject_unsafe` says it discards "SQL that Stage 2 would reject"; it does not look for forbidden
  keywords and patterns, and a statement with one becomes an error for the user
  (`RefusedForOffencesOnly` says these are the only ones).
* `erp_records`, the table of a question in which no keyword is recognised, is not in
  `ALLOWED_TABLES` and not in the seed: on a real database such a question comes back as an empty
  result, and so do "top 10" without a total and departments by month (`OfflineErrorHasCause`).
* `vector_db_provider_port.py:96` calls creating over an existing collection a no-op for racing
  workers; `create_collection` checks and then creates, so a race may raise. `RaceIsSurvived`
  shows that the retries absorb it.
* `hybrid_agent.py:71` speaks of a 502 when both branches fail; the route sends 503 (`Refusal`).
* `hybrid_result.py:20` and `:44` say that `rag_only` means the SQL branch failed; it is also set
  when both answered and the merge failed (`hybrid_agent.py:172`). `PartialMeansPartial` claims one
  direction only.
* `QueryLogEntry.nl_query` is given the statement, not the question (`query_executor.py:333`).

## 4. Proofs

TLAPS proves the theorems for every value of the constants that the named assumptions allow:
`NumChunks` and `MaxFailures` and `NumProviders` positive, the others natural numbers, the model
values outside the sets they mark the absence of. Every proof of an invariant has the same shape:
`Init => IInv`, `IInv /\ [Next]_vars => IInv'`, one step per action and under it one per conjunct
the action can disturb, then `IInv => Inv` and a last step by PTL.

* `IngestPipelineProofs`. `FinishedMeansStored` and `ReplayConverges` speak of the stores alone and
  are not inductive: the next write comes from what a worker has loaded. `IInv` adds what a worker
  in the middle of a job knows (`StoredInv`, `WritersInv`, `TodoInv`, `ReadersInv`), that jobs
  match their worker (`JobsMatch`), that embeds concern processed assets (`OrderInv`) and, for
  `NothingLostSilently`, an account of where every accepted upload is at present (`AccountInv`).
  `ChunksStay` and `Refinement` are action properties from the same invariant: a step of the
  pipeline is a step of `AssetLifecycle` or leaves its variables alone.
  `DuplicatesNeedOverlap` says when the comment of `upsert` holds that `NoDuplicateVectors` refutes:
  unless two ingests of the asset overlap.
* `IngestProgressProofs`. Why everything ends, as far as it can be said without fairness. `RunsLeft`
  is a sum of cardinalities of sets with one element per run, so the proofs need no induction:
  `WorkIsBounded` keeps them finite and at most 2 (MaxRetries + 1) (MaxCrashes + 1), and `WorkEnds`
  sorts the steps by what they do to the queue and to one worker (`StepKinds`: a message is
  published, taken or lost, or neither). A retry or a hand-over pays for the message it publishes
  with the run it ends, and a redelivery with one of the crashes. What is missing to
  `EveryUploadSettles` is fairness and that a measure cannot go down for ever. Within a run the
  measure is a pair, place and chunks left, since overlapping ingests can leave more than NumChunks
  chunks to embed.
* `LlmResilienceProofs`. `FailureBudget` compares failures MaxFailures apart; it needs `BatchInv`:
  `failure_count` counts exactly the failures since the last reset and the one before those is a
  cooldown old. `BreakersImplementAutomata` needs `CallInv`, that a call is under way only through a
  closed breaker, and goes over the breakers one by one: a step touches the one in `Here`, the clock
  takes a second off every rest.
* `RateLimitProofs`. The budgets need `CountersInv`: what a counter has evicted cannot be in any
  window that is still open, and what it keeps is what was counted. `NeighboursCannotStarve` counts
  the requests of an address by their users, each of whom has a budget (`Pigeonhole`).
  `CountersImplementLog` is the converse of the budgets too: the counter of a request holds exactly
  what the log counts against it (`CountersInv`, both directions), so no request is refused that the
  limits would let through. `WaitingSuffices` is its consequence for the `Retry-After` of a 429; it
  takes more than that many seconds, as a request on the edge of the window still counts.
* `QueryPathProofs`. The properties look at a finished query and at its last step only; what the
  earlier steps left behind is in `PhaseInv` (which branches are pending in which phase), `CacheInv`
  (every entry answers the prompt it is filed under), `OutageInv` (no classifier means the hybrid
  path) and `ResponseInv`. `WorldMoves` shows that workers and the database may step in anywhere.

* `SqlPipelineProofs`. `StatementInv` says what a statement is by where it came from (the model's
  has passed `Unsafe`, any other is the offline one), `StageInv` in which phase it exists, and
  `SchemaInv` ties the prompt to the first look. `Implements` maps every stage to a step of
  `QueryPath` or a stutter; its two sides use different words for a statement, which is what
  `StatementKind` and `ResponseTo` translate.
* `TenantStoreProofs`. `BehindInv` says that an undisturbed attempt has stored what it is past, so
  that its marker is honest whoever else writes for the asset; the flag is the job's, so a second
  attempt that starts afresh does not clear the first one's. `JobsInv` lets an asset run in several
  workers, a message in one. `RacesInv` counts what a race can cost: without another cause each
  retry stands for one of the two collections that somebody else created, which is why two retries
  are enough for any number of workers. `Implements` maps a write to `Upsert` or `Save` and the
  halves of a drop to the two erasures, for any tenant ids the hash tells apart.
* `AccountsProofs`. A request writes what it read earlier, so `JobsInv` says what of it still holds
  at the write, `TokensInv` that a reset token goes one way (issued, being attached by one process,
  carried by one account, spent) and `DigestsInv` that an old digest is that of the chosen password.
  `KeysInv` numbers the keys so that no two processes share a generated one, and `KnownInv` ties a
  bearer token to the store of the process that signed it.

Five theorems state more than a run checks: `EmbeddingFollowsIngest` (no embed before the mark),
`DuplicatesNeedOverlap`, `WorkIsBounded`, `WaitingSuffices` and `CacheKeepsAnswers` (no entry of the cache is lost).
Every invariant, action property and refinement of a passing run is proved. Only model-checked:
`EveryUploadSettles`, as fairness and the descent of a measure are out of the prover's reach
(`WorkRunsOut` is the part of its argument that is not), and the claims, which are refuted.

## 5. What is left out, and the plan

Not modelled: the text of prompts, answers, statements and chunks; HTTP clients; metrics other than
the breaker gauge; validation of request bodies. Several API processes are independent instances
of `LlmResilience`, `RateLimit` and `QueryPath`, as they share no memory.

Order of the plan, the most important behaviour first:

1. `IngestPipeline`, its abstract specification, runs and proofs: done.
2. `LlmResilience`, its abstract specification and proofs: done.
3. `RateLimit`, its abstract specification and proofs: done.
4. `QueryPath`, runs and proofs: done; its composition with `LlmResilience` (one selector per
   use-site deciding which calls go unanswered) is open.
5. `SqlPipeline`, its run and proofs: done. Open: `to_pyformat` against a reference definition.
6. `Accounts`, its run and proofs: done. Open: what a request already let in does while its account changes.
7. `TenantStore`, its abstract specification, run and proofs: done. `IngestPipeline` takes one
   upsert as atomic; stating it over `TenantStore` is open.
8. Pure algorithms against reference definitions: context budget, over-fetch and filter,
   rerank fallback, masking order, RBAC matrix, boundary-aware splitting.
9. `Startup`: which adapters the two kinds of process choose when MongoDB or Milvus is away.
