# Mundaneum: models, checks and proofs

Mundaneum keeps a personal library of BibTeX entries in PostgreSQL, a search
index of it in Meilisearch, tables of named entities computed elsewhere (NER
releases), and a local copy of what Semantic Scholar (S2) knows of the entries.
One FastAPI process serves the requests and runs three background jobs on one
asyncio event loop; command-line tools import files, rebuild the index and build
the local corpus. This directory models the program in TLA+, checks the models
with TLC, and proves what matters most for every instance with TLAPS.

Paths below are relative to `backend/app/` unless they start with `frontend/`.

## 1. The system

| Component | State it keeps | Operations | Talks to |
|---|---|---|---|
| S2 transport (`services/s2_transport.py`) | token bucket, its lock | `get`, `post`, over them `search`, `batch_papers` | S2 over HTTP |
| S2 sync (`services/s2_sync.py`, `s2_runtime.py`, `s2_sync_steps.py`, `s2_store.py`, `s2_resolvers.py`) | the claims in memory; `entries.s2_id`, `s2_papers`, `s2_citations` | `ensure_synced`: claim, resolve, check staleness, hydrate, release | transport, data sources, database |
| S2 backfill (`S2BackfillJob` in `runtime_components.py`, `backfill`) | its place in the batch | read a batch, sync its entries one by one, sleep | S2 sync |
| S2 data sources (`services/s2_sources.py`, `s2_source_registry.py`, `s2_corpus*.py`, `s2_resolvers.py`) | a DuckDB file, opened on first use | papers, references, citations, ids; a chain: local corpus, then live API | transport, corpus |
| S2 dataset pipeline (`services/s2_ingest*.py`) | shards on disk, DuckDB tables and sorted copies | download, ingest, index | S2, disk |
| Citation graph (`services/graph*.py`) | none | gather, select, draw; works in common | data sources, database |
| Bibliography checkout (`services/bibliography_repository.py`) | a git working copy, a lock | ensure | git in a thread |
| Bibliography contract (`services/bibliography_contract.py`) | none | which files are ingested, as what, in which order | disk |
| BibTeX parser (`services/parser*.py`) | none | an entry of a file to the columns of a row | |
| Bibliography ingest job (`BibliographyIngestJob`, `services/worker.py`) | the bootstrap task, the worker's task, its progress | start, trigger, stop, run over the files | checkout, ingest pipeline |
| Ingest pipeline (`services/ingest_pipeline.py`, `ingest_entities.py`) | entries, authors, venues, topics | a file in batches with a savepoint per entry, commit, publish | parser, database, events |
| NER ingest (`services/ner_ingest.py`, `NerAutoIngestJob`) | the tables of a release, a mutex | clear and rebuild; the job waits for entries first | database |
| Search projection (`services/domain_events.py`, `sync.py`, `cli/sync_meilisearch.py`) | the Meilisearch index | read changed entries back, send their documents; rebuild | database, Meilisearch |
| Search service (`services/search_service.py`, `search_backends.py`, `system_health.py`) | none | search in the index, else in the database; health | both |
| Collections, marks and backup (`services/collection_mutations.py`, `entry_mutations.py`, `admin_backup.py`) | collections and their order; notes and read marks | create, add, remove, delete; mark; export, import | database, events |
| Catalogue (`routers/authors.py`, `venues.py`, `topics.py`, `subjects.py`, `ner.py`, `concepts.py`, `trends.py`, `services/entry_queries.py`) | none | lists, details, pages, counts | database |
| Runtime supervisor (`runtime.py`, `main.py`) | the jobs | start in order, stop in reverse, close | the jobs |
| Frontend, storage, configuration, deployment | | see section 6 | |

`PROJECT.json` lists every component with its sources and what is and is not
modelled, and every hazard with the line where it bites and the properties
that watch it.

How they interact. A request for an entry or a graph starts `ensure_synced` in
a background task or awaits it; the backfill calls it too, so several tasks
sync at the same time, share the bucket of the transport, and meet on rows of
`s2_papers`. The checkout gives a tree to the ingest job, to
requests that ingest at once and to command lines, the contract says which
files of it are ingested and as what, the parser makes rows of them and the
pipeline writes these in batches, perhaps next to the command line doing the
same. Each commit of the pipeline or of a mutation publishes `EntriesChanged`,
and the projection runs in the publisher's task, so two projections overlap
whenever two requests do. The NER job waits until the entries its release was
made from are there. At shutdown the supervisor stops the jobs in reverse and
then closes the database. The dataset pipeline writes the DuckDB file that the
data sources of a running process read.

What makes each hard, and what makes it correct:

- *Transport*: the lock is held through a sleep; waiters are cancelled; retries
  queue again. Correct: requests stay within the rate, each attempt takes a
  token, no request is stranded.
- *Sync*: calls interleave at each `await`, a transaction spans HTTP requests,
  PostgreSQL may abort it, the process may die. Correct: one call per entry,
  claims given back, an entry resolved once, no half-written hydration.
- *Backfill*: its batch is out of date while it works through it. Correct:
  every entry that has a match and that the loop reaches gets it in the end.
- *Ingest job*: whether a second run starts depends on the order of callbacks;
  stop must find every task. Correct: one run, true progress, every request
  answered, nothing left after stop.
- *Checkout*: git commands are killed at a timeout, their call may be cancelled
  while the thread goes on, requests queue for it and command lines do not,
  somebody else's files may be at the path. Correct: a tree that is handed out is
  whole and current, nothing foreign is touched.
- *Ingest pipeline*: savepoints and commits fail, the session's objects and the
  batch's context outlive what was rolled back, two ingests share authors.
  Correct: counts and events speak of what is stored; canonical files decide.
- *NER ingest*: one transaction replaces everything, several may be asked for.
  Correct: readers find one whole release, a refused or dead ingest blocks none.
- *Projection*: read and send are apart, Meilisearch may be away, the process
  may die between commit and event. Correct: the index follows the database.
- *Collections and backup*: each request reads, then writes. Correct: names and
  members are unique, what was put last is last, an import restores an export.
- *Dataset pipeline*: downloads and loads are cut off anywhere and resumed by
  file names. Correct: what has its final name is whole, a load that ended is
  exact, both ends of a citation tell the same.
- *Pure parts*: limits, batches, several queries for one thing, fallbacks.
  Correct: the answer does not depend on them.

## 2. The modules

| Module | What it is |
|---|---|
| `S2Transport`, `S2TransportProofs` | the token bucket and the retry loop; its theorems |
| `EntrySync` | the abstract promise of `ensure_synced` |
| `S2Sync`, `S2SyncProofs` | `ensure_synced` step by step, with claims, rows and row locks; its theorems, the refinement of `EntrySync` among them |
| `S2Backfill` | the backfill loop, composed with `EntrySync` |
| `IngestJob`, `IngestJobProofs` | bootstrap, triggers, worker and shutdown on the event loop; its theorems |
| `Checkout` | the directory of the checkout, its lock, threads and git commands |
| `NerIngest` | the transaction that replaces a release, the job, requests |
| `Runtime`, `RuntimeProofs` | the process: start, stop and kill of the jobs, the requests and command lines that ingest, composed of `Checkout` and `NerIngest`; the theorems on all three |
| `IngestPipeline`, `IngestPipelineProofs` | files, batches, savepoints, commits and events of concurrent writers; its theorems |
| `SearchProjection`, `SearchProjectionProofs` | commits, events, the index, the rebuild; its theorems |
| `Collections`, `Backup`, `BackupProofs` | the requests of users; `Backup` extends `Collections`; the theorems on both |
| `S2Sources` | what the local corpus, the API, their chain, the resolvers and the meta endpoint answer |
| `S2Dataset`, `S2DatasetProofs` | download, load and sort of the corpus; extends `S2Sources`, which reads the result; its theorems |
| `BibliographyContract` | manifest, globs, inline blocks, validation, order of files |
| `BibtexEntry` | from the fields of an entry to a row, and back |
| `NerRows` | from the files of a release to rows, and what the endpoints tell of them |
| `CitationGraph` | gathering, ranking, selection and edges of a graph |
| `Catalogue` | the lists, details, pages and counts of the endpoints |
| `SearchService` | validation, the two backends, fallback, health |
| `Lists` | slices and sorts of lists, shared by the previous ones |
| `Algorithms` | asks each computation of `S2Sources` and the following ones one question at a time |
| `MC...` | the values of constants for TLC |

The action or operator that models a piece of code is listed with the lines in
`PROJECT.json` under `map`. In each module the operators whose comment begins
with "Mutant:" are deliberately wrong versions of the next definition; nothing
uses them, they are there to show that the properties notice such a mistake.

**S2Transport.** `_acquire_token` is `Enqueue` (line up for the lock),
`TakeToken` or `SleepForToken`, and `WakeWithToken`. The loop in `get`/`post` is
`Respond`, `RetryLater` and `BackoffOver`; `Cancel` is a cancellation at any of
the awaits. Time is discrete: a tick refills one unit and `Unit` units are a
token, so that the real rates are instances (0.9/s: `Unit = 10, Capacity = 9`;
10/s: `Unit = 1, Capacity = 10`). `MaxLate` lets the loop serve timers late.

**S2Sync.** One action per stretch between awaits: `Claim`, `LoadEntry`,
`Resolve`, `SetEntryId` (with its commit), `CheckStale`, `GetPaper` (corpus
step, then API step), `UpsertPaper`, `FetchLinks`, `InsertStub` (row by row, as
PostgreSQL executes the batch), `Commit`, `Raise`, `Release`. The database is
external and modelled as far as the code depends on it: a transaction locks the
rows it writes, waits for locked ones, and `DeadlockVictim` ends a cycle. Rows
are absent, stubs or full; `fresh` is whether `updated_at` is recent.
`Expire` lets it age, `Restart` kills the process. `Library` are the ids that an
entry has; GET `/graph` takes any. Of edges that come in pages a failure may
leave any part (`Pages`).

**EntrySync** knows only which entry each call holds, what entries were resolved
to, and which papers and links can be read. `S2Sync` implements it under the
mapping in `Promise`: `syncing` is the entry of a call between claim and
release, `hydrated` the full rows.

**S2Backfill** extends `EntrySync`: calls of requests and of the loop are its
`Begin`, `Resolve`, `Hydrate` and `End`, which is justified by the refinement.
The loop is `StartBatch`, `NextEntry`, `EndCall`, `EndBatch`.

**IngestJob.** The variable `ready` is asyncio's queue of callbacks: a task runs
to its next await when it is at the head. That order matters: `worker.start`
looks at a status that a run sets in its first step only. `Trigger` and
`CheckedOut` are the two halves of `trigger()`, `Acquire`/`Granted`/`GitReturns`
the checkout, `RunBegin` to `RunFailed` the worker's `_run`, `StopBootstrap`,
`StopWorker`, `Stopped`, `BootstrapCancelled` and `RunCancelled` the shutdown.
`overlapped` is a history variable: a trigger with a directory, which waits for
nothing, and another start met before either run had taken its first step.

**Checkout.** `dir` is what is at the path: nothing, something foreign, another
repository, or a clone with its tree, the remote version it knows and git's
index.lock; `refresh` is the setting `bibliography_runtime_sync_enabled` that all
callers pass on. A call is `Ask`, `TakeLock` (calls of the server wait for each
other, a command line for nobody), `Answer`, or `CancelCall`, which gives the lock
back and leaves the thread alone. The thread runs `Look`, `Clone`,
`DefaultBranch`, `Fetch`, `CheckOut` and `UpdateEnds`; a clone and the update of the
files have a beginning and an end, with others in between, and any command may
fail or be killed there (`GitFails`, `CloneFails`, `KillCalls`). `since` and `met` are
history variables: the version upstream when a thread began, and whether a
thread of another process was at work next to it.

**NerIngest.** Rows are `<<table, release, item>>`. `Enter` takes the mutex or
refuses, `Clear`, `Atlas`, `IngestFactsOf` and `Signals` are the statements of
the transaction, which sees what others commit in between, `Commit` and `Leave`
its end. `ResolveRelease`, `CheckLatest`, `Poll`, `Wake`, `BeginIngest` and
`Finish` are the job, which may fail at each point (`Fail`), `Post` a request.

**Runtime** starts the jobs one by one (`StartNext`), stops them in reverse
(`StopNext`), closes and exits, or is killed. The bootstrap, `Trigger` and
`ImportBibtex` ask for the checkout while others wait for it or a run is under
way, `TriggerDirectory` starts a run without it, `CommandLine` is a process of its
own that outlives this one. What the checkout answers starts a run of the worker
or ingests at once (`CheckedOut`, `StartRun`, `RunBegins`). An ingest reads what
is at the path by then (`IngestOne`), whatever it was given, and each of its
entries may be one the NER job waits for. Of the event loop's order, which
`IngestJob` has in full, one consequence is kept (`StartsInTurn`: a scheduled run
takes its first step before the next checkout is answered). `overlapped` marks a
run started before another had begun. Of the backfill only running or not is kept.

**IngestPipeline.** A writer goes through its files. For each batch it looks up
the authors (`BeginBatch`), then the other related rows (`LoadTopics`), inserts
those that are missing (`InsertRelated`) and loads the entries (`LoadEntries`).
It goes through the rows of the batch (`SkipRow`, `CreateEntry`, `UpdateEntry`, `RepeatEntry`, each
with its savepoint), `Commit` and `Publish`. `context` is the batch's dictionary
of entries, which no rollback restores, `session` the identity map of a writer
that keeps its session. `Deadlock` is what PostgreSQL does to two writers that
wait for each other.

**SearchProjection.** An entry is the version of its last commit. `Commit` ends
with the event published or dropped, `Load` and `Send` are the two halves of
`on_entries_changed`, `StartRebuild` and `Send` the command-line rebuild, `Apply`
is Meilisearch working on its queue, `Skip` and `Crash` what loses a document.

**Collections, Backup.** Each request is its reads (`Begin...`) and its writes
with the commit (`End...`); an import is two writes, since it flushes before it
is done, and the rows it has written make others wait. `file` is the last export
or one made elsewhere. `Found`, `Left` and `Clash` are what the import meets when it
commits; `ImportLoses` is the error of one whose collection another request
takes or deletes. Lists that no query orders are any of their orders (`EndExport`,
`Details`).

**S2Sources, S2Dataset.** The corpus is a function from tables to the sequences
of their rows; a source answers a value, `None`, or `Raises`, or the part of it
that was read before a query failed (`Answering`). The commands are
state machines over it: `GetLinks`, `FetchShard`, `SkipShard`, `FetchFails`,
`LinkExpires`; `BeginLoad`, `LoadStatement` (one table each), `EndLoad`;
`BeginIndex`, `SortTable`, `EndIndex`. `OpenApp` is the application holding the
file, which locks the commands out as they do it.

**Algorithms.** Its modules hold operators and no state. A behaviour is a
question chosen in the initial state and its answer; an invariant compares the
answer with a definition of what was asked that does not follow the code: the
language of a glob, the sum of all facts, the set of rows behind a count.

## 3. What the runs check

| Run | Instance | Properties |
|---|---|---|
| `transport` | 2 callers, rate 1 token per 2 ticks, bucket of one token, 2 attempts | `TypeOK`, `WindowBound`, `AttemptsPaidFor`, `RequestsEnd` |
| `sync_safety` | 2 workers, 2 entries and an id without one, 3 papers, 2 links; requests may fail, calls may raise, the process may restart | `TypeOK`, `ClaimsExact`, `LinksGrounded`, `ResolvedOnce`, `KeepsPromise` |
| `sync_live` | 2 workers on 2 papers that cite each other, one also itself | `ClaimsReleased`, with deadlocks and refused hydrations |
| `sync_fresh` | as `sync_safety`, no failures | violates `FreshMeansHydrated` |
| `backfill_live` | 4 entries, the 2nd and the newest without a match, batches of 2, one restart | `TypeOK`, `BackfillResolves` |
| `ingest_job` | 2 requests, with or without a directory, 3 runs, 2 files | `TypeOK`, `OneRun`, `ProgressTrue`, `StopLeavesNothing`, `EverythingEnds` |
| `projection_orderly` | 2 writers, 2 entries, 2 versions, failures | `TypeOK`, `OrderlyMeansCurrent` |
| `runtime` | 2 releases, 1 paper, 1 request for a release; the bootstrap, a trigger, an import, a directory and a command line, 2 of the last four; 2 versions upstream, refresh on and off; 1 git command failed or killed, 1 restart | `ProcessSafe`, `ReleasesSafe`, `OthersUntouched`, `ProcessEnds` |
| `ingest` | 2 writers, 3 entries, batches of 2, a broken row, 1 failed commit or crash, a second try | `AccountsTrue`, `StoredAsParsed`, `CuratedKeepsCanonical`, `IngestsEnd` |
| `user_state` | 2 users, 1 name, 2 collections, 2 entries, 5 requests, 2 foreign files | `BackupTypeOK`, `UserStateKept`, `CallsAnswered` |
| `dataset` | 2 releases of 3 datasets with up to 2 shards, 3 commands, 2 attempts | `CorpusWhole`, `TwoSidedAtFirst`, `CommandsEnd` |
| `algorithms` | 33,337 questions of 19 kinds | `FilesByContract`, `EntriesKept`, `ReleaseTold`, `SourcesAnswer`, `GraphDrawn`, `ListsAgree`, `SearchHonest` |

Several of these are conjunctions of named parts, each stated and commented
where it is defined:

- `ProcessSafe`: the type invariant; however many ask, a refreshed checkout that is
  handed out is whole and no older than the call, one that is not refreshed is a
  repository, unless another process was at work on it (`CheckoutCurrent`); a
  closed process has no job, lock or transaction, and no run but one that
  overlapped, and one that is down no thread either (`QuietWhenClosed`).
  `OthersUntouched`: nobody else's directory is changed, nor a checkout with the
  refresh off. `ReleasesSafe`: readers find one whole release
  (`OneRelease`), the mutex is held by the ingest under way (`LockFollowsIngest`),
  "complete" is said of a committed release (`StatusTrue`). `ProcessEnds`: the NER
  job does not wait for ever (`JobEnds`), a stop ends (`StopEnds`).
- `AccountsTrue`: types; what is counted or announced is committed
  (`CountsTrue`); an ingest without errors stored all it was given
  (`DoneIsComplete`). `StoredAsParsed`: an undisturbed ingest leaves exactly what
  its files say (`AloneIsExact`); with any others an entry is as it was, or has a
  title of its sources, all authors of one of them and no author from elsewhere
  (`AuthorsAsParsed`).
- `UserStateKept`: an addition is shown behind what was there (`AddedLast`), a
  mark is announced (`MarksAnnounced`), an import restores what an export took
  (`RestoreExact`).
- `CorpusWhole`: types; a shard with its final name is whole (`ShardsWhole`); a
  load that ended left each row once (`LoadedExactly`).
- `FilesByContract`: globs match their language, braces are matched, a file
  carries what its role may carry, replaced topics stay away, canonical files
  come first. `EntriesKept`: parse after export is the identity, no empty file
  path, an author once, an exact alias of a venue wins, subareas are told from
  parents. `ReleaseTold`: statements fit PostgreSQL, facts add up over batches,
  bundle numbers are unique, node keys lead back to their entity, neighbours are
  symmetric, movers are the latest, growth follows the counts. `SourcesAnswer`:
  the fast path agrees with the slow one, limits keep influential edges, the
  similar title wins, the meta endpoint shows a paper only of the source.
  `GraphDrawn`: the most similar papers, edges between drawn nodes, symmetric
  similarity. `ListsAgree`: pages cover a list, counts are sorted as shown, list,
  detail and rows agree, and the rows fail for an author with an entry that has a
  venue, nowhere else. `SearchHonest`: index and database are asked for the same
  entries in the same order, no search without the index passes for a result,
  public and operator's health agree.

Every property has at least one mutant of the code that violates it, and the
conjunctions one for each part (but for parts that only say the types).

Bounds and why they are enough.

- *transport*: requests are made up to tick 6 and the clock stops at 24, later
  than any of them can end. With 2 callers one sleeps with the lock while the
  other waits, is cancelled, or is in its backoff; 6 idle ticks are three times
  what the bucket can hold. Timers are on time here (`MaxLate = 0`); the proofs
  cover late ones and every other constant. The clock's end is a stop, so
  deadlock is not checked.
- *sync*: two workers are the least that compete for a claim and for rows, and a
  deadlock needs two. `e1` may resolve to the paper of `e2` or to another, so two
  entries may share one; `p3` belongs to no entry and is only ever a stub; `e3` is
  an id without an entry. In the live run `p2` also cites itself, the one link that
  both edge requests return. No counter needs a bound.
- *backfill*: with batches of two, entry 3 has one newer entry without a match
  and is reached, entry 1 has two and need not be; `MaxRestarts` is 1.
- *ingest_job*: three runs are as many as the bootstrap and two requests can
  start; two files give a run a middle. The system ends with the shutdown, so
  deadlock is not checked.
- *projection*: two versions are the least of which an older one can overtake;
  `MaxQueue` bounds the rebuilds queued at Meilisearch.
- *runtime*: two releases, of which the older has no facts and the newer one
  paper, make stale reads and waiting visible. A second version upstream may come
  at any time, so a tree is old, torn or current; with the bootstrap, two requests
  and a command line, one holds the lock, one waits, and one is at work beside
  them. To keep the product small, `MCInit` starts a behaviour as one of three
  things: the ingests of releases while the checkout fails; the job and the
  bibliography's ingest it waits for; who asks for the checkout, while there is no
  release, with one kill of the process or one failing command. The theorems have
  no such split. The process may stay down, so deadlock is not checked; so in the
  following runs, which end when their requests do.
- *ingest*: the two writers name the entries, and the authors of two rows, in
  different orders, so that they deadlock over entries and over names; `k1` is
  stored and named in different versions, so that authors of two of them meet and
  a link to be kept is gone; `k3` is broken and named twice in one file; a batch
  of two splits each role's rows of the job. `MaxFaults` and `MaxRuns` bound
  faults and tries.
- *user_state*: five requests are enough to make a collection of two, export,
  change and import it, or to let two requests meet on one name or member.
- *dataset*: the second release adds, removes and renames; three commands are
  enough to download, load and load again; two attempts per shard for three.
- *algorithms*: inputs are all small ones over the tokens each computation tells
  apart, limits are scaled down (7 values per statement for 32,767, graphs of 3
  nodes for 200) so that every cut happens.

Fairness, and what justifies it.

- *transport*: a caller's next step and time (`asyncio` runs what is ready, httpx
  has a timeout of its own). Nobody has to be cancelled.
- *sync*: a started call goes on, since requests end by themselves and
  PostgreSQL runs its deadlock detector. Getting a locked row is strongly fair
  because a waiter is queued on the transaction that holds it. No call has to be
  made.
- *backfill*: the loop and the calls go on. That an entry asked for again and
  again is found at last is an assumption about S2, named in
  `BackfillFairness`: without it nothing can be promised.
- *ingest_job*, *runtime*: the event loop and the threads go on; git has a
  timeout and the clients of Meilisearch and PostgreSQL answer or raise. No
  request has to arrive and no shutdown has to be asked for.
- *ingest*, *user_state*, *dataset*: a request, a writer or a command that has
  begun goes on, waiters are woken by the commit or the deadlock detector; nobody
  has to begin.

## 4. Where the code differs from its documentation

One run is expected to fail. `FreshMeansHydrated` ("Ensure an entry has
up-to-date S2 data", `services/s2_sync.py:60`): a stub inserted for the far end
of a link has `updated_at = now`, and `ensure_synced` then answers FRESH for the
entry that has this paper, without ever fetching it, for a week.

The other properties are stated so that they hold, with what does not hold
excepted by name. What the exceptions stand for:

1. *Rate.* `_last_refill` is set before the sleep, so the time slept for a token
   is credited again (`services/s2_transport.py:63`). The bucket sustains up to
   twice the rate that `config.py:56` names; `WindowBound` is that bound.
2. *Edges.* A failed request for edges is an empty list, and the sync is SYNCED
   without them (`services/s2_sync_steps.py:180`).
3. *Starvation.* `unresolved_entries` always takes the newest ones, those without
   a match too (`services/s2_store.py:131`); hence `Reached` in
   `BackfillResolves`.
4. *Two runs.* A trigger with a directory whose turn comes before the first step
   of a scheduled run starts a second one (`services/worker.py:106`), though
   `routers/admin.py:87` says "If already running, returns current status without
   restarting"; they share the progress, and `stop()` cancels the last one only.
   `overlapped` marks exactly this.
5. *Overtaken documents.* Of two projections of one entry the older document may
   be sent last, and stays (`services/domain_events.py:85`), without any failure;
   `orderly` excepts it, and the loss of a document.
6. *Authors of two versions.* Of two ingests that load an entry before either
   commits, the second adds its authors to those of the first
   (`services/ingest_entities.py:255`), hence the union in `AuthorsAsParsed`, and
   the title may be that of the other one. Had both an author before whom the
   first has dropped, the link that the second keeps is gone and its row fails.
7. *Phantoms.* An entry whose insert failed stays in the batch's context
   (`services/ingest_pipeline.py:78`); a duplicate in the same batch is then
   counted though nothing is stored, which `CountsTrue` excepts. It has no id, and
   the event that names it raises (`services/domain_events.py:75`): the ingest
   ends with an error after the commit.
8. *Restored order.* The export does not ask for `sort_order`
   (`services/admin_backup.py:49`), so a restored collection may show its entries
   in another order, though `routers/admin.py:34` says it can be restored; and an
   import announces no mark. `RestoreExact` and `MarksAnnounced` except these.
9. *Sorted copies* are kept when they exist (`services/s2_ingest_duckdb.py:174`):
   after a second load the two ends of a citation disagree, until `reloaded`.
10. *Ties.* Pages are sorted without a tiebreaker (`routers/entity_common.py:34`),
    so with equal values rows can be missed; `PagesCover` is about distinct ones.
11. *Checkout.* `ensure_checkout` ("Ensure the configured repository exists locally
   and is current.", `services/bibliography_repository.py:50`) returns what is there
   when `bibliography_runtime_sync_enabled` is off (line 109): an old tree, a torn
   one, or a clone that was cut short. `CheckoutCurrent` says of this case only that
   it is a repository.
12. *Command lines.* The lock of the checkout is the server's (line 47): a command
   line fetches and checks out at the same time, and either may hand out a torn
   tree; `met` excepts them. And whoever holds the lock changes the tree under the
   ingests that were given it before (`routers/ingest.py:78`), so what an ingest
   reads is no version in particular (`IngestOne`).
13. *Stop.* A run that overlapped (4.) is not found by `stop()` and goes on while the
   services are closed, until the loop ends; hence `overlapped` in
   `QuietWhenClosed`.
14. *Entries of an author.* GET `/authors/{id}/entries` reads `entry.venue`, which its
   query does not load and an asynchronous session refuses to load later
   (`routers/authors.py:117`, `routers/entity_common.py:86`): an error for an
   author with an entry that has a venue. `CountsAgree` says so.
15. *Fallback search.* The database is asked for a `SELECT DISTINCT` of ids ordered by
   another column, which PostgreSQL refuses (`services/search_backends.py:118`):
   every search without the index is answered "unavailable", though
   the warning speaks of degraded database results. `DegradationTold` says so;
   `BackendsAgree` is about what is asked, not about that answer.

Reading the same lines shows more, which no property states:

- the corpus step's upsert of an existing row does not touch `updated_at`, so a
  stale row is stale again at once (`services/s2_sync_steps.py:89`); an entry whose
  paper could not be fetched after its `s2_id` was committed is not looked at by
  the backfill again (`services/s2_sync.py:81`);
- the local corpus' first query stands outside its `try`: a locked or empty file
  raises and the API is never asked; and a known paper without loaded citations
  is answered `[]`, which `services/s2_protocol.py:62` takes for none at all;
- a shard that was given up counts as skipped, and the release as complete
  (`services/s2_ingest_download.py:169`);
- `render_bibtex` writes the author twice for a type that does not require one
  (`services/entry_exports.py:28`), and cleaned text is not escaped again;
- `max_nodes` is said to be "prioritized by citation count" (`services/graph.py:49`)
  and cuts by similarity; edges may end in nodes no paper is known for;
- a stale `index.lock` of a killed git refuses every later checkout, and a clone
  cut short is healed only by a configured ref
  (`services/bibliography_repository.py:181`);
- GET `/s2` answers "pending" for ever for an entry whose sync fails.

## 5. What is proved

All proofs are for every value of the constants that satisfies the assumption of
the module. These say that a model value is none of the things it stands next to
(`None` is no paper, "nobody" no call, `NoKey` no key), that counts and bounds are
natural numbers, and:

- `TransportAssumption`: `Unit`, `Capacity` and `MaxRetries` are positive;
- `SyncAssumption`: matches and the ends of links are papers;
- `NerAssumption`, `CheckoutAssumption`, `RuntimeAssumption`: releases are finitely
  many, in order; callers of the server and command lines are different, and so
  are the kinds of requests; the papers that a tree brings are those the job may
  wait for;
- `CollectionsAssumption`, `BackupAssumption`: a foreign backup has the shape that
  its schema asks for;
- `IngestAssumption` of the pipeline: a writer has a file, a batch at least one
  row, and the initial entries are entries; of the job: requests, runs, bootstrap
  and shutdown are different tasks;
- `DatasetAssumption`: releases are finitely many numbers, a shard is a list of
  rows, and the identifiers a row is sorted by are numbers.

Papers, entries, links, keys, workers, writers, requests and runs may be infinite.

**Transport** (`S2TransportProofs`): `TypeCorrect`, `RateBounded`
(`WindowBound`), `AttemptsBounded` (`AttemptsPaidFor`). `WindowBound` is not
inductive: it says nothing of what the bucket can hand out next. `CreditInv`
adds that, for each past grant: tokens handed out since plus those in the bucket
stay below the capacity plus two per tick. While somebody sleeps the account
is kept as of `lastRefill`, which is why the sleeper must be known to hold the
lock and to wake exactly when the missing units have accrued (`LockInv`). A tick
is counted at most twice, once slept and once refilled.

**Sync** (`S2SyncProofs`): `TypeCorrect`, `ClaimsAreExact`, `LinksAreGrounded`,
`EntriesResolvedOnce`, and `Implements`: `S2Sync` refines `EntrySync`. The
invariant `IInv` joins to the checked invariants what a call knows at each point
(`CallInv`), that locks are exclusive and cover only the call's paper and absent
rows (`LockInv`), and that each end of a fetched link is the call's paper, still
to be written, written in this transaction, or there (`FetchedInv`).
`LinksGrounded` needs the last: without it a commit could store a link to a row
that was rolled back elsewhere. `ResolvedOnce` needs `ClaimsExact`: only the
holder of the claim can have read that the entry was unresolved. The refinement
needs `LockInv`, for a commit must turn exactly one row full.

**Ingest job** (`IngestJobProofs`): `TypeCorrect`, `OneRunAtATime` (`OneRun`),
`ProgressIsTrue` (`ProgressTrue`), `StoppingLeavesNothing` (`StopLeavesNothing`).
`OneRun` is a fact about the order of callbacks, so the invariant describes the
queue: a task is in it exactly when nothing it awaits is still to come, and once
(`QueueInv`), and the lock's queue has its holder first (`LockInv`). The decisive
part is `OrderInv`: a task that comes back from git stands behind every run that
has not begun. A run is put into the queue by the previous holder of the lock,
before git can end for the next one, so it has set its status before the next
one looks. `LatestInv` then says that unless two starts met, the run that is live
is the latest, the one `stop()` will cancel (`StopInv`).

**Process, checkout, NER ingest** (`RuntimeProofs`): `ReleasesAreSafe`
(`ReleasesSafe`), `ProcessIsSafe` (`ProcessSafe`), `OthersAreUntouched`
(`OthersUntouched`). `OneRelease` is not inductive, since it says nothing of open
transactions: `TxInv` adds that one has deleted all rows there are and inserts
rows of its release only, and `LockFollowsIngest` that there is at most one, for
it takes the mutex before it deletes. The NER part is an invariant of
`NerIngest` alone; a step of the process is one of its steps or leaves its
variables alone (`NerMove`), which carries it over. For the checkout, `DirInv`
says what a thread that met no other process knows of the directory at each
command: what it has fetched, and what git holds its lock for, is no older than
its call. That needs that such a thread works alone (`MetInv`), of any number of
callers. The lock alone does not give it (`WorkerInv`), since a cancelled call frees
it while its thread goes on: `ThreadInv` says that this happens only in a process
that is closing, in which no call comes any more (`AskedInv`). `PathInv` keeps
commands off foreign directories, whoever else is at work. `PhaseInv` says which
jobs are at rest in each phase, and `RunsInv` that but for an overlap the run under
way is the latest, the one that `stop()` cancels, from which a closed process has
none.

**Projection** (`SearchProjectionProofs`): `TypeCorrect`, `IndexIsCurrent`
(`OrderlyMeansCurrent`). `FlightInv`: while the history is orderly an entry is on
its way with one sender, and that one has read the committed version.
`SettledInv`: an entry that is on its way with nobody is brought by the last of
Meilisearch's tasks that names it, or is in the index when there is none. When
nothing is left on the way, the second case is the property.

**Ingest pipeline** (`IngestPipelineProofs`): `AccountsAreTrue` (`AccountsTrue`),
`CuratedKeeps` (`CuratedKeepsCanonical`), `StoredIsAsParsed` (`StoredAsParsed`).
A writer decides on what its session shows, which may be older than what is
stored, and writes the difference, so that no property follows from the step
alone. `Later` is the order that makes up for it: a later version has all topics
of the earlier, a canonical title if that had one, and none of the replaced
authors back. `VersionInv`: what is stored is a later version of what a session
shows, and what a transaction has written is a later version of what is stored.
It needs `LockInv` (nobody else commits an entry that a transaction has written)
and lemmas on each computation of a row (`CanonicalVersion`, `CuratedVersion`,
`NewVersion`). `LinksInv` keeps names and links together, through `BatchInv`,
which says that the names of a batch are there before its rows are. `CountInv`
gives `CountsTrue`; `DoneInv` follows a writer without errors row by row and gives
`DoneIsComplete`. That is enough for the part of `StoredAsParsed` that is about
several ingests.

The part about one that is alone, `AloneIsExact`, is an equation, and an order of
versions gives bounds only. `ExactInv` holds as long as a writer is alone, and is
given up by the first step of another one or the first fault. It says that for an
entry none of whose rows is broken the session shows what the transaction has
(`Honest`), and that this is what the files say up to the row the writer is at
(`SoFar`). Two things make it more than a loop invariant. A broken row of another
entry makes the ingest fail, and the next run takes all files from the start over
what the first has stored; so `SoFar` bounds the topics from above by all rows
and from below by those taken again, and title and authors by the last canonical
row taken *again*, if any. And a row may be written as new only if no entry is
stored: `ContextFull` says that the batch's context has every stored entry of the
batch. An entry that is not broken never fails, for its names are there
(`BatchInv`) and nobody else inserts it.

**Collections and backup** (`BackupProofs`): `TypeCorrect` (`BackupTypeOK`),
`UserStateIsKept` (`UserStateKept`). A request writes what it decided on when it
read. `LockInv` says what a restore has written: no collection has a name that it
has inserted and nobody else restores, so its commit keeps names unique.
`RequestInv` says what a request knows: the position of an addition is behind all
members it found, hence behind those that have kept their place (`AddedLast`).
`RestoreExact` needs `AloneInv`: what a restore has read and locked, when it met
nobody, is still what is stored, so that nothing clashes (`AloneCommits`) and
what its commit leaves (`CommitOutcome`) is what the file says.

**Dataset pipeline** (`S2DatasetProofs`): `TypeCorrect` (`DatasetTypeOK`),
`CorpusIsWhole` (`CorpusWhole`). `LoadedExactly` says something only when a load
has ended; what it rests on is `LoadInv`: while a dataset is loaded each of its
tables holds the rows that the statements so far have added, in their order, and
the dataset does not count as loaded. Of the tables that a killed load leaves
nothing is claimed but the kind of their rows; the next one empties them first. `ShardsKnown` says
that the shards of a load are shards of one release, each once, though files may
come and go below it. After the load the sort may put copies beside the tables
and another dataset's load may write its own; `LoadedInv` says that the bag of
rows stays, which needs `RowsKnown` (a table has rows of its dataset, hence keys
that compare) and `SortInv` (the tables that a sort has listed are still there).
The rows are concatenations of the shards' rows, defined recursively; what they
contain is shown by an induction that quantifies over sets (`Induction`).

**Only model-checked**, and why:

- all liveness (`RequestsEnd`, `ClaimsReleased`, `BackfillResolves`,
  `EverythingEnds`, `ProcessEnds`, `IngestsEnd`, `CallsAnswered`, `CommandsEnd`):
  the prover handles neither fairness nor ENABLED;
- the pure computations of `Algorithms`: most are folds, selections and sorts of
  lists, on which the prover has no definition to unfold. The induction of
  `S2DatasetProofs` reaches recursive functions over numbers, not these;
- `TwoSidedAtFirst`: it compares two queries of the corpus, which are such folds
  and selections. `CorpusIsWhole` proves what they are asked about;
- the type invariant of `S2Backfill`, whose batches are sorted sets.

## 6. What is not modelled

- The connection pool: GET `/s2` and the backfill hold a connection while
  `ensure_synced` asks for another (`database.py:44`).
- The frontend: its request composables drop late answers by version numbers,
  with gaps that `PROJECT.json` lists; the views are presentation.
- A background job whose stop raises: `runtime.py` has no handler for it.
- A backup that names an entry or a collection twice.
- Answers under another paper id than the one asked for, contexts and intents of
  links, and the delays between backfill batches.
- Steps that are coarser than the code. A failing NER ingest rolls back and gives
  its mutex up in one step (`Fail`). The statements of an import come in two
  groups, and those of two imports do not mix: where they would collide,
  `ImportLoses` is what the later one gets. `Publish` may also raise for a key that
  was a phantom in an earlier file only. `FetchShard` takes it that the server
  announces a length; without one the code compares nothing
  (`services/s2_ingest_download.py:121`). In `Runtime` the turns of the event loop
  are those of `IngestJob` only as far as `StartsInTurn` says, and a request is
  never cancelled: a stop lets the requests end first.
- LaTeX decoding, the cleaning of names and the BibTeX tokenizer, TOML and JSON
  readers, wording and formats: texts are tokens or model values, and a cleaning
  is an operator of which a run gives a table.
- The object storage module, which nothing uses; configuration, schemas and
  middleware, which are declarations; deployment scripts.

Next, in this order: the pool, composed with `S2Sync`; the request composables;
the type invariant of `S2Backfill`.
