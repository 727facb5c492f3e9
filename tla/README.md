# A formal model of the manga-library ML worker

TLA+ modules, TLC configurations and TLAPS proofs for the Python worker in
`src/src/worker`. The worker takes jobs of a manga translation pipeline (panel
detection, OCR, cleanup, translation, layout, QA, redo, render) from a backend over
HTTP, runs each in a thread of its own, and answers the backend over HTTP. Its image
processing is numeric; what is hard in it is everything around: who may run, who
holds what, who may still speak for a job, and which configuration is in force.

Paths below are relative to `src/src/worker/` unless they start with `src/`.

## Contents

1. [Inventory](#1-inventory)
2. [Modules](#2-modules)
3. [Runs](#3-runs)
4. [Where code and documentation disagree](#4-where-code-and-documentation-disagree)
5. [Proofs](#5-proofs)
6. [What is left out](#6-what-is-left-out)
7. [Plan](#7-plan)

## 1. Inventory

| Component | State it keeps | Operations | Hard behaviour | What makes it correct |
|---|---|---|---|---|
| Worker slots (`main.py` `submit_job`, `concurrency.py`) | three counters under `ACTIVE_JOBS_LOCK`, limits from the environment | admit or 429, start thread, release in `finally` | event loop against job threads; a thread that does not start; jobs that hang | counters equal threads, limits hold, a tier is not starved |
| Valkey lock (`utils/lock.py`) | keys with a token and a TTL, shared by all nodes | poll SET NX EX, compare-and-delete, sweep at startup | crash of a holder, overrun of the TTL, lost replies | nobody removes a live holder's key; nothing is locked for ever |
| Job lifecycle (`rq_tasks.py`, `job_attempt.py`) | the backend's row; per dispatch: step, attempt authority, verdict | dispatch, stale check, claim, handler, callback, verdict PATCH with retries, heartbeat | duplicate dispatches, lost and late requests, sweeper, revocation, crash | one true verdict, bounded attempts, silence after revocation, no silent loss |
| HTTP application (`main.py`) | startup order, background tasks | lifespan, health, capabilities, submit | what may run before startup is over | jobs only after sweep and publication |
| Provider catalog (`provider_config.py`, `services/catalog_refresh.py`) | loaded document, `_loaded_mtime`, `PROVIDER_REGISTRY`, two Redis keys | reload by mtime, apply, refresh loop, restore, publish | no lock: jobs and refresher load at a time; edits during both; edits that cannot be applied | the operator's last edit wins, if it can be applied |
| LLM client (`services/llm_client.py`, `utils/rate_limit.py`) | cooldowns, parked keys, 429 counts, relaxed routing, the last slot of each provider | retry ladder, cooldown, park, relax, wait for a slot | concurrent 429s and successes; two retry ladders nested; threads that take slots at once | backoff escalates; a parked key is asked no more; requests are 60 / rpm apart |
| Translation (`handlers/translation.py`, `services/translation.py`) | per-job mapping of regions to texts | chunk pool, validation, batch retry, individual fallback, callback, raise | chunks finish in any order; partial results are posted and the job still raises | every region answered or untouched, no answer for another's region |
| Quality assurance (`handlers/qa.py`, `handlers/qa_re_ocr.py`) | per-job verdicts and accounting | label, ask a model chain, parse, sanitise, judge integrity, prepare the page between two passes | malformed and partial answers, model fallback, a page edited while it is judged | every verdict is a model's, a complete reply covers the page, a verdict is about the pixels shown |
| OCR (`handlers/ocr.py`, `services/ocr*.py`) | per-job regions, model readers | detect, group, cut containers, read crops in chunks, order | chunks merged out of order; balloons shared by groups; partial detection | each fragment in one region, each region its own text, every model that read a part is named |
| Cleanup (`handlers/cleanup.py`, `handlers/manual_cleanup.py`, `services/cleanup_*`) | per-job region outcomes | verified download, reconstruct, two uploads a region, callback that commits | backend owns the outcome; uploads half done; an attempt revoked midway | one outcome a region, no patch that is not stored, little work for a void attempt |
| Grouping and ownership (`services/owner_assignment.py`, `fragment_grouping.py`, `balloon_join.py`, ...) | the owner decision on each fragment | group by distance, veto, cut, join | cuts within cuts, joins that undo them, stale decisions | a partition, no rejected or oversized group, decisions about the group they are stored with |
| Layout and panels (`handlers/layout.py`, `panel.py`, `services/layout.py`, ...) | none | reading order, typesetting | geometry | a permutation of its input |
| Region redo (`handlers/redo.py`) | none | OCR or translate one region, callback on its own URL | refused results | not redone when refused |
| Render (`handlers/render.py`, `page_scene*.py`) | none | draw a scene | none beyond numerics | determinism |
| Model manager (`model_manager.py`) | loaded models and last use | lazy load, eviction | eviction under a running job, a load under a lock others wait for | a thread works with the cached copy while `MODEL_TTL` lasts |
| Configuration and accounting (`config.py`, `schemas.py`, `utils/rate_limit.py`) | environment, stored prices, the cost list of each job | parse, fetch prices, record a call, report | lists bound to contexts of threads; calls without a price | a report has the calls of its job, all and only, and no partial total |
| Vision helpers (`services/text_angle.py`, ...) | none | numeric | none | none stated |

How they interact: a dispatch arrives at **slots**, whose thread runs the **job
lifecycle**, which calls a handler; the OCR and cleanup handlers take the **Valkey
lock** `ocr`, the local models the lock `local-llm`; the OCR handler asks a vision model
only after it has left `ocr`, so that no thread holds both. Every handler that needs a model makes an **LLM client**, which
first lets the **provider catalog** look at its file. The background tasks of the HTTP
application run the refresher of the catalog and the eviction loop of the model
manager. The backend and Valkey/Redis are outside: their part is modelled from how the
worker uses them, and marked external in `PROJECT.json`.

`PROJECT.json` lists the hazards of this code one by one, with the line where each
bites and the properties that would show it.

## 2. Modules

| Module | Models | Composed with |
|---|---|---|
| `SlotPool` | abstract: a pool of slots with a total and a heavy limit | |
| `WorkerSlots` | `submit_job`, `run_job_async`, `resolve_slot_config` | implements `SlotPool` |
| `ValkeyLock` | `acquire_lock`, `release_stale_node_locks`, Valkey's TTL | |
| `JobLifecycle` | `process_job_rq`, status PATCHes, heartbeat, attempts, handler shape | |
| `ProviderCatalog` | `ProviderConfigLoader`, `CatalogRefresher`, `PROVIDER_REGISTRY` | |
| `LlmClient` | `LLMClient.complete`, the provider registries, `translate_batch_llm`'s two legs | |
| `TranslationJob` | `process_translation`, `chunk_regions_by_conversation` | |
| `QaJob` | `process_qa` in its four modes, the model chains, the integrity of a reply | `WorkerParts` |
| `OcrJob` | `process_ocr` from the page to the callback | `WorkerParts` |
| `FragmentGrouping` | `group_fragments`, `attach_live_owner_decisions`, `join_balloon_groups` | `WorkerParts` |
| `ModelManager` | the readers of `ModelManager` and the maintenance loop | `WorkerParts` |
| `RateLimit` | `enforce_rate_limit` | `WorkerParts` |
| `JobCosts` | `update_model_costs`, `record_llm_call`, `build_cost_payload`, the binding of `_job_costs` | `WorkerParts` |
| `CleanupJob` | `process_cleanup`, `process_manual_cleanup` | `WorkerParts` |
| `WorkerParts` | the seven modules before, side by side | |
| `MC*` | values of the constants for TLC | |
| `WorkerSlotsProofs`, `ValkeyLockProofs`, `JobLifecycleProofs`, `ProviderCatalogProofs`, `LlmClientProofs`, `TranslationJobProofs` | theorems about the module of that name | |
| `WorkerPartsProofs` | theorems about `ModelManager`, `RateLimit`, `CleanupJob`, `JobCosts`, `QaJob` as parts of `WorkerParts` | |
| `OcrJobProofs` | theorems about `OcrJob` and `FragmentGrouping`, and the types of all parts | |

In every module a definition whose comment begins with `mistake:` is a variant of the
definition after it, written the way a bug in that code would be. No specification
uses one; each property that a run checks has a mistake that breaks it, listed in
`PROJECT.json`.

### WorkerSlots

`activeJobs`, `activeHeavy`, `activeLight` are the module globals of
`concurrency.py`; `stage` says where each job thread is and `queue` what it was given.
`Submit` is the critical section of `submit_job` with its three answers of 429 as
guards, `StartThread` the `t.start()` after the lock is let go, `StartFails` the same
call raising, `RunEnds` the `finally` of `run_job_async`. `Hangs` and `Wakes` stand
for a request without a time-out (see JobLifecycle). `Restart` puts the globals back.
Under the lock a whole section is one step, because every access to the counters in
the code is under that lock.

The counters and the threads are kept by different code, in different files;
`CountersMatchThreads` is that they never part. `ImplementsPool` is the refinement:
threads that own a slot are the holders of `SlotPool`.

### ValkeyLock

A key is a lock name, with the node's name for node-scoped locks; `store` and `ttl`
are Valkey's. One tick is one poll period. `TrySetFree` is SET NX EX on a free key,
with its reply arriving or lost (then `acquire_lock` raises outside its `try`, and
nobody will release); `TrySetTaken`, `SetFails` and `TimesOut` are the other ends of
an iteration; `Release` is the `finally` with its script, which may fail and is then
only logged; `Crash` is SIGKILL, `Restart` the sweep of the next startup, which may
fail as a whole. `Begin` is never inside another section: the two locks follow each
other. `local-llm` is one key for all nodes and no startup sweeps it; after a crash of
its holder only the TTL frees it (`KeyIsFreedAgain`).

A TTL is never renewed, so **a holder that overruns it shares its critical section**.
The docstring's word is "exclusive"; what the code gives is `ExclusiveUntilLapse`, and
the ghost `lapsed` marks the overrun. The ghost `orphan` marks a key nobody will
release although its node runs.

### JobLifecycle

One job, several dispatches of it. `row` and `applied` are the backend's, with the
fencing on `X-Job-Attempt` the worker relies on; `pc` follows `process_job_rq` step
by step. A request that is answered is one step. A request whose client saw an error
is one of three (`Lost`): never applied, applied with its reply lost, or put into
`late`, from where it may be applied at any later time. `Patch` and the `hbTries` of
the heartbeat count tenacity's tries. `void` is the shared `Attempt`: revoked by the
heartbeat, or past its deadline.

Handlers differ in what the lifecycle can see: whether the backend owns the outcome
(`owned`: cleanup), whether the callback is under `/jobs/callback/` (`redo` is not),
and whether the first GET has a time-out. These are the three kinds of the model.

Left out: progress counting, trace and cost context variables, logging.

### ProviderCatalog

`loader` holds `_loaded_mtime`, `raw_data` and `providers`. There is no lock in that
code, so every access to the file, to a field of the loader and to the registry is a
step of its own, and three kinds of threads interleave: job threads that make an
`LLMClient`, job threads that ask for a QA default, and the refresher, which is also
the thread of the startup. A document is abstracted to the edit it derives from and
the catalog state merged into it. `file` is edit number and mtime in one. An edit may
fail to parse (`broken`), and then leaves the mtime alone; or it parses and
`apply_document` raises on it (`malformed`: a model without an id, a list where an object
is expected; `provider_config.py:155-180`), and then `Stamp` has already taken its mtime
(`Chokes`). What becomes of that depends on the caller: a job's call gets the exception,
`run_once` logs it and ends, and the import at `llm_client.py:164` ends the process, so
that a worker does not start on such a file. After that **the rejected edit counts as
loaded and the document before it stays in force**, without a further word. `stored` is `DOCUMENT_KEY`. Reading is not recorded: a lookup in the
registry, and the value of the published map, which only the backend reads, change
nothing here.

Two ghosts mark what the code does not protect itself against: `torn`, an edit
between the read of the file and its `stat`, and `overlapped`, two threads between
the first look and the last write of a load, a restore or a refresh. The properties need
no such mark for a rejected edit; `Underlies` says what is in force, or stored, under its
mtime: a document made from an earlier edit.

### LlmClient

`cooldown`, `parked` and `strikes` are `PROVIDER_COOLDOWNS`, `PROVIDER_AUTH_FAILURES`
and `PROVIDER_CONSECUTIVE_429S`, kept as the time left in units of
`COOLDOWN_BASE_SECONDS`; `lock` is `_STATE_LOCK`. A thread makes translation calls one
after the other, each on the target it is pinned to and then, if that gave nothing, on
the target of `resolve_fallback_target`. `Open` and `Wake` are the checks of
`complete`, `Send` is `requests.post`, and each way it can end is an action: `Answer`,
`Garbled` (a 200 that is no JSON, which `complete` does not catch), `Flaky`, `Relax`
(the 400 that drops the schema and the routing 404), `Refused`, `Reject` and, in two
steps under the lock, `Limited` and `Count`. `Again` is tenacity's ladder.

The checks and the request are apart, and the ladder does not check again: **a request
may well go to a parked or cooling provider**. What can be said is how many do
(`TrafficStops`, of `ParkStopsTraffic` and `CooldownStopsTraffic`): those of the ladders that were past the
checks when the registry changed, and no other, however long the park or the cooldown
lasts. The ghosts `knocks` and `hurried` count them.

### TranslationJob

One run of `process_translation`. `kind` is the triage, `pass` the three times a
region may be asked for, `asked` the regions of the pass. `Chunks` is the pure function
`chunk_regions_by_conversation`: whole conversations and then single regions are put into
chunks one after the other, by a recursive function. A list of regions is in the order of
the page, so the set of them says as much, and a chunk is a set. `Start`, `Finish` and `Merge` are a chunk's
way through the pool: the threads take chunks in order, finish in any order, and
`as_completed` merges in any order. A reply gives any target of the page a good text,
a bad one or none, because the prompt lists them all. `Judge` is the validation after
each pass, `Singly` a call of `translate_text`, which - unlike a chunk - may raise out
of the handler (`SinglyFails`). `Post` is the accepted callback with the decision to
raise that follows it.

The ghost `said` is the best text the models gave for a region when it was last asked
for; the handler itself does not know it after `Singly`, and that is the finding below.

### QaJob

One run of `process_qa`. `Mode` is the mode after "auto" is resolved, `legs` the models
still to be asked, `judged` and `checked` what they said. A reply names each region not
at all, once, twice or with a status that is none of ours, and possibly something else:
these are the cases `_normalize_qa_items`, `_unique_by_region` and
`_qa_response_integrity` tell apart. `Bypass` is `_auto_pass_all` with a GET of its own,
also after one that found a page without regions (`NothingToAsk`). In hybrid, `Prepare`
is the POST after which the backend applies the fixes and the page is drawn again;
`Edit` changes the page under the job, which the model sees as a new revision: which
regions there are changes with the prepare step only. The ghost `said` keeps every verdict a model gave.

`Once` drops what a chain of models repeats and what is not configured.

The modes are not alike, and the model keeps the differences: only "vlm" drops a region
named twice and goes on to the next model when a reply is no JSON; a text pass that was
bound to no render finds out only when it puts its callback together. In hybrid the
provider of both passes is that of the text pass (`Fetch`), so **a page that has only
uncertain regions is shown to no cloud model** (`handlers/qa.py:665`), although the
comment at `handlers/qa.py:825` wants them checked; it is listed as a hazard.

### OcrJob

One run of `process_ocr`. What an engine and YOLO find is one choice (`Detect`); then the
code's own course follows: each balloon is grouped and its groups get containers
(`GroupBalloon`), the loose fragments go by panel and page (`GroupLoose`), `Gathered`
makes candidates of them, and either the engine's text stands or a vision model reads
the crops. One thread works the chunks in order (`ChunkRead`, `CropsRead`,
`ChunkSilent`); the handler merges those that are finished in any order (`MergeChunk`).
`crops` are the candidates with a pixel in the image; a crop keeps the number of its
candidate, and `Nth` is its place in the list that is cut into chunks. A text or a
confidence that is null ends the run with an exception, sooner or later.
Without YOLO every fragment is loose, no vision model is asked and no text is dropped.
The regions of the callback are a set, in which each has the number of its candidate. The
ghost `origin` says which crop a text was read off, and by which model.

Of a container the model keeps where its polygon comes from: the balloon itself, a part
that `get_split_polygon` cuts out, or nothing. **How far a part reaches, and whether it
touches the text of a neighbour, is decided by pixels** and is not modelled; it is a
hazard without a property.

### FragmentGrouping

`group_fragments` over boxes with whole coordinates: distances, overlaps, the vertical
vote, components, the area bound and the halved budgets are computed as in the code; what
the owner decision rejects and how it would cut, where a balloon has a waist and which
walls run through it come with the scene. The recursions are recursive functions: over a
component and the parts it is cut into, over a budget and its halves, over the numbers of
the boxes in a sum. `Group` is a call from the handler with the decisions it attaches;
`JoinPair` and `JoinDone` are `join_balloon_groups`, one pair at a time.

`_split_oversized` does not ask the owner veto again, so a piece of an oversized component
may be a group the veto would reject; `NoVetoedGroup` says that nothing else is.

### ModelManager

`reader` and `lastUsed` are the caches and their times, `lock` is `ModelManager.lock`, held
through a load. A page job is in the node's `ocr` section while it asks and predicts; a
redo job (`services/ocr.py`, `perform_redo_ocr`) is not. `ReadTime` and `Unload` are
`unload_expired_models`, which takes the time before it waits for the lock. A thread keeps
its reader when it is unloaded: **two copies of one reader can be in memory** once a
prediction takes longer than `MODEL_TTL`, and `WorksWithTheCached` says not before.

### RateLimit

`TakeSlot` is the section under `RATE_LIMIT_LOCK`, `Request` the end of the sleep outside
it. The ghost `slots` is the history of each provider.

### JobCosts

`context` is what `_job_costs` binds in each thread, `lists` the lists there are: `Bind` at
the dispatch, `Fan` the copies of the context that chunk threads run in, `Record` one
call. `phase` and `unchecked` are the price check at import: the configured models before
the process serves, those of the fallback lists beside it.

### CleanupJob

One run of `process_cleanup`, or of `process_manual_cleanup` (`job.manual`), which takes one
area from a mask instead of the regions of the payload. `PutMask` and `PutPatch` are the
two uploads of `_asset_fields`; `PutFails` is either failing. `Revoke` voids the attempt at
any time; the code notices at `record_progress` and where it asks for the backend's headers.

### WorkerParts

The seven modules before this share no state in the code beyond what each names, and are
put side by side in one specification: an initial state belongs to one part (`part`), and
only that part moves. Nothing is gained or lost against seven specifications, and the
properties of a part are those of its module with the part as the condition. The module is
general in the constants of all parts; the theorems are about it, and `MCWorkerParts` only
gives the values of the run.

## 3. Runs

| Run | Instance | Shows |
|---|---|---|
| `worker_slots` | 3 threads, 3 queues, 5 environments, 1 lost thread | `CountersMatchThreads`, `HeavySlotRecurs`, refinement `ImplementsPool` |
| `valkey_lock` | 3 threads on 2 nodes, TTL 2, time-out 1, 5 tokens | `ExclusiveUntilLapse`, `BlockedByTheLiving`, `KeyIsFreedAgain` |
| `job_lifecycle` | 2 dispatches, 2 attempts, 2 tries, 1 late request | `RetryBudget`, `OneVerdict`, `CompletedHasReturn`, `NoSilentLoss` |
| `job_liveness` | 1 dispatch, 4 tries (the code's number), all kinds | `EndsOrHangs`, `HeartbeatEnds` |
| `job_refused` | 1 dispatch | violation of `RefusedIsNotRetried` |
| `provider_catalog` | 2 job threads and the refresher, 1 edit, 2 catalog states, 1 restart | `LoadedIsTheFile`, `StoredIsTrue`, `EditIsNoticed` |
| `catalog_edit_wins`, `catalog_client` | same | violations of `EditWins`, `ClientSeesEdit` |
| `llm_client` | 2 threads, 2 providers, 3 jobs, ladder of 2 | `NoLost429`, `TrafficStops`, `PinIsKept`, `EachCallEnds` |
| `translation_job` | 3 regions in 2 chunks of at most 2, 3 lists of conversations | `AskedOncePerPass`, `EveryRegionAccounted`, `SilenceIsRetried`, `AcceptedStays` |
| `translation_rejected` | same | violation of `RejectedIsNotRetried` |
| `worker_parts`, QA | 2 regions of every kind, every mode, 1 edit | `NoInventedVerdict`, `CompleteCoversThePage`, `HybridIsSound`, `VerdictStands` |
| `worker_parts`, OCR | 2 fragments, 1 balloon, 3 places, chunks of 2 | `FragmentsOnce`, `TextIsItsOwn`, `ReadersAreNamed` |
| `worker_parts`, cleanup | up to 2 regions, every mode, manual and not | `CleanupAccounted`, `RevokedStopsSoon` |
| `worker_parts`, grouping | 3 fragments in 9 layouts, every veto | `GroupsPartition`, `NoVetoedGroup`, `NoOversizedGroup`, `DecisionIsItsOwn` |
| `worker_parts`, models | a page and a redo thread, 2 keys, TTL 1, 4 ticks | `WorksWithTheCached` |
| `worker_parts`, rate | 2 threads, 3 providers, 4 ticks | `SlotsAreApart` |
| `worker_parts`, costs | 2 jobs with a chunk thread each, 2 models, 2 calls a job | `ReportIsTrue` |

`worker_parts` also checks the type invariants of its parts (`TypeOK`). Those of the other
modules are proved, as are `SlotBounds`, `ReservedWhenStrict`, `NoImmortalKey`,
`HeldKeyIsOurs`, `OwnedStands` and `VoidIsSilent`, for every instance; no run repeats them.
To check one of these on the instance of a run, name it under `INVARIANTS` (`PROPERTIES`
for `VoidIsSilent`) in its `.cfg`.

**Bounds, and why they are enough to meet the interesting cases.**
Slots: three threads fill a global cap of 3 and exceed caps of 1 and 2; the five
environments are a fitting one, two with the subtractive defaults that resolve to
zero or less, one whose tiers exceed the cap, one with two heavy slots. Queue names
are one heavy, one light, one of neither set.
Lock: two threads of one node contend for `ocr`, one of them also takes `local-llm`,
which the third, on another node, contends for; a TTL of two ticks is long enough to
work and to overrun, a time-out of one to wait and to give up. Five tokens are
enough for a fresh one always to exist: when a key is free to be set, the others hold
at most three and the other key in use stores at most one more.
Job: two dispatches are two deliveries of one attempt or an attempt and its retry; two
attempts have a first and a last; two tries have a first and a last, and
`job_liveness` takes the code's four; one late request is enough to outlive its
dispatch. Kind `redo` differs from `plain` in its exits and in the 409 and appears in
the runs with one dispatch. The two dispatches are symmetric, and that run has no
liveness property.
Catalog: one edit gives an old and a new file, either of which may fail to parse or be
rejected by `apply_document`; two
catalog states make a refresh change the document or not; one job thread makes
clients, the other clients or QA lookups; one restart meets every state of `stored`.
Client: a ladder of two tries has a first and a last, a cap of two is reached by the
second 429, a cooldown of two outlasts a `max_wait` of one. A job with a fallback meets
one that allows none at its own provider, or one pinned to the global provider it may
cross to. `MaxStrikes` is the bound on the 429s told apart (more change nothing once
the cap is reached); the only Retry-After is the base itself.
Translation: three regions of every kind give pages without, with one and with two
chunks, in the order of the page or of the conversations; two chunks suffice for every
order of merging. A pool of two threads is never short of threads here; with a pool of
one the same holds.
QA: two regions give pages with none, one or two of a kind; a chain of three models has a
first, a middle and a last; one edit falls before, between and after the passes.
OCR: two fragments share a balloon, or split between balloon and page, or lie in two
places; two candidates and the balloon without a fragment make two chunks of two, in
either order of merging, with every set of candidates that have a crop. A page with no fragment and one that cannot be read are the
empty case.
Cleanup: a region before and a last one, of which the first fails, is passed over or is
repainted; the attempt is revoked at every step.
Grouping: three fragments are the least in which a component can be cut into parts of
which one is cut again, and a join can undo a cut; the layouts are columns that are close,
overlapping, far apart and below each other, in a page on which three of them are too
large; budgets halve twice before the floor.
Models: one detector and one reader; the clock runs for three times the TTL, and three
copies suffice for a load, an eviction and a load of either.
Rate: a slow, a quick and an unlimited provider, three slots of each, two threads that
change their provider with every call.
Costs: one priced and one free model, of which the free one is in a fallback list; two
calls are one by the job's thread and one by its chunk thread.
`MaxEdits`, `MaxCatalogs`, `MaxRestarts`, `MaxLost`, `MaxLate`, `MaxNow`, `MaxTime`,
`MaxCopies`, `MaxSlots` and `MaxCalls` are bounds on the environment only, all in guards.

`CHECK_DEADLOCK FALSE` is said for the job and translation runs and for `worker_parts`
only: a job comes to an end, and so does a bounded clock.

**Fairness, and why the code justifies it.**
*Slots*: a thread that was admitted starts (the line after the lock) and a job that
waits for nobody ends; nothing wakes a hung job, so `HeavySlotRecurs` is conditional
on no thread hanging or being lost for good.
*Lock*: time passes and a polling thread polls; no holder is obliged to leave, no node
to come back, so `KeyIsFreedAgain` rests on the TTL alone.
*Job*: the job thread and the heartbeat thread run (every request but the untimed ones
ends with an answer or an exception, tenacity's waits are finite) and the clock
reaches the deadline; the backend owes nothing.
*Catalog*: the refresher's sleeps and its requests (45 s time-out each) end and job
threads run; nothing makes a job arrive, a catalog answer, or the operator save.
*Client*: time passes, a thread goes on, and `requests.post` ends, because it has a
time-out of (10, 45) seconds; no thread has to ask.
Fairness is stated for each actor, never for `Next`. The translation run and `worker_parts`
check safety only and state none.

## 4. Where code and documentation disagree

Each has a run in which TLC finds the property violated, and an entry under
"findings" with the quoted line.

1. `job_refused`: a result refused with 409 is not to be retried
   (`rq_tasks.py:318-320`); that of a region redo is, because its callback URL is not
   recognised.
2. `catalog_edit_wins`: an edit is said to win on the next reload
   (`provider_config.py:145-147`); a refresh under way puts the older document back
   for good, and for the next start too.
3. `catalog_client`: an edit is said to be picked up by the next client
   (`llm_client.py:207-210`); not if a QA job or the refresher meets it first.
4. `translation_rejected`: a page whose texts were all rejected is to finish and report
   (`handlers/translation.py:456`, and a test). With fallback models allowed it raises:
   `translate_text` returns `None` for a rejected text too, and the handler takes that
   for an outage. The test passes because its mock returns a text the function never
   returns.

Four smaller ones have no run of their own. A comment says the HEAD request was the only
one without a time-out (`rq_tasks.py:61-62`); seven handlers begin with a GET that has
none, which is why `EndsOrHangs` has its second half and `HeavySlotRecurs` its condition.
Hybrid QA shows a page that has only uncertain regions to no cloud model (see QaJob).
`catalog_refresh.py:415-416` says that a refresh "always rebases onto what the operator
last wrote"; after an edit that `apply_document` raised on it rebases onto the document
before it, and files the result under the edit's mtime, which is why `LoadedIsTheFile` and
`StoredIsTrue` speak of rejected edits. And `handlers/ocr.py:1930` says to "name every
distinct model that read part of the page"; a local model that answered no crop of the page
in JSON is taken at its word and not named (`handlers/ocr.py:1584-1592`), the exception in
`ReadersAreNamed`.

One word of the code is only roughly so: `concurrency.py:41-43` calls the
per-tier numbers reservations, which they are only with `REUSE_IDLE_SLOTS` off
(`ReservedWhenStrict`).

## 5. Proofs

TLAPS checks the following for every value of the constants that satisfies the modules'
assumptions, and TLC evaluates these in every run. Every safety property that a run
checks is stated by a theorem here. The assumptions are

- `SlotAssumption`, `LockAssumption`, `JobAssumption`, `ClientAssumption`,
  `CatalogAssumption`: finite sets of threads, jobs or dispatches, positive limits, names of
  the right kind, at least one thread that calls a provider;
- `TranslationAssumption`: the page lists each region once, the batch size and the pool are
  positive, and no region is in two conversations, as `group_conversations` makes them
  (`services/layout.py:139`: a region belongs to one panel and there to one group);
- `PartsAssumption`, of one assumption for each part:
  `GroupingAssumption` (finitely many fragments, budgets that are numbers, and an owner
  split that is none or a partition of the component it is asked about, which is what
  `services/owner_assignment.py` builds from one label for each fragment),
  `OcrAssumption` (finitely many fragments, the balloons are a list without repetition whose
  names are not those of the model's markers, a positive chunk size, some place to lie in),
  `CleanupAssumption` (a payload is a list of regions of the known kinds, of one region for
  a manual cleanup), `CostAssumption` (no chunk thread is the job's own thread),
  `ManagerAssumption`, `RateAssumption`, `QaAssumption` (bounds and delays are numbers, the
  spare models a list of names).

**WorkerSlotsProofs**: `TypeCorrect`, `CountersCorrect`, `SlotsBounded`,
`StrictReservation`, `SlotsImplementPool`. `CountersMatchThreads` is inductive with the
type invariant: each action moves one thread between the sets of owners, and the
lemmas `SubmitOwners`, `RunEndsOwners`, `StartOwners` say how the sets change, the
cardinality lemmas of the library how the numbers do. `max(0, ..)` is harmless because
an ending thread is in the set its counter counts. The bounds follow from the counters
and the guards of `Submit`; the refinement maps each step to a grant, a return, a
reset or a stutter.

**ValkeyLockProofs**: `TypeCorrect`, `NoKeyIsImmortal`, `HeldKeysAreSafe`,
`MutualExclusionUntilLapse`, `NoDeadHolder`. `HeldKeyIsOurs` alone is not inductive:
`LockInv` adds that no two holders know the same token (`TokensApart`: a fresh token
must not be one that a stale holder would release), that threads of a dead node hold
nothing (`DeadAreIdle`: the sweep at startup removes keys of its node, and must not
meet a holder) and that a thread polls only for a lock it lacks (`PollsForAnother`:
entering must not overwrite a token). Mutual exclusion until a lapse follows: two
unlapsed holders of one key would both see their own token in it.

**JobLifecycleProofs**: `TypeCorrect`, `AttemptsBounded`, `VerdictIsOne`,
`CompletionIsEarned`, `OutcomeIsTheBackends`, `SilenceAfterRevocation`,
`NothingIsLost`. `JobInv`
relates a dispatch's step to what it has said (`DispatchInv`), bounds the attempts of
the row and of every dispatch (`BudgetInv`; the row alone is not inductive, because a
verdict carries its dispatch's attempt), requires a late request to be as truthful as
its sender was (`LateInv`; without it a request arriving years later could complete
anything), and ties a missing heartbeat to a dispatch that is over, void or not
started (`HeartInv`). `SilenceAfterRevocation` is the action property: no step of a
dispatch without authority changes the row, the results or the requests on their way.

`NothingIsLost` (`NoSilentLoss`) needs `SettledInv`: no dispatch is ahead of the row, and one
whose handler ended while it had authority and tries left has settled its attempt, where
settled means that the row is gone, is at a later attempt or has a verdict of this one.
Settled is for ever, because the row has few writers (`RowWriters`) and none of them takes
an attempt back.

**LlmClientProofs**: `TypeCorrect`, `CountsAreExact`, `PinsAreKept`, `TrafficIsStopped`.
`NoLost429` needs
`CountInv`: whoever is counting holds the lock, and the number it read is still the
registered one. `PinIsKept` needs `PinInv`: a park has a rejected key behind it, so that
the moment at which a fallback may cross is one at which a key has been rejected.
`TrafficStops` is a sum over all ladders under way. Its invariant counts rungs, pairs of a
thread and a try: `ParkInv` says that the requests since the park and the rungs still to
come (`Coming`) are together at most `Attempts * (|Caller| - 1)`, since the thread that was
rejected is not on its way any more; `CoolInv` says the same of a cooldown with one rung
less than all, that of the 429. A request turns a rung to come into one that was taken, no
step adds a rung while the registry holds, and so the sum never grows.

**ProviderCatalogProofs**: `TypeCorrect`, `LoadedIsInForce`, `StoredDerives`, for any number of job
threads. There is no lock, so what they say of edits holds only while none has fallen between a
read and its `stat` and no two loads have overlapped (the ghosts). An edit that cannot be
applied is no such condition: it is part of the statement. `CatalogInv` adds what
makes that inductive: on whose behalf a thread reads a file (`TaskInv`: only the startup
registers), that a document in force or in a thread's hands was loaded, so that its mtime is known
(`KnownInv`), that what was applied or stored is nothing `apply_document` rejects (`SoundInv`), and
that, undisturbed, at most one thread is inside a load and all that is in force, stored or
in its hands derives from the edit that `_loaded_mtime` names, or from an earlier one if that
was rejected (`DocInv`).

**TranslationJobProofs**: `TypeCorrect`; `ChunksPartition` says that `chunk_regions_by_conversation` puts every region it
is given into exactly one chunk, for any page, conversations and batch size, by induction
over the units that are put into chunks. `OneAskPerPass`, `CallbackIsWhole`,
`NoAnswerIsRetried` and the action property `ValidTextIsFinal` follow from `RunInv`: the
chunks of a pass have its regions once each, and who is in a chunk that was sent was asked
in this pass (`Sent`); nobody was asked more often than there were passes (`Counted`); and
a region has a text if and only if the last one that was said was valid, and is not asked
for again then (`Texted`). `TypeCorrect` adds that there are no replies outside a pool.

**WorkerPartsProofs**:
- *ModelManager*, `OneCopyInUse`: who loads holds the lock and its key is empty (`LoaderAlone`),
  and a reader in use was handed out no later than its last use (`UsedSince`), which is what
  keeps the maintenance loop from taking it early.
- *RateLimit*, `SlotsStayApart`: the distances are a matter of the history only if
  `PROVIDER_LAST_REQUEST_TIME` is its last entry (`LastIsTheLast`).
- *CleanupJob*, `EveryRegionHasItsOutcome`: the number of outcomes says which region is worked on, except
  where all of them are stated at once (`Reached`), and a region gets to its patch only by
  way of its mask (`OnItsWay`). `VoidAttemptStops`: a region begun without authority is
  followed by `record_progress` before the next one.
- *JobCosts*, `ReportsAreTrue`: each job has a list of its own from its dispatch on (`ListsApart`), which
  its chunk threads share (`ListKept`), and the list has its calls in their order (`Tells`).
  That a total of known prices is at least that of the told ones (`TotalIsWhole`) is an
  induction over the breakdown.
- *QaJob*, `VerdictsAreGiven`, `CompleteIsComplete`, `HybridStaysSound` and the action property
  `FirstVerdictStands`: every verdict in `judged` was said by a model (`Given`), and the page is
  changed only before the callback is put together (`CourseInv`), so that what the callback
  says of it is still true when it is posted.

**OcrJobProofs**:
- *OcrJob*, `EveryFragmentOnce`, `TextsAreTheirOwn`, `ReadersNamed`: `OcrInv` says of the list of
  candidates, which grows balloon by balloon and then by the loose fragments, what it
  has so far: at each place of the run, exactly the fragments of the balloons and
  partitions that are not still to be grouped, each in one candidate (`GroupedOnce`), each
  text read off its own crop or none (`TextsKept`), and posted what is kept of it
  (`PostedKept`). `ReadersKept` adds that whoever wrote a reply that is not merged yet, or a
  text, is among the models that were noted. The list of a set
  that the model chooses is any list without repetition.
- *FragmentGrouping*, `GroupsArePartition`, `VetoIsKept`, `GroupsFit`, `DecisionsAreTheirOwn`: what the
  recursion of `group_fragments` comes to, for any boxes, vetoes, splits and budgets.
  `ComponentsApart`: components of a distance partition what they are components of.
  `PiecesFit`: cutting an oversized component with halved budgets comes to pieces that
  fit. `ComponentOwned`: cutting a rejected component by its owner split comes to groups
  that are not rejected, and the decision that a fragment is left with is about its
  group (`Owned`). `JoinSound`: a join that is allowed breaks none of this. `GroupingInv`
  then is `Sound` (the groups) and `Decided` (the decisions) at each place of the run.
- `PartsTypeCorrect`, the types of all parts: the invariants above have most of them, `QaTypes`,
  `OcrCounts` and `CostCounts` the rest: chains name only models of the job and of the
  configuration (`OnceKeeps`), the chunks that were read are chunks there are, only the
  edits and the prepare step make a revision.

**How the recursions are proved.** That a recursive function has a value at all is a fact to be
proved (`SumExists`, `OnceExists`, `PiecesExist`, `TreesExist`): the solution up to one more
step is the one before with a value added. What it computes is then an induction; the
library's schemas take an operator as a parameter, which the provers cannot instantiate,
so it is over a set instead: a set of numbers that has 0 and with each number the next is
`Nat` (`Induction`), and a set of finite sets that is not empty has a smallest one
(`Smallest`). Operators that the provers cannot expand (folds, `SelectSeq`, recursive
operators) are not used in the modules the proofs are about.

Checked by TLC only: all liveness (`HeavySlotRecurs`, `KeyIsFreedAgain`, `EndsOrHangs`,
`HeartbeatEnds`, `EditIsNoticed`, `EachCallEnds`), which TLAPS does not prove under
fairness.

## 6. What is left out

- Pixel work, fonts, geometry: numeric, without state.
- The backend's own code: only what the worker can observe of it.
- Time in seconds: ticks for the TTL, a nondeterministic deadline for attempts.
- The refresher being switched off (`CATALOG_REFRESH_INTERVAL_HOURS=0`): then nothing
  but jobs notices an edit, and `EditIsNoticed` does not apply.
- What makes a text valid, the content of prompts, the amounts of prices; the local and
  the vision tier of translation; the first wait of a `LlmClient` ladder for its slot
  (`RateLimit` has it on its own).
- `qa_re_ocr` (one region read again), the capture of crops for training, evidence records.
- The score behind an owner decision, the text of a merged group, the shape of contours.
- `render`, `layout` typesetting, `panel` detection, `seed_models`: deterministic drawing,
  geometry, or a download at build time, with no state between calls.
- Which models a refreshed document lists; the value of the published map.
- Two edits with one mtime, and an mtime that goes back to a former value.
- Redis or Valkey losing data it acknowledged.

## 7. Plan

What comes next, in this order.

1. Abstract specifications and the proof that the detailed ones implement them: a lease for
   `ValkeyLock` (a holder, a lapse, a next holder), a single assignment of a verdict for each
   attempt for `JobLifecycle`. Today only `SlotPool` is one.
2. Compositions: slots with job lifecycle (a wedged handler and the heavy tier), LLM client
   with rate limiter.
3. `CatalogMerge`: `refresh_openrouter`, `refresh_nvidia` as pure operators: defaults and
   curated entries survive, idempotence.

The number of runs is kept small on purpose: one for each distinct question, and one for
the parts that share nothing.
