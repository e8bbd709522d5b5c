# A verification project for the vulnerability-intelligence platform

TLA+ models of the concurrent and restartable parts of the platform, checked with TLC, and
theorems about them proved with TLAPS. `PROJECT.json` ties every definition to the lines it
models, every property to a mutation of the code that breaks it, and every hazard we know of
to the properties that watch it.

Abbreviations for the sources: `ingest` = `src/apps/ingest/src/jobs/nvd-ingest.job.ts`,
`worker` = `src/apps/ai/src/workers/enrichment.worker.ts`, `queue/` = `src/packages/shared/src/queue/`,
`catalog` = `src/packages/shared/src/nvd/catalog-backfill.ts`, `services/` = `src/apps/api/src/services/`.

## The system

Three Node.js processes share Postgres, Redis and RabbitMQ:

* **ingest** downloads NVD and other feeds into Postgres and publishes enrichment and scoring jobs;
* **ai** consumes the job queues and writes card texts and scores;
* **api** serves the web front end and the administrators, runs maintenance, and starts platform
  updates through `scripts/platform-update.sh`.

| Component | State | Operations | Interacts by | What makes it correct |
|---|---|---|---|---|
| Enrichment pipeline (`ingest` sweeps and fanout, the digest endpoint, `queue/enrich-request.ts`, `worker`) | `idempotency_key` rows (work keys and inflight claims), `enrichment_ai` rows, Redis texts, queue `ai.enrich`, `dlq.ai.enrich` | sweep, fanout, digest, claim, publish, handle, retry, reject, release, replay, clear | RabbitMQ messages, shared tables | one handler per work key; bounded duplicates; a dropped duplicate is covered; every CVE gets its text |
| NVD catalogue backfill (`catalog`, `ingest` bursts, `services/integration-settings.service.ts`) | the document `nvd_catalog`, the NVD key, the loop's copy | bootstrap, burst, window, finish, save or remove key, request | one JSON document two processes rewrite whole | complete means walked; the walk ends; the incremental ingest is not starved |
| Incremental NVD ingest (`ingest` `runOnce`) | `cve` rows, watermark rows in `audit_log` | run, page, upsert, end, publication passes | NVD's REST API, `audit_log`, on-demand imports, maintenance | nothing behind the watermark is lost silently; the watermark catches up |
| Platform update (`services/platform-update.service.ts`, `platform-update.sh`) | status file, lock in memory, git checkout, containers | apply, launch, backup, fetch, merge, build, finish, die | a file both sides overwrite, `docker rm -f`, restart of the API by its own update | one updater; a running script looks busy; done means deployed; never locked out; the checkout only moves forward |
| VOC cases (`services/voc-case.service.ts`) | `voc_case`, `voc_case_ref`, the playbook column, `voc_triage` | open, merge, ensure task, backfill, mark, regenerate, patch, resolve | calls into the task service; rows read before an await and written after it | one open case per dedup key; one task per case; resolving settles everything; marks survive |
| Vulnerability tasks (`services/vuln-task.service.ts`) | `vuln_task`, `vuln_task_cve` | create, create from a case, patch, add and remove CVEs, recompute | each write followed by `recomputeTask`, three statements without a transaction | the score is that of links and status; a closed task stays closed |
| HTTPS certificate (`services/web-tls.service.ts`, `letsencrypt-certbot.service.ts`, `local-https-proxy.service.ts`) | `cert.pem`, `key.pem`, `issuer.json`, certbot's live pair, the listener | generate, issue, renew, timer, copy, rename, reload, listen | three files that two administrators and a timer rewrite; Caddy or an in-process proxy takes them over | the files belong together; what is served is what is on disk; renewed in time; an administrator's choice stays |
| Dead-letter replay, on-demand import, database maintenance | as above | as above | | modelled where they touch the components above |

`PROJECT.json` lists the rest: other feeds, scoring, digests and PDFs, LLM calls, users, caches,
front end, deployment; "Not modelled" below says why each is left out.

Hard behaviours: publishers, prefetched handlers and API requests interleave at every `await`;
messages are redelivered after a crash; documents, playbooks and status files are read, held across
awaits and written back whole; a score is computed from links read two statements earlier; three files that
belong together are renamed one by one; NVD pages by offset over data that changes; claims and status files age;
scripts are killed between two steps.

## Modules

Each component has a specification, an `MC` module that TLC runs and, where something is proved,
a `...Proofs` module. In all of them an action is the code between two awaits.

### EnrichPipeline

`todo`, `pend`: the batch of a publisher and the key it has claimed but not yet published.
`claim`, `keys`, `latest`, `mature`, `cached`: the tables and Redis. `place`, `key`, `pc`, `own`:
messages in the broker and the handler of each unacked one (`own` is `idempotencyInserted`).
`owing`: handlers that have acked and still run `finally`. `hour`, `hot`: time and the 24-hour window.
`extra` is a history of the jobs no claim accounts for: digest jobs and replays, jobs left behind by
a lapsed claim, and retries doubled by a crash between publish and ack.

`SweepSelect`, `FanoutSelect`, `DigestSelect` read the candidates; `ClaimItem`, `Backpressure`,
`PublishItem`, `PublishDigest` go through them. `Deliver` takes the highest priority under the prefetch
limit; `CheckWindow`, `CheckMature`, `InsertKey`, `CheckCache`, `Generate`/`GenerateStub`, `Upgrade`,
`Remember`, `Ack` are the handler; `Throw`, `CleanUp`, `PublishRetry`, `AckRetried`, `Reject` its
catch block; `Release` its `finally`. `WorkerCrash`, `ProducerAbort`, `Replay`, `ReplayUnacked`,
`ClearDeadLetter`, `ExpireClaim`, `Tick`, `Cool` are the environment and the operators.

Abstractions: a work key is a record (CVE, kind, bucket, replay generation, retry) and not a string;
queue depth is a free choice to stop a batch; a message identity is reused once the broker has
forgotten it; cached texts are finished ones (the code deletes others as it meets them).
The engine "baseline", which works without the queue, is outside.

### NvdCatalog

Time is counted in windows, from the floor (1999) at 0 to today at `Top`, with 2010 at `Forward`.
`doc` is the document, `mem`, `print`, `left` the burst's copy, key fingerprint and remaining windows,
`using` the key of the window under way, `asked` and `seen` the key a settings request carries and the document it
has read. `StartBurst` to `Pause` are `runForever` and `runCatalogBackfillBurst`; `SaveKey` to `RequestBackfill` the
settings request, which goes on with the key it was given, whatever is configured by then. `Normalize` runs on every
read and writes back, also in the middle of a window (`PeekDuringWindow`).

The key is looked up three times: once when the burst starts (`StartBurst`, the fingerprint the document gets), once in
`Bootstrap`, and by `syncPublishedWindow` for every window (`OpenWindow`). A key saved in mid-burst is therefore used for the rest of the
burst, under the old fingerprint. Three histories tell these apart: `visited`, which window was gone through by a
burst of which key and fetched with which; `changed`, the keys that were replaced while a burst of theirs was under
way; `owed`, that a walk was asked for with the key configured now. `CompleteMeansVisited` and `RequestStands` excuse
a document marked with a key of `changed`, and nothing else.

Abstractions: reading and writing back the document is one step; one request that saves a key at a time, beside any
number that remove it; today does not move during a walk; how far a window reaches is one unit.

### NvdWatermark

`stamp` is the `lastModified` NVD shows, `stored` the version in the database, `mark`/`written` the newest
watermark row, `since` to `gaveUp` the run's locals, `import` what an on-demand import holds in hand.
NVD itself (`Results`, `PageAt`, `Modify`) is external: a filter on `lastModified`, paged by offset in
a fixed order, with modifications that become visible up to `Lag` after their stamp.
`excused` is history: CVEs passed over for a reason the run knows (an upsert that failed and was
logged, empty pages, a CVE that left the window while it was paged, an import that overwrote a newer
version, the look-back of a run without watermark).

Abstractions: a page's upserts are one step (an abort may leave any part of it); the publication
passes that follow a run store an arbitrary set of CVEs, so nothing relies on them.

### PlatformUpdate, Installation

`asking` is an apply request, `locked` the 15-second lock, `job`/`recent` the status file and whether it is
younger than 30 minutes, `script` where a script stands, `before`, `built`, `origin`, `checkout`, `remote`, `deployed` commits
as numbers. `mode` is how this installation launches: a container of a fixed name, removed
first, or a detached process. `Ask` to `ReportFailure` are `apply()`; `Backup` to `Finish`, `Die` and `Killed` the script.
The status file's phase "build" is three steps of `compose up -d --build`: `Capture`, the images are built from the checkout as it is
when the build begins (`built`); `Replace`, minutes later, the containers are replaced by them and, with the helper, the API among
them; `AwaitHealth`, the next status.
`Gate` may take a running update for none, when the status file is read while the script overwrites it
(`readJob` turns what does not parse into "no job"); this counts as a failure. `slipped` is history: a request
passed the busy test beside another one that had, or on such a torn file.

`Installation` is the abstract promise: what is published only grows, what is checked out moves forward to something
published, and what runs is replaced by a build of what was checked out when that build began; builds may overlap and end in any
order. `PlatformUpdate` implements it under `published <- remote, installed <- checkout, running <- deployed,
building <- {built[s] : ...}` over the scripts that are building (`Installs`); everything else (requests, status file, fetches, failures) is
a stutter. That the stack never goes *back* is more than `Installation` says, and on the host more than the code guarantees: a second
script may merge while the first still builds, and whichever replaces the containers last wins. `DeploysCheckout` says when it
cannot happen: with the helper never, on the host not without a step slower than 30 minutes or a request that slipped.

Abstractions: the reasons `check()` refuses an update (dirty checkout, missing tools) are left out, each only stops an
apply before it does anything; backups' contents are left out; `docker run` succeeds or fails in one step;
nobody but the script commits to the checkout; a build reads the checkout at one instant and
replaces the containers at another (compose sends one build context per image, one after the other).

### VulnTask, VocDesk

`VulnTask` is the task service, `VocDesk` extends it with the desk; a request that opens, backfills or resolves a
case walks into the steps of the task service and comes back where `AfterScore` says. `req` holds for every request
under way its operation, its position and the locals it carries; a step is one SQL statement, or a run of statements of
which only one matters (events and `updated_at` are left out). `tasks` are rows with their links, `cases` rows
with their signals (`refs`), their task and their playbook, `triage` the queue's statuses.

`CreateTask`, `BeginPatch`, `AddCves`, `RemoveCve` begin the requests of the task service; `LinkCves`,
`ReadLinks`, `ReadStatus`, `WriteScore`, `KeepFloor`, `SelectTask`, `UpdateTask` are their statements. `OpenCase`
(the lookup), `AttachRef`, `InsertCase`, `InsertRef`, `EnsureTask`, `InsertTask`, `LinkTask`, `FirstPlaybook` are
`createFromRef`; `BootBackfill`, `AskBackfill`, `BackfillRow` the backfill; `ReadCase` and
`SavePlaybook` are `getCaseById`, which *writes* whenever the stored playbook was not the model's;
`CloseCase`, `ReadRefs`, `SettleRef`, `SettleTask` are `resolveCase`; `SetStatus` is `patchCase`. `Fail` is a failed
statement (caught and logged where the code catches it), `FailRow` a row the backfill cannot read and skips, `FailScan`
the query of the start's backfill, `Crash` the death of the process, after which the
backfill runs again.

History: `flagged` holds rows and keys that a race or a cut has touched; `waived` the open cases for which no task is
coming before the next start (opened without one, or whose task failed). The properties are about what is *not*
flagged; a flag is set exactly where two requests have both passed the same lookup, or where one has changed a
row between another one's read and its write, so that every other order of requests is claimed to be safe.
`alone` says of a request that no other was under way since it arrived; the start's backfill, too, ends that
for everybody, since a case it read as lacking a task may get one after a resolve has looked for it.

Abstractions: `scoreUrgency` of a CVE is a constant; titles, owners, SLA and evidence texts carry no control; a
dedup key compares as a value; a playbook step is its label (the code also matches by id, and `p.steps.length >= 3`
is taken as true of a playbook the model wrote); the backfill's limit of 200 cases per start is not reached; a task
is given owner and status in separate patches.

Worth knowing, and visible in the model: a backfilled case of a post gets only the CVEs that joined as
signals of their own, not those the post named (`BackfillCves`); a case opened again keeps its closed task;
`patchCase` can set "resolved" without touching queue or task.

### WebTls

`disk` is the three files, `mats` the pairs that exist (from Let's Encrypt or not, remaining life), `live` certbot's
newest, `caddy`, `port`, `server` what is served, `proc` where each request and the timer stand, `due`/`pause` the
timer. Time is counted in its checks, six hours each, and passes only while no request is under way (requests take minutes).
`Generate`, `AskIssue`, `AskRenew` and `Tick` begin; `CertbotIssues`/`Keeps`/`Fails` is certbot; `CopyCert` to
`WriteMark` install the files; `Reload`, `ReloadRefused`, `NoDocker`, `ReadPair`, `StopServer`, `Listen`, `Listening` are
`applyToRuntime` and the local proxy. A process that starts applies the files and arms the timer. `mixed` and
`unapplied` are history: the files were last written by several or cut short; the last hand-over failed or was raced.

The pause "12 h" after a failed renewal is eighteen in effect: it is counted from the end of the attempt, so the check
twelve hours later still falls into it (`Wait`). A certificate of six days, renewed below three, therefore gets
four attempts (at 11, 8, 5 and 2 checks of remaining life): `NeverExpires` holds for three failures between
two certificates and, as the mutant with one more half day shows, no slower.

Abstractions and assumptions: a POST to Caddy's `/load` takes over the files on disk, as the code takes it to (the
Caddyfile it posts is the same each time); Caddy refuses a pair that does not fit; the lineage certbot finds is
the installed one; certbot is installed; two installations in the same millisecond (which would share a staging
name) are left out. Visible in the model: a renewal whose reload is refused is not handed over again before the
next one; a certificate whose marker was lost is not renewed by the timer; a torn pair is
healed by renewal only while certificate and marker are Let's Encrypt's (`TornHeals` says no more).

## Runs

| Run | Instance | Shows |
|---|---|---|
| `enrich_safety` | 1 CVE, 2 messages, 2 publishers (hot sweep, fanout), translate, 1 fault of 6 kinds, 1 replay, 1 extra, 2 hours | `KeyExclusive`, `StormBound` |
| `enrich_duplicate` | the same with llm, hot sweep and digest, 2 faults without worker crash | `TypeOK`, `DuplicateIsCovered` |
| `enrich_live` | 1 CVE, 4 messages, 1 publisher (hot sweep, backlog), llm, 2 faults of all 7 kinds, 3 hours, a day of one hour | `EventuallyMature` |
| `enrich_crash_duplicate` | violation: 1 worker crash | `DuplicateIsCovered` fails |
| `catalog` | 5 windows, 3 a burst, 2010 at 2, a key or none, 2 saves or removals, 1 fault | `TypeOK`, `CompleteMeansVisited`, `RequestStands`, `EventuallyComplete`, `IncrementalRuns` |
| `catalog_defaults` | violation: 10 windows, 7 a burst, 2010 at 4, no fault | `EventuallyComplete` fails |
| `watermark` | 2 CVEs, 1 a page, 4 minutes, 1 modification, 2 faults, imports, audit pruning | `TypeOK`, `NothingMissed`, `CatchesUp` |
| `platform_update` | both modes, 2 administrators who overlap once, 3 slots, 2 pushes, 1 fault (torn reads included), 1 slow step | `TypeOK`, `RunningIsBusy`, `OneUpdater`, `Installs`, `DeploysCheckout`, `UpdateLands` |
| `update_retry` | violation: 1 administrator, 1 push, 1 slow step, no failure | `DoneMeansDeployed` fails |
| `voc_desk` | 8 workloads of up to 5 requests by 2 analysts and the timer; 2 cases, 3 tasks, 2 CVEs, 3 signals | `TypeOK`, `OneCasePerKey`, `OneTaskPerCase`, `ScoreIsCurrent`, `ResolveSettles`, `NoSilentReopen`, `MarksSurvive`, `TaskArrives` |
| `voc_floor` | violation: one case, one edit of its task | `FloorKept` fails |
| `web_tls` | 6 workloads of up to 2 requests of 2 administrators beside the timer; a life of 14 checks, renewed below 12, pause 2, 3 failures between certificates | `TypeOK`, `DiskWhole`, `ServedIsDisk`, `NeverExpires`, `ChoiceStays`, `TornHeals` |

**Why these bounds.** Two messages with two publishers are what two copies of one key need, and what
a crash, a retry and a claim need to overlap; the safety of the pipeline does not relate CVEs to each
other, and `EnrichPipelineProofs` removes the bounds. Four messages let a retry chain, a
dead letter and a fresh job coexist. Five catalogue windows with three a burst make a walk of two
bursts that a save or a fault can hit on both sides of 2010. "No key" has a fingerprint like any other, so one key and none are two keys to
walk with, and two changes are a save that replaces the key of a burst and a removal before or after its request. One CVE per page makes offset paging
shift, an overlap of one minute makes a late modification fall exactly on the edge, and a look-back and
retention of two of four minutes let the watermark be pruned in the middle. One fault, one slow step and one overlap in
the update are what each excuse of its properties needs, and `PlatformUpdateProofs` removes the bounds of the safety
properties; two pushes let a second script fetch and merge past what the first is building.

A behaviour of the desk or of the certificate draws one *workload*: how many requests of each operation arrive,
which inputs they may carry, and how many crashes and failures there are. A workload bounds one question (opening
and merging; crashing on the way to a task; filling in; working on a task others change; links;
playbooks; resolving under edits; resolving while the start's backfill runs), and within it every interleaving of its requests is explored. Two analysts are
what every race of these services takes, since each lives between one read and one write; the timer's backfill
is a third request. A post and a CVE signal share a CVE and so a dedup key; urgencies 30 and 90 lie on both sides
of the floors 65 and 20. For the certificate a life of 14 checks is the last three and a half of its six days (before
that nothing is due), enough for the four attempts above. Two requests are what tears the files; three
at once beside a renewal are not covered.

Every cap is a constant named `Max...`, or a field of a workload, and stands in a guard. Symmetry is used only in
safety runs (messages, publishers, administrators, host slots); never where a liveness property is checked.
Deadlock is checked in the catalogue, watermark, update and certificate runs; it is off for the pipeline, which
really stops when every CVE has its text, the hours of the bound are over and the queue is empty, and for the desk, which
is idle once its workload is done.

**What the violations show.**

1. `catalog_defaults`: `isLikelyForwardCursor` (`catalog`:153-159) takes any running cursor before
   2010 for one left by an older scan, and the next read starts the walk again from today. A walk
   completes only if one burst covers everything from a cursor at or after 2010 down to 1999; with the
   default windows per burst it does not, so the catalogue stays active and `runOnce` (`ingest`:364)
   keeps skipping the incremental ingest. `catalog` is the run where one burst does cover it.
2. `update_retry`: an update that stops between merge and build leaves the checkout at the
   remote's commit; every later script and `apply` find nothing to do and the old containers stay.
3. `enrich_crash_duplicate`: a redelivered message is taken for a duplicate of itself. The claim's TTL
   and the next bucket repair it, which is what `enrich_live` shows.
4. `voc_floor`: the floor a case's task is lifted to (`services/vuln-task.service.ts`:660) is gone at the first patch
   of anything, because every write ends in `recomputeTask`, which knows only the CVEs. `ScoreIsCurrent` is the
   property that does hold: at rest the score is the recomputed one, or the floor of a task just made.

Seen on the way and not made into runs of their own: two concurrent applies both pass the lock while `check()`
awaits git (two host scripts, or one killing the other's container; `slipped` marks them); two signals with one
key, opened at once, make two cases, and two requests that ensure a task at once make two (`flagged`); a key saved during
the burst that finishes the catalogue: the burst fetches its last windows with the new key, marks the catalogue complete with the old
one, over the request for a new walk, and nothing starts it again although the settings page has announced a full load
(`src/apps/web/src/components/dashboard/integration-settings-panel.tsx`:526; `changed` marks the key). In any earlier burst an overwritten request is harmless: the
next burst finds the fingerprint changed and starts over; on the host, a build from an older checkout may go live after a newer one
(above); `windowChunked` overrides the decision not to advance the watermark, after it was logged; a
duplicate skip keeps a claim for nobody until its TTL; the digest publishes a second job for a CVE
under way (counted in `extra`).

## Fairness

* EnrichPipeline: weak fairness of each *kind* of step (sweeps, publishing, delivery, handling,
  release, expiry, clock), because timers refire, event loops run and the broker delivers; no fairness
  among messages or CVEs. The claim is strongly fair: it stands behind the depth check, which passes
  again and again because consumers drain the queue. Fan-out, digest, replay and clean-up by an
  operator are never assumed to happen.
* NvdCatalog: `runForever` catches every error and goes on (weak fairness of `Loop`); a settings request
  that was started ends. Saving and removing keys, aborts and peeks are free.
* NvdWatermark: weak fairness of the run's steps and of the clock. Faults, pruning, imports and
  modifications are free.
* VocDesk: the start-up timer fires and the event loop goes on while any request can (`WF(BootBackfill)`,
  `WF(\E r : RequestStep(r))`); arrivals, failures and crashes are free. No request needs fairness of its own, since
  each is a finite sequence and arrivals are bounded.
* WebTls: requests run to their end, the timer's interval fires and time passes. Requests by administrators,
  certbot's answers, failures, refusals and crashes are free.
* PlatformUpdate: a request, once begun, goes on, scripts go on, the lock and an unattended status file
  age, and an administrator keeps asking; without the last no update would ever land.

Failures are bounded in number, so the liveness properties say "once failures stop".

## Proofs

`EnrichPipelineProofs` (for any sets of CVEs, messages and publishers and any bounds):

* `TypeCorrect`: `Spec => []TypeOK`.
* `ExclusiveKeys`: `Spec => []KeyExclusive`. Not inductive alone: a handler that has caught an error
  gives its key back, so the invariant adds that an owned key is in the table (`OwnerHasKey`) and that a
  message in back-off still has a retry left (`BackoffHasRetry`, for the type of the retry key).
* `DropsCovered`: `Spec => []DuplicateIsCovered`, under the hypothesis that `Faults` has neither `workerCrash` nor
  `keyDeleteFails`. Both are needed, since both leave a work key behind that nobody works on: `enrich_crash_duplicate` shows
  the first, and TLC finds the second when it is added to `enrich_duplicate`. The invariant `Covered` says that a key in the table has
  an owner at work or a row of its CVE, that an owner is past the tests that drop a message, and that a handler about to
  upgrade, remember or ack, like a text in Redis, has its row. `Keeps` and `RowsStay` name what a step may do to
  one handler and to the rows; `KeepsCovered` carries `Covered` over every step that does no more.
* `DuplicatesBounded`: `Spec => []StormBound`. `Outstanding(c)` is a sum of two cardinalities and a
  counter; each action changes it by at most one. The lemmas `QuietBound`, `OweBound` and `ExtraBound`
  say what an action may do to the two sides: leave the live jobs alone, move one into
  `owing`, or add one that is counted in `extra` or covered by the claim it took.

`NvdCatalogProofs` (any number of keys, windows, windows per burst, faults):

* `CatalogTypeCorrect`: `Spec => []TypeOK`.
* `CompleteIsVisited`: `Spec => []CompleteMeansVisited`, and `RequestIsKept`: `Spec => []RequestStands`, from one invariant. `Backed`
  says of all three copies of the document (`doc`, `mem`, `seen`) that a running cursor is backed by visited
  windows above it, gone through under the document's key, and a complete one by all. A burst's copy carries the burst's key
  while it walks (`OwnKey`), and that key is the one configured, or one of `changed`, as is the key of the window under way
  (`BurstKey`); a walk begins only from an active document (`BeginActive`); and a walk that is owed has the document name the
  configured key, or one of `changed` (`OwedKey`). That is why overwriting each other's document loses
  time, or a request in the one case `changed` marks, but never marks a catalogue complete that was not walked.

`NvdWatermarkProofs` (any CVEs, page sizes, windows, overlaps, retention and failures):

* `WatermarkTypeCorrect`: `Spec => []TypeOK`, with the bounds `Bounded` on watermark, window, offset and retries.
* `MissesNothing`: `Spec => []NothingMissed`. Between two runs it is almost inductive; inside a run `RunKnows` says where
  each CVE is that is behind the end of the window and not stored: it failed, it is on the page in hand
  in the version NVD shows, or it has not been taken yet and lies at or beyond the offset (`Ahead`), unless the pages have
  shifted or the loop gives up. Ahead is a statement about ranks: the lemmas `RankBelow`, `RankOrder` and those after
  them say that a page holds the items whose rank lies in it, and that a modification moves an item only out
  of the window or to an `until` that the next run's overlap reaches again. `PageFresh` says that of a stale version
  in hand, `ImportOld` that an import never holds a version from the future.

`PlatformUpdateProofs` (any administrators, slots, modes, versions, failures):

* `UpdateTypeCorrect`: `Spec => []TypeOK`.
* `UpdateInstalls`: `Spec => Installs`, the refinement of `Installation`. A merge moves the checkout to
  `origin`, so the step needs `Ordered`: `checkout <= origin <= remote`. With it `OrderedStep` maps every step to
  `Publish`, `Install`, `StartBuild`, `EndBuild` or a stutter.
* `UpdateDeploysCheckout`: `Spec => DeploysCheckout`. `Current` says that without a slow step or a slip, or with the helper, a script
  that is building builds what is checked out: nobody else is there to merge, by the invariant `Races` below.
* `UpdateAlone`: `Spec => []OneUpdater`, and `UpdateTellsRunning`: `Spec => []RunningIsBusy`. Neither is inductive: a
  script that is about to be launched is not running yet. The invariant `Races` says that unless one slipped by
  at most one request is past the busy test (`Lone`); that without a slow step a running script shows as busy, is the
  only one, and there is none while a request is between its announcement and its launch (`Clear`); and that with
  the helper only the container's slot runs, removed before each launch (`Alone`), which is why a slow step does no
  harm there. `QuietStep` covers the actions that touch neither requests nor scripts; `GateRaces`,
  `LaunchRaces`, `PassRaces` and `ScriptRaces` the others.

`VocDeskProofs` (any signals, requests, cases, tasks, workloads):

* `DeskTypeCorrect`: `Spec => []TypeOK`. The types of a request depend on where it stands (`Fits`): at `insertTask`
  it has a case and no task yet, at `mark` a playbook in hand, and so on; the lemmas say for each exit of a step that the
  point it jumps to finds what it needs, and that rows never go away.
* `OneCase`: `Spec => []OneCasePerKey`, and `OneTask`: `Spec => []OneTaskPerCase`. `Keyed` adds to the first that two
  requests about to insert the same key, or one beside a case it should have merged into, have that key flagged; `Tasked`
  adds to the second that a request making a task for an unflagged case is alone with it, that the case has no task
  and that the only row for it is the request's own. `CalmReqs`, `CalmRows` and `FlagsKept` name what most steps leave
  alone; only `OpenCase`, `InsertCase`, `SetStatus` (keys) and `EnsureTask`, `InsertTask`, `LinkTask`, `Fail`, `Crash`
  (tasks) need an argument of their own.
* `NeverReopened`: `Spec => NoSilentReopen`, and `MarksKept`: `Spec => MarksSurvive`, step by step from the types.

`VocOutcomeProofs` (on top of `VocDeskProofs`, with the same generality):

* `ScoreCurrent`: `Spec => []ScoreIsCurrent`. A score is right only when nobody is computing it, so `Scored` says of every
  task no race or cut has touched: a request that has read its links or its status still has what is there (`Held`),
  and if no request is on its way to write the score, the score is the one of links and status, or the floor of an open
  task of a case (`Right`). `Follows` says of a step that a request knows no more of a task than before and does not
  drop a recomputation it owes; `FrameAt` carries `Scored` over all such steps, and the writes of links, status and
  score have lemmas of their own.
* `ResolveDone`: `Spec => ResolveSettles`. `Resolving` says of a resolve that nothing has overlapped that all other requests are
  idle and how far it has come (`Settling`): case resolved, the signals before the current one done, the task
  closed, its recomputation seeing "closed". It needs `Located`, where a request of each operation can stand.

`WebTlsProofs` (any administrators, workloads, lives, thresholds and pauses), from one invariant `TlsInvariant`:

* `TlsTypeCorrect`: `Spec => []TypeOK`.
* `FilesWhole`: `Spec => []DiskWhole`, from `DiskKept`: unless the files are mixed, they are whole whenever nobody has written
  one of them and not yet the last. Its core, `AllAlike`, says that a request that has written a file and still
  believes itself alone is right, and that what it holds is what lies on disk.
* `ServesDisk`: `Spec => []ServedIsDisk`, from `ServeKept`: unless a hand-over failed or was raced, the listener has the files
  whenever nobody has written or is handing them over.
* `RenewedInTime`: `Spec => []NeverExpires`, from `Renewed` (who has passed certbot has put a fresh certificate over one that
  was due) and `Ends`: after `fails` failed attempts a certificate that is due has at least
  `Threshold - (fails + 1) * Wait + pause` checks left.
* `ChoiceKept`: `Spec => ChoiceStays`, from what `Typed` says of a timer that has read the marker.

The proofs assume what the ASSUMEs of the specifications state: finite sets of messages, publishers and CVEs, positive
sizes, "no key" not being a key, the container being a slot, tasks not being cases, signals or CVEs, `None` being
none of the values beside it. Three say more:

* `OverlapAssumption` (NvdWatermark): the overlap is shorter than the longest window, as with the code's defaults, and NVD shows
  a modification within the overlap. The latter is what the overlap is for, and nothing in the code could do without it.
* `PatienceAssumption` (WebTls): `(Patience + 1) * (Pause + 1) <= Threshold`, the failed attempts and their pauses fit into
  the renewal time. With six-hour checks, a threshold of three days and a pause of twelve hours that is
  three failures in a row (`4 * 3 = 12`); for a fourth the code promises nothing.
* `WorkloadAssumption` (WebTls): the process starts on files that belong together, with a certificate of Let's Encrypt not yet due.

TLC evaluates all of them on every run. Every strengthening above was also checked by TLC over the states of the
component's run before it was proved.

Model-checked only: liveness, which is outside the prover: `EventuallyMature`, `EventuallyComplete`, `IncrementalRuns`,
`CatchesUp`, `UpdateLands`, `TaskArrives`, `TornHeals`. Every invariant and every action property of the passing
runs is a theorem; `DuplicateIsCovered` with the hypothesis above.

## Not modelled

The map covers the code that decides something other code relies on later. Of the 88 thousand lines about 45
thousand are the web front end (components, charts, tables, forms), which shows what the API answers and keeps no
state others depend on. Most of the rest has no control to model either:

* **feeds** (BDU, KEV, EPSS, advisories, exploit intelligence): periodic downloads, parsing and idempotent upserts;
  nothing is carried from one run to the next, except by NVD, which is modelled;
* **texts**: prompts, card contexts, playbook and brief builders, digests, bulletins and PDFs are string layout;
* **queries**: list, statistics and dashboard endpoints are SQL views over rows the models have;
* **schema and migrations**: idempotent DDL before anything else runs;
* **scoring**: `risk/scoring.ts` is floating-point arithmetic over one row; its queue repeats the pipeline's shape with an
  upsert of the score at the end;
* **users**: row updates behind one guard, and signed tokens without state on the server;
* **in-process runners** (`cve-enrich-runner` and its siblings): single loops of one process beside the queue, not
  reached yet;
* **read caches, metrics, housekeeping, one-shot repairs, deployment**: caches whose staleness is bounded by a time, and
  scripts run by hand.

Of the modelled components: the batch loop of the dead-letter replay, negative caching of on-demand imports,
pruning of result rows, the update's manual clean-up, shift records and alerts, certbot's and openssl's arguments.

## Plan

What is left, in this order:

1. `DlqReplay`: the batch loop with requeue at the head, bounded by its limit (`queue/dlq-replay.ts`),
   composed with the queue of EnrichPipeline; a dead letter behind one that cannot be replayed.
2. `InflightLease`, the abstract promise of `claimEnrichInflight`/`releaseEnrichInflight` (a lease
   that is held, lapses or is released), with EnrichPipeline implementing it as a PROPERTY of an
   existing run, and the step-wise theorem.
3. Theorems: each safety property of 1 and 2 as it is added; the fault-free part of `DuplicateIsCovered` from the
   promise of `InflightLease`.
