# Risk Analysis Workbench: TLA+ models and proofs

The Workbench is a FastAPI application over two SQL Server databases
(WORKBENCH, its own; LOSS, the loss repository), a pool of Dramatiq worker
threads woken through Redis, one poller process, and Moody's Risk Modeler, the
external service that holds exposures and runs models. Nearly everything that
matters happens outside a request: a request writes a row and queues a job, a
worker calls Risk Modeler and records what it was told, the poller watches the
Risk Modeler jobs and queues the next step. What can go wrong goes wrong
between those actors, and that is what these modules are about.

    tlc -workers 2 -config RwbQueue.cfg MCRwbQueue      # one run
    tlapm QueueAndTemplatesProofs.tla                   # one module of proofs

`PROJECT.json` lists the runs, the properties each one checks, the mutant that
shows each property can fail, the source lines of every definition, the
hazards and the theorems.

## 1. Inventory

### Components, their state and their operations

| Component | State it keeps | Operations that change it | Module |
|---|---|---|---|
| Work queue, `rwb_job_service` | `rwb_job` (one row per requestor and type), `rwb_job_heartbeat` | enqueue, ensure-pending, resubmit, claim, complete, cancel, reconcile | `RwbQueue` |
| Worker runtime, `workers/runtime` | a thread's place in `run_job`, the heartbeat daemon | claim, beat, run the body, complete | `RwbQueue` |
| Wake-ups, `workers/dispatch`, `broker` | messages in Redis | send at enqueue, sweep by the poller | `RwbQueue` |
| Analysis workers, `workers/analysis_jobs` | `irp_analysis`, `irp_job` | execute batch, finalize, retrieve results | `AnalysisExecution` |
| Poller, `poller/run` | `irp_job.status`, the entity behind it | track, terminal handlers, submission retry, reclaim of a lost retry, reconcile, sweep | in each module that has Risk Modeler jobs |
| Analysis deletion, `analysis_service` | `irp_analysis.deleted_at`, Risk Modeler | delete there, then here | `AnalysisExecution` |
| Results export, `export_service`, `workers/export_jobs` | manifest and staged losses in LOSS, export archives on the share | create, submit, stage, load, Retry, Close | `ResultsExport` |
| Load procedure, `db/bootstrap/loss_schema.sql` | `dbo` loss tables | claim, publish, CATCH | `ResultsExport` |
| EDM and RDM import, `entity_jobs`, `edm_service`, `rdm_service`, `_common` | `irp_edm`, `irp_rdm`, import jobs, captured analyses | import, upload, terminal backfill, adopt, capture, retry, replace the file, sync | `EntityImport` |
| Portfolio snapshots, breakout and hazard lookup: `portfolio_service`, `breakout_service`, `portfolio_jobs`, `geohaz_*` | `irp_portfolio`, its lineage, `breakout_group`, Risk Modeler portfolios, the source's stamp | sync, prune, confirm a plan, create or adopt an entry, refresh, look up | `PortfolioBreakout` |
| Grouping, `grouping_service`, `grouping_jobs`, `irp_integration/grouping` | group rows, `irp_job` | inspect, choose, submit under a free name, finalize by name | `GroupingInspection`, `AnalysisGrouping` |
| Submissions, `submission_service`, `submission_delete_service`, `analysis_import_service` | submission, contracts, links, attachments, imported analyses | create, edit, reassign, change status, attach, detach, contracts, import by id, delete | `SubmissionLifecycle` |
| Templates, suites, plans and reference data: `template_service`, `analysis_execution_service`, `metadata_jobs` | templates, tags, suites, cache tables | save, duplicate, delete, sync, gate and plan of an execution | `AnalysisTemplates` |
| Accounts and sessions, `auth/*`, `routers/admin` | `app_user`, `user_session` | sign in, provision, link, administer, expire | `UserAccounts` |
| Risk Modeler client, `irp_integration` | the token of a session | send and repeat, log in, find or create, execute, poll, search | `RiskModelerClient` |
| Database access, shared drive, search, migrations, e-mail | none that a step of another part reads | | not modelled (section 8) |

### How they interact

- **Through tables.** Requests, workers and the poller share `rwb_job`,
  `irp_job` and the entity rows. Transactions are short and READ COMMITTED: a
  value read by one statement may be stale at the next. Reads of the LOSS
  manifest are READ UNCOMMITTED.
- **Through keys.** An `rwb_job` is unique per (requestor type, requestor id,
  job type). Work is chained by enqueuing under the id of the thing that caused
  it, so that an enqueue that is repeated does nothing.
- **Through wake-ups.** Redis holds only hints; the poller resends one for each
  pending row.
- **Through markers.** A page carries the `updated_at` it showed; a write that
  repeats it in its WHERE changes nothing that has moved.
- **Through Risk Modeler.** Submits are accepted, rejected, lost on the way or
  accepted without an answer; its jobs end in their own time; it does not know
  the Workbench's keys, and some objects are found again by name alone.
- **Between databases.** Nothing is atomic across WORKBENCH, LOSS, the share
  and Risk Modeler.

### What is hard

Claims, late completions, reclaims and retries of one job racing each other; a
worker lost between a Risk Modeler call and the row that records it; two
threads in the same body after a stalled heartbeat; the poller's retry against
a delete; a decision taken on a row that has moved; a body of several rows that
fails half-way; two syncs that upsert and prune from different enumerations; a
name that is free when looked for and taken when used; the last permitted
attempt; a page of a list that shifts under the walk over it. `PROJECT.json`
lists each at its line under `hazards`, with the properties that cover it, or
the reason none does.

### What makes each component correct

- Queue: no run without an insert, a counted attempt or a reclaim; one
  executor until somebody resets the job; a result stands; every job settles.
- Analysis: one Risk Modeler run per unit unless something was lost; retry and
  delete exclude each other; nothing stays pending.
- Export: only complete losses are loaded, once until a Retry; whatever fails,
  the analyst can retry. Each has one exception, named by its property.
- Import: one upload per request unless something was lost; what strands an
  entity is named; every captured analysis gets its retrieval.
- Breakout: the accounts of two breakouts never share a portfolio, a value has
  one portfolio, a sync repairs the rows and a lookup's refresh the stamp. Each
  has exceptions, named by its property.
- Grouping: the group run is the one the analyst saw; a ready row points at its
  own group; every row settles.
- Submissions: references resolve; nothing is saved unseen; work outlives a
  deleted submission only by a named race.
- Templates: no suite names a deleted template, a plan is what was checked.
- Accounts: an administrator remains; a deactivation ends the sessions.
- Client: what was created is accounted for; polls and searches are complete
  or raise; every call ends.

## 2. Modules

One step of a model is one SQL statement, one transaction or one call to Risk
Modeler, because that is what the code makes atomic. Loops over rows are one
step per row. The queue appears in full in `RwbQueue`; the other modules reduce
it to what `RwbQueue` shows: a pending job is claimed by one thread, the job of
a lost thread or (where "taken" or "stall" is a fault of the module) of a live
one goes back to pending, and the first completion that finds the row running
wins.

A body ends early in two ways, and `run_job` (`workers/runtime.py:178-202`)
tells them apart. `Crash` is a lost process: the row stays running, the
reconciler sends it back to pending and a thread runs it again. `Raises` is a
body that raises where nothing in it catches, or meets the actor's time limit:
the job is completed failed, nobody runs it again unless an analyst asks, and
what it was about stays as the body left it. `AnalysisExecution`,
`ResultsExport`, `EntityImport` and `AnalysisGrouping`, which state that nothing
is left behind, have both at every step outside a handler, under one bound, and
call the status of such a job `raised`, so that a property can tell it from a
failure the body returned. For the queue page's Retry (`Resubmit`) the two are
the same. In `RwbQueue` a body succeeds or fails; `SubmissionLifecycle` and
`PortfolioBreakout` have failed jobs, and their properties are about what was
written, or about a state without failed jobs (`Quiet` of `SyncHeals`).

### `JobLifecycle` and `RwbQueue`

`JobLifecycle` says what an observer of `status_code` and `attempt_count` may
see: a job is opened once, starts only from pending, gets a result only while
running, goes back to pending in the same attempt, or is reopened with the
attempt counted. `RwbQueue` is the code below it, and implements it:

| Variable | Code |
|---|---|
| `row` | `rwb_job`: `status_code`, `claimed_by`, `attempt_count` |
| `heartbeat` | `rwb_job_heartbeat`: none, fresh or older than the limit |
| `message` | wake-ups in Redis, per job |
| `worker` | a thread's place in `run_job` |
| `request` | a request between the SELECT and the write of `ensure_pending_rwb_job` |
| `started`, `reclaimed` | history: claims won, resets by the reconciler |
| `spent` | how much of each bound is used |

`Enqueue`, `EnsureSelect`, `EnsureInsert`, `EnsureRevive`, `ResubmitRead`,
`Cancel`, `Claim`, `Complete`, `Reconcile` and `DispatchPending` are the
statements of those names. `FirstBeat` is apart from `Claim` because the code
commits the claim first. `Beat` is the daemon, which does not look at the claim.
`LoseMessage` and `DuplicateMessage` are Redis; `Crash` is a killed process or
a raising statement of the runtime; `HeartbeatExpires` and `HeartbeatStalls`
are time.

### `AnalysisExecution`

One execution, after its batch is planned. `analysis` is the `irp_analysis` row
of each unit, `irpJobs` its `irp_job` rows, `rmLive` what Risk Modeler holds,
`runs` the history of what it accepted. The three worker bodies, the poller's
tracking, its submission retry with the reclaim of a lost one, and the delete
request are each a place in a body plus what the body has read.

Abstracted: the settings payload and the item list; the search for a free name
(a thread that loses a unit's key runs out of names and raises); the back-off
clock; Risk Modeler statuses under way are one status, FAILED and CANCELLED are
one.

### `ResultsExport`

One analysis of an export, with a manifest row per treaty. `row` holds
`stage_status`, `load_status`, `irp_export_job_id`, whether an archive is
recorded, and `closed_at`; `elt` the staged losses and whose file record they
hang on; `loads` the history: what each load took, the loaded rows that were
stamped over (`forgotten`), whether a load was asked for while its job ran
(`late`); `exports` the export jobs; `held` the treaties that the loss file
really holds, arbitrary and fixed. The submit,
stage and load bodies, the stored procedure, Retry and Close are step by step
as in the code, with the branches of `retry_decision`.

Abstracted: the files of a row are one, uploaded in one step; the two DELETEs
that discard a partial stage are one step; parsing succeeds or fails; whether
an archive is still on the share or an export is too old to download is any
answer, each time. `InTry` are the places of the stage body inside its `try`,
where an exception or the time limit stamps the rows first (`StageFails`);
everywhere else the body raises, and the CATCH of the procedure runs in the
server whatever becomes of the thread. `StampLost` is the one stamp that may
fail unnoticed, that of `_load_one`.

### `EntityImport`

One EDM or RDM (chosen at Init) from the request that creates it. `entity` is
the row, `irpJobs` its import jobs, `heads` the statuses of its `rwb_job`s
(upload, sync, one backfill per import job), `thread` a place in the upload or
backfill body, `poller` a place in the terminal handler, `captured` the rows of
an RDM's analyses with their retrieval jobs, `adopted` the exposures other live
rows took from the catalogue. Requests import, retry, replace the file, sync or
adopt; `log` remembers what was lost inside the window that the comment above
`record_submitted_irp_job` names.

Abstracted: an upload is one call; notes, lists and the catalogue page; an
adopted exposure that conflicts makes the poller's transaction fail, and pass
after pass.

### `PortfolioBreakout`

The sub-portfolios of one source portfolio as Risk Modeler holds them (`rm`)
and as `irp_portfolio` shows them (`rows`). A key is a value of a dimension or
the member set of a custom group. Syncs, breakouts, refreshes and hazard
lookups are bodies run by threads; the breakout's create, post, adopt, populate
and save are separate steps, because the name is looked for before it is used
and the portfolio is made before its accounts and its lineage row are. `log`
keeps what the properties except: `renamed` (a plan was armed that names a value
anew while it may have a portfolio without a row, or a thread may still post it
under the old name), `twice` (a name was posted that a portfolio had), `hidden`
(a sync pruned the row of a portfolio Risk Modeler holds, or of a value it holds
one for), `late` (an older stamp was stored over a newer one).

Abstracted: one value per entry stands for the accounts its selection resolves
to; treaty rows follow the same upsert and prune; source deletion, renames,
portfolios of other origin, page state and banners are left out.

### `GroupingInspection` and `AnalysisGrouping`

`GroupingInspection` is the decision part of `irp_integration/grouping.py` as
operators without state: the problems of a region row, the facts, the
partitions, what may be chosen, which choices are refused, the fingerprint and
the request body. `AnalysisGrouping` adds the actors: the dialog that inspects
(`seen`), the posted `choice`, the worker that inspects again and submits under
a free name, the poller, and finalize, which finds the group by its name. The
history `log` counts the jobs taken from a live thread and the accepted calls
without a record, and names the requests that were left without an error mark.
A claim that finds no free name raises (`grouping_jobs.py:72-83`).

Abstracted: a partition key stands for peril, region and model version; labels,
treaty warnings, currencies, simulation counts, the eligibility of members and
the chained retrieval are left out, and the period choice is always posted.

### `SubmissionLifecycle`

`deal` is the submission row with its marker as a version, `contract` one row
per request that may add one, `edms` the attachments, `group` the one group of
a submission with its jobs and rows, `export` its open manifest rows, `imports`
the analyses imported by id with their finalize jobs. A request asks from a
page (`Page` is what it carries), passes a gate, and writes; a deletion reads
in five steps and commits one transaction. `during` records what began while a
deletion was reading.

Abstracted: the gate's reads are one step (a later read could only refuse
more, and the write repeats the marker, the key or the index); Completed and
Cancelled are one `closed`; one group and one export per submission; the
archive flag, cedants, clients, notes, treaty types, RDM attachments and
several import entries are left out.

### `AnalysisTemplates`

Templates, suites, the cached catalogue and one execution gate. A save, copy or
deletion reads in one step and commits in another; unique indexes over live
names refuse the loser of a race. A sync reads its lists one after another and
replaces the cache in one transaction. The gate of an execution reads suite,
template rows, tags and reference data in separate statements and plans.

Abstracted: what a profile and a scheme say is a kind and a relation; output
profiles, currencies and vintages are looked up like profiles; the hidden flag,
the EDM, portfolio and treaty checks of the gate and the forms are left out.

### `RiskModelerClient`

The threads of a process share a client and its token. One `request` is
attempts, answers, repeats and one login; above it find-or-create by name,
`execute_workflow`, four ways to poll a batch, and the walk over the pages of a
search before five kinds of server.

Abstracted: response bodies, back-off times, checks of arguments, transfers to
S3 and the poll of an RDM deletion.

### `UserAccounts`

Every statement commits by itself, so a sign-in (by password, by Entra with
linking or first-time provisioning) and an administrator's request are
sequences of steps any other request may fall between.

Abstracted: the two clocks of a session are one step; the login audit, the
idle window's touch, CSRF, cookies and display names are left out. Signing out
writes nothing (section 5).

## 3. Runs

Bounds are constants of the modules and appear in the guards of the steps they
limit: crashes, stalls, lost answers, passes that hit a fresh claim, requests,
resubmissions, changes in Risk Modeler, wake-ups in flight, exports, commits.

| Run | Instance | Shows |
|---|---|---|
| `queue` | 1 job, 2 threads, 2 requests; one crash, stall and early pass | accounted runs, results stand, cancelled jobs revive only by a racing retry, refinement of `JobLifecycle`, every job settles |
| `analysis_chain` | 1 unit, 2 threads; a crash or raise, a stall, a resubmit | the rows stay typed when a job runs twice at once; an analysis settles or a job raised and left it, results arrive or a failed job says so |
| `analysis_outage` | 2 units, 1 thread, 2 deletes; crash or raise, lost answer, ceiling 3 | accounted runs, retry and delete exclude each other, no orphans |
| `export_safety` | 2 rows, 2 threads, 1 export; two crashes or raises, one request | complete loads, one load until a Retry unless stamped over, a Retry on offer unless a job ended without a stamp or a load was late |
| `import_safety` | an EDM or an RDM with one analysis, 2 threads, 3 requests; one loss or raise, one change | accounted uploads, nothing stranded or left out but by the races named |
| `breakout_safety` | 1 value, 1 group, 2 names, 2 threads, 2 requests; one fault, one change, 3 lookups | accounts apart, one portfolio per value, syncs and lookups heal |
| `grouping_safety` | 2 submissions, one name, 2 threads; one fault, one resubmission | a ready group is its own, accounted groups, rows settle but for the cases named |
| `grouping_choices` | 1 request over about 100 answers of Risk Modeler, and any change between the dialog and the worker | the group posted is the one seen, and covers its members |
| `submission_safety` | 2 submissions, 3 requests of any kind; crash, resubmission | references resolve, edits replace what they showed, work outlives only by race |
| `templates_safety` | 2 administrators, 2 templates, 1 suite, 1 execution; 4 commits, one change, one sync | suites without deleted templates, plans as checked |
| `client_safety` | 2 threads, 4 jobs, pages of 1 and 2; one repeat, one row that comes or goes | created once unless lost, polls and searches complete, every call ends |
| `accounts_safety` | 2 accounts, 2 identities, 2 sessions, 2 requests at a time | an administrator remains, deactivation ends sessions |

Why the bounds are enough: the races are between two threads of one job, a
thread and a request, a thread and the poller, or two requests, and one crash
or stall creates each of them; a second job, unit, row, page or name is there
where siblings share something (the batch, the poller's candidates, the load
job, a marker, an index). Three requests in `submission_safety` are two edits
of one submission against a deletion of it. The worlds of `grouping_choices`
are each kind of missing id against three rows of the other member, then what
Risk Modeler offers for members that conflict, for members it converts, and for
both. Symmetry is used for threads, requests, sessions and other values that no
definition tells apart, in safety runs only. `CHECK_DEADLOCK FALSE` appears
where the modelled work really ends. In `export_safety` no thread stalls and
there is one export: two stage runs of one row can otherwise take each other's
staged losses away, which no property claims to exclude. It has two crashes,
because with one neither exception of its properties matters; the inductive
invariant of its proofs was checked on larger instances too (two exports and
two stalls, three rows and four crashes, two requests). `TemplatesSafety.cfg`
has a CONSTRAINT: at most two actors are under way, and Risk Modeler's catalogue
moves under one of them and within three commits; races of three are out of its reach.

A property that names its exceptions (`only by race`, `unless lost`) refers to
history the model keeps for it: how often a process was lost inside the one
window, whether a job was taken from a live thread. Or it refers to the jobs
themselves: a row may stay behind a job that raised, but it must be the row's
own job, at rest in the queue page's failed list, and a job that only returned a
failure is no excuse. Each such exception is one the code has, found by a run
before it was written down.

### Fairness

`RwbQueue`: a live thread takes its next step (weak fairness on the first beat,
the body's return and the completion; the actor's time limit ends every body);
a beat nobody renews goes stale; the poller's passes go on, started by its
loop; and a wake-up that is delivered again and again is once claimed (strong
fairness: messages may be lost, but the sweep resends them). No fairness for
requests, cancels, crashes, stalls or losses. `AnalysisExecution` is the same
for its threads, adds that runs of Risk Modeler end and that the poller finishes
the retry it started, and takes from `RwbQueue` that an abandoned job is
reclaimed; a raise is chance, like a crash. `RiskModelerClient`: a thread in a call takes its next step, since
every wait of the client has an end. The other modules state safety only.

## 4. Hazards without a property

Three: a Retry of an export row whose job still runs, a contract written on a
submission that was closed after the gate, and the reclaim that spends the last
attempt of a retry. They are things the code lets happen, the models show them,
and they are in the next section. Others are covered up to an exception the
property names, or on an instance smaller than the theorem; their `note` in
`PROJECT.json` says so.

## 5. Where the code and its documentation disagree

Met while modelling; none is stated by a run. Each is visible in the model as
the exception of a property, or in a definition.

Jobs that raise
- `run_job` fails a job whose body raises or meets its time limit, and only the
  body knows what to mark. A finalize that raises (`analysis_jobs.py:279`,
  `301`) leaves its analysis or group pending, an upload at its time limit
  (`entity_jobs.py:83`) its entity pending_import, a grouping submit
  (`grouping_jobs.py:72-83`, `149`, `161`) its group pending, a load at its time
  limit (`export_jobs.py:593`, `637`) its rows staged. Nothing but the queue
  page's Retry goes on, and the row still shows as under way
  (`JobGaveUp`, `UploadRaised`, `JobRaised` and the last cases of
  `EveryAnalysisSettles`).
- `_fail_unstaged` says that "every exit but success stamps the rows", since "an
  unstamped failure would be stuck for good" (`export_jobs.py:514-515`). The
  reads before the `try` (lines 522, 524) and after it (549) are exits without a
  stamp (`JobGaveUp`).

Queue and analyses
- `complete_rwb_job` does not compare `claimed_by`
  (`rwb_job_service.py:449`): a thread that lost its row writes its result over
  the run that replaced it.
- A reconciler pass between the claim and the first beat takes the row from a
  live thread.
- The reclaim of an abandoned retry (`poller/run.py:502`) spends an attempt
  without looking at the ceiling: the analysis stays pending with nobody to
  move it (`OutOfAttempts` in `EveryAnalysisSettles`, which asks for a lost
  poller, or a ceiling of one attempt).

Export
- Two Retries of a row can load it twice; a stage that fails after its first
  row leaves that row neither failed nor queued to load; a Retry of a row whose
  job still runs for its siblings resets the row and arms nothing
  (`export_service.py:709-710`, `724`).
- A stage job that is run again after a crash and cannot queue the load stamps
  `load_status = 'failed'` over every row it listed (`export_jobs.py:555-561`),
  one that was loaded meanwhile too; `_load_one` guards the same stamp
  (`NOT IN ('loaded', 'loading')`, line 601). The row is then loaded a second
  time without a Retry (`forgotten` in `LoadsAreComplete`).
- `ensure_pending_rwb_job` leaves a running job alone (`rwb_job_service.py:127`),
  although a load job reads its rows once, when it starts
  (`export_jobs.py:614`): rows staged since have no load and no Retry (`late` in
  `AnalysisOffersRetry`).

Import
- The retry of an RDM whose import failed in Risk Modeler meets
  `_rdm_import_exists` (`entity_jobs.py:134`) and is skipped: the row stays
  pending_import. After a SUBMISSION FAILED the retry works but the rollup still
  counts the old failure (`_common.py:494`).
- A retry or replacement while the upload job still runs arms nothing; a late
  `mark_importing` can leave the row importing with no job.
- An adopted exposure with the same id makes the poller's transaction fail at
  every pass.

Breakout
- `create_portfolio` looks for the name and then posts; the name a group has
  stored is exempt from the cart's checks, whoever else carries it
  (`breakout_service.py:1185-1187`, `1211`).
- A group's number is its name when that is short (`breakout_service.py:1174`),
  and no check compares it with the number of a value: a group named like one
  can adopt the value's portfolio (the last exception of `AccountsKeptApart`).
- A second request of a quick breakout may give other names to values whose
  portfolios have no row yet, while a thread of the first plan still posts: a
  value then gets two portfolios (`renamed` in `OnePortfolioPerValue`).
- Of two refreshes that overlap the older may store its stamp last; a sync that
  enumerated before a creation prunes the fresh row.
- The batch polls of hazard lookups and upgrades return early: the first job
  that has ended sets the flag, a later one that still runs empties the list and
  leaves the flag set, and the poll returns the empty list while jobs run
  (`portfolio.py:1232`, `edm.py:425`; `StillRunning`).

Grouping
- A worker lost, or raising, between the failure record and the error mark
  leaves the row pending, and the resubmitted job skips. Two submissions can
  submit one name and both finalize to error.

Submissions
- A contract is written on its own marker after a gate on the submission being
  Active (`submission_service.py:382`, `1356`), although closed submissions take
  no changes.
- A finished Risk Modeler job handed from `irp_job` to `rwb_job` between the two
  reads lets a deletion pass, where its docstring says it raises.
- Import by id has no unique index: two imports that overlap, or an import
  beside a group not yet finalized, give two rows; a worker lost between the
  insert and the enqueue leaves a pending row, which the comment says is taken
  back out.

Templates
- A template deleted between `get_suite` and `_template_rows` raises a KeyError
  where an ExecutionGateError is announced. Specification 009 says a stale
  reference is "never a save-blocker" (`spec.md:129`, `data-model.md:169`), and
  specification 010 that the gate "does not pre-block" (`spec.md:150`); the code
  refuses in each case.

Client
- A poll of a batch of workflows returns the last page, where `client.py:490`
  announces all combined; a riskdata batch counts an id that is not listed as
  complete; an analysis batch with such an id never ends, where
  `analysis.py:704` documents a timeout (the exception of `EveryCallReturns`);
  "5 attempts" are six; `paginate_search` skips rows before a server that takes
  its offset for a page number (the exception of `SearchMissesOnlyBehindAGap`).

Accounts
- `/auth/logout` is a public path, so the middleware gives it no user and it
  revokes nothing (specification 001, FR-016); `/auth/setup-profile` is not
  exempt from the role gate (`routers/auth.py:273-276`); `jit_provision` is
  called idempotent, but of two first sign-ins one fails on the unique key;
  linking attaches an identity to an account with a password, against
  specification 001 line 293; two administrators can deactivate each other. The
  self-check of a deactivation compares strings (`routers/admin.py:245`): an id
  in another case passes it. The model compares accounts.

## 6. Proofs

Eight modules of proofs, each for every value of the constants under the named
assumptions of the modules it is about, which TLC evaluates in the runs. The
strengthenings were checked by TLC before they were proved. Every invariant and
every action property of the runs is a theorem. Two modules of proofs are about
two components each, which share no variable: `QueueAndTemplatesProofs` about
`RwbQueue` and `AnalysisTemplates`, `AccessProofs` about `RiskModelerClient` and
`UserAccounts`.

| Module | Theorem | Property |
|---|---|---|
| `QueueAndTemplatesProofs` | `TypeCorrect` | `TypeOK` of `RwbQueue` |
| | `NoUngrantedRun` | `RunsAccounted` |
| | `OneExecutorUntilReset` | `ExclusiveUntilReset` (proved only) |
| | `OwnerMatchesStatus` | `ClaimedByMatchesStatus` (proved only) |
| | `ResultsStand` | `TerminalResultStands` |
| | `CancelOvertakenOnlyByRetry` | `CancelledLeavesOnlyByRacingRetry` |
| | `LifecycleImplemented` | `ImplementsLifecycle` |
| | `LibraryTypeCorrect` | `LibraryTypeOK` |
| | `UsedTemplatesStay` | `DeletedInSuiteOnlyByOverlap` |
| | `PlansAreWhatWasChecked` | `PlanIsWhatWasChecked` |
| `SubmissionProofs` | `TypeCorrect` | `TypeOK` |
| | `NothingSavedUnseen` | `EditsReplaceWhatTheyShowed` |
| | `OnlyRacesOutlive` | `WorkOutlivesOnlyByRace` |
| `AccessProofs` | `ClientTypeCorrect` | `TypeOK` of `RiskModelerClient` |
| | `CreatesOnceButForLossOrRace` | `CreatedTwiceOnlyByLossOrRace` |
| | `ReturnsOnlyAfterAllEnded` | `ReturnedAfterAllEnded` |
| | `SearchesMissOnlyBehindAGap` | `SearchMissesOnlyBehindAGap` |
| | `AccountsTypeCorrect` | `AccountsTypeOK` |
| | `ActiveAdminAlwaysRemains` | `ActiveAdminRemains` |
| | `DeactivationSweepsSessions` | `DeactivationEndsSessions` |
| `AnalysisExecutionProofs` | `TypeCorrect` | `TypeOK` |
| | `RunsAreAccounted` | `RmRunsAccounted` |
| | `NoResubmitOfDeleted` | `DeletedNeverResubmitted` |
| | `NoOrphanLeft` | `DeletionLeavesNoOrphan` |
| `EntityImportProofs` | `TypeCorrect` | `TypeOK` |
| | `ImportsAreAccounted` | `ImportsAccounted` |
| | `StrandsOnlyByRace` | `StrandedOnlyByRace` |
| `ResultsExportProofs` | `TypeCorrect` | `TypeOK` |
| | `LoadsComplete` | `LoadsAreComplete` |
| | `RetryIsOffered` | `AnalysisOffersRetry` |
| `AnalysisGroupingProofs` | `TypeCorrect` | `TypeOK` |
| | `ReadyIsItsOwn` | `ReadyGroupIsItsOwn` |
| | `GroupsAreAccounted` | `GroupsAccounted` |
| | `GroupsSettle` | `GroupSettles` |
| | `BuiltAsSeen` | `GroupedAsSeen` |
| `PortfolioBreakoutProofs` | `BreakoutTypeCorrect` | `TypeOK` |
| | `AccountsKeptApartAlways` | `AccountsKeptApart` |
| | `OnePortfolioPerValueAlways` | `OnePortfolioPerValue` |
| | `SyncHealsAlways` | `SyncHeals` |

**Queue** (`RwbQueueAssumption`: the null values are not members of their sets,
the bounds are natural numbers). `TypeOK` is inductive as it stands.
`RunsAccounted` is not: in a pending state with every grant used up, the next
claim would break it, so it is strengthened by `RunBudget`: while a row is up
for a claim, one grant is still unused. Mutual exclusion needs
`OneThreadUntilReset`: until the first reset a row up for a claim has no thread
at all, and any other row has one at most. The action properties rest on a
lemma that lists what any step may do to one row (`RowSteps`). The refinement
maps each action of the queue to one of the lifecycle or to a stutter, and
needs that a request about to revive a row has seen one (`ReviveSound`).

**Submissions** (`SubmissionAssumption`). `TypeOK` says more than shapes: no
link, contract, attachment, group row or imported row names a submission that
is gone. It is inductive together with `RequestsTyped`, the shape of what a
request carries, because a write uses what a page or an earlier read put there.
`EditsReplaceWhatTheyShowed` needs `PagesKept`: while a page is on its way, a
submission with the marker it showed still has what it showed
(`PageKept`), the same of a contract (`TermsKept`), and a request whose
contract exists has ended (`AddedLast`), so nobody inserts a contract under a
page that shows one. `DealsMoveOn` and `ContractsMoveOn` list what a step may
do to one row: move on with its marker, lose a link, or go.
`WorkOutlivesOnlyByRace` speaks of the end of a deletion; `ReadKept` says what
holds between its reads: once it has found no live job, a job that may run again
(live, or failed and not among those it is to cancel) is noted in `during`, and
the same of the finalize jobs, the imports, the irp_job and the export from the
read of each on. A group that it found without a row can be submitted unnoted
only with a full row, on which the commit fails (`UnknownRow`). `DeletedKept`
says the same of a submission that is gone, for good. `WorkMovesOn` says once
what any step but that commit may do to the work of a submission.

**Accounts** (`AccountsAssumption`). `AccountsTypeOK`, with the uniqueness of identities
that the writes' unique key decides, is inductive as it stands.
`ActiveAdminRemains` needs two strengthenings: a request that administers was
let in for an account that is, and stays, an administrator's
(`AdmittedByAdmin`; roles are only ever added), and an administrator's account
has been inserted (`AdminsKnown`), so that no first sign-in writes over it. The
account a deactivation leaves behind is then the one that asked for it, unless
that one was deactivated meanwhile. `DeactivationEndsSessions` is
inductive with `AccountsTypeOK` and `AdminsKnown`: every session carries the number of
deactivations its account had when it was opened, and only a deactivation adds
to it.

**Executions** (`AnalysisExecutionAssumption`; `ThreadAssumption`: there are
finitely many threads, and none of them is a task). None of the four is
inductive. A stalled batch runs in two threads, both may find a unit without
`irp_job` and both may write one, so the length of `irpJobs` is bounded by a
count of threads: `Staffed` (threads of the batch, one more per stall) and
`JobsCounted` (rows plus threads that may still write one). A run Risk Modeler
accepted is on a row that says so, in the hand of a thread or of the poller, or
was lost with a process or a body that raised (`RunsCounted`, `LostRuns`); with
`JobsCounted` that is `RmRunsAccounted`. The two
properties of deletions compare a delete request, which read the grid once,
with everyone else: `FinishedFirst` (what a run's end leaves behind is about a
finished one), `RetryHeld` (what the poller holds), `PendingFirst` and
`PointedFirst` (while the analysis has one `irp_job`, its row is pending until
that is over, and a ready row points at its result), `Deleting` (a request
without a lock saw the end) and `Deleted`.

**Imports** (`EntityImportAssumption`: finitely many requests). `Held` says which
body a thread runs and that no second thread runs it. An upload that is still to
come has room in the account (`ImportBudget`), a record that is still to come in
the number of jobs (`JobBudget`), and a request asks once (`AskBudget`):
`TypeOK` and `ImportsAccounted` follow. `StrandedOnlyByRace` says that at rest
nothing is left over; its invariants say who is still to serve the row while
there is no rest: an upload, a request about to arm one, a tracked job, a
backfill whose roll-up comes (`PendingIsServed`, `ImportingIsServed`,
`Chained`). An upload that raised counts as one to come until rest
(`UploadToCome`), since its thread has yet to write that and its job can be
armed again; at rest it is what `UploadRaised` says.

**Exports** (`ResultsExportAssumption`: the bounds are natural numbers, there
are finitely many threads, and none of them nor a job is the null value). One
inductive invariant serves all three. `Placed` says which body a thread is in
and what its loop has left; `Keyed` and `Tracked` that jobs, rows and requests
are about recorded exports; `Counted` bounds the exports by those recorded and
those a thread is about to record, from which `TypeOK` follows. `Alone` turns
"no stall" into "no job in two threads", and with one export that leaves one
thread to stage. `CompleteLoads` is then what that thread knows between its
statements: a row to be discarded is not staged, one to be marked has its data,
a claimed one is not loaded. `AnalysisOffersRetry` is about the end; its
invariants say who still has to deal with a row before it: the submit job
(`Unsubmitted`), the stage job, which has read every pending row (`Targets`,
`Pending`), or, for a staged row, the load job, the stage job or the analyst
through another row that failed; or that a job of it has given up (`GivenUp`),
which only a request takes back (`LeftToSome`). Most steps of a body only move
their thread on, and `Advance` says once what they leave as it was.

**Templates** (`CataloguesAssumption`, `DraftsAssumption`, `KeptAssumption`).
`TemplatesSafety.cfg` bounds who is under way at once; the proof does not, and
so covers the races of three. Everything read is stamped with a clock:
`AdminsKept` relates what each transaction has read to the rows as they are now
(the suites that name a template about to be deleted are younger than the
deletion's read, and so on for a save and a copy), `RequestsKept` relates what
the gate of an execution has read to them.

**Grouping** (`AnalysisGroupingAssumption`: finitely many analyses, requests and
threads; what Risk Modeler answers is a `PossibleWorld`, where a scheme of a
model version is one of the active ones and no scheme id is zero; the null
thread is not a job). One inductive invariant serves all five. `JobBudget`
counts, over every set of requests, the jobs, the threads that may still write
one and the requests whose job one more thread may take up beside them: one per
request served, one more per job taken, so that no job lacks its finalize head. `GroupBudget` does the same for the
groups and the thread about to record one, with `doubt` for those lost. A group
is found by its name, so `NamesKept` says who knows the name on the row: the
thread that counted it, the job that names the group, the finalize body that
read it. `Settling` says of a pending row who is still to settle it (its submit job,
an `irp_job` tracked, its finalize job, a thread about to mark), or which of its
jobs raised. `SeenKept` is
about the submit: a thread about to post holds the body of what was seen. That
this body covers every row is `ResolvedCovers`, a lemma about
`GroupingInspection` without state: an inspection without problems and choices
that resolve give a body that drops no row.

**Breakout** (`PortfolioBreakoutAssumption`: the dimensions are disjoint, no key
is of two; the bounds are natural numbers). `Typed` says what the plan of each
job and the hand of each thread hold at every step: a sync's enumeration is of
portfolios there are and of a stamp no newer than Risk Modeler's, a portfolio
about to be populated carries the number of the entry's key (`Fits`). With it
`Holds` is inductive: every key whose accounts a portfolio holds composes that
portfolio's number; two keys of one number are then groups, or a group named by
the number. `OnePortfolioPerValue` needs `OneEach`, which relates five things:
the portfolios (`Alone`), the plan of a queued breakout (`QueueSpelt`), the
plans of the threads that may still post (`HandsSpelt`), the rows, and that all
plans of one dimension that may still be posted are the same (`PlansAlike`). No
value without a row has a portfolio under another name than its plan gives it,
so that the look for the name finds it and the entry adopts. The attempt to
prove it found two states the model had not flagged: a plan armed again while a
thread of the old one is between two entries, and a lost answer to a post whose
name was there already. The first conjunct of `SyncHeals` is `Healed`: what a
sync that has pruned knows of the rows it saw (`Swept`), as long as it is the
last that pruned. The second is `Fresh`: while the stored stamp is behind, some
lookup has a refresh to come (`Comes`), which reads the newest stamp and cannot
succeed without storing it (`Due`); `PollFirst` says that no thread runs the
refresh of a lookup before the poller has armed it.

**Client** (`ClientConstants`). `Typed` is the shape of a call at each of its
steps, any server, any list. `CreatedTwiceOnlyByLossOrRace` counts, call by
call, what Risk Modeler holds against what the call was told of and the answers
it lost (`Counted`), and says of a name about to be created who else may have
made it: only a call that ran beside this one since it searched (`Vied`), so
that two things under one name were made by one call, or the maker of one ran
beside the maker of the other (`Alike`).
`ReturnedAfterAllEnded` rests on `Paging`: the pages fetched so far are a prefix
of the listing of what is wanted, and each job on them was seen running or has
ended; jobs end and never start again, so pages of different times still add
up. `SearchMissesOnlyBehindAGap` rests on `Walking`: the rows that stay during a
search are still listed and, where the server does not take the offset for a
page number, those listed before its next offset are among the rows fetched, and
all of them are when it returns.

Only model-checked: the three liveness properties `EveryJobSettles`,
`EveryAnalysisSettles` and `EveryCallReturns`, which need ENABLED, out of this
prover's reach.

## 7. Plan

Done: the queue with its lifecycle, checked and proved; the analysis
chain, exports, imports, portfolios with breakout and lookups, grouping,
submissions, templates and plans, accounts, and the client, all their safety
checked and proved.

Next, in order of use:

1. An abstract analysis (pending, ready, error, deleted as the analyst sees
   them) that `AnalysisExecution` implements.
2. A composition of `RwbQueue` with the poller's producers, to replace the
   reduced queue of the other modules on a small instance.
3. Analysis batches of an EDM in the deletion of a submission.

## 8. Not modelled, and why

- Risk Modeler is external: it is seen through the outcomes of a call.
- Database access (pools, isolation levels, script runners): its effect, one
  statement or transaction per step, is built into every module.
- Shared drive, search and filters: stateless reads and path validation.
- Migrations and seeds: run once, offline; the constraints they create are
  used. E-mail: one outgoing call.
- Forms, HTML, redirects and read models of the routers; cedants, clients,
  notes, wording, layout, logging and file formats.
- Sequential code of the client package that builds requests and parses
  answers.
- Lost commits, SQL Server failover and a second poller process: the deployment
  starts one poller, and the modules assume it.

Every component is `partly` modelled in the sense that its read models and
forms are left out; the notes in `PROJECT.json` say which operations.
