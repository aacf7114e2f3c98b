# Verification of the Agentic Website Converter

The converter turns a static website (a URL or a ZIP) into a full-stack
application. A browser wizard talks to an Express backend with PostgreSQL and
Redis; the backend hands each conversion to a Python worker; the worker captures
the site, infers a content schema with LLM providers, waits for a person to
approve it, generates an application and validates it. Conversions take minutes
to hours, every part may restart meanwhile, and the user may reload, retry or
change their mind at any time.

This directory holds TLA+ models of that code, the TLC runs that check them and
TLAPS proofs about them. Names of actions, operators and values are those of the
source, so a definition can be laid beside the function it models.

## 1. Inventory

| Part (source) | State | Operations | Interacts with |
| --- | --- | --- | --- |
| Workflow graph (`worker/src/engine/workflow.py`, `resilient_nodes.py`, `state.py`) | `ConversionState` channels: status, gates, proposal, artifacts, scores, five retry counters | one node per superstep, a router after each | called by the engine; runs the stage nodes |
| Stage nodes (`worker/src/engine/nodes.py`, `preserved_site.py`, `runtime_validation.py`) | files of the capture and its checkpoint | capture, extract, infer, scaffold, generate, validate | the network, LLM providers, npm builds |
| Engine (`worker/src/engine/service.py`) | none of its own; the job record it loaded | `create_job`, `run_job`, `infer_schema_stage`, `decide_schema`, reports, `export_job` | job store, graph |
| Job store (`worker/src/engine/job_store.py`) | one record per job, version histories | get, find by key, save | SQLite, or memory when SQLite fails |
| Job API and claims (`worker/src/api/main.py`, `lifecycle.py`) | `JobLifecycle.active` | create, run, infer-schema, schema-decision, view, export; background execution | engine, store; called by the backend |
| MCP server (`worker/src/mcp_server.py`) | an engine of its own | create, run, decide | the same store, without claims |
| Preview manager (`worker/src/engine/preview.py`) | sessions by owner, closed leases, processes | start, stop, status, heartbeat, sweep, shutdown | child processes, proxy handler |
| Failover and evidence (`failover_llm.py`, `schema_evidence.py`) | preferred provider, blocked-until times, cache files | invoke, infer all pages in concurrent batches | providers, progress callbacks |
| Backend jobs (`backend/src/controllers/jobController.ts`, `queue/jobQueue.ts`) | `Crawl` and `Site` rows mirroring the worker's job | create with quota, status, run, infer, decide; queue poller | worker over HTTP, BullMQ |
| Plans and payments (`services/plans.ts`, `payment.controller.ts`) | audit log, user plan | usage, entitlement, checkout | jobs, site deletion |
| Accounts (`authController.ts`, `passwordRecovery*.ts`, `middleware/auth.ts`) | users, reset tokens | register, login, forgot, reset, update | mail queue |
| Wizard (`frontend/src/views/dashboard/Wizard`, `hooks`, `store/jobStore.ts`) | the job shown, the preview lease | poll, resume, heartbeat | backend |

What is hard here, and where:

* **Two writers of one record.** A stage reads the job, works for minutes and
  writes the whole record back (`service.py:393-517`). Only the claim in
  `lifecycle.py` keeps the other handlers from writing in between.
* **Restarts.** Claims live in memory, records on disk. After a restart the saved
  status is all there is to tell a stage that was cut short from one that ended.
* **State that outlives what it was about.** `schema_decision` stays "approved"
  when a new proposal replaces the approved one; artifacts stay when the schema
  changes; a validation report stays when the validator raises.
* **Loops that reset each other's counters.** The validation review resets the
  counter of the layer it retries.
* **Partial failure** between two writes, or between a claim and what releases it.
* **Work that is resumed.** A crawl of hours is continued from its checkpoint; the
  answers of an inference that failed are reused when it is repeated.
* **Mirrors.** The backend's database repeats the worker's status, written by a
  poller, by status requests and by commands, each with what it read earlier.
* **Late and repeated requests**: creation retried after a time-out, duplicate
  approvals, polls answered out of order.

`PROJECT.json` lists each of these at its line under `hazards`, with the
properties that cover it or the reason none does yet.

What makes each part correct, in a line:

* graph: ends, within its budgets, and packages only what was approved and validated;
* jobs: no update lost, no decision forgotten, no claim or job stuck;
* capture: an interruption loses nothing, repeats nothing and admits nothing;
* inference: a schema rests on every captured page, or there is none;
* previews: nothing runs without its lease, and what is left is cleaned up;
* backend: the quota holds, a conversion that was counted starts in the end or is
  offered for resumption, and its status becomes that of the worker.

## 2. Modules

```
ConversionStage            data of a job and of an invocation; Outcomes(call): the contract
  |-- StageExecution       abstract spec: an invocation yields one of its outcomes, once
  |-- ConversionWorkflow   the LangGraph graph; implements StageExecution
  |     |-- MCConversionWorkflow
  |     `-- ConversionWorkflow_proofs
  `-- WorkerJobs           jobs, claims, stages, decisions, crashes; uses Outcomes(call)
        |-- MCWorkerJobs
        `-- WorkerJobs_proofs

PreviewLease               abstract spec: a lease that is over never comes back
  `-- PreviewManager       sessions, threads, processes and their browser; implements PreviewLease
        |-- MCPreviewManager
        `-- PreviewManager_proofs

CrawlLedger                abstract spec: a ledger of captured addresses that only grows
  `-- SiteCrawl            the crawler, its checkpoint and crashes; implements CrawlLedger
        `-- SiteCrawl_proofs
FailoverLLM                providers, preference and back-off, shared by calls
  `-- SchemaEvidence       batches, the pool of threads, the cache, the merge
        `-- SchemaEvidence_proofs
CaptureToSchema            composes SiteCrawl and SchemaEvidence over the files on disk
  |-- MCCaptureToSchema
  `-- CaptureToSchema_proofs   from the two proof modules above

BackendJobs                reservation, queue entry, requests and mirrored status
  |-- MCBackendJobs
  `-- BackendJobs_proofs
```

**ConversionWorkflow.** A node of the graph is a function from `ConversionState`
to `ConversionState`. Here it is an operator from a state to the *set* of states
it may return (the network, a provider or a build decides), a router is an
operator from a state to a node name, and each action runs one node and follows
its edge (`Run`). The channels kept are those control depends on: status, whether
pages and blocks were captured, the gates of the quality reports, the identity of
the proposal, the artifacts (per layer: is its list there, how many of its three
other parts), the scores, the retry counters. Page contents, prompts, file paths,
error texts and telemetry are left out. LangGraph merges what a node returns into
the channels, so a key a node deletes from its result keeps its value; the model
follows the channels, not the dictionary. `CrawlRaises` and `GraphRecursionError`
are the two ways an invocation ends without a result.

**ConversionStage / StageExecution.** The engine needs to know of an invocation
only what may come back. `Outcomes(call)` says so in twenty lines, and
`ImplementsStage` shows by refinement that the seventeen-node graph does nothing
else: the result stays `Pending` until the graph ends, then it is one outcome.
The job life cycle is built on the contract, so it needs none of the graph's
state. `StageCalls` says which invocations the contract is for: those with no review
decision, with the graph's own inference, and with artifacts that an earlier stage
left. The engine's calls in the run are among them (`EngineCallsAssumption`), and so is
every call a stage of WorkerJobs makes (`StagesCallTheContract`). Of other calls
`StageExecution` says that they yield a result.

**WorkerJobs.** One action per handler: a handler has no `await` between its
first read of the store and its return, so the event loop runs it in one step.
Handlers that refuse, or that return the job as it is, are no steps. A stage is
a record in `tasks` that is queued (the background task runs after the response),
running (it has its snapshot of the job) and done (it has saved; `execute` has
not released the claim yet). `Crash` drops claims and tasks and keeps the store.
With `StoreFaults`, reads and writes may raise: the exception handler of the stage
saves the results as failed (`StageSaveRetried`), `execute` marks the stored job
failed or cannot even do that (`StageRaises`), the last read of `POST /run` loses
the response and the task behind it (`run_job_reply_fails`). The history
variables `decided`, `reviewed`, `interrupted` and `requested` record what users
did and what crashed; no action's guard reads them. `inference_progress` and
trace events, which a running stage saves by itself, are not part of the record.
Cancellation of a background task is no action: `execute` shields the stage and
releases the claim only after the thread has ended, as without cancellation.

**PreviewManager / PreviewLease.** The handlers and the sweep hold one lock
from end to end, so each is one action. The thread of a session is a program
counter that stops where the code leaves the lock: before each announcement
(`_stage`), each start of a process (`_spawn`), each wait, and before the preview
is called ready. The cancel flag, the status and the process belong to the
session object, which a thread keeps using after its session was replaced, so
`session` is indexed by lease and `sessions` says which one an account holds. A
browser takes a lease once (`crypto.randomUUID`), and its requests are not
messages but permissions: `StartPending`, `HeartbeatPending` and `StopPending` say
that a request may be served now, once, again or never, in any order. `ended` is
a history variable. Time is counted in ticks, and every age stops growing where
it makes no difference, so time itself needs no bound. `MaxDelay < Retention` says
that a start is served before its closed lease is forgotten: the backend waits
15 seconds for the worker, the worker remembers closed leases for 600. The end
of the worker process is not a step: `shutdown` stops the sessions, and what the
daemon threads do afterwards may be cut short anywhere (their directories may
stay behind). A worker that is killed leaves its preview processes behind; the
model does not claim otherwise.

**SiteCrawl / CrawlLedger.** A call of `crawl_site_node` is cut where a crash
makes a difference: a captured file and its record (`capture_page`,
`capture_asset`, `reject_source`), then the checkpoint (`save_turn`). Pages and
assets go through loops of the same shape, on a ledger each (queue, addresses
queued, addresses visited, records); `capture_page` is one whole turn: both
addresses of a redirect become visited, the file and the record are added, the
sitemaps are read once, links are followed down to the depth, assets are queued,
all within the limits. Memory (`work`, `validated`, `seeded`, `rejected`) is lost
in a crash, `checkpoint` and `files` are not. In which order unknown addresses are
queued, which sitemaps can be read and whether the first page passes for static is
open. The host rules are the set `Admissible`, the site is the functions
`PageLinks`, `AssetLinks` and `Landing`. `CrawlLedger` is what a crawl promises to
whoever interrupts it, and has no interruptions: the checkpoint of an interrupted
and resumed crawl is a ledger that only grows by addresses it does not have.

**FailoverLLM / SchemaEvidence.** A call fixes the providers it will try when it
begins, and others fail and unblock them meanwhile. `SchemaEvidence` packs the
evidence by its length, as `plan_evidence` does, one turn of its loop per step; the
size of a batch, the label that a fragment and each continuation carry and the
blank line between fragments are constants, since the code's 12000, 100 and 2 would
make states and not cases. A batch is pending, asking, done, failed or cancelled,
and at most `Concurrency` ask at once. An answer is known by the round of feedback
its prompt carried, which is also the key of the cache: the batches of one capture
are the same in every repetition. The process may die (`evidence_lost`), the disk
may refuse an answer or lose it later (`damage_answer`: the file holds no schema any
more, or cannot be read), the store may refuse a progress report. `cache` holds the
answers the disk was given, `broken` those it does not give back; the latter are passed
over and the provider is asked again, as `schema_evidence.py:171-179` does and
`test_schema_evidence.py` expects.

**CaptureToSchema** runs the inference over the files the crawl left, for the
records whose file is still there (`CapturedPages`), as `infer_schema_stage` does: a
map from addresses, in which an address that was recorded twice occurs once.
The claim of WorkerJobs keeps the two from running at once. In the terms of
ConversionStage, an `outcome` of SiteCrawl is a capture outcome and `merged` or
`failed` the result of the inference stage before its quality gate.

**BackendJobs.** Every `await` of a handler ends a step; what a handler read
before is in its record (`tabs`, `proc`, `request`) and may be old when it writes.
The reservation is a transaction of three reads that holds the account's row; its
writes become visible when it commits. An entry of the queue is taken by one
process at a time, which marks the crawl, creates the worker's job, saves the
reference, polls and stores the result; each of these may fail, also after it had
its effect. BullMQ (an entry is added once per identity, a stalled entry is taken
again once) and the worker's API (a job is created once per `X-Conversion-Id`,
which `OneJobPerKey` of WorkerJobs shows; a command moves a job as
`Commanded` says) are external. `crash_backend` rolls back what is open and loses
every handler.

Definitions with a comment that starts with `Fault:` are variations of the
definition below them. No specification uses them; they record how a plausible
slip in the code would break a property.

## 3. Runs

| Run | Bounds | Shows |
| --- | --- | --- |
| `workflow` | two schemas; every call the engine builds for any record, and calls with layers complete, one part short or empty and every review decision; `MaxRetries = 3`, limit 100, as in the code | the graph implements the stage contract and ends, for other calls than a stage's too (`ImplementsStage`); without approval it generates nothing (`NoGenerationWithoutApproval`); `RetryBudget`, `ExportedIsValidated`, `ApprovedSchemaKept`, `ArtifactsKept`; with no standing retry decision the run takes at most `StepBudget` supersteps (`StepsBounded`), which is 33, far below the limit |
| `job_lifecycle` | one job, two proposals, no store faults | no lost update (`SnapshotCurrent`), decisions and reviewed artifacts survive every sequence (`DecisionKept`, `ArtifactsReviewed`), "interrupted" is never said of a stage that ended (`InterruptionIsReal`), `ValidatedIsFinal`, and every claim is released (`ClaimsReleased`) |
| `job_store_faults` | two jobs, one key, one proposal, store faults | creation is idempotent through stages, faults and restarts (`OneJobPerKey`), no idle job is stuck (`NoStuckJob`) |
| `job_unreviewed`, `job_resume`, `job_claim_leak` | one job | violations, see section 6 |
| `preview_leases` | two leases of one account, one setup command, `ttl = 1`, `MaxDelay = 1`, `Retention = 2` | refinement of `PreviewLease` under late, repeated and lost requests (`ImplementsLease`), no process without its lease (`ProcessesAreLeased`), no cancelled preview called ready (`ReadyIsHeld`), an old stop does not stop a newer preview (`KeptWhileUsed`) |
| `preview_liveness` | one lease, up to two setup commands, `ttl = 2`, `MaxDelay = 2`, `Retention = 3` | what the browser left is cleaned up even if the stop is lost (`LeftIsCleaned`), every start is concluded whatever step hangs or raises (`StartConcludes`) |
| `capture_to_schema` | a site of five pages and two assets, five crawl configurations, one crash anywhere; inference after one of them, three batches, two threads, two providers, `MaxAttempts = 2` (3 in the code), one rejection with feedback, one answer the disk may refuse or damage | every record keeps its file (`CheckpointBacked`); limits hold through redirects, seeds and resumptions (`WithinLimits`); nothing a captured page links to is lost (`NothingMissed`); interrupted crawls are uninterrupted ledgers (`ImplementsLedger`); a schema rests on an answer about every page, with the current feedback (`MergedIsWhole`, `SchemaCoversCapture`); no thread outlives its stage (`NothingRunsAfter`); a saved answer is not paid for again unless the disk does not give it back (`SavedIsNotAsked`); both stages end (`StagesEnd`) |
| `crawl_unvalidated` | the same site, the configuration that demands a static source | violation of `OnlyStaticSources`, see section 6 |
| `backend_jobs` | a plan of two conversions, one crawl from before the audit log, two tabs, one other request at a time, one crash | concurrent tabs and deletions never exceed the plan (`QuotaHeld`) nor give a conversion back (`UsageKept`); one worker job per crawl (`TypeOK`); without a crash no conversion is left where nothing works on it and nothing offers to (`NotStranded`); a counted conversion starts in the end unless a crash has stranded it (`SpentConversionStarts`); a completed conversion is shown as completed for good (`MirrorConverges`) |
| `backend_stranded` | the same account | violation of `InterruptedIsOffered`, see section 6 |

Why the bounds are enough. Jobs share nothing but the claims' dictionary, the
store's index of keys and the process that crashes, so one job shows everything
but keys and two show those. Two proposals are needed for one to replace another;
a third adds nothing a second does not, since the code only compares a proposal
with "has entities". No run bounds the number of requests, retries, faults or
crashes: the state spaces are finite as they are. Three layer shapes cover a
full score, the score just below it and none. The retry budget and the limit of
supersteps are the code's; only the standing retry decisions meet the limit.

Accounts share nothing in the preview manager but its lock, so one account is
enough; two leases are enough for one to replace the other, for the replaced
one's requests to come late and for its thread to lag behind. A third lease would
meet the second as the second meets the first; the proofs need no bound. Another
lease can affect the progress of a preview only by stopping it, as the sweep does,
so the liveness run has one lease and room for several setup commands instead.

The site of `capture_to_schema` has what the crawler distinguishes: a link back, a
page on a foreign host, a redirect to a page that is linked as well, a sitemap that
lists the redirect, a page two links away, a stylesheet with an asset of its own. The
configurations cover limits reached and not reached, depth reached and not reached,
sitemaps, resumption and starting afresh, and a ZIP. What an inference sees of a capture is the list of
pages, so it follows one (`InferFor`), the home page and the one the redirect of the
sitemap leads to. They share a part of their evidence, and one needs two batches, so
that shared evidence and continuations occur; that pages with the same evidence have
it in a batch once, and an address recorded twice is one page, is in the model and
the proofs but not met by the run. Three batches and two threads are the fewest with one
batch pending while two run. One crash is enough for a checkpoint to be resumed at
every point, for each stage; a second would resume a resumption, whose state is
that of a first one. `Refused` names the batch whose answer the disk may refuse or
damage; one is enough for a batch to be asked again while the others answer from the
cache.

In `backend_jobs` the plan is full when the two tabs' conversions meet the legacy
one, so each order of reading, reserving and deleting is at the limit. Two new
crawls compete for the queue; one request at a time already interleaves with the
tabs and the queue's process at every await. Legacy crawls are only deleted.

Deadlock checking is off except for PreviewManager's: an invocation ends, and
validated jobs, a captured site or conversions that are completed may stay as they
are.

Fairness. `workflow.invoke` runs the graph in the calling thread, so weak
fairness of `Next` in ConversionWorkflow is that the thread is scheduled and
that each node returns; nodes have time-outs on requests, provider calls and
builds. In WorkerJobs weak fairness is assumed of the stages of each job only,
for the same reason; requests and crashes are never forced. A crash releases
claims, so `ClaimsReleased` does not need crashes to stop. In PreviewManager weak
fairness is assumed of each thread, whose waits have limits (300 s for a setup
command, 30 s for the runtime) except the wait of a ready preview for its
cancellation, which the model waits for too; of the sweep, a loop of five seconds;
and of time. The browser may do nothing at all. In CaptureToSchema weak fairness is
assumed of the two stages, whose requests and provider calls have time-outs; no
fetch or provider has to succeed, no back-off to end and no file to stay readable. In
BackendJobs weak fairness is assumed of the queue's process, of handlers and requests
that have begun and of BullMQ's search for stalled entries; strong fairness of
creating a worker job (the worker can be reached now and then), of the user who looks
at a conversion (`getJobStatus`: the wizard repeats it every two seconds while a stage
runs and sends it whenever it is opened or refreshed) and, only while the conversion
is FAILED, of the user who resumes it (`runJob`): `StatusRecovery.tsx` is the one place
that sends it, behind a button shown for a conversion that failed. In every other
status `runJob` may be sent, and need not. Of a user who never comes back nothing is
claimed. Commands, deletions and crashes are never forced.

## 4. Proofs

`ConversionWorkflow_proofs` proves, for every set of schemas, every set of layer
shapes, every retry budget and limit, and every set of calls within `CallSpace`:

* `TypeCorrect`: `TypeOK`;
* `RetriesInBudget`: `RetryBudget`;
* `OnlyValidatedIsExported`: `ExportedIsValidated`;
* `GenerationIsApproved`: `NoGenerationWithoutApproval`;
* `ApprovedSchemaSurvives`: `ApprovedSchemaKept`;
* `ArtifactsAreKept`: `ArtifactsKept`;
* `StepsAreBounded`: `StepsBounded`;
* `GraphImplementsStage`: the graph implements `StageExecution`, the safety half of
  `ImplementsStage`.

The argument: `IInv` adds to these properties what the position in the graph
implies. At `generate_frontend` the backend layer is complete, at
`generate_admin` also the frontend, from `validate_consistency` on all three
(`LayersComplete`); past `validate_consistency` the consistency score is that of
the artifacts at hand (`ConsistencyCurrent`); the nodes past minting are
reached only behind an approval (`UnapprovedPath`, `ApprovedPath`); an exported
state is at the end (`ExportEnds`). None of the safety properties is inductive
without these: that what is exported is complete holds because every layer was
scored complete *after* the artifacts were last set, which only the position
tells. Type correctness is proved node by node, and an `Effect` lemma per node
says which channels it may change; then one lemma per action shows that it
preserves `IInv`.

`Paced` bounds the supersteps. At each node, `LeftAtMost` says how many may still
come, in terms of the budgets that are left: an inference repeats two nodes per
retry; a layer that is not complete spends its own budget and nothing follows it,
since no retry repairs it; layers that are complete but disagree go round six nodes
per retry of the validation. These do not add up to more because they exclude each
other: once a round of validation was lost, every layer is complete and their
disagreement is that of the same artifacts (`Inconsistent`), so no layer spends its
own budget any more. `StepsBounded` alone says nothing of a run at a given node.

`Contract` carries the refinement. Until the graph ends, the position says what of
the call the channels still hold, and hence which outcome is left: on the way to the
proposal (`CaptureContract`), on the way through generation (`GenerationContract`),
and at a node that ends (`EndContract`). The second half is for stages' calls only:
artifacts that a stage left are a preserved site, whose layers are complete and agree,
so its scores are full, no layer is retried and the smoke test never fails. For other
artifacts the contract is false, so `StageExecution` asks of other calls only for a
result (`ResultTyped`). By `StagesCallTheContract` of WorkerJobs, stages make no others.

`WorkerJobs_proofs` proves, for every set of jobs, keys and proposals, any number
of requests and crashes, and whether the store raises or not:

* `TypeCorrect`: `TypeOK`;
* `StagesAreIsolated`: `SnapshotCurrent`, no update is lost;
* `DecisionsAreKept`: `DecisionKept`;
* `KeysAreUnique`: `OneJobPerKey`;
* `NoJobIsStuck`: `NoStuckJob`;
* `ValidatedJobsAreFinal`: `ValidatedIsFinal`;

and

* `ArtifactsAreReviewed`: `ArtifactsReviewed`, when the store does not raise;
* `InterruptionsAreReal`: `InterruptionIsReal`, which is about a store that does
  not raise;

and

* `StagesCallTheContract`: a stage that runs makes a call of `StageCalls`, whether
  the store raises or not.

The argument: a stage that is scheduled or runs holds the claim of its job
(`TaskHoldsJob`) and a job has one such stage at most (`OneTaskPerJob`), while
handlers write only unclaimed jobs; so the record a stage replaces is the one it
read, and the record carries what users decided and requested (`JobSound`).
`SnapshotCurrent` alone is not inductive: two stages of one job would break it.
`HandlerStep` and `StageStep` show this once for all handlers and once for all
steps of a stage; each action then has only its own record to account for. `RInv`
adds what an approval reaches: a generation stage works on an approved record,
a crawl on an undecided one, an inference never on a proposal that awaits a
decision (`TaskReviewed`), and an approved record whose gate is open and that does
not await a decision holds an approved proposal (`JobReviewed`). The exception in
that sentence is needed: an approved job may infer again and then holds, still
"approved", a proposal that awaits its decision. `StageSaveRetried` can turn that
status into "failed", from where generation starts, so `ArtifactsReviewed` does
not hold when the store raises. `StagesCallTheContract` goes round a circle once:
stages save outcomes of their calls, outcomes of such calls hold no artifacts or a
preserved site, so the next stage finds nothing else in the record (`JobsWhole`).
Together with `GraphImplementsStage`: what WorkerJobs takes from the contract,
the graph keeps.

`PreviewManager_proofs` proves, for every set of accounts and leases, every
number of setup commands and all time limits:

* `TypeCorrect`: `TypeOK`;
* `WhatRunsIsLeased`: `ProcessesAreLeased`;
* `WhatIsReadyIsHeld`: `ReadyIsHeld`;
* `LeasesAreKept`: `KeptWhileUsed`;
* `PreviewsImplementLeases`: `ImplementsLease`, the refinement of `PreviewLease`.

The argument: a session is cancelled exactly when its lease is no longer held
(`CancelledIffOver`), since the same locked section does both, so a thread that
finds the flag clear under the lock acts for a lease that is held. And a lease
that is over was closed after it was opened (`OverIsRemembered`): as long as its
start may still arrive, its age as closed is at most its age as opened, hence
below `Retention`, so the sweep has not forgotten it and `start` refuses it. The
refinement follows step by step (`StepMaps`): a start takes a lease that is not
over, a stop, a sweep and a shutdown end leases, nothing else touches them. It
is false without `MaxDelay < Retention`.

`SiteCrawl_proofs` proves of a crawl by itself, for every site, every set of
configurations and any number of crashes:

* `RecordsAreOnDisk`: `CheckpointBacked`;
* `LimitsHold`: `WithinLimits`;
* `NothingIsMissed`: `NothingMissed`;
* `CrawlIsALedger`: `ImplementsLedger`;
* `NoneTwice`: no address is recorded twice, in memory or in the checkpoint.

The argument: `CrawlInv` says the same of what is in memory and of what is in the
checkpoint (`WorkSound`, `OnDisk`), since a crash replaces the one by the other.
`LedgerSound`: an address is in the queue once at most and leaves it for good when it
is captured, so records and queue together are no more than the addresses known
(`KnownCounts`); the code limits the latter, and `WithinLimits` follows of the former.
A captured page's links are known unless the limit had been reached, and then it still
is (`NoneMissed`), since what is known never shrinks. For the refinement, the
checkpoint lags behind the memory by one captured page at most (`Progress`): a
`save_turn` that is a step of the ledger appends exactly that one, and it is new.

`SchemaEvidence_proofs` holds the lemmas on an inference, for any pages, fragments,
size of a batch, number of providers, attempts and rounds, which
`CaptureToSchema_proofs` takes. `EvidenceInv` says that what is still to be packed and
what was packed are together about every page (`Planned`), that a batch has a job from
when it is submitted, that the providers' calls are those of the jobs that ask, and
that answers that are done are of the current round (`Pooled`). Cutting texts into
pieces and concatenating them loses no page (`FragmentsAre`). The concatenation is the
library's `FlattenSeq`, a recursive function; what it computes (`FlattenIs`) is an
induction, carried out over a set of numbers (`SetInduction`, from the least element
of a set, which the library's well-founded order gives), because the library's
induction theorems have an operator as parameter.

`CaptureToSchema_proofs` proves of the composition, with crashes in either part:

* `TypesHold`: `TypeOK`;
* `RecordsStay`: `CheckpointBacked`; `LimitsStay`: `WithinLimits`;
  `DiscoveriesStay`: `NothingMissed`; `CaptureIsALedger`: `ImplementsLedger`;
* `SchemaIsWhole`: `MergedIsWhole`; `PoolIsLeft`: `NothingRunsAfter`;
* `AnswersAreReused`: `SavedIsNotAsked`, no provider is asked for an answer that the
  disk gives back;
* `SchemaIsComplete`: `SchemaCoversCapture`.

The argument: the invariant is those of the parts and that an inference runs only
over a finished crawl and was given all its pages (`GivenAll`). It was: a record has
its file (`CheckpointBacked`), so `CapturedPages` leaves no address out. And it remains so:
a job whose crawl is finished is not crawled again (`CrawlIsOver`). A batch is
asked about only while the disk does not give its answer back (`SavedIsNotAsked`),
until its new answer replaces the file. A step of one part
leaves the variables of the other alone.

`BackendJobs_proofs` proves, for every set of crawls, every number of tabs, every plan
with a limit and any number of crashes:

* `TypeCorrect`: `TypeOK`, with one worker job per crawl;
* `QuotaIsHeld`: `QuotaHeld`;
* `UsageIsKept`: `UsageKept`;
* `NothingStranded`: `NotStranded`.

The argument: a reservation that holds the account's row is the only one to
(`CountIsRight`), and a deletion, which moves a conversion from the rows to the audit
log, waits for that row too; so the number a transaction has read is the number there
is, and below the limit when it inserts. `NotStranded` needs to follow a
conversion through every hand: a crawl that exists was handed to the worker, or its
entry waits, is active or can be retried, or its tab has not come to adding it
(`Tracked`, `Pursued`). An entry that is active is the one the queue's process has;
an identity that was not given has no entry and nobody refers to it (`Fresh`), so a
new reservation starts from nothing; an entry is completed, and replaced by `runJob`,
only behind a crawl that was handed over (`HandedOver`).

Assumptions. Those named in the modules, which TLC evaluates for each run. Names are
distinct: the empty proposal is not a schema, `NoKey`, `NoJob`, `NoLease`, `NoCrawl`,
`NoCheckpoint`, `Pending` are none of what they stand beside. `MaxRetries`,
`RecursionLimit`, `MaxCommands`, `NumProviders` and `MaxAttempts` are positive and
`Concurrency` is one to four (`PoolAssumption`), as the settings demand. Every lease has
one account, and `MaxDelay < Retention`. Pages, sitemaps and archives have finitely
many links (`SiteAssumption`), the set of addresses need not be finite; crawls have
finitely many identities (`CrawlAssumption`); what was converted before the audit log
is within the plan (`PlanAssumption`). What may be captured may be inferred from
(`PagesAssumption`). A batch has room for more than a label (`LabelAssumption`): this is
the one the code does not justify, and section 6 says what happens without it. No
theorem has another hypothesis but the two that say so: a store that does not raise.

Model-checked only: liveness, which these provers do not reach. That is `ImplementsStage`
as to that an invocation ends, `ClaimsReleased` of WorkerJobs, `LeftIsCleaned` and
`StartConcludes` of PreviewManager, `StagesEnd` of CaptureToSchema,
`SpentConversionStarts` and `MirrorConverges` of BackendJobs. Every safety invariant and
every action property of a passing run is a theorem. No module declares a RECURSIVE
operator.

## 5. Plan

1. Done: ConversionStage, StageExecution, ConversionWorkflow and WorkerJobs;
   PreviewLease and PreviewManager; CrawlLedger, SiteCrawl, FailoverLLM, SchemaEvidence
   and CaptureToSchema; BackendJobs; model-checked.
2. Done: the proofs of their safety properties and of the refinements, as in section 4.
   Next, lemmas that need no new model: that a measure decreases with each step of a
   crawl's call and of an inference, the part of `StagesEnd` that is no liveness.
3. `WorkerTools`: the MCP server's engine as a second writer beside WorkerJobs.
4. `JobStore`: version histories of the two stores; `PasswordRecovery`: reset
   tokens against concurrent resets; the wizard's hooks.

## 6. Findings

* **A job may be validated with a proposal nobody approved** (`job_unreviewed`).
  Approve s1; generation builds artifacts and fails validation; infer again (the
  endpoint allows it for a failed job with captured pages); the new proposal s2
  is blocked by the schema gate, so the job is failed, still "approved", with s2;
  `POST /run` takes the approval as s2's and revalidates the artifacts of s1.
* **Resume runs another stage than the one reported** (`job_resume`). The worker
  dies while an approved job infers again; the view says the schema stage was
  interrupted, `POST /run` generates.
* **A claim may leak** (`job_claim_leak`). `POST /run` reads the job again after
  it claimed it. If that read raises, the background task is dropped with the
  response and the claim stays until the process restarts.
* **A crash turns a rejected source into a captured one** (`crawl_unvalidated`).
  When the first page is not static, `crawl_site_node` clears its queues and writes
  a checkpoint that is not completed (`nodes.py:1585`); the rejection itself is a
  local variable. A crash before the job is saved leaves a checkpoint with a page
  and nothing to do, and the next call returns `crawled` with the rejected page.
* **An interrupted start is not offered for resumption** (`backend_stranded`). The
  queue entry of a conversion is added after the transaction that counts it
  (`jobController.ts:77`). If the backend dies in between, the conversion stays
  PENDING without an entry, nothing looks for it when the backend starts again, and
  the wizard, which offers "Resume conversion" only for what is FAILED, goes on
  polling. A second death while the queue works on an entry has the same effect with
  PROCESSING. Without a crash this cannot happen (`NotStranded`, proved).

What the models show besides, without contradicting a document:

* `pages_limit_hit` and `assets_limit_hit` of the manifest are never true
  (`WithinLimits`): what a limit cuts off is dropped when it is discovered.
* A standing `retry_backend` or `retry_schema` review decision resets the counter
  of its layer on every pass, so only LangGraph's limit of supersteps ends such a
  run; `StepsBounded` therefore excludes it. The engine never sets the decision.
* A crash between the completed checkpoint and the saved job makes the next call
  crawl the whole site again: a completed checkpoint is not resumed.
* The limits do not apply to ZIP archives; sitemap seeds are captured at a depth of
  one even where the depth limit is zero.
* "All LLM providers failed" may be raised although one of them has recovered
  meanwhile: a call tries the providers it found when it began.
* Rejecting a schema without feedback repeats the inference from the cache and
  presents the same answers.
* The packing loop of `plan_evidence` makes no progress when a label is as long as
  a batch (evidence shared by thousands of pages); `LabelAssumption` excludes it.
* `runJob` adds an entry without the extent of the crawl (`fullSite`, `maxPages`,
  `maxAssets`), so that a conversion run again may crawl another extent.

## 7. Not modelled

Text and data: HTML parsing, prompts, template rendering, what entities an answer
has and how they are merged, reports, telemetry, settings, the React views,
infrastructure. Reads that change nothing (`GET`, export, histories).

* The MCP server: a second process with the engine operations of WorkerJobs and
  without claims. The models have one worker process; with both servers at work,
  `SnapshotCurrent` and the checkpoint's single writer do not hold.
* The capture of HTML that is given inline is an outcome in ConversionWorkflow, not
  a crawl; a fragment's text is its length; of the subtrees that some pages share,
  only one that all share.
* In BackendJobs: upgrades to a plan without a limit, administrators who start
  conversions for others, the status of sites, the two dashboards' refresh of a
  conversion's status (a status request without a wizard), an entry that waits
  behind another crawl for hours, errors of the database other than in storing a
  result, a second backend process. `INFERRING_SCHEMA` and `AWAITING_APPROVAL` are
  one with `CRAWLED`.
* Accounts, password recovery, the wizard's late answers, uploads: see the plan.

## 8. Running

```
tlasany MCWorkerJobs.tla
tlc -workers 2 -config JobLifecycle.cfg MCWorkerJobs
tlapm ConversionWorkflow_proofs.tla
tlapm WorkerJobs_proofs.tla
tlc -workers 2 -config PreviewLeases.cfg MCPreviewManager
tlapm PreviewManager_proofs.tla
tlc -workers 2 -config CaptureToSchema.cfg MCCaptureToSchema
tlc -workers 2 -config BackendJobs.cfg MCBackendJobs
tlapm SiteCrawl_proofs.tla
tlapm SchemaEvidence_proofs.tla
tlapm CaptureToSchema_proofs.tla
tlapm BackendJobs_proofs.tla
```
