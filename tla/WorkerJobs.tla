----------------------------- MODULE WorkerJobs -----------------------------
(***************************************************************************)
(* The life cycle of conversion jobs in the worker's API process: the job  *)
(* handlers of api/main.py, the claims of api/lifecycle.py, the stages and *)
(* decisions of engine/service.py and the durable store they share.        *)
(*                                                                         *)
(* A handler contains no await between its first read of the store and its *)
(* return, so the event loop runs it as one step.  A stage runs in a       *)
(* thread of its own, after the response: it reads the job, works for      *)
(* minutes, and writes the whole record back.  The process may die at any  *)
(* moment; claims and threads die with it, the store does not.             *)
(*                                                                         *)
(* What a stage may find is the contract of ConversionStage, which         *)
(* ConversionWorkflow implements.  Requests that are refused, and requests *)
(* that return the job as it is, change nothing and are not steps.         *)
(***************************************************************************)
EXTENDS ConversionStage

CONSTANTS
  Jobs,        \* identities of jobs
  Keys,        \* creation keys (owner and X-Conversion-Id)
  NoKey,       \* a request without X-Conversion-Id
  NoJob,       \* what the store holds for a job not created yet
  StoreFaults  \* BOOLEAN: may reads and writes of the store raise?

ASSUME KeyAssumption == NoKey \notin Keys
ASSUME FaultAssumption == StoreFaults \in BOOLEAN

Stages   == {"crawl", "schema", "generate"}
Decided  == {"pending", "approved"}

JobRecords ==
  [ key : Keys \union {NoKey}, status : JobStatus, decision : Decided,
    extraction : Gates, schema : Proposals, schemaGate : Gates,
    artifacts : Artifacts \union {NoArtifacts}, validation : Gates ]

ASSUME JobAssumption == NoJob \notin JobRecords

VARIABLES
  store,        \* the saved ConversionJob of each job
  active,       \* JobLifecycle.active: the stage a job is claimed for
  tasks,        \* the stages scheduled or running in this process
  decided,      \* history: the user's last schema decision
  reviewed,     \* history: the proposals approved since the last rejection
  interrupted,  \* history: the last claim of the job died with the process
  requested     \* history: the key of the request that created the job

vars == <<store, active, tasks, decided, reviewed, interrupted, requested>>
history == <<decided, reviewed, interrupted, requested>>

Exists(j) == store[j] # NoJob
Claimed(j) == active[j] # "none"

-----------------------------------------------------------------------------
(* Launching a stage.                                                      *)

Queued(j, stage) == [job |-> j, stage |-> stage, pc |-> "queued", snap |-> NoJob]

\* A claim that succeeds schedules the stage; one that fails does nothing.
queue_stage(j, stage) ==
  IF Claimed(j)
  THEN UNCHANGED <<active, tasks, interrupted>>
  ELSE /\ active' = [active EXCEPT ![j] = stage]
       /\ tasks' = tasks \union {Queued(j, stage)}
       /\ interrupted' = [interrupted EXCEPT ![j] = FALSE]

NewJob(k) ==
  [ key |-> k, status |-> "draft", decision |-> "pending", extraction |-> "unknown",
    schema |-> NoSchema, schemaGate |-> "unknown", artifacts |-> NoArtifacts,
    validation |-> "unknown" ]

\* A key that is found again returns the job that has it.
find_job_by_request_key(k) == {i \in Jobs : k # NoKey /\ Exists(i) /\ store[i].key = k}

create_job(j, k) ==
  /\ ~Exists(j)
  /\ find_job_by_request_key(k) = {}
  /\ store' = [store EXCEPT ![j] = NewJob(k)]
  /\ queue_stage(j, "crawl")
  /\ requested' = [requested EXCEPT ![j] = k]
  /\ UNCHANGED <<decided, reviewed>>

\* Fault: no status is recognised as finished.
FINISHED_forgotten == {}

\* Of the statuses the handlers list, the only one a job may have.
FINISHED == {"validated"}

\* A failed job whose pages were captured can go on from its schema stage.
CapturedBefore(job) == job.status = "failed" /\ job.extraction = "open"

\* Fault: a failed job whose pages were not captured is not captured again.
RunStage_without_recapture(job) ==
  IF job.decision = "approved" /\ job.status \notin FINISHED \union {"crawled", "awaiting_approval"}
  THEN "generate"
  ELSE IF job.status = "inferring_schema" \/ CapturedBefore(job) THEN "schema"
  ELSE IF job.status = "draft" THEN "crawl" ELSE "none"

\* The stage POST /run launches for a job that is not claimed.
RunStage(job) ==
  CASE job.status \in FINISHED \union {"crawled", "extracted", "awaiting_approval", "schema_proposed"} ->
         "none"
    [] OTHER ->
         IF job.decision = "approved" THEN "generate"
         ELSE IF job.status = "inferring_schema" \/ CapturedBefore(job) THEN "schema"
         ELSE "crawl"

restore_generation(job) == [job EXCEPT !.status = "approved"]

run_job(j) ==
  /\ Exists(j) /\ ~Claimed(j)
  /\ RunStage(store[j]) # "none"
  /\ store' = IF RunStage(store[j]) = "generate"
              THEN [store EXCEPT ![j] = restore_generation(@)] ELSE store
  /\ queue_stage(j, RunStage(store[j]))
  /\ UNCHANGED <<decided, reviewed, requested>>

\* The handler reads the job once more for its response; when that raises,
\* the response and the stage scheduled behind it are gone, the claim stays.
run_job_reply_fails(j) ==
  /\ StoreFaults
  /\ Exists(j) /\ ~Claimed(j)
  /\ RunStage(store[j]) # "none"
  /\ store' = IF RunStage(store[j]) = "generate"
              THEN [store EXCEPT ![j] = restore_generation(@)] ELSE store
  /\ active' = [active EXCEPT ![j] = RunStage(store[j])]
  /\ interrupted' = [interrupted EXCEPT ![j] = FALSE]
  /\ UNCHANGED <<tasks, decided, reviewed, requested>>

MayInfer(job) == job.status \in {"crawled", "extracted", "inferring_schema"} \/ CapturedBefore(job)

infer_schema(j) ==
  /\ Exists(j) /\ ~Claimed(j)
  /\ MayInfer(store[j])
  /\ queue_stage(j, "schema")
  /\ UNCHANGED <<store, decided, reviewed, requested>>

-----------------------------------------------------------------------------
(* The review of the proposal.                                             *)

MayDecide(job, d) ==
  /\ job.status \in {"awaiting_approval", "schema_proposed", "approved", "failed", "generated"}
  /\ job.schema \in Schemas
  /\ d = "approved" => job.schemaGate = "open"

\* Fault: a rejection leaves the artifacts of the rejected proposal.
decide_schema_keeps_artifacts(job, d) ==
  CASE d = "approved" -> [job EXCEPT !.decision = "approved", !.status = "approved"]
    [] d = "rejected" ->
         [job EXCEPT !.decision = "pending", !.status = "inferring_schema", !.schema = NoSchema]
    [] d = "pending"  -> [job EXCEPT !.decision = "pending", !.status = "awaiting_approval"]

\* Fault: a rejection leaves the decision of an earlier approval.
decide_schema_keeps_decision(job, d) ==
  CASE d = "approved" -> [job EXCEPT !.decision = "approved", !.status = "approved"]
    [] d = "rejected" ->
         [job EXCEPT !.status = "inferring_schema", !.schema = NoSchema,
                     !.artifacts = NoArtifacts, !.validation = "unknown"]
    [] d = "pending"  -> [job EXCEPT !.decision = "pending", !.status = "awaiting_approval"]

\* What decide_schema makes of the record.
decide_schema(job, d) ==
  CASE d = "approved" -> [job EXCEPT !.decision = "approved", !.status = "approved"]
    [] d = "rejected" ->
         [job EXCEPT !.decision = "pending", !.status = "inferring_schema", !.schema = NoSchema,
                     !.artifacts = NoArtifacts, !.validation = "unknown"]
    [] d = "pending"  -> [job EXCEPT !.decision = "pending", !.status = "awaiting_approval"]

Approve(j) ==
  /\ Exists(j) /\ ~Claimed(j)
  /\ MayDecide(store[j], "approved")
  /\ store' = [store EXCEPT ![j] = decide_schema(@, "approved")]
  /\ queue_stage(j, "generate")
  /\ decided' = [decided EXCEPT ![j] = "approved"]
  /\ reviewed' = [reviewed EXCEPT ![j] = @ \union {store[j].schema}]
  /\ UNCHANGED requested

Reject(j) ==
  /\ Exists(j) /\ ~Claimed(j)
  /\ MayDecide(store[j], "rejected")
  /\ store' = [store EXCEPT ![j] = decide_schema(@, "rejected")]
  /\ queue_stage(j, "schema")
  /\ decided' = [decided EXCEPT ![j] = "pending"]
  /\ reviewed' = [reviewed EXCEPT ![j] = {}]
  /\ UNCHANGED requested

\* Fault: the review is postponed while a stage runs.
Postpone_unclaimed(j) ==
  /\ Exists(j)
  /\ MayDecide(store[j], "pending")
  /\ store' = [store EXCEPT ![j] = decide_schema(@, "pending")]
  /\ decided' = [decided EXCEPT ![j] = "pending"]
  /\ UNCHANGED <<active, tasks, reviewed, interrupted, requested>>

Postpone(j) ==
  /\ Exists(j) /\ ~Claimed(j)
  /\ MayDecide(store[j], "pending")
  /\ store' = [store EXCEPT ![j] = decide_schema(@, "pending")]
  /\ decided' = [decided EXCEPT ![j] = "pending"]
  /\ UNCHANGED <<active, tasks, reviewed, interrupted, requested>>

-----------------------------------------------------------------------------
(* A stage in its thread.                                                  *)

Advance(t, pc, snap) == tasks' = (tasks \ {t}) \union {[t EXCEPT !.pc = pc, !.snap = snap]}

\* The record a stage goes on with: inference first saves its status.
Snapshot(t) ==
  IF t.stage = "schema" THEN [store[t.job] EXCEPT !.status = "inferring_schema"] ELSE store[t.job]

\* run_job leaves a validated job alone.
StageBegins(t) ==
  /\ t.pc = "queued"
  /\ store' = [store EXCEPT ![t.job] = Snapshot(t)]
  /\ Advance(t, IF Snapshot(t).status = "validated" THEN "done" ELSE "running", Snapshot(t))
  /\ UNCHANGED <<active, history>>

\* The state run_job and infer_schema_stage build.  When no captured page is
\* left on disk the latter falls back on the former, whose call starts at
\* "inferring_schema" and has the same outcomes.
CallOf(t) ==
  [ status |-> IF t.stage = "schema" THEN "extracted" ELSE t.snap.status,
    target |-> t.stage,
    pages |-> IF t.stage = "crawl" THEN "fetch" ELSE "captured",
    preserved |-> TRUE, customInfer |-> FALSE,
    extraction |-> t.snap.extraction, schema |-> t.snap.schema,
    schemaGate |-> t.snap.schemaGate, artifacts |-> t.snap.artifacts,
    schemaReview |-> "none", generationGate |-> "none", validationReview |-> "none" ]

status_map ==
  [ extracted |-> "crawled", awaiting_approval |-> "awaiting_approval",
    exported |-> "validated", cancelled |-> "failed" ]

\* Fault: the workflow's status is saved as the job's.
Recorded_unmapped(snap, r) ==
  [snap EXCEPT !.status = r.status, !.extraction = r.extraction, !.schema = r.schema,
               !.schemaGate = r.schemaGate, !.artifacts = r.artifacts, !.validation = r.validation]

\* Fault: an exception leaves the status the stage started with.
Recorded_in_flight(snap, r) ==
  IF r.status = "raised"
  THEN snap
  ELSE [snap EXCEPT !.status = status_map[r.status], !.extraction = r.extraction,
                    !.schema = r.schema, !.schemaGate = r.schemaGate,
                    !.artifacts = r.artifacts, !.validation = r.validation]

\* Fault: the configuration is normalised without its request key.
Recorded_keyless(snap, r) ==
  IF r.status = "raised"
  THEN [snap EXCEPT !.status = "failed"]
  ELSE [snap EXCEPT !.key = NoKey, !.status = status_map[r.status], !.extraction = r.extraction,
                    !.schema = r.schema, !.schemaGate = r.schemaGate,
                    !.artifacts = r.artifacts, !.validation = r.validation]

\* The record saved for a result; an exception saves the snapshot as failed.
Recorded(snap, r) ==
  IF r.status = "raised"
  THEN [snap EXCEPT !.status = "failed"]
  ELSE [snap EXCEPT !.status = status_map[r.status], !.extraction = r.extraction,
                    !.schema = r.schema, !.schemaGate = r.schemaGate,
                    !.artifacts = r.artifacts, !.validation = r.validation]

StageEnds(t) ==
  /\ t.pc = "running"
  /\ \E r \in Outcomes(CallOf(t)) :
       store' = [store EXCEPT ![t.job] = Recorded(t.snap, r)]
  /\ Advance(t, "done", t.snap)
  /\ UNCHANGED <<active, history>>

\* The save raises: the exception handler of the stage saves the record,
\* results included, as failed.
StageSaveRetried(t) ==
  /\ StoreFaults
  /\ t.pc = "running"
  /\ \E r \in Outcomes(CallOf(t)) :
       store' = [store EXCEPT ![t.job] = [Recorded(t.snap, r) EXCEPT !.status = "failed"]]
  /\ Advance(t, "done", t.snap)
  /\ UNCHANGED <<active, history>>

\* The operation itself raises: execute marks the stored job failed, if the
\* store lets it.
StageRaises(t) ==
  /\ StoreFaults
  /\ t.pc \in {"queued", "running"}
  /\ \/ store' = [store EXCEPT ![t.job].status = "failed"]
     \/ store' = store
  /\ Advance(t, "done", t.snap)
  /\ UNCHANGED <<active, history>>

\* Fault: the claim of a stage that failed is kept.
release_on_success(t) ==
  /\ t.pc = "done"
  /\ active' = IF store[t.job].status = "failed" THEN active ELSE [active EXCEPT ![t.job] = "none"]
  /\ tasks' = tasks \ {t}
  /\ UNCHANGED <<store, history>>

\* execute's finally: only when the thread has ended.
release(t) ==
  /\ t.pc = "done"
  /\ active' = [active EXCEPT ![t.job] = "none"]
  /\ tasks' = tasks \ {t}
  /\ UNCHANGED <<store, history>>

\* The process dies and starts again.
Crash ==
  /\ \E j \in Jobs : Claimed(j)
  /\ active' = [j \in Jobs |-> "none"]
  /\ tasks' = {}
  /\ interrupted' = [j \in Jobs |-> interrupted[j] \/ Claimed(j)]
  /\ UNCHANGED <<store, decided, reviewed, requested>>

-----------------------------------------------------------------------------

Init ==
  /\ store = [j \in Jobs |-> NoJob]
  /\ active = [j \in Jobs |-> "none"]
  /\ tasks = {}
  /\ decided = [j \in Jobs |-> "pending"]
  /\ reviewed = [j \in Jobs |-> {}]
  /\ interrupted = [j \in Jobs |-> FALSE]
  /\ requested = [j \in Jobs |-> NoKey]

Handler(j) ==
  \/ \E k \in Keys \union {NoKey} : create_job(j, k)
  \/ run_job(j) \/ run_job_reply_fails(j) \/ infer_schema(j)
  \/ Approve(j) \/ Reject(j) \/ Postpone(j)

Execute(t) ==
  StageBegins(t) \/ StageEnds(t) \/ StageSaveRetried(t) \/ StageRaises(t) \/ release(t)

Next ==
  \/ \E j \in Jobs : Handler(j)
  \/ \E t \in tasks : Execute(t)
  \/ Crash

Spec == Init /\ [][Next]_vars

\* The event loop runs scheduled stages; every network call, provider call
\* and build of a stage has a timeout, so its thread ends.
FairSpec ==
  /\ Spec
  /\ \A j \in Jobs : WF_vars(\E t \in tasks : t.job = j /\ Execute(t))

-----------------------------------------------------------------------------
(* Properties.                                                             *)

Tasks == [job : Jobs, stage : Stages, pc : {"queued", "running", "done"}, snap : JobRecords \union {NoJob}]

\* Every variable holds values of its type.
TypeOK ==
  /\ store \in [Jobs -> JobRecords \union {NoJob}]
  /\ active \in [Jobs -> Stages \union {"none"}]
  /\ tasks \in SUBSET Tasks
  /\ decided \in [Jobs -> Decided]
  /\ reviewed \in [Jobs -> SUBSET Schemas]
  /\ interrupted \in [Jobs -> BOOLEAN]
  /\ requested \in [Jobs -> Keys \union {NoKey}]

\* A stage never works on a stale copy: from its read of the job to its
\* write minutes later nobody else, handler or stage, writes the record.
SnapshotCurrent == \A t \in tasks : t.pc = "running" => store[t.job] = t.snap

\* Every claim has a stage behind it that will release it.
ClaimHasTask == \A j \in Jobs : Claimed(j) => \E t \in tasks : t.job = j /\ t.stage = active[j]

\* The decision on record is the last one the user took, whatever the stages
\* that ran, failed or died in between wrote back.
DecisionKept == \A j \in Jobs : Exists(j) => store[j].decision = decided[j]

\* Whatever artifacts a job holds were generated from a proposal the user
\* approved and has not rejected since.
ArtifactsReviewed ==
  \A j \in Jobs : Exists(j) /\ store[j].artifacts # NoArtifacts =>
    store[j].artifacts.source \in reviewed[j]

\* Requests with one key never create two jobs, however many stages have
\* rewritten the configuration that holds the key (_normalize_crawl_config)
\* and whenever the worker restarted.
OneJobPerKey == \A i, j \in Jobs : i # j /\ requested[i] = requested[j] => requested[i] = NoKey

\* The stage lifecycle.view reports as interrupted for a job without claim.
InterruptedStage(job) ==
  CASE job.status = "draft"            -> "crawl"
    [] job.status = "inferring_schema" -> "schema"
    [] job.status \in {"approved", "generated"} -> "generate"
    [] OTHER                           -> "none"

\* The view says a stage was interrupted only when one was: no stage that
\* ran to its end leaves a status that reads as interrupted.
InterruptionIsReal ==
  ~StoreFaults => \A j \in Jobs :
    Exists(j) /\ ~Claimed(j) /\ InterruptedStage(store[j]) # "none" => interrupted[j]

\* No unfinished job is ever stuck: when no stage runs, some request of the
\* user is accepted.
NoStuckJob ==
  \A j \in Jobs : Exists(j) /\ ~Claimed(j) /\ store[j].status \notin FINISHED =>
    \/ RunStage(store[j]) # "none"
    \/ MayInfer(store[j])
    \/ MayDecide(store[j], "rejected")

\* A validated job is final: nothing generates, infers or decides on it again.
ValidatedIsFinal ==
  [][\A j \in Jobs : Exists(j) /\ store[j].status = "validated" => store'[j] = store[j]]_vars

\* Every claim is released.
ClaimsReleased == \A j \in Jobs : Claimed(j) ~> ~Claimed(j)

\* The proposal a validated job shows is one the user approved (README.md:
\* "explicit user approval").
ValidatedIsReviewed ==
  \A j \in Jobs : Exists(j) /\ store[j].status = "validated" => store[j].schema \in reviewed[j]

\* Resuming an interrupted job runs the stage the view reports as
\* interrupted (README.md: "Interrupted stages show Resume conversion").
ResumeMatchesView ==
  \A j \in Jobs :
    Exists(j) /\ ~Claimed(j) /\ InterruptedStage(store[j]) # "none" =>
      RunStage(store[j]) = InterruptedStage(store[j])

=============================================================================
