-------------------------- MODULE WorkerJobs_proofs --------------------------
(***************************************************************************)
(* Proofs about WorkerJobs, for every set of jobs, keys and schemas, with  *)
(* a store that may raise and one that may not.                            *)
(*                                                                         *)
(* First type correctness, from the types of the records the handlers and  *)
(* the stages write.  Then the inductive invariant IInv: a stage holds the *)
(* claim of its job, a job has one stage at most, and so the record a      *)
(* stage read is the record it replaces.                                   *)
(***************************************************************************)
EXTENDS WorkerJobs, TLAPS

(* The records that are written have the type of a job.                    *)

\* Values that are job statuses.
LEMMA StatusNames ==
  {"draft", "crawled", "inferring_schema", "awaiting_approval", "approved", "validated",
   "failed"} \subseteq JobStatus
BY DEF JobStatus

\* The value of an unclaimed job is no stage.
LEMMA StageNotNone == "none" \notin Stages
BY DEF Stages

\* A fresh job is a job.
LEMMA NewJobTyped ==
  ASSUME NEW k \in Keys \union {NoKey}
  PROVE  NewJob(k) \in JobRecords
BY StatusNames DEF NewJob, JobRecords, Decided, Gates, Proposals

\* A job whose status is set is a job.
LEMMA StatusTyped ==
  ASSUME NEW job \in JobRecords, NEW x \in JobStatus
  PROVE  [job EXCEPT !.status = x] \in JobRecords
BY DEF JobRecords

\* restore_generation keeps the type.
LEMMA RestoreTyped ==
  ASSUME NEW job \in JobRecords
  PROVE  restore_generation(job) \in JobRecords
BY StatusTyped, StatusNames DEF restore_generation

\* decide_schema keeps the type.
LEMMA DecideTyped ==
  ASSUME NEW job \in JobRecords, NEW d \in {"approved", "rejected", "pending"}
  PROVE  decide_schema(job, d) \in JobRecords
BY StatusNames DEF decide_schema, JobRecords, Decided, Gates, Proposals

\* The preserved site of a proposal is a set of artifacts.
LEMMA PreservedSiteTyped ==
  ASSUME NEW p \in Proposals
  PROVE  PreservedSite(p) \in Artifacts
<1>1. FullLayer \in LayerShapes
  BY DEF FullLayer, LayerShapes
<1> QED BY <1>1 DEF PreservedSite, Artifacts

\* What an outcome can be, relative to its call: a new proposal whose gate is
\* open waits for a decision, and artifacts are new only for an approved call
\* that has none, built from the proposal of the call.
OutcomeOf(c, r) ==
  /\ r \in Results
  /\ r.status = "awaiting_approval" => r.schema \in Schemas
  /\ r.status # "awaiting_approval" /\ r.schemaGate = "open" =>
       r.schema = c.schema /\ c.schemaGate = "open"
  /\ \/ r.artifacts = c.artifacts
     \/ /\ c.status \in approved_statuses
        /\ c.artifacts = NoArtifacts /\ c.schemaGate = "open"
        /\ r.artifacts = PreservedSite(c.schema)

\* Every outcome of a call whose copied fields are typed is such an outcome.
LEMMA OutcomesTyped ==
  ASSUME NEW c, c.extraction \in Gates, c.schema \in Proposals, c.schemaGate \in Gates,
         c.artifacts \in Artifacts \union {NoArtifacts},
         NEW r \in Outcomes(c)
  PROVE  OutcomeOf(c, r)
<1>1. ASSUME NEW x \in {"extracted", "awaiting_approval", "cancelled"}, NEW g \in Gates,
             NEW p \in Proposals, NEW h \in Gates
      PROVE  /\ Inferred(c, x, g, p, h) \in Results
             /\ Inferred(c, x, g, p, h).status = x
             /\ Inferred(c, x, g, p, h).schema = p
             /\ Inferred(c, x, g, p, h).schemaGate = h
             /\ Inferred(c, x, g, p, h).artifacts = c.artifacts
  BY <1>1 DEF Inferred, Results, Gates
<1>2. ASSUME NEW x \in {"exported", "cancelled", "raised"}, NEW a \in Artifacts \union {NoArtifacts},
             NEW v \in Gates
      PROVE  /\ Generated(c, x, a, v) \in Results
             /\ Generated(c, x, a, v).status = x
             /\ Generated(c, x, a, v).schema = c.schema
             /\ Generated(c, x, a, v).schemaGate = c.schemaGate
             /\ Generated(c, x, a, v).artifacts = a
  BY <1>2 DEF Generated, Results, Gates
<1>3. CASE r \in {Unchanged(c, "raised"), Unchanged(c, "cancelled")}
  BY <1>2, <1>3 DEF Unchanged, OutcomeOf, Gates
<1>4. CASE \E x \in {"exported", "cancelled"}, a \in Worked(c), v \in Gates :
             c.status \in approved_statuses /\ r = Generated(c, x, a, v)
  <2>1. PICK x \in {"exported", "cancelled"}, a \in Worked(c), v \in Gates : r = Generated(c, x, a, v)
    BY <1>4
  <2>2. /\ a \in Artifacts
        /\ \/ a = c.artifacts
           \/ c.artifacts = NoArtifacts /\ c.schemaGate = "open" /\ a = PreservedSite(c.schema)
    BY PreservedSiteTyped DEF Worked
  <2>3. /\ r \in Results /\ r.status = x /\ r.artifacts = a
        /\ r.schema = c.schema /\ r.schemaGate = c.schemaGate
    BY <1>2, <2>1, <2>2
  <2> QED BY <1>4, <2>2, <2>3 DEF OutcomeOf
<1>5. CASE \/ \E x \in {"extracted", "cancelled"}, g \in Gates : r = Inferred(c, x, g, c.schema, c.schemaGate)
           \/ \E p \in Proposals : r = Inferred(c, "cancelled", "open", p, "blocked")
           \/ \E p \in Schemas : r = Inferred(c, "awaiting_approval", "open", p, "open")
  BY <1>1, <1>5 DEF OutcomeOf, Gates, Proposals
<1>6. CASE c.status \in approved_statuses /\ r \in GenerationOutcomes(c)
  BY <1>3, <1>4, <1>6 DEF GenerationOutcomes, Gates
<1>7. CASE r \in CaptureOutcomes(c)
  BY <1>5, <1>7 DEF CaptureOutcomes, Gates
<1>8. CASE r \in InferenceOutcomes(c)
  BY <1>5, <1>8 DEF InferenceOutcomes, Gates, Proposals
<1> QED BY <1>3, <1>6, <1>7, <1>8 DEF Outcomes

\* The outcomes of a stage that works on a job, relative to the job.
LEMMA StageOutcomes ==
  ASSUME NEW t, t.snap \in JobRecords, NEW r \in Outcomes(CallOf(t))
  PROVE  OutcomeOf(CallOf(t), r)
<1>1. /\ CallOf(t).extraction = t.snap.extraction
      /\ CallOf(t).schema = t.snap.schema
      /\ CallOf(t).schemaGate = t.snap.schemaGate
      /\ CallOf(t).artifacts = t.snap.artifacts
  BY DEF CallOf
<1>2. /\ t.snap.extraction \in Gates
      /\ t.snap.schema \in Proposals
      /\ t.snap.schemaGate \in Gates
      /\ t.snap.artifacts \in Artifacts \union {NoArtifacts}
  BY DEF JobRecords
<1> DEFINE c == CallOf(t)
<1>3. /\ c.extraction \in Gates /\ c.schema \in Proposals /\ c.schemaGate \in Gates
      /\ c.artifacts \in Artifacts \union {NoArtifacts}
  BY <1>1, <1>2
<1>4. r \in Outcomes(c)
  OBVIOUS
<1> HIDE DEF c
<1>5. OutcomeOf(c, r)
  BY <1>3, <1>4, OutcomesTyped
<1> QED BY <1>5 DEF c

\* The record saved for a result is a job.
LEMMA RecordedTyped ==
  ASSUME NEW snap \in JobRecords, NEW r \in Results
  PROVE  Recorded(snap, r) \in JobRecords
<1>1. r.status # "raised" => status_map[r.status] \in JobStatus
  BY StatusNames DEF Results, status_map
<1>2. CASE r.status = "raised"
  BY <1>2, StatusTyped, StatusNames DEF Recorded
<1>3. CASE r.status # "raised"
  BY <1>1, <1>3 DEF Recorded, Results, JobRecords
<1> QED BY <1>2, <1>3

-----------------------------------------------------------------------------
(* The inductive invariants.                                               *)

\* A stage that is scheduled or runs holds the claim of its job, works on
\* the record as it is stored, and does not work on a finished job.
TaskHoldsJob(t) ==
  /\ Exists(t.job)
  /\ active[t.job] = t.stage
  /\ t.pc = "running" => store[t.job] = t.snap
  /\ t.pc # "done" => store[t.job].status # "validated"

\* What is known of the record of a job.
JobSound(j) ==
  IF Exists(j)
  THEN /\ store[j].decision = decided[j]
       /\ store[j].key = requested[j]
       /\ store[j].status \in {"awaiting_approval", "schema_proposed"} => store[j].schema \in Schemas
  ELSE requested[j] = NoKey /\ decided[j] = "pending" /\ active[j] = "none"

OneTaskPerJob == \A t, u \in tasks : t.job = u.job => t = u

IInv ==
  /\ TypeOK
  /\ OneTaskPerJob
  /\ \A t \in tasks : TaskHoldsJob(t)
  /\ \A j \in Jobs : JobSound(j)
  /\ OneJobPerKey

\* When the store never raises: a stage is launched only with the status and
\* the decision it is meant for, and leaves no status that reads as
\* interrupted.
TaskReviewed(t) ==
  /\ t.stage = "crawl" /\ t.pc # "done" => store[t.job].decision = "pending"
  /\ t.stage = "generate" /\ t.pc # "done" => store[t.job].status = "approved"
  /\ t.stage = "schema" /\ t.pc # "done" => store[t.job].status # "awaiting_approval"
  /\ t.pc = "done" => InterruptedStage(store[t.job]) = "none"

\* When the store never raises: what generation will take its proposal from
\* is approved, and so is what it took it from.
JobReviewed(j) ==
  Exists(j) =>
    /\ store[j].status = "approved" => store[j].decision = "approved"
    /\ /\ store[j].decision = "approved"
       /\ store[j].schemaGate = "open"
       /\ store[j].status # "awaiting_approval"
       => store[j].schema \in reviewed[j]
    /\ store[j].artifacts # NoArtifacts => store[j].artifacts.source \in reviewed[j]
    /\ ~Claimed(j) /\ InterruptedStage(store[j]) # "none" => interrupted[j]

RInv ==
  /\ IInv
  /\ \A t \in tasks : TaskReviewed(t)
  /\ \A j \in Jobs : JobReviewed(j)

-----------------------------------------------------------------------------
(* Steps keep IInv: once for what all handlers share, once for what all    *)
(* steps of a stage share.                                                 *)

\* A handler that finds its job unclaimed, writes a sound record and queues
\* at most one stage for it keeps IInv.
LEMMA HandlerStep ==
  ASSUME IInv,
         NEW j \in Jobs, ~Claimed(j),
         NEW rec \in JobRecords, NEW stage \in Stages \union {"none"},
         store' = [store EXCEPT ![j] = rec],
         active' = [active EXCEPT ![j] = stage],
         \/ tasks' = tasks
         \/ tasks' = tasks \union {Queued(j, stage)} /\ stage \in Stages /\ rec.status # "validated",
         rec.status \in {"awaiting_approval", "schema_proposed"} => rec.schema \in Schemas,
         rec.decision = decided'[j],
         rec.key = requested'[j],
         \A i \in Jobs \ {j} : decided'[i] = decided[i] /\ requested'[i] = requested[i],
         decided' \in [Jobs -> Decided],
         reviewed' \in [Jobs -> SUBSET Schemas],
         interrupted' \in [Jobs -> BOOLEAN],
         requested' \in [Jobs -> Keys \union {NoKey}],
         OneJobPerKey'
  PROVE  IInv'
<1>1. \A t \in tasks : t.job \in Jobs /\ t.job # j
  BY StageNotNone DEF IInv, TypeOK, Tasks, TaskHoldsJob, Claimed
<1>2. stage \in Stages => Queued(j, stage) \in Tasks
  BY DEF Queued, Tasks
<1>3. TypeOK'
  BY <1>2 DEF IInv, TypeOK
<1>4. OneTaskPerJob'
  BY <1>1 DEF IInv, OneTaskPerJob, Queued
<1>5. ASSUME NEW t \in tasks'
      PROVE  TaskHoldsJob(t)'
  <2>1. CASE t \in tasks
    BY <1>1, <2>1 DEF IInv, TypeOK, TaskHoldsJob, Exists
  <2>2. CASE t = Queued(j, stage) /\ t \notin tasks
    <3>1. rec # NoJob
      BY JobAssumption
    <3>2. store'[j] = rec /\ active'[j] = stage
      BY DEF IInv, TypeOK
    <3> QED BY <2>2, <3>1, <3>2 DEF TaskHoldsJob, Exists, Queued
  <2> QED BY <1>5, <2>1, <2>2
<1>6. ASSUME NEW i \in Jobs
      PROVE  JobSound(i)'
  <2>1. CASE i = j
    <3>1. store'[i] = rec /\ rec # NoJob
      BY <2>1, JobAssumption DEF IInv, TypeOK
    <3> QED BY <2>1, <3>1 DEF JobSound, Exists
  <2>2. CASE i # j
    <3>1. /\ store'[i] = store[i] /\ decided'[i] = decided[i]
          /\ requested'[i] = requested[i] /\ active'[i] = active[i]
      BY <2>2 DEF IInv, TypeOK
    <3> QED BY <3>1 DEF IInv, JobSound, Exists
  <2> QED BY <2>1, <2>2
<1> QED BY <1>3, <1>4, <1>5, <1>6 DEF IInv

\* A stage that has not ended and writes a record with the decision and the
\* key of the stored one keeps IInv.
LEMMA StageStep ==
  ASSUME IInv,
         NEW t \in tasks, t.pc # "done",
         NEW pc \in {"running", "done"}, NEW snap \in JobRecords \union {NoJob},
         NEW rec \in JobRecords,
         store' = [store EXCEPT ![t.job] = rec],
         Advance(t, pc, snap),
         UNCHANGED <<active, history>>,
         rec.decision = store[t.job].decision,
         rec.key = store[t.job].key,
         rec.status \in {"awaiting_approval", "schema_proposed"} => rec.schema \in Schemas,
         pc = "running" => snap = rec /\ rec.status # "validated"
  PROVE  IInv'
<1> DEFINE u == [t EXCEPT !.pc = pc, !.snap = snap]
<1>1. t \in Tasks /\ t.job \in Jobs
  BY DEF IInv, TypeOK, Tasks
<1>2. u \in Tasks /\ u.job = t.job /\ u.stage = t.stage /\ u.pc = pc /\ u.snap = snap
  BY <1>1 DEF Tasks
<1>3. tasks' = (tasks \ {t}) \union {u}
  BY DEF Advance
<1>4. Exists(t.job) /\ active[t.job] = t.stage
  BY DEF IInv, TaskHoldsJob
<1>5. active' = active /\ decided' = decided /\ reviewed' = reviewed /\ interrupted' = interrupted
        /\ requested' = requested
  BY DEF history
<1>6. store'[t.job] = rec /\ rec # NoJob
  BY <1>1, JobAssumption DEF IInv, TypeOK
<1> HIDE DEF u
<1>7. TypeOK'
  BY <1>1, <1>2, <1>3, <1>5 DEF IInv, TypeOK
<1>8. OneTaskPerJob'
  BY <1>2, <1>3 DEF IInv, OneTaskPerJob
<1>9. ASSUME NEW v \in tasks'
      PROVE  TaskHoldsJob(v)'
  <2>1. CASE v = u
    BY <1>2, <1>4, <1>5, <1>6, <2>1 DEF TaskHoldsJob, Exists
  <2>2. CASE v \in tasks \ {t}
    <3>1. v.job # t.job /\ v.job \in Jobs /\ TaskHoldsJob(v)
      BY <2>2 DEF IInv, OneTaskPerJob, TypeOK, Tasks
    <3>2. store'[v.job] = store[v.job]
      BY <3>1 DEF IInv, TypeOK
    <3> QED BY <1>5, <3>1, <3>2 DEF TaskHoldsJob, Exists
  <2> QED BY <1>3, <1>9, <2>1, <2>2
<1>10. ASSUME NEW i \in Jobs
       PROVE  JobSound(i)'
  <2>1. CASE i = t.job
    BY <1>4, <1>5, <1>6, <2>1 DEF IInv, JobSound, Exists
  <2>2. CASE i # t.job
    <3>1. store'[i] = store[i]
      BY <2>2 DEF IInv, TypeOK
    <3> QED BY <1>5, <3>1 DEF IInv, JobSound, Exists
  <2> QED BY <2>1, <2>2
<1>11. OneJobPerKey'
  BY <1>5 DEF IInv, OneJobPerKey
<1> QED BY <1>7, <1>8, <1>9, <1>10, <1>11 DEF IInv

\* The record of a job that exists is typed.
LEMMA StoredTyped ==
  ASSUME IInv, NEW j \in Jobs, Exists(j)
  PROVE  store[j] \in JobRecords
BY DEF IInv, TypeOK, Exists

\* The stage POST /run launches is a stage, never for a finished job.
LEMMA RunStageTyped ==
  ASSUME NEW job, RunStage(job) # "none"
  PROVE  RunStage(job) \in Stages /\ job.status # "validated"
BY DEF RunStage, Stages, FINISHED

\* What queue_stage does for a job without claim.
LEMMA QueueStage ==
  ASSUME NEW j \in Jobs, ~Claimed(j), NEW stage, queue_stage(j, stage)
  PROVE  /\ active' = [active EXCEPT ![j] = stage]
         /\ tasks' = tasks \union {Queued(j, stage)}
         /\ interrupted' = [interrupted EXCEPT ![j] = FALSE]
BY DEF queue_stage

\* A created job gets a key no other job was requested with.
LEMMA CreateKeeps ==
  ASSUME IInv, NEW j \in Jobs, NEW k \in Keys \union {NoKey}, create_job(j, k)
  PROVE  IInv'
<1>1. ~Claimed(j)
  BY DEF IInv, JobSound, create_job, Claimed
<1>2. NewJob(k) \in JobRecords
  BY NewJobTyped
<1>3. /\ active' = [active EXCEPT ![j] = "crawl"]
      /\ tasks' = tasks \union {Queued(j, "crawl")}
      /\ interrupted' = [interrupted EXCEPT ![j] = FALSE]
  BY <1>1, QueueStage DEF create_job
<1>4. /\ store' = [store EXCEPT ![j] = NewJob(k)]
      /\ requested' = [requested EXCEPT ![j] = k]
      /\ decided' = decided /\ reviewed' = reviewed
  BY DEF create_job
<1>5. OneJobPerKey'
  <2>1. ASSUME NEW i \in Jobs, i # j, requested[i] = k
        PROVE  k = NoKey
    <3>1. CASE Exists(i)
      <4>1. store[i].key = k
        BY <2>1, <3>1 DEF IInv, JobSound
      <4> QED BY <3>1, <4>1 DEF create_job, find_job_by_request_key
    <3>2. CASE ~Exists(i)
      BY <2>1, <3>2 DEF IInv, JobSound
    <3> QED BY <3>1, <3>2
  <2> QED BY <1>4, <2>1 DEF IInv, TypeOK, OneJobPerKey
<1>6. decided[j] = "pending"
  BY DEF IInv, JobSound, create_job
<1>7. NewJob(k).status = "draft" /\ NewJob(k).decision = "pending" /\ NewJob(k).key = k
  BY DEF NewJob
<1>8. "crawl" \in Stages
  BY DEF Stages
<1>9. /\ decided' \in [Jobs -> Decided] /\ reviewed' \in [Jobs -> SUBSET Schemas]
      /\ interrupted' \in [Jobs -> BOOLEAN] /\ requested' \in [Jobs -> Keys \union {NoKey}]
      /\ requested'[j] = k /\ decided'[j] = "pending"
      /\ \A i \in Jobs \ {j} : decided'[i] = decided[i] /\ requested'[i] = requested[i]
  BY <1>3, <1>4, <1>6 DEF IInv, TypeOK
<1> DEFINE rec == NewJob(k)
<1> HIDE DEF rec
<1> QED BY <1>1, <1>2, <1>3, <1>4, <1>5, <1>7, <1>8, <1>9, HandlerStep DEF rec

\* What run_job and its failing reply have in common.
LEMMA RunKeeps ==
  ASSUME IInv, NEW j \in Jobs, run_job(j) \/ run_job_reply_fails(j)
  PROVE  IInv'
<1> DEFINE stage == RunStage(store[j])
           rec   == IF stage = "generate" THEN restore_generation(store[j]) ELSE store[j]
<1>1. ~Claimed(j) /\ Exists(j) /\ stage # "none"
  BY DEF run_job, run_job_reply_fails
<1>2. stage \in Stages /\ store[j].status # "validated" /\ store[j] \in JobRecords
  BY <1>1, RunStageTyped, StoredTyped
<1>3. /\ rec \in JobRecords
      /\ rec.decision = store[j].decision /\ rec.key = store[j].key /\ rec.schema = store[j].schema
      /\ rec.status = "approved" \/ rec.status = store[j].status
  BY <1>2, RestoreTyped DEF restore_generation, JobRecords
<1>4. /\ store' = [store EXCEPT ![j] = rec]
      /\ active' = [active EXCEPT ![j] = stage]
      /\ interrupted' = [interrupted EXCEPT ![j] = FALSE]
      /\ tasks' = tasks \/ tasks' = tasks \union {Queued(j, stage)}
      /\ decided' = decided /\ reviewed' = reviewed /\ requested' = requested
  <2>1. store' = [store EXCEPT ![j] = rec]
    BY DEF run_job, run_job_reply_fails, IInv, TypeOK
  <2>2. CASE run_job(j)
    <3>1. queue_stage(j, stage) /\ UNCHANGED <<decided, reviewed, requested>>
      BY <2>2 DEF run_job
    <3> HIDE DEF stage
    <3> QED BY <1>1, <2>1, <3>1, QueueStage
  <2>3. CASE run_job_reply_fails(j)
    BY <2>1, <2>3 DEF run_job_reply_fails
  <2> QED BY <2>2, <2>3
<1>5. store[j].decision = decided[j] /\ store[j].key = requested[j]
        /\ (store[j].status \in {"awaiting_approval", "schema_proposed"} => store[j].schema \in Schemas)
  BY <1>1 DEF IInv, JobSound
<1>6. OneJobPerKey'
  BY <1>4 DEF IInv, OneJobPerKey
<1>7. /\ decided' \in [Jobs -> Decided] /\ reviewed' \in [Jobs -> SUBSET Schemas]
      /\ interrupted' \in [Jobs -> BOOLEAN] /\ requested' \in [Jobs -> Keys \union {NoKey}]
  BY <1>4 DEF IInv, TypeOK
<1> HIDE DEF stage, rec
<1> QED BY <1>1, <1>2, <1>3, <1>4, <1>5, <1>6, <1>7, HandlerStep

\* infer_schema writes no record.
LEMMA InferKeeps ==
  ASSUME IInv, NEW j \in Jobs, infer_schema(j)
  PROVE  IInv'
<1>1. ~Claimed(j) /\ Exists(j) /\ store[j] \in JobRecords /\ store[j].status # "validated"
  BY StoredTyped DEF infer_schema, MayInfer, CapturedBefore
<1>2. /\ active' = [active EXCEPT ![j] = "schema"]
      /\ tasks' = tasks \union {Queued(j, "schema")}
      /\ interrupted' = [interrupted EXCEPT ![j] = FALSE]
  BY <1>1, QueueStage DEF infer_schema
<1>3. /\ store' = [store EXCEPT ![j] = store[j]]
      /\ decided' = decided /\ reviewed' = reviewed /\ requested' = requested
  BY DEF infer_schema, IInv, TypeOK
<1>4. store[j].decision = decided[j] /\ store[j].key = requested[j]
        /\ (store[j].status \in {"awaiting_approval", "schema_proposed"} => store[j].schema \in Schemas)
  BY <1>1 DEF IInv, JobSound
<1>5. OneJobPerKey'
  BY <1>3 DEF IInv, OneJobPerKey
<1>6. /\ decided' \in [Jobs -> Decided] /\ reviewed' \in [Jobs -> SUBSET Schemas]
      /\ interrupted' \in [Jobs -> BOOLEAN] /\ requested' \in [Jobs -> Keys \union {NoKey}]
      /\ "schema" \in Stages
  BY <1>2, <1>3 DEF IInv, TypeOK, Stages
<1> QED BY <1>1, <1>2, <1>3, <1>4, <1>5, <1>6, HandlerStep

\* What decide_schema leaves and sets.
LEMMA DecideEffect ==
  ASSUME NEW job \in JobRecords, NEW d \in {"approved", "rejected", "pending"}, MayDecide(job, d)
  PROVE  LET rec == decide_schema(job, d) IN
         /\ rec \in JobRecords
         /\ rec.key = job.key
         /\ rec.decision = IF d = "approved" THEN "approved" ELSE "pending"
         /\ rec.status = CASE d = "approved" -> "approved"
                           [] d = "rejected" -> "inferring_schema"
                           [] d = "pending" -> "awaiting_approval"
         /\ rec.artifacts = IF d = "rejected" THEN NoArtifacts ELSE job.artifacts
         /\ d # "rejected" => rec.schema = job.schema /\ rec.schemaGate = job.schemaGate
         /\ job.schema \in Schemas
<1>1. decide_schema(job, d) \in JobRecords
  BY DecideTyped
<1>2. CASE d = "approved"
  BY <1>1, <1>2 DEF decide_schema, MayDecide, JobRecords
<1>3. CASE d = "rejected"
  BY <1>1, <1>3 DEF decide_schema, MayDecide, JobRecords
<1>4. CASE d = "pending"
  BY <1>1, <1>4 DEF decide_schema, MayDecide, JobRecords
<1> QED BY <1>2, <1>3, <1>4

\* A decision is written with the record it is about.
LEMMA DecisionKeeps ==
  ASSUME IInv, NEW j \in Jobs, Approve(j) \/ Reject(j) \/ Postpone(j)
  PROVE  IInv'
<1>1. ~Claimed(j) /\ Exists(j) /\ store[j] \in JobRecords
  BY StoredTyped DEF Approve, Reject, Postpone
<1>2. store[j].key = requested[j]
  BY <1>1 DEF IInv, JobSound
<1>3. CASE Approve(j)
  <2> DEFINE rec == decide_schema(store[j], "approved")
  <2>1. /\ rec \in JobRecords /\ rec.key = store[j].key /\ rec.decision = "approved"
        /\ rec.status = "approved" /\ store[j].schema \in Schemas
    BY <1>1, <1>3, DecideEffect DEF Approve
  <2>2. /\ store' = [store EXCEPT ![j] = rec]
        /\ decided' = [decided EXCEPT ![j] = "approved"]
        /\ reviewed' = [reviewed EXCEPT ![j] = @ \union {store[j].schema}]
        /\ requested' = requested
    BY <1>3 DEF Approve, IInv, TypeOK
  <2>3. /\ active' = [active EXCEPT ![j] = "generate"]
        /\ tasks' = tasks \union {Queued(j, "generate")}
        /\ interrupted' = [interrupted EXCEPT ![j] = FALSE]
    BY <1>1, <1>3, QueueStage DEF Approve
  <2>4. /\ decided' \in [Jobs -> Decided] /\ reviewed' \in [Jobs -> SUBSET Schemas]
        /\ interrupted' \in [Jobs -> BOOLEAN] /\ requested' \in [Jobs -> Keys \union {NoKey}]
        /\ decided'[j] = "approved" /\ \A i \in Jobs \ {j} : decided'[i] = decided[i]
        /\ OneJobPerKey' /\ "generate" \in Stages
    BY <2>1, <2>2, <2>3 DEF IInv, TypeOK, Decided, OneJobPerKey, Stages
  <2> HIDE DEF rec
  <2> QED BY <1>1, <1>2, <2>1, <2>2, <2>3, <2>4, HandlerStep
<1>4. CASE Reject(j)
  <2> DEFINE rec == decide_schema(store[j], "rejected")
  <2>1. /\ rec \in JobRecords /\ rec.key = store[j].key /\ rec.decision = "pending"
        /\ rec.status = "inferring_schema"
    BY <1>1, <1>4, DecideEffect DEF Reject
  <2>2. /\ store' = [store EXCEPT ![j] = rec]
        /\ decided' = [decided EXCEPT ![j] = "pending"]
        /\ reviewed' = [reviewed EXCEPT ![j] = {}]
        /\ requested' = requested
    BY <1>4 DEF Reject, IInv, TypeOK
  <2>3. /\ active' = [active EXCEPT ![j] = "schema"]
        /\ tasks' = tasks \union {Queued(j, "schema")}
        /\ interrupted' = [interrupted EXCEPT ![j] = FALSE]
    BY <1>1, <1>4, QueueStage DEF Reject
  <2>4. /\ decided' \in [Jobs -> Decided] /\ reviewed' \in [Jobs -> SUBSET Schemas]
        /\ interrupted' \in [Jobs -> BOOLEAN] /\ requested' \in [Jobs -> Keys \union {NoKey}]
        /\ decided'[j] = "pending" /\ \A i \in Jobs \ {j} : decided'[i] = decided[i]
        /\ OneJobPerKey' /\ "schema" \in Stages
    BY <2>2, <2>3 DEF IInv, TypeOK, Decided, OneJobPerKey, Stages
  <2> HIDE DEF rec
  <2> QED BY <1>1, <1>2, <2>1, <2>2, <2>3, <2>4, HandlerStep
<1>5. CASE Postpone(j)
  <2> DEFINE rec == decide_schema(store[j], "pending")
  <2>1. /\ rec \in JobRecords /\ rec.key = store[j].key /\ rec.decision = "pending"
        /\ rec.schema \in Schemas
    BY <1>1, <1>5, DecideEffect DEF Postpone
  <2>2. /\ store' = [store EXCEPT ![j] = rec]
        /\ decided' = [decided EXCEPT ![j] = "pending"]
        /\ active' = [active EXCEPT ![j] = "none"]
        /\ tasks' = tasks /\ reviewed' = reviewed /\ interrupted' = interrupted
        /\ requested' = requested
    BY <1>1, <1>5 DEF Postpone, IInv, TypeOK, Claimed
  <2>3. /\ decided' \in [Jobs -> Decided] /\ reviewed' \in [Jobs -> SUBSET Schemas]
        /\ interrupted' \in [Jobs -> BOOLEAN] /\ requested' \in [Jobs -> Keys \union {NoKey}]
        /\ decided'[j] = "pending" /\ \A i \in Jobs \ {j} : decided'[i] = decided[i]
        /\ OneJobPerKey'
    BY <2>2 DEF IInv, TypeOK, Decided, OneJobPerKey
  <2> HIDE DEF rec
  <2> QED BY <1>1, <1>2, <2>1, <2>2, <2>3, HandlerStep
<1> QED BY <1>3, <1>4, <1>5

\* The record a stage saves, relative to the one it read.
LEMMA RecordedEffect ==
  ASSUME NEW t, t.snap \in JobRecords, NEW r \in Outcomes(CallOf(t))
  PROVE  LET rec == Recorded(t.snap, r) IN
         /\ rec \in JobRecords
         /\ rec.key = t.snap.key /\ rec.decision = t.snap.decision
         /\ rec.status \in {"crawled", "awaiting_approval", "validated", "failed"}
         /\ rec.status = "awaiting_approval" => rec.schema \in Schemas
         /\ rec.status # "awaiting_approval" /\ rec.schemaGate = "open" =>
              rec.schema = t.snap.schema /\ t.snap.schemaGate = "open"
         /\ \/ rec.artifacts = t.snap.artifacts
            \/ /\ CallOf(t).status \in approved_statuses /\ t.snap.schemaGate = "open"
               /\ rec.artifacts = PreservedSite(t.snap.schema)
<1>1. OutcomeOf(CallOf(t), r) /\ r \in Results
  BY StageOutcomes DEF OutcomeOf
<1>2. /\ CallOf(t).schema = t.snap.schema
      /\ CallOf(t).schemaGate = t.snap.schemaGate
      /\ CallOf(t).artifacts = t.snap.artifacts
  BY DEF CallOf
<1>3. Recorded(t.snap, r) \in JobRecords
  BY <1>1, RecordedTyped
<1>4. CASE r.status = "raised"
  <2>1. Recorded(t.snap, r) = [t.snap EXCEPT !.status = "failed"]
    BY <1>4 DEF Recorded
  <2> QED BY <1>3, <2>1 DEF JobRecords
<1>5. CASE r.status # "raised"
  <2> DEFINE rec == Recorded(t.snap, r)
  <2>1. /\ rec.key = t.snap.key /\ rec.decision = t.snap.decision
        /\ rec.status = status_map[r.status]
        /\ rec.schema = r.schema /\ rec.schemaGate = r.schemaGate /\ rec.artifacts = r.artifacts
    BY <1>5 DEF Recorded, JobRecords
  <2>2. /\ status_map[r.status] \in {"crawled", "awaiting_approval", "validated", "failed"}
        /\ status_map[r.status] = "awaiting_approval" <=> r.status = "awaiting_approval"
    BY <1>1, <1>5 DEF Results, status_map
  <2> HIDE DEF rec
  <2>3. /\ rec.status = "awaiting_approval" => rec.schema \in Schemas
        /\ rec.status # "awaiting_approval" /\ rec.schemaGate = "open" =>
              rec.schema = t.snap.schema /\ t.snap.schemaGate = "open"
        /\ \/ rec.artifacts = t.snap.artifacts
           \/ /\ CallOf(t).status \in approved_statuses /\ t.snap.schemaGate = "open"
              /\ rec.artifacts = PreservedSite(t.snap.schema)
    BY <1>1, <1>2, <2>1, <2>2 DEF OutcomeOf
  <2> QED BY <1>3, <2>1, <2>2, <2>3 DEF rec
<1> QED BY <1>4, <1>5

\* The record a stage goes on with.
LEMMA SnapshotEffect ==
  ASSUME NEW t, store[t.job] \in JobRecords
  PROVE  /\ Snapshot(t) \in JobRecords
         /\ Snapshot(t) = IF t.stage = "schema" THEN [store[t.job] EXCEPT !.status = "inferring_schema"]
                          ELSE store[t.job]
BY StatusTyped, StatusNames DEF Snapshot

\* What IInv says of a task.
LEMMA TaskFacts ==
  ASSUME IInv, NEW t \in tasks
  PROVE  /\ t.job \in Jobs /\ Exists(t.job) /\ store[t.job] \in JobRecords
         /\ t.snap \in JobRecords \union {NoJob}
         /\ t.pc = "running" => t.snap = store[t.job]
         /\ store[t.job].status \in {"awaiting_approval", "schema_proposed"} =>
              store[t.job].schema \in Schemas
<1>1. t.job \in Jobs /\ Exists(t.job) /\ t.snap \in JobRecords \union {NoJob}
  BY DEF IInv, TypeOK, Tasks, TaskHoldsJob
<1> QED BY <1>1, StoredTyped DEF IInv, TaskHoldsJob, JobSound

\* A stage begins with the record that is stored.
LEMMA BeginsKeeps ==
  ASSUME IInv, NEW t \in tasks, StageBegins(t)
  PROVE  IInv'
<1> DEFINE rec == Snapshot(t)
           pc  == IF rec.status = "validated" THEN "done" ELSE "running"
<1>1. /\ t.pc # "done"
      /\ store' = [store EXCEPT ![t.job] = rec]
      /\ Advance(t, pc, rec)
      /\ UNCHANGED <<active, history>>
  BY DEF StageBegins
<1>2. rec \in JobRecords /\ rec.decision = store[t.job].decision /\ rec.key = store[t.job].key
      /\ rec.schema = store[t.job].schema
      /\ (rec.status = store[t.job].status \/ rec.status = "inferring_schema")
  BY TaskFacts, SnapshotEffect DEF JobRecords
<1>3. /\ pc \in {"running", "done"}
      /\ pc = "running" => rec.status # "validated"
      /\ rec.status \in {"awaiting_approval", "schema_proposed"} => rec.schema \in Schemas
  BY <1>2, TaskFacts
<1> HIDE DEF rec, pc
<1> QED BY <1>1, <1>2, <1>3, StageStep

\* A stage ends, saves again or raises: the record it replaces is its own.
LEMMA EndsKeep ==
  ASSUME IInv, NEW t \in tasks, StageEnds(t) \/ StageSaveRetried(t) \/ StageRaises(t)
  PROVE  IInv'
<1>1. CASE StageEnds(t)
  <2>1. t.pc = "running" /\ t.snap = store[t.job] /\ t.snap \in JobRecords
    BY <1>1, TaskFacts DEF StageEnds
  <2>2. PICK r \in Outcomes(CallOf(t)) : store' = [store EXCEPT ![t.job] = Recorded(t.snap, r)]
    BY <1>1 DEF StageEnds
  <2> DEFINE rec == Recorded(t.snap, r)
  <2>3. /\ rec \in JobRecords /\ rec.key = t.snap.key /\ rec.decision = t.snap.decision
        /\ rec.status \in {"crawled", "awaiting_approval", "validated", "failed"}
        /\ rec.status = "awaiting_approval" => rec.schema \in Schemas
    BY <2>1, RecordedEffect
  <2>4. Advance(t, "done", t.snap) /\ UNCHANGED <<active, history>>
    BY <1>1 DEF StageEnds
  <2>5. store' = [store EXCEPT ![t.job] = rec]
    BY <2>2
  <2> HIDE DEF rec
  <2> QED BY <2>1, <2>3, <2>4, <2>5, StageStep
<1>2. CASE StageSaveRetried(t)
  <2>1. t.pc = "running" /\ t.snap = store[t.job] /\ t.snap \in JobRecords
    BY <1>2, TaskFacts DEF StageSaveRetried
  <2>2. PICK r \in Outcomes(CallOf(t)) :
          store' = [store EXCEPT ![t.job] = [Recorded(t.snap, r) EXCEPT !.status = "failed"]]
    BY <1>2 DEF StageSaveRetried
  <2> DEFINE rec == [Recorded(t.snap, r) EXCEPT !.status = "failed"]
  <2>3. /\ Recorded(t.snap, r) \in JobRecords
        /\ Recorded(t.snap, r).key = t.snap.key /\ Recorded(t.snap, r).decision = t.snap.decision
    BY <2>1, RecordedEffect
  <2>4. /\ rec \in JobRecords /\ rec.key = t.snap.key /\ rec.decision = t.snap.decision
        /\ rec.status = "failed"
    BY <2>3, StatusTyped, StatusNames DEF JobRecords
  <2>5. Advance(t, "done", t.snap) /\ UNCHANGED <<active, history>>
    BY <1>2 DEF StageSaveRetried
  <2>6. store' = [store EXCEPT ![t.job] = rec]
    BY <2>2
  <2> HIDE DEF rec
  <2> QED BY <2>1, <2>4, <2>5, <2>6, StageStep
<1>3. CASE StageRaises(t)
  <2>1. /\ t.pc # "done" /\ Advance(t, "done", t.snap) /\ UNCHANGED <<active, history>>
        /\ \/ store' = [store EXCEPT ![t.job].status = "failed"]
           \/ store' = store
    BY <1>3 DEF StageRaises
  <2>2. t.snap \in JobRecords \union {NoJob} /\ store[t.job] \in JobRecords
    BY TaskFacts
  <2>3. CASE store' = [store EXCEPT ![t.job].status = "failed"]
    <3> DEFINE rec == [store[t.job] EXCEPT !.status = "failed"]
    <3>1. /\ rec \in JobRecords /\ rec.key = store[t.job].key
          /\ rec.decision = store[t.job].decision /\ rec.status = "failed"
      BY <2>2, StatusTyped, StatusNames DEF JobRecords
    <3>2. store' = [store EXCEPT ![t.job] = rec]
      BY <2>3
    <3> HIDE DEF rec
    <3> QED BY <2>1, <2>2, <3>1, <3>2, StageStep
  <2>4. CASE store' = store
    <3>1. store' = [store EXCEPT ![t.job] = store[t.job]]
      BY <2>4 DEF IInv, TypeOK
    <3>2. store[t.job].status \in {"awaiting_approval", "schema_proposed"} =>
            store[t.job].schema \in Schemas
      BY TaskFacts
    <3> QED BY <2>1, <2>2, <3>1, <3>2, StageStep
  <2> QED BY <2>1, <2>3, <2>4
<1> QED BY <1>1, <1>2, <1>3

\* The claim goes with the only stage of the job.
LEMMA ReleaseKeeps ==
  ASSUME IInv, NEW t \in tasks, release(t)
  PROVE  IInv'
<1>1. /\ active' = [active EXCEPT ![t.job] = "none"] /\ tasks' = tasks \ {t}
      /\ store' = store /\ decided' = decided /\ reviewed' = reviewed
      /\ interrupted' = interrupted /\ requested' = requested
  BY DEF release, history
<1>2. TypeOK' /\ OneTaskPerJob' /\ OneJobPerKey'
  BY <1>1 DEF IInv, TypeOK, OneTaskPerJob, OneJobPerKey
<1>3. ASSUME NEW u \in tasks'
      PROVE  TaskHoldsJob(u)'
  <2>1. u \in tasks /\ u.job # t.job /\ TaskHoldsJob(u)
    BY <1>1, <1>3 DEF IInv, OneTaskPerJob
  <2> QED BY <1>1, <2>1 DEF IInv, TypeOK, TaskHoldsJob, Exists
<1>4. ASSUME NEW i \in Jobs
      PROVE  JobSound(i)'
  <2>1. active'[i] = active[i] \/ active'[i] = "none"
    BY <1>1 DEF IInv, TypeOK
  <2> QED BY <1>1, <2>1 DEF IInv, JobSound, Exists
<1> QED BY <1>2, <1>3, <1>4 DEF IInv

\* A crash leaves no stage and no claim.
LEMMA CrashKeeps ==
  ASSUME IInv, Crash
  PROVE  IInv'
<1>1. /\ active' = [j \in Jobs |-> "none"] /\ tasks' = {}
      /\ interrupted' = [j \in Jobs |-> interrupted[j] \/ Claimed(j)]
      /\ store' = store /\ decided' = decided /\ reviewed' = reviewed /\ requested' = requested
  BY DEF Crash
<1>2. interrupted' \in [Jobs -> BOOLEAN]
  BY <1>1 DEF IInv, TypeOK, Claimed
<1>3. TypeOK' /\ OneTaskPerJob' /\ OneJobPerKey' /\ \A t \in tasks' : TaskHoldsJob(t)'
  BY <1>1, <1>2 DEF IInv, TypeOK, OneTaskPerJob, OneJobPerKey
<1>4. \A i \in Jobs : JobSound(i)'
  BY <1>1 DEF IInv, JobSound, Exists
<1> QED BY <1>3, <1>4 DEF IInv

\* IInv holds in every state.
LEMMA IInvInvariant == Spec => []IInv
<1>1. Init => IInv
  <2> SUFFICES ASSUME Init PROVE IInv
    OBVIOUS
  <2>1. TypeOK /\ OneTaskPerJob /\ OneJobPerKey /\ \A t \in tasks : TaskHoldsJob(t)
    BY DEF Init, TypeOK, OneTaskPerJob, OneJobPerKey, Decided
  <2>2. \A j \in Jobs : JobSound(j)
    BY DEF Init, JobSound, Exists
  <2> QED BY <2>1, <2>2 DEF IInv
<1>2. IInv /\ [Next]_vars => IInv'
  <2> SUFFICES ASSUME IInv, [Next]_vars PROVE IInv'
    OBVIOUS
  <2>1. ASSUME NEW j \in Jobs, Handler(j)
        PROVE  IInv'
    BY <2>1, CreateKeeps, RunKeeps, InferKeeps, DecisionKeeps DEF Handler
  <2>2. ASSUME NEW t \in tasks, Execute(t)
        PROVE  IInv'
    BY <2>2, BeginsKeeps, EndsKeep, ReleaseKeeps DEF Execute
  <2>3. CASE Crash
    BY <2>3, CrashKeeps
  <2>4. CASE UNCHANGED vars
    BY <2>4 DEF vars, IInv, TypeOK, OneTaskPerJob, OneJobPerKey, TaskHoldsJob, JobSound, Exists
  <2> QED BY <2>1, <2>2, <2>3, <2>4 DEF Next
<1> QED BY <1>1, <1>2, PTL DEF Spec

-----------------------------------------------------------------------------
(* What follows from IInv, whether the store raises or not.                *)

\* The stored jobs, the claims and the stages have their types, for all
\* interleavings of handlers, stages, faults and crashes.
THEOREM TypeCorrect == Spec => []TypeOK
<1>1. IInv => TypeOK
  BY DEF IInv
<1> QED BY <1>1, IInvInvariant, PTL

\* From the read of a stage to its write minutes later nobody writes the
\* record of the job, although the claim is the only lock there is.
THEOREM StagesAreIsolated == Spec => []SnapshotCurrent
<1>1. IInv => SnapshotCurrent
  BY DEF IInv, TaskHoldsJob, SnapshotCurrent
<1> QED BY <1>1, IInvInvariant, PTL

\* No stage overwrites a decision the user took.
THEOREM DecisionsAreKept == Spec => []DecisionKept
<1>1. IInv => DecisionKept
  BY DEF IInv, JobSound, DecisionKept
<1> QED BY <1>1, IInvInvariant, PTL

\* A creation key names one job for ever, also after its stages rewrote the
\* configuration that holds it.
THEOREM KeysAreUnique == Spec => []OneJobPerKey
<1>1. IInv => OneJobPerKey
  BY DEF IInv
<1> QED BY <1>1, IInvInvariant, PTL

\* A job that is not finished and not claimed accepts some request.
THEOREM NoJobIsStuck == Spec => []NoStuckJob
<1>1. ASSUME IInv, NEW j \in Jobs, Exists(j), ~Claimed(j), store[j].status \notin FINISHED
      PROVE  \/ RunStage(store[j]) # "none" \/ MayInfer(store[j])
             \/ MayDecide(store[j], "rejected")
  <2>1. store[j].status \in {"awaiting_approval", "schema_proposed"} => store[j].schema \in Schemas
    BY <1>1 DEF IInv, JobSound
  <2>2. CASE store[j].status \in {"awaiting_approval", "schema_proposed"}
    BY <2>1, <2>2 DEF MayDecide
  <2>3. CASE store[j].status \in {"crawled", "extracted"}
    BY <2>3 DEF MayInfer
  <2>4. CASE store[j].status \notin {"awaiting_approval", "schema_proposed", "crawled", "extracted"}
    BY <1>1, <2>4 DEF RunStage
  <2> QED BY <2>2, <2>3, <2>4
<1>2. IInv => NoStuckJob
  BY <1>1 DEF NoStuckJob
<1> QED BY <1>2, IInvInvariant, PTL

\* No step, of any actor, changes a job that is validated.
THEOREM ValidatedJobsAreFinal == Spec => ValidatedIsFinal
<1>1. ASSUME IInv, [Next]_vars, NEW j \in Jobs, Exists(j), store[j].status = "validated"
      PROVE  store'[j] = store[j]
  <2> DEFINE Kept == store'[j] = store[j]
  <2>1. \A t \in tasks : t.job = j => t.pc = "done"
    BY <1>1 DEF IInv, TaskHoldsJob
  <2>2. ASSUME NEW i \in Jobs, Handler(i)
        PROVE  Kept
    <3>1. CASE i # j
      BY <1>1, <2>2, <3>1 DEF Handler, create_job, run_job, run_job_reply_fails, infer_schema,
                              Approve, Reject, Postpone, IInv, TypeOK
    <3>2. CASE i = j
      <4>1. RunStage(store[j]) = "none" /\ ~MayInfer(store[j])
        BY <1>1 DEF RunStage, FINISHED, MayInfer, CapturedBefore
      <4>2. \A d \in {"approved", "rejected", "pending"} : ~MayDecide(store[j], d)
        BY <1>1 DEF MayDecide
      <4> QED BY <1>1, <2>2, <3>2, <4>1, <4>2 DEF Handler, create_job, run_job, run_job_reply_fails,
                              infer_schema, Approve, Reject, Postpone
    <3> QED BY <3>1, <3>2
  <2>3. ASSUME NEW t \in tasks, Execute(t)
        PROVE  Kept
    <3>1. CASE release(t)
      BY <3>1 DEF release
    <3>2. CASE ~release(t)
      <4>1. t.job # j
        BY <2>1, <2>3, <3>2 DEF Execute, StageBegins, StageEnds, StageSaveRetried, StageRaises
      <4> QED BY <1>1, <2>3, <4>1 DEF Execute, StageBegins, StageEnds, StageSaveRetried,
                              StageRaises, release, IInv, TypeOK
    <3> QED BY <3>1, <3>2
  <2>4. CASE Crash \/ UNCHANGED vars
    BY <2>4 DEF Crash, vars
  <2> QED BY <1>1, <2>2, <2>3, <2>4 DEF Next
<1>2. IInv /\ [Next]_vars =>
        [\A j \in Jobs : Exists(j) /\ store[j].status = "validated" => store'[j] = store[j]]_vars
  BY <1>1
<1> QED BY <1>2, IInvInvariant, PTL DEF Spec, ValidatedIsFinal

-----------------------------------------------------------------------------
(* When the store does not raise: what an approval reaches.                *)

\* HandlerStep for RInv.
LEMMA HandlerReviewed ==
  ASSUME RInv, IInv',
         NEW j \in Jobs, ~Claimed(j),
         NEW rec \in JobRecords, NEW stage \in Stages \union {"none"},
         store' = [store EXCEPT ![j] = rec],
         active' = [active EXCEPT ![j] = stage],
         tasks' = tasks \/ tasks' = tasks \union {Queued(j, stage)},
         \A i \in Jobs \ {j} : reviewed'[i] = reviewed[i] /\ interrupted'[i] = interrupted[i],
         stage = "crawl" => rec.decision = "pending",
         stage = "generate" => rec.status = "approved",
         stage = "schema" => rec.status # "awaiting_approval",
         rec.status = "approved" => rec.decision = "approved",
         rec.decision = "approved" /\ rec.schemaGate = "open" /\ rec.status # "awaiting_approval" =>
           rec.schema \in reviewed'[j],
         rec.artifacts # NoArtifacts => rec.artifacts.source \in reviewed'[j],
         stage = "none" /\ InterruptedStage(rec) # "none" => interrupted'[j]
  PROVE  RInv'
<1>1. store'[j] = rec /\ active'[j] = stage
  BY DEF RInv, IInv, TypeOK
<1>2. ASSUME NEW t \in tasks'
      PROVE  TaskReviewed(t)'
  <2>1. CASE t \in tasks
    <3>1. TaskReviewed(t) /\ t.job \in Jobs /\ t.job # j
      BY <2>1, StageNotNone DEF RInv, IInv, TypeOK, Tasks, TaskHoldsJob, Claimed
    <3>2. store'[t.job] = store[t.job]
      BY <3>1 DEF RInv, IInv, TypeOK
    <3> QED BY <3>1, <3>2 DEF TaskReviewed
  <2>2. CASE t = Queued(j, stage)
    BY <1>1, <2>2 DEF TaskReviewed, Queued
  <2> QED BY <1>2, <2>1, <2>2
<1>3. ASSUME NEW i \in Jobs
      PROVE  JobReviewed(i)'
  <2>1. CASE i = j
    BY <1>1, <2>1 DEF JobReviewed, Claimed
  <2>2. CASE i # j
    <3>1. /\ store'[i] = store[i] /\ active'[i] = active[i]
          /\ reviewed'[i] = reviewed[i] /\ interrupted'[i] = interrupted[i]
      BY <2>2 DEF RInv, IInv, TypeOK
    <3> QED BY <3>1 DEF RInv, JobReviewed, Exists, Claimed
  <2> QED BY <2>1, <2>2
<1> QED BY <1>2, <1>3 DEF RInv

\* StageStep for RInv.
LEMMA StageReviewed ==
  ASSUME RInv, IInv',
         NEW t \in tasks,
         NEW pc \in {"running", "done"}, NEW snap \in JobRecords \union {NoJob},
         NEW rec \in JobRecords,
         store' = [store EXCEPT ![t.job] = rec],
         Advance(t, pc, snap),
         UNCHANGED <<active, history>>,
         pc = "running" =>
           /\ t.stage = "crawl" => rec.decision = "pending"
           /\ t.stage = "generate" => rec.status = "approved"
           /\ t.stage = "schema" => rec.status # "awaiting_approval",
         pc = "done" => InterruptedStage(rec) = "none",
         rec.status = "approved" => rec.decision = "approved",
         rec.decision = "approved" /\ rec.schemaGate = "open" /\ rec.status # "awaiting_approval" =>
           rec.schema \in reviewed[t.job],
         rec.artifacts # NoArtifacts => rec.artifacts.source \in reviewed[t.job]
  PROVE  RInv'
<1> DEFINE u == [t EXCEPT !.pc = pc, !.snap = snap]
<1>1. t \in Tasks /\ t.job \in Jobs /\ Claimed(t.job)
  BY StageNotNone DEF RInv, IInv, TypeOK, Tasks, TaskHoldsJob, Claimed
<1>2. u.job = t.job /\ u.stage = t.stage /\ u.pc = pc
  BY <1>1 DEF Tasks
<1>3. tasks' = (tasks \ {t}) \union {u}
  BY DEF Advance
<1>4. active' = active /\ reviewed' = reviewed /\ interrupted' = interrupted
  BY DEF history
<1>5. store'[t.job] = rec
  BY <1>1 DEF RInv, IInv, TypeOK
<1> HIDE DEF u
<1>6. ASSUME NEW v \in tasks'
      PROVE  TaskReviewed(v)'
  <2>1. CASE v = u
    BY <1>2, <1>5, <2>1 DEF TaskReviewed
  <2>2. CASE v \in tasks \ {t}
    <3>1. v.job # t.job /\ v.job \in Jobs /\ TaskReviewed(v)
      BY <2>2 DEF RInv, IInv, OneTaskPerJob, TypeOK, Tasks
    <3>2. store'[v.job] = store[v.job]
      BY <3>1 DEF RInv, IInv, TypeOK
    <3> QED BY <3>1, <3>2 DEF TaskReviewed
  <2> QED BY <1>3, <1>6, <2>1, <2>2
<1>7. ASSUME NEW i \in Jobs
      PROVE  JobReviewed(i)'
  <2>1. CASE i = t.job
    BY <1>1, <1>4, <1>5, <2>1 DEF JobReviewed, Claimed
  <2>2. CASE i # t.job
    <3>1. store'[i] = store[i]
      BY <2>2 DEF RInv, IInv, TypeOK
    <3> QED BY <1>4, <3>1 DEF RInv, JobReviewed, Exists, Claimed
  <2> QED BY <2>1, <2>2
<1> QED BY <1>6, <1>7 DEF RInv

\* What RInv says of the record of a job that exists.
LEMMA JobFacts ==
  ASSUME RInv, NEW j \in Jobs, Exists(j)
  PROVE  /\ store[j] \in JobRecords
         /\ store[j].status = "approved" => store[j].decision = "approved"
         /\ /\ store[j].decision = "approved" /\ store[j].schemaGate = "open"
            /\ store[j].status # "awaiting_approval"
            => store[j].schema \in reviewed[j]
         /\ store[j].artifacts # NoArtifacts => store[j].artifacts.source \in reviewed[j]
BY StoredTyped DEF RInv, JobReviewed

\* A handler launches a stage only with the decision it is meant for.
LEMMA LaunchesReviewed ==
  ASSUME RInv, IInv', NEW j \in Jobs,
         (\E k \in Keys \union {NoKey} : create_job(j, k)) \/ run_job(j) \/ infer_schema(j)
  PROVE  RInv'
<1>0. IInv
  BY DEF RInv
<1>1. ASSUME NEW k \in Keys \union {NoKey}, create_job(j, k)
      PROVE  RInv'
  <2>1. ~Claimed(j)
    BY <1>0, <1>1 DEF IInv, JobSound, create_job, Claimed
  <2>2. /\ active' = [active EXCEPT ![j] = "crawl"]
        /\ tasks' = tasks \union {Queued(j, "crawl")}
        /\ interrupted' = [interrupted EXCEPT ![j] = FALSE]
    BY <1>1, <2>1, QueueStage DEF create_job
  <2> DEFINE rec == NewJob(k)
  <2>3. /\ rec \in JobRecords /\ rec.decision = "pending" /\ rec.status = "draft"
        /\ rec.artifacts = NoArtifacts
    BY NewJobTyped DEF NewJob
  <2>4. store' = [store EXCEPT ![j] = rec] /\ reviewed' = reviewed
    BY <1>1 DEF create_job
  <2>5. \A i \in Jobs \ {j} : reviewed'[i] = reviewed[i] /\ interrupted'[i] = interrupted[i]
    BY <1>0, <2>2, <2>4 DEF IInv, TypeOK
  <2>6. "crawl" \in Stages
    BY DEF Stages
  <2> HIDE DEF rec
  <2> QED BY <2>1, <2>2, <2>3, <2>4, <2>5, <2>6, HandlerReviewed
<1>2. CASE run_job(j)
  <2> DEFINE stage == RunStage(store[j])
             rec   == IF stage = "generate" THEN restore_generation(store[j]) ELSE store[j]
  <2>1. ~Claimed(j) /\ Exists(j) /\ stage # "none" /\ queue_stage(j, stage) /\ reviewed' = reviewed
    BY <1>2 DEF run_job
  <2>2. stage \in Stages
    BY <2>1, RunStageTyped
  <2>3. /\ store[j] \in JobRecords
        /\ store[j].status = "approved" => store[j].decision = "approved"
        /\ /\ store[j].decision = "approved" /\ store[j].schemaGate = "open"
           /\ store[j].status # "awaiting_approval"
           => store[j].schema \in reviewed[j]
        /\ store[j].artifacts # NoArtifacts => store[j].artifacts.source \in reviewed[j]
    BY <2>1, JobFacts
  <2>4. /\ stage = "crawl" => store[j].decision = "pending"
        /\ stage = "generate" => store[j].decision = "approved"
        /\ store[j].status # "awaiting_approval"
    BY <2>1, <2>3 DEF RunStage, JobRecords, Decided
  <2>5. /\ rec \in JobRecords
        /\ rec.decision = store[j].decision /\ rec.schema = store[j].schema
        /\ rec.schemaGate = store[j].schemaGate /\ rec.artifacts = store[j].artifacts
        /\ rec.status = IF stage = "generate" THEN "approved" ELSE store[j].status
    BY <2>3, RestoreTyped DEF restore_generation, JobRecords
  <2>6. store' = [store EXCEPT ![j] = rec]
    BY <1>0, <1>2 DEF run_job, IInv, TypeOK
  <2> HIDE DEF stage, rec
  <2>7. /\ active' = [active EXCEPT ![j] = stage]
        /\ tasks' = tasks \union {Queued(j, stage)}
        /\ interrupted' = [interrupted EXCEPT ![j] = FALSE]
    BY <2>1, QueueStage
  <2>8. \A i \in Jobs \ {j} : reviewed'[i] = reviewed[i] /\ interrupted'[i] = interrupted[i]
    BY <1>0, <2>1, <2>7 DEF IInv, TypeOK
  <2>9. /\ stage = "crawl" => rec.decision = "pending"
        /\ stage = "generate" => rec.status = "approved"
        /\ rec.status # "awaiting_approval"
        /\ rec.status = "approved" => rec.decision = "approved"
        /\ rec.decision = "approved" /\ rec.schemaGate = "open" => rec.schema \in reviewed'[j]
        /\ rec.artifacts # NoArtifacts => rec.artifacts.source \in reviewed'[j]
        /\ stage # "none"
    BY <2>1, <2>3, <2>4, <2>5
  <2> QED BY <2>1, <2>2, <2>5, <2>6, <2>7, <2>8, <2>9, HandlerReviewed
<1>3. CASE infer_schema(j)
  <2>1. ~Claimed(j) /\ Exists(j) /\ reviewed' = reviewed /\ store[j].status # "awaiting_approval"
    BY <1>3 DEF infer_schema, MayInfer, CapturedBefore
  <2>2. /\ active' = [active EXCEPT ![j] = "schema"]
        /\ tasks' = tasks \union {Queued(j, "schema")}
        /\ interrupted' = [interrupted EXCEPT ![j] = FALSE]
    BY <1>3, <2>1, QueueStage DEF infer_schema
  <2>3. store' = [store EXCEPT ![j] = store[j]]
    BY <1>0, <1>3 DEF infer_schema, IInv, TypeOK
  <2>4. \A i \in Jobs \ {j} : reviewed'[i] = reviewed[i] /\ interrupted'[i] = interrupted[i]
    BY <1>0, <2>1, <2>2 DEF IInv, TypeOK
  <2>5. "schema" \in Stages
    BY DEF Stages
  <2>6. /\ store[j] \in JobRecords
        /\ store[j].status = "approved" => store[j].decision = "approved"
        /\ store[j].decision = "approved" /\ store[j].schemaGate = "open" =>
             store[j].schema \in reviewed'[j]
        /\ store[j].artifacts # NoArtifacts => store[j].artifacts.source \in reviewed'[j]
    BY <2>1, JobFacts
  <2> QED BY <2>1, <2>2, <2>3, <2>4, <2>5, <2>6, HandlerReviewed
<1> QED BY <1>1, <1>2, <1>3

\* An approval is of the proposal stored, a rejection takes its artifacts.
LEMMA DecisionsReviewed ==
  ASSUME RInv, IInv', NEW j \in Jobs, Approve(j) \/ Reject(j) \/ Postpone(j)
  PROVE  RInv'
<1>0. IInv
  BY DEF RInv
<1>1. ~Claimed(j) /\ Exists(j) /\ store[j] \in JobRecords
      /\ (store[j].artifacts # NoArtifacts => store[j].artifacts.source \in reviewed[j])
  BY JobFacts DEF Approve, Reject, Postpone
<1>2. CASE Approve(j)
  <2> DEFINE rec == decide_schema(store[j], "approved")
  <2>1. /\ rec \in JobRecords /\ rec.decision = "approved" /\ rec.status = "approved"
        /\ rec.artifacts = store[j].artifacts /\ rec.schema = store[j].schema
    BY <1>1, <1>2, DecideEffect DEF Approve
  <2>2. /\ store' = [store EXCEPT ![j] = rec]
        /\ reviewed' = [reviewed EXCEPT ![j] = @ \union {store[j].schema}]
    BY <1>2 DEF Approve
  <2>3. /\ active' = [active EXCEPT ![j] = "generate"]
        /\ tasks' = tasks \union {Queued(j, "generate")}
        /\ interrupted' = [interrupted EXCEPT ![j] = FALSE]
    BY <1>1, <1>2, QueueStage DEF Approve
  <2>4. /\ \A i \in Jobs \ {j} : reviewed'[i] = reviewed[i] /\ interrupted'[i] = interrupted[i]
        /\ reviewed'[j] = reviewed[j] \union {store[j].schema}
        /\ "generate" \in Stages
    BY <1>0, <2>2, <2>3 DEF IInv, TypeOK, Stages
  <2> HIDE DEF rec
  <2>5. /\ rec.schema \in reviewed'[j]
        /\ rec.artifacts # NoArtifacts => rec.artifacts.source \in reviewed'[j]
    BY <1>1, <2>1, <2>4
  <2> QED BY <1>1, <2>1, <2>2, <2>3, <2>4, <2>5, HandlerReviewed
<1>3. CASE Reject(j)
  <2> DEFINE rec == decide_schema(store[j], "rejected")
  <2>1. /\ rec \in JobRecords /\ rec.decision = "pending" /\ rec.status = "inferring_schema"
        /\ rec.artifacts = NoArtifacts
    BY <1>1, <1>3, DecideEffect DEF Reject
  <2>2. /\ store' = [store EXCEPT ![j] = rec]
        /\ reviewed' = [reviewed EXCEPT ![j] = {}]
    BY <1>3 DEF Reject
  <2>3. /\ active' = [active EXCEPT ![j] = "schema"]
        /\ tasks' = tasks \union {Queued(j, "schema")}
        /\ interrupted' = [interrupted EXCEPT ![j] = FALSE]
    BY <1>1, <1>3, QueueStage DEF Reject
  <2>4. /\ \A i \in Jobs \ {j} : reviewed'[i] = reviewed[i] /\ interrupted'[i] = interrupted[i]
        /\ "schema" \in Stages
    BY <1>0, <2>2, <2>3 DEF IInv, TypeOK, Stages
  <2> HIDE DEF rec
  <2> QED BY <1>1, <2>1, <2>2, <2>3, <2>4, HandlerReviewed
<1>4. CASE Postpone(j)
  <2> DEFINE rec == decide_schema(store[j], "pending")
  <2>1. /\ rec \in JobRecords /\ rec.decision = "pending" /\ rec.status = "awaiting_approval"
        /\ rec.artifacts = store[j].artifacts
    BY <1>1, <1>4, DecideEffect DEF Postpone
  <2>2. /\ store' = [store EXCEPT ![j] = rec]
        /\ active' = [active EXCEPT ![j] = "none"]
        /\ tasks' = tasks /\ reviewed' = reviewed /\ interrupted' = interrupted
    BY <1>0, <1>1, <1>4 DEF Postpone, IInv, TypeOK, Claimed
  <2> HIDE DEF rec
  <2>3. InterruptedStage(rec) = "none"
    BY <2>1 DEF InterruptedStage
  <2> QED BY <1>1, <2>1, <2>2, <2>3, HandlerReviewed
<1> QED BY <1>2, <1>3, <1>4

\* A stage that begins works for the decision it was launched with.
LEMMA BeginsReviewed ==
  ASSUME RInv, IInv', NEW t \in tasks, StageBegins(t)
  PROVE  RInv'
<1> DEFINE rec == Snapshot(t)
           pc  == IF rec.status = "validated" THEN "done" ELSE "running"
<1>1. /\ t.pc # "done"
      /\ store' = [store EXCEPT ![t.job] = rec]
      /\ Advance(t, pc, rec)
      /\ UNCHANGED <<active, history>>
  BY DEF StageBegins
<1>2. IInv /\ TaskReviewed(t) /\ t.job \in Jobs /\ Exists(t.job) /\ store[t.job].status # "validated"
  BY <1>1 DEF RInv, IInv, TypeOK, Tasks, TaskHoldsJob
<1>3. /\ store[t.job] \in JobRecords
      /\ store[t.job].status = "approved" => store[t.job].decision = "approved"
      /\ /\ store[t.job].decision = "approved" /\ store[t.job].schemaGate = "open"
         /\ store[t.job].status # "awaiting_approval"
         => store[t.job].schema \in reviewed[t.job]
      /\ store[t.job].artifacts # NoArtifacts =>
           store[t.job].artifacts.source \in reviewed[t.job]
  BY <1>2, JobFacts
<1>4. /\ rec \in JobRecords
      /\ rec.decision = store[t.job].decision /\ rec.schema = store[t.job].schema
      /\ rec.schemaGate = store[t.job].schemaGate /\ rec.artifacts = store[t.job].artifacts
      /\ rec.status = IF t.stage = "schema" THEN "inferring_schema" ELSE store[t.job].status
  BY <1>3, SnapshotEffect DEF JobRecords
<1>5. pc = "running" /\ pc \in {"running", "done"}
  BY <1>2, <1>4
<1> HIDE DEF rec, pc
<1>6. /\ t.stage = "crawl" => rec.decision = "pending"
      /\ t.stage = "generate" => rec.status = "approved"
      /\ t.stage = "schema" => rec.status # "awaiting_approval"
      /\ rec.status = "approved" => rec.decision = "approved"
      /\ rec.decision = "approved" /\ rec.schemaGate = "open" /\ rec.status # "awaiting_approval" =>
           rec.schema \in reviewed[t.job]
      /\ rec.artifacts # NoArtifacts => rec.artifacts.source \in reviewed[t.job]
  BY <1>1, <1>2, <1>3, <1>4 DEF TaskReviewed
<1> QED BY <1>1, <1>4, <1>5, <1>6, StageReviewed

\* What a stage saves was generated from what the user approved.
LEMMA EndsReviewed ==
  ASSUME RInv, IInv', NEW t \in tasks, StageEnds(t)
  PROVE  RInv'
<1>1. t.pc = "running" /\ t.snap = store[t.job] /\ t.snap \in JobRecords
      /\ IInv /\ TaskReviewed(t) /\ t.job \in Jobs /\ Exists(t.job) /\ t.stage \in Stages
  BY TaskFacts DEF StageEnds, RInv, IInv, TypeOK, Tasks
<1>2. PICK r \in Outcomes(CallOf(t)) : store' = [store EXCEPT ![t.job] = Recorded(t.snap, r)]
  BY DEF StageEnds
<1> DEFINE rec == Recorded(t.snap, r)
<1>3. /\ rec \in JobRecords /\ rec.decision = t.snap.decision
      /\ rec.status \in {"crawled", "awaiting_approval", "validated", "failed"}
      /\ rec.status # "awaiting_approval" /\ rec.schemaGate = "open" =>
           rec.schema = t.snap.schema /\ t.snap.schemaGate = "open"
      /\ \/ rec.artifacts = t.snap.artifacts
         \/ /\ CallOf(t).status \in approved_statuses /\ t.snap.schemaGate = "open"
            /\ rec.artifacts = PreservedSite(t.snap.schema)
  BY <1>1, RecordedEffect
<1>4. Advance(t, "done", t.snap) /\ UNCHANGED <<active, history>>
      /\ store' = [store EXCEPT ![t.job] = rec]
  BY <1>2 DEF StageEnds
<1> HIDE DEF rec
<1>5. /\ t.snap.status = "approved" => t.snap.decision = "approved"
      /\ /\ t.snap.decision = "approved" /\ t.snap.schemaGate = "open"
         /\ t.snap.status # "awaiting_approval"
         => t.snap.schema \in reviewed[t.job]
      /\ t.snap.artifacts # NoArtifacts => t.snap.artifacts.source \in reviewed[t.job]
  BY <1>1, JobFacts
<1>6. t.snap.decision = "approved" => t.snap.status # "awaiting_approval"
  BY <1>1 DEF TaskReviewed, Stages
<1>7. CallOf(t).status \in approved_statuses => t.snap.status = "approved"
  BY <1>1 DEF CallOf, approved_statuses, JobRecords, JobStatus
<1>8. rec.decision = "approved" /\ rec.schemaGate = "open" /\ rec.status # "awaiting_approval" =>
        rec.schema \in reviewed[t.job]
  BY <1>3, <1>5, <1>6
<1>9. rec.artifacts # NoArtifacts => rec.artifacts.source \in reviewed[t.job]
  <2>1. CASE rec.artifacts = t.snap.artifacts
    BY <1>5, <2>1
  <2>2. CASE /\ CallOf(t).status \in approved_statuses /\ t.snap.schemaGate = "open"
             /\ rec.artifacts = PreservedSite(t.snap.schema)
    <3>1. t.snap.schema \in reviewed[t.job]
      BY <1>5, <1>6, <1>7, <2>2
    <3> QED BY <2>2, <3>1 DEF PreservedSite
  <2> QED BY <1>3, <2>1, <2>2
<1>10. InterruptedStage(rec) = "none" /\ rec.status # "approved"
  BY <1>3 DEF InterruptedStage
<1> QED BY <1>1, <1>3, <1>4, <1>8, <1>9, <1>10, StageReviewed

\* A released job had its stage run to the end; a crash is an interruption.
LEMMA ReleaseReviewed ==
  ASSUME RInv, IInv', Crash \/ \E t \in tasks : release(t)
  PROVE  RInv'
<1>1. ASSUME NEW t \in tasks, release(t)
      PROVE  RInv'
  <2>1. /\ active' = [active EXCEPT ![t.job] = "none"] /\ tasks' = tasks \ {t}
        /\ store' = store /\ reviewed' = reviewed /\ interrupted' = interrupted
        /\ t.pc = "done" /\ t.job \in Jobs
    BY <1>1 DEF release, history, RInv, IInv, TypeOK, Tasks
  <2>2. InterruptedStage(store[t.job]) = "none"
    BY <2>1 DEF RInv, TaskReviewed
  <2>3. \A u \in tasks' : TaskReviewed(u)'
    BY <2>1 DEF RInv, TaskReviewed
  <2>4. ASSUME NEW i \in Jobs
        PROVE  JobReviewed(i)'
    <3>1. active'[i] = active[i] \/ i = t.job
      BY <2>1 DEF RInv, IInv, TypeOK
    <3> QED BY <2>1, <2>2, <3>1 DEF RInv, JobReviewed, Exists, Claimed
  <2> QED BY <2>3, <2>4 DEF RInv
<1>2. CASE Crash
  <2>1. /\ active' = [j \in Jobs |-> "none"] /\ tasks' = {}
        /\ interrupted' = [j \in Jobs |-> interrupted[j] \/ Claimed(j)]
        /\ store' = store /\ reviewed' = reviewed
    BY <1>2 DEF Crash
  <2>2. \A i \in Jobs : interrupted'[i] = (interrupted[i] \/ Claimed(i))
    BY <2>1
  <2>3. \A i \in Jobs : JobReviewed(i)'
    BY <2>1, <2>2 DEF RInv, JobReviewed, Exists
  <2> QED BY <2>1, <2>3 DEF RInv
<1> QED BY <1>1, <1>2

\* RInv holds in every state, if the store does not raise.
LEMMA RInvInvariant ==
  ASSUME ~StoreFaults
  PROVE  Spec => []RInv
<1>1. Init /\ IInv => RInv
  BY DEF Init, RInv, JobReviewed, Exists
<1>2. RInv /\ IInv' /\ [Next]_vars => RInv'
  <2> SUFFICES ASSUME RInv, IInv', [Next]_vars PROVE RInv'
    OBVIOUS
  <2>1. ASSUME NEW j \in Jobs, Handler(j)
        PROVE  RInv'
    BY <2>1, LaunchesReviewed, DecisionsReviewed DEF Handler, run_job_reply_fails
  <2>2. ASSUME NEW t \in tasks, Execute(t)
        PROVE  RInv'
    BY <2>2, BeginsReviewed, EndsReviewed, ReleaseReviewed
       DEF Execute, StageSaveRetried, StageRaises
  <2>3. CASE Crash
    BY <2>3, ReleaseReviewed
  <2>4. CASE UNCHANGED vars
    BY <2>4 DEF vars, RInv, TaskReviewed, JobReviewed, Exists, Claimed
  <2> QED BY <2>1, <2>2, <2>3, <2>4 DEF Next
<1> QED BY <1>1, <1>2, IInvInvariant, PTL DEF Spec

\* Unless the store raises, the artifacts of a job were generated from a
\* proposal the user approved and has not rejected since.
THEOREM ArtifactsAreReviewed ==
  ASSUME ~StoreFaults
  PROVE  Spec => []ArtifactsReviewed
<1>1. RInv => ArtifactsReviewed
  BY DEF RInv, JobReviewed, ArtifactsReviewed
<1>2. Spec => []RInv
  BY RInvInvariant
<1> QED BY <1>1, <1>2, PTL

\* Unless the store raises, a job that reads as interrupted was interrupted.
THEOREM InterruptionsAreReal == Spec => []InterruptionIsReal
<1>1. CASE StoreFaults
  <2>1. InterruptionIsReal
    BY <1>1 DEF InterruptionIsReal
  <2> QED BY <2>1, PTL
<1>2. CASE ~StoreFaults
  <2>1. RInv => InterruptionIsReal
    BY DEF RInv, JobReviewed, InterruptionIsReal
  <2>2. Spec => []RInv
    BY <1>2, RInvInvariant
  <2> QED BY <2>1, <2>2, PTL
<1> QED BY <1>1, <1>2

-----------------------------------------------------------------------------
(* The calls the stages make.                                              *)

\* The artifacts of every job were left by the engine's own stages.
JobsWhole == \A j \in Jobs : Exists(j) => store[j].artifacts \in StageArtifacts

\* Every stage that runs makes a call of the engine's kind.
StagesCall == \A t \in tasks : t.pc = "running" => CallOf(t) \in StageCalls

\* One record is written.
LEMMA WriteKeepsWhole ==
  ASSUME IInv, JobsWhole, NEW j \in Jobs, NEW rec, rec.artifacts \in StageArtifacts,
         store' = [store EXCEPT ![j] = rec]
  PROVE  JobsWhole'
BY DEF IInv, TypeOK, JobsWhole, Exists

\* No handler puts artifacts into a job.
LEMMA HandlersKeepWhole ==
  ASSUME IInv, JobsWhole, NEW j \in Jobs, Handler(j)
  PROVE  JobsWhole'
<1>1. ASSUME NEW k \in Keys \union {NoKey}, create_job(j, k)
      PROVE  JobsWhole'
  <2>1. store' = [store EXCEPT ![j] = NewJob(k)] /\ NewJob(k).artifacts \in StageArtifacts
    BY <1>1 DEF create_job, NewJob, StageArtifacts
  <2> QED BY <2>1, WriteKeepsWhole
<1>2. CASE run_job(j) \/ run_job_reply_fails(j)
  <2>1. Exists(j) /\ store[j] \in JobRecords
    BY <1>2, StoredTyped DEF run_job, run_job_reply_fails
  <2>2. store' = store \/ store' = [store EXCEPT ![j] = restore_generation(store[j])]
    BY <1>2 DEF run_job, run_job_reply_fails
  <2>3. restore_generation(store[j]).artifacts \in StageArtifacts
    BY <2>1 DEF restore_generation, JobRecords, JobsWhole
  <2>4. CASE store' = store
    BY <2>4 DEF JobsWhole, Exists
  <2> QED BY <2>2, <2>3, <2>4, WriteKeepsWhole
<1>3. CASE infer_schema(j)
  BY <1>3 DEF infer_schema, JobsWhole, Exists
<1>4. CASE Approve(j) \/ Reject(j) \/ Postpone(j)
  <2>1. PICK d \in {"approved", "rejected", "pending"} :
          /\ Exists(j) /\ MayDecide(store[j], d)
          /\ store' = [store EXCEPT ![j] = decide_schema(store[j], d)]
    BY <1>4 DEF Approve, Reject, Postpone
  <2>2. decide_schema(store[j], d).artifacts \in {store[j].artifacts, NoArtifacts}
    BY <2>1, StoredTyped, DecideEffect
  <2>3. decide_schema(store[j], d).artifacts \in StageArtifacts
    BY <2>1, <2>2 DEF JobsWhole, StageArtifacts
  <2> QED BY <2>1, <2>3, WriteKeepsWhole
<1> QED BY <1>1, <1>2, <1>3, <1>4 DEF Handler

\* A stage leaves the artifacts it read, or a site it preserved.
LEMMA StagesKeepWhole ==
  ASSUME IInv, JobsWhole, NEW t \in tasks, Execute(t)
  PROVE  JobsWhole'
<1>1. t.job \in Jobs /\ store[t.job] \in JobRecords /\ store[t.job].artifacts \in StageArtifacts
  BY TaskFacts DEF JobsWhole
<1>2. CASE StageBegins(t)
  <2>1. Snapshot(t).artifacts = store[t.job].artifacts
    BY <1>1, SnapshotEffect DEF JobRecords
  <2> QED BY <1>1, <1>2, <2>1, WriteKeepsWhole DEF StageBegins
<1>3. CASE StageEnds(t) \/ StageSaveRetried(t)
  <2>1. t.snap = store[t.job] /\ t.snap \in JobRecords
    BY <1>1, <1>3, TaskFacts DEF StageEnds, StageSaveRetried
  <2>2. PICK r \in Outcomes(CallOf(t)) :
          \/ store' = [store EXCEPT ![t.job] = Recorded(t.snap, r)]
          \/ store' = [store EXCEPT ![t.job] = [Recorded(t.snap, r) EXCEPT !.status = "failed"]]
    BY <1>3 DEF StageEnds, StageSaveRetried
  <2> DEFINE rec == Recorded(t.snap, r)
  <2>3. /\ rec \in JobRecords
        /\ rec.artifacts = t.snap.artifacts \/ rec.artifacts = PreservedSite(t.snap.schema)
    BY <2>1, RecordedEffect
  <2>4. t.snap.schema \in Proposals
    BY <2>1 DEF JobRecords
  <2> HIDE DEF rec
  <2>5. rec.artifacts \in StageArtifacts
    BY <1>1, <2>1, <2>3, <2>4 DEF StageArtifacts
  <2>6. [rec EXCEPT !.status = "failed"].artifacts = rec.artifacts
    BY <2>3 DEF JobRecords
  <2>7. \/ store' = [store EXCEPT ![t.job] = rec]
        \/ store' = [store EXCEPT ![t.job] = [rec EXCEPT !.status = "failed"]]
    BY <2>2 DEF rec
  <2> QED BY <1>1, <2>5, <2>6, <2>7, WriteKeepsWhole
<1>4. CASE StageRaises(t)
  <2>1. \/ store' = [store EXCEPT ![t.job] = [store[t.job] EXCEPT !.status = "failed"]]
        \/ store' = store
    BY <1>4 DEF StageRaises
  <2>2. [store[t.job] EXCEPT !.status = "failed"].artifacts = store[t.job].artifacts
    BY <1>1 DEF JobRecords
  <2>3. CASE store' = store
    BY <2>3 DEF JobsWhole, Exists
  <2> QED BY <1>1, <2>1, <2>2, <2>3, WriteKeepsWhole
<1>5. CASE release(t)
  BY <1>5 DEF release, JobsWhole, Exists
<1> QED BY <1>2, <1>3, <1>4, <1>5 DEF Execute

\* What a running stage passes, when its job holds such artifacts.
LEMMA RunningCalls == IInv /\ JobsWhole => StagesCall
<1> SUFFICES ASSUME IInv, JobsWhole, NEW t \in tasks, t.pc = "running"
             PROVE  CallOf(t) \in StageCalls
  BY DEF StagesCall
<1>1. t.snap \in JobRecords /\ t.snap.artifacts \in StageArtifacts /\ t.stage \in Stages
  BY TaskFacts DEF JobsWhole, IInv, TypeOK, Tasks
<1>2. CallOf(t) \in CallSpace
  <2>1. "extracted" \in JobStatus
    BY DEF JobStatus
  <2>2. /\ (IF t.stage = "schema" THEN "extracted" ELSE t.snap.status) \in JobStatus
        /\ t.stage \in {"none", "crawl", "schema", "generate"}
        /\ t.snap.extraction \in Gates /\ t.snap.schema \in Proposals /\ t.snap.schemaGate \in Gates
        /\ t.snap.artifacts \in Artifacts \union {NoArtifacts}
    BY <1>1, <2>1 DEF JobRecords, Stages
  <2> QED BY <2>2 DEF CallOf, CallSpace
<1>3. /\ CallOf(t).preserved /\ ~CallOf(t).customInfer /\ CallOf(t).schemaReview = "none"
      /\ CallOf(t).generationGate = "none" /\ CallOf(t).validationReview = "none"
      /\ CallOf(t).artifacts = t.snap.artifacts
  BY DEF CallOf
<1> QED BY <1>1, <1>2, <1>3 DEF StageCalls

\* Whatever a history of stages, decisions, crashes and failing saves has left
\* in a job, the stages call the workflow only in ways for which
\* ConversionWorkflow_proofs shows that it keeps the contract assumed here.
THEOREM StagesCallTheContract == Spec => []StagesCall
<1>1. Init => JobsWhole
  BY DEF Init, JobsWhole, Exists
<1>2. IInv /\ JobsWhole /\ [Next]_vars => JobsWhole'
  <2> SUFFICES ASSUME IInv, JobsWhole, [Next]_vars
               PROVE  JobsWhole'
    OBVIOUS
  <2>1. CASE Crash \/ UNCHANGED vars
    BY <2>1 DEF Crash, vars, JobsWhole, Exists
  <2> QED BY <2>1, HandlersKeepWhole, StagesKeepWhole DEF Next
<1>3. IInv /\ JobsWhole => StagesCall
  BY RunningCalls
<1> QED BY <1>1, <1>2, <1>3, IInvInvariant, PTL DEF Spec

=============================================================================
