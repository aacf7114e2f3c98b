----------------------------- MODULE BackendJobs -----------------------------
(***************************************************************************)
(* A conversion as the backend sees it: the reservation of a conversion of *)
(* the account's plan, the BullMQ entry that hands the crawl to the worker *)
(* and polls it, and the requests that mirror the worker's status in the   *)
(* database (controllers/jobController.ts, queue/jobQueue.ts,              *)
(* services/plans.ts, deleteSite of controllers/siteController.ts).        *)
(*                                                                         *)
(* Every await is a point where others run: what a handler read before it  *)
(* may be old when it writes.  The database and Redis survive a crash of   *)
(* the backend, its handlers do not.  One account on the Starter plan and  *)
(* one backend process; a crawl has a site of its own.                     *)
(***************************************************************************)
EXTENDS Integers, Sequences, FiniteSets, SequencesExt

CONSTANTS
  Crawls,      \* identities of crawls; the entry and the worker's key have them too
  Legacy,      \* crawls older than the audit log; bound: they are only deleted
  NoCrawl,
  Tabs,        \* bound: attempts to start a conversion, in the order they begin
  Slots,       \* requests that may be under way
  Limit,       \* conversionLimit of the plan
  MaxCrashes   \* bound on the crashes of a behaviour

ASSUME CrawlAssumption == IsFiniteSet(Crawls) /\ Legacy \subseteq Crawls /\ NoCrawl \notin Crawls
ASSUME PlanAssumption == Limit \in Nat /\ Cardinality(Legacy) <= Limit
ASSUME TabAssumption == Tabs \subseteq Nat
ASSUME BackendCrashAssumption == MaxCrashes \in Nat

\* CRAWLED stands for INFERRING_SCHEMA and AWAITING_APPROVAL as well.
Statuses == {"PENDING", "PROCESSING", "CRAWLED", "GENERATING", "COMPLETED", "FAILED"}
Entries == {"none", "waiting", "active", "failed", "completed"}

VARIABLES
  status,   \* the crawl's status in the database; "none" before, "gone" after
  logRef,   \* does the crawl know its worker job?
  audits,   \* crawls with an audit entry conversion.started
  queue,    \* the BullMQ entry of each crawl
  line,     \* the entries that wait, in order
  stalls,   \* how often an entry was found stalled
  made,     \* how many worker jobs were created for a crawl
  worker,   \* external: what the worker's view of the job shows
  tabs,     \* createJob of each tab
  proc,     \* processConversionJob: the queue worker takes one entry at a time
  request,  \* getJobStatus, runJob, inferSchema and submitSchemaDecision
  crashes   \* crashes so far

database == <<status, logRef, audits>>
redis    == <<queue, line, stalls>>
external == <<made, worker>>
vars == <<database, redis, external, tabs, proc, request, crashes>>

NoTab     == [pc |-> "idle", crawl |-> NoCrawl, logs |-> {}, used |-> 0]
Closed    == [pc |-> "done", crawl |-> NoCrawl, logs |-> {}, used |-> 0]
NoProc    == [pc |-> "idle", crawl |-> NoCrawl, seen |-> "none"]
NoRequest == [pc |-> "idle", crawl |-> NoCrawl, seen |-> "none"]

Init ==
  /\ status = [c \in Crawls |-> IF c \in Legacy THEN "COMPLETED" ELSE "none"]
  /\ logRef = [c \in Crawls |-> c \in Legacy]
  /\ audits = {}
  /\ queue  = [c \in Crawls |-> IF c \in Legacy THEN "completed" ELSE "none"]
  /\ line = <<>> /\ stalls = [c \in Crawls |-> 0]
  /\ made   = [c \in Crawls |-> IF c \in Legacy THEN 1 ELSE 0]
  /\ worker = [c \in Crawls |-> IF c \in Legacy THEN "COMPLETED" ELSE "none"]
  /\ tabs = [t \in Tabs |-> NoTab]
  /\ proc = NoProc
  /\ request = [s \in Slots |-> NoRequest]
  /\ crashes = 0

Live == {c \in Crawls : status[c] \in Statuses}

\* An update of a crawl that is gone raises and changes nothing.
Saved(c, s) == status' = IF c \in Live THEN [status EXCEPT ![c] = s] ELSE status

\* An entry is added unless the crawl has one already.
add(c) ==
  /\ queue' = IF queue[c] = "none" THEN [queue EXCEPT ![c] = "waiting"] ELSE queue
  /\ line' = IF queue[c] = "none" THEN Append(line, c) ELSE line
  /\ UNCHANGED stalls

-----------------------------------------------------------------------------
(* createJob: the reservation is one transaction, which holds the row of   *)
(* the account; the entry is added after it.                               *)

In(t, pc) == tabs[t].pc = pc

Goes(t, pc) == tabs' = [tabs EXCEPT ![t].pc = pc]

\* The transactions that hold the account's row.
Holders == {t \in Tabs : tabs[t].pc \in {"locked", "counting", "counted"}}

\* Fault: the account's row is not locked.
lock_account_unlocked(t) ==
  /\ In(t, "idle") /\ \A u \in Tabs : u < t => ~In(u, "idle")
  /\ Goes(t, "locked")
  /\ UNCHANGED <<database, redis, external, proc, request, crashes>>

lock_account(t) ==
  /\ In(t, "idle") /\ \A u \in Tabs : u < t => ~In(u, "idle")
  /\ Holders = {}
  /\ Goes(t, "locked")
  /\ UNCHANGED <<database, redis, external, proc, request, crashes>>

\* conversionUsage reads the audit entries first ...
read_audits(t) ==
  /\ In(t, "locked")
  /\ tabs' = [tabs EXCEPT ![t].pc = "counting", ![t].logs = audits]
  /\ UNCHANGED <<database, redis, external, proc, request, crashes>>

\* ... and then counts the crawls that have none.
conversionUsage(t) == Cardinality(tabs[t].logs) + Cardinality(Live \ tabs[t].logs)

count_usage(t) ==
  /\ In(t, "counting")
  /\ tabs' = [tabs EXCEPT ![t] = [ pc |-> "counted", crawl |-> NoCrawl, logs |-> {},
                                   used |-> conversionUsage(t) ]]
  /\ UNCHANGED <<database, redis, external, proc, request, crashes>>

refuse(t) ==
  /\ In(t, "counted") /\ tabs[t].used >= Limit
  /\ tabs' = [tabs EXCEPT ![t] = Closed]
  /\ UNCHANGED <<database, redis, external, proc, request, crashes>>

\* Identities not given yet; which one is next makes no difference.
Unused == {c \in Crawls : status[c] = "none"}

\* The rows become visible to others when the transaction commits.
reserve(t) ==
  /\ In(t, "counted") /\ tabs[t].used < Limit
  /\ Unused # {}
  /\ LET c == CHOOSE c \in Unused : TRUE IN
     /\ status' = [status EXCEPT ![c] = "PENDING"]
     /\ audits' = audits \union {c}
     /\ tabs' = [tabs EXCEPT ![t] = [pc |-> "adding", crawl |-> c, logs |-> {}, used |-> 0]]
  /\ UNCHANGED <<logRef, redis, external, proc, request, crashes>>

enqueue(t) ==
  /\ In(t, "adding")
  /\ add(tabs[t].crawl)
  /\ tabs' = [tabs EXCEPT ![t] = Closed]
  /\ UNCHANGED <<database, external, proc, request, crashes>>

\* Fault: the failure is only reported.
enqueue_fails_unmarked(t) ==
  /\ In(t, "adding")
  /\ add(tabs[t].crawl) \/ UNCHANGED redis
  /\ tabs' = [tabs EXCEPT ![t] = Closed]
  /\ UNCHANGED <<database, external, proc, request, crashes>>

\* Adding raises; the entry may exist all the same.
enqueue_fails(t) ==
  /\ In(t, "adding")
  /\ add(tabs[t].crawl) \/ UNCHANGED redis
  /\ Goes(t, "raised")
  /\ UNCHANGED <<database, external, proc, request, crashes>>

mark_failed(t) ==
  /\ In(t, "raised")
  /\ Saved(tabs[t].crawl, "FAILED")
  /\ tabs' = [tabs EXCEPT ![t] = Closed]
  /\ UNCHANGED <<logRef, audits, redis, external, proc, request, crashes>>

\* Fault: a crawl without an audit entry gets none when it is deleted.
deleteSite_unrecorded(c) ==
  /\ c \in Live /\ Holders = {}
  /\ status' = [status EXCEPT ![c] = "gone"]
  /\ UNCHANGED <<logRef, audits, redis, external, tabs, proc, request, crashes>>

\* The site goes with its crawl; the account's row is held meanwhile.
deleteSite(c) ==
  /\ c \in Live /\ Holders = {}
  /\ audits' = audits \union {c}
  /\ status' = [status EXCEPT ![c] = "gone"]
  /\ UNCHANGED <<logRef, redis, external, tabs, proc, request, crashes>>

-----------------------------------------------------------------------------
(* processConversionJob.                                                   *)

At(pc) == proc.pc = pc

ProcGoes(pc) == proc' = [proc EXCEPT !.pc = pc]

\* The next entry is taken and its crawl marked; a crawl that knows its
\* worker job is not created again.
begin_job ==
  /\ At("idle") /\ line # <<>>
  /\ LET c == Head(line) IN
     /\ queue' = [queue EXCEPT ![c] = "active"]
     /\ Saved(c, "PROCESSING")
     /\ proc' = [ pc |-> IF c \notin Live THEN "raised"
                         ELSE IF logRef[c] THEN "saving" ELSE "creating",
                  crawl |-> c, seen |-> "none" ]
  /\ line' = Tail(line)
  /\ UNCHANGED <<logRef, audits, stalls, external, tabs, request, crashes>>

\* Fault: the request does not say which conversion it is for.
Created_anew(c) ==
  /\ made' = [made EXCEPT ![c] = @ + 1]
  /\ worker' = [worker EXCEPT ![c] = "PROCESSING"]

\* External: POST /api/jobs with X-Conversion-Id creates a job once.
Created(c) ==
  IF made[c] = 0
  THEN made' = [made EXCEPT ![c] = 1] /\ worker' = [worker EXCEPT ![c] = "PROCESSING"]
  ELSE UNCHANGED external

create_worker_job ==
  /\ At("creating")
  /\ Created(proc.crawl)
  /\ ProcGoes("saving")
  /\ UNCHANGED <<database, redis, tabs, request, crashes>>

\* The request fails, or its answer comes after the timeout.
create_fails ==
  /\ At("creating")
  /\ Created(proc.crawl) \/ UNCHANGED external
  /\ ProcGoes("raised")
  /\ UNCHANGED <<database, redis, tabs, request, crashes>>

save_ref ==
  /\ At("saving")
  /\ LET c == proc.crawl IN
     /\ Saved(c, "PROCESSING")
     /\ logRef' = IF c \in Live THEN [logRef EXCEPT ![c] = TRUE] ELSE logRef
     /\ ProcGoes(IF c \in Live THEN "polling" ELSE "raised")
  /\ UNCHANGED <<audits, redis, external, tabs, request, crashes>>

\* The poll sees the capture done or failed, or a later stage.
poll ==
  /\ At("polling")
  /\ worker[proc.crawl] # "PROCESSING"
  /\ proc' = [proc EXCEPT !.pc = "writing", !.seen = worker[proc.crawl]]
  /\ UNCHANGED <<database, redis, external, tabs, request, crashes>>

\* The worker is out of reach for too long, or 24 hours have passed.
poll_gives_up ==
  /\ At("polling")
  /\ ProcGoes("raised")
  /\ UNCHANGED <<database, redis, external, tabs, request, crashes>>

write_result ==
  /\ At("writing")
  /\ LET c == proc.crawl IN
     IF c \in Live
     THEN /\ Saved(c, proc.seen)
          /\ queue' = [queue EXCEPT ![c] = "completed"]
          /\ proc' = NoProc
     ELSE /\ ProcGoes("raised")
          /\ UNCHANGED <<status, queue>>
  /\ UNCHANGED <<logRef, audits, line, stalls, external, tabs, request, crashes>>

\* What was found is stored after the status, and storing it may raise.
write_fails ==
  /\ At("writing")
  /\ \/ Saved(proc.crawl, proc.seen)
     \/ UNCHANGED status
  /\ ProcGoes("raised")
  /\ UNCHANGED <<logRef, audits, redis, external, tabs, request, crashes>>

job_fails ==
  /\ At("raised")
  /\ Saved(proc.crawl, "FAILED")
  /\ queue' = [queue EXCEPT ![proc.crawl] = "failed"]
  /\ proc' = NoProc
  /\ UNCHANGED <<logRef, audits, line, stalls, external, tabs, request, crashes>>

\* External: an entry whose lock ran out waits again, once; then it failed.
recover_stalled(c) ==
  /\ queue[c] = "active" /\ proc.crawl # c
  /\ IF stalls[c] = 0
     THEN /\ queue' = [queue EXCEPT ![c] = "waiting"]
          /\ line' = <<c>> \o line
          /\ stalls' = [stalls EXCEPT ![c] = 1]
     ELSE /\ queue' = [queue EXCEPT ![c] = "failed"]
          /\ UNCHANGED <<line, stalls>>
  /\ UNCHANGED <<database, external, tabs, proc, request, crashes>>

-----------------------------------------------------------------------------
(* The requests about a crawl.  A step that answers with an error changes  *)
(* nothing and is not shown.                                               *)

Is(s, pc) == request[s].pc = pc

Begins(s, pc, c, seen) ==
  /\ Is(s, "idle")
  /\ request' = [request EXCEPT ![s] = [pc |-> pc, crawl |-> c, seen |-> seen]]
  /\ UNCHANGED <<database, redis, external, tabs, proc, crashes>>

request_ends(s) == request' = [request EXCEPT ![s] = NoRequest]

\* Fault: a conversion that failed is not asked about any more.
getJobStatus_unfailed(s, c) ==
  c \in Live /\ logRef[c] /\ status[c] # "FAILED" /\ Begins(s, "asking", c, status[c])

\* getJobStatus reads the crawl, asks the worker ...
getJobStatus(s, c) == c \in Live /\ logRef[c] /\ Begins(s, "asking", c, status[c])

\* ... and saves what the worker shows where it differs from what was read.
worker_shows(s) ==
  /\ Is(s, "asking")
  /\ LET shown == worker[request[s].crawl] IN
     IF shown = request[s].seen THEN request_ends(s)
     ELSE request' = [request EXCEPT ![s].pc = "saving", ![s].seen = shown]
  /\ UNCHANGED <<database, redis, external, tabs, proc, crashes>>

save_status(s) ==
  /\ Is(s, "saving")
  /\ Saved(request[s].crawl, request[s].seen)
  /\ request_ends(s)
  /\ UNCHANGED <<logRef, audits, redis, external, tabs, proc, crashes>>

\* runJob, inferSchema or submitSchemaDecision for a crawl with a worker job.
post_command(s, c) == c \in Live /\ logRef[c] /\ Begins(s, "posting", c, "none")

\* External: what a command may make of a job that shows a status.
Commanded(shown) ==
  {shown} \union
  CASE shown = "CRAWLED" -> {"GENERATING"}
    [] shown = "FAILED" -> {"PROCESSING", "CRAWLED", "GENERATING"}
    [] OTHER -> {}

command_done(s) ==
  /\ Is(s, "posting")
  /\ LET c == request[s].crawl IN
     \E shown \in Commanded(worker[c]) :
       /\ worker' = [worker EXCEPT ![c] = shown]
       /\ request' = [request EXCEPT ![s].pc = "saving", ![s].seen = shown]
  /\ UNCHANGED <<database, redis, made, tabs, proc, crashes>>

\* The worker obeys, the answer comes too late.
command_lost(s) ==
  /\ Is(s, "posting")
  /\ LET c == request[s].crawl IN
     \E shown \in Commanded(worker[c]) : worker' = [worker EXCEPT ![c] = shown]
  /\ request_ends(s)
  /\ UNCHANGED <<database, redis, made, tabs, proc, crashes>>

\* runJob for a crawl without a worker job looks for its entry ...
runJob(s, c) == c \in Live /\ ~logRef[c] /\ Begins(s, "looking", c, "none")

getState(s) ==
  /\ Is(s, "looking")
  /\ LET found == queue[request[s].crawl] IN
     request' = [request EXCEPT ![s].pc = IF found = "none" THEN "adding" ELSE "found",
                                ![s].seen = found]
  /\ UNCHANGED <<database, redis, external, tabs, proc, crashes>>

\* Fault: an entry that failed is left alone.
retry_entry_never(s) ==
  /\ Is(s, "found") /\ request[s].seen = "failed"
  /\ request_ends(s)
  /\ UNCHANGED <<database, redis, external, tabs, proc, crashes>>

\* ... retries it if it failed ...
retry_entry(s) ==
  /\ Is(s, "found") /\ request[s].seen = "failed"
  /\ LET c == request[s].crawl
         again == queue[c] = "failed" IN
     /\ queue' = IF again THEN [queue EXCEPT ![c] = "waiting"] ELSE queue
     /\ line' = IF again THEN Append(line, c) ELSE line
  /\ request_ends(s)
  /\ UNCHANGED <<database, stalls, external, tabs, proc, crashes>>

\* The line without a crawl's entry, which waits there once at most.
Without(c) ==
  IF queue[c] = "waiting" THEN RemoveAt(line, CHOOSE i \in DOMAIN line : line[i] = c) ELSE line

\* ... replaces it if it is completed, unless it became active meanwhile ...
remove_entry(s) ==
  /\ Is(s, "found") /\ request[s].seen = "completed"
  /\ LET c == request[s].crawl
         locked == queue[c] = "active" IN
     /\ queue' = IF locked THEN queue ELSE [queue EXCEPT ![c] = "none"]
     /\ line' = IF locked THEN line ELSE Without(c)
     /\ request' = [request EXCEPT ![s] = IF locked THEN NoRequest ELSE [@ EXCEPT !.pc = "adding"]]
  /\ UNCHANGED <<database, stalls, external, tabs, proc, crashes>>

\* ... and leaves it alone otherwise.
reuse_entry(s) ==
  /\ Is(s, "found") /\ request[s].seen \in {"waiting", "active"}
  /\ request_ends(s)
  /\ UNCHANGED <<database, redis, external, tabs, proc, crashes>>

add_entry(s) ==
  /\ Is(s, "adding")
  /\ add(request[s].crawl)
  /\ request_ends(s)
  /\ UNCHANGED <<database, external, tabs, proc, crashes>>

-----------------------------------------------------------------------------

\* External: a stage of the worker ends.
stage_ends(c) ==
  /\ \/ worker[c] = "PROCESSING" /\ worker' = [worker EXCEPT ![c] = "CRAWLED"]
     \/ worker[c] = "GENERATING" /\ worker' = [worker EXCEPT ![c] = "COMPLETED"]
     \/ /\ worker[c] \in {"PROCESSING", "CRAWLED", "GENERATING"}
        /\ worker' = [worker EXCEPT ![c] = "FAILED"]
  /\ UNCHANGED <<database, redis, made, tabs, proc, request, crashes>>

\* The backend dies and starts again; open transactions are rolled back.
crash_backend ==
  /\ crashes < MaxCrashes
  /\ crashes' = crashes + 1
  /\ tabs' = [t \in Tabs |-> IF In(t, "idle") THEN NoTab ELSE Closed]
  /\ proc' = NoProc
  /\ request' = [s \in Slots |-> NoRequest]
  /\ UNCHANGED <<database, redis, external>>

TabStep(t) ==
  \/ lock_account(t) \/ read_audits(t) \/ count_usage(t) \/ refuse(t) \/ reserve(t)
  \/ enqueue(t) \/ enqueue_fails(t) \/ mark_failed(t)

JobStep ==
  \/ begin_job \/ create_worker_job \/ create_fails \/ save_ref
  \/ poll \/ poll_gives_up \/ write_result \/ write_fails \/ job_fails

RequestStep(s) ==
  \/ worker_shows(s) \/ save_status(s) \/ command_done(s) \/ command_lost(s)
  \/ getState(s) \/ retry_entry(s) \/ remove_entry(s) \/ reuse_entry(s) \/ add_entry(s)

Next ==
  \/ \E t \in Tabs : TabStep(t)
  \/ JobStep
  \/ \E s \in Slots : RequestStep(s)
  \/ \E c \in Crawls :
       \/ deleteSite(c) \/ recover_stalled(c) \/ stage_ends(c)
       \/ /\ c \notin Legacy
          /\ \E s \in Slots : getJobStatus(s, c) \/ post_command(s, c) \/ runJob(s, c)
  \/ crash_backend

Spec == Init /\ [][Next]_vars

\* A request that has begun ends, the queue is worked off and stalled entries
\* are found; the worker can be reached now and then; and whoever has a
\* conversion under way looks at it again and again.  The wizard offers to
\* resume a conversion only while it is shown as failed, so only then is the
\* request to run it sent again and again.
FairSpec ==
  /\ Spec
  /\ WF_vars(JobStep) /\ SF_vars(create_worker_job)
  /\ \A t \in Tabs : WF_vars(tabs[t].pc # "idle" /\ TabStep(t))
  /\ \A s \in Slots : WF_vars(RequestStep(s))
  /\ \A c \in Crawls \ Legacy :
       /\ WF_vars(recover_stalled(c))
       /\ SF_vars(\E s \in Slots : getJobStatus(s, c))
       /\ SF_vars(status[c] = "FAILED" /\ \E s \in Slots : runJob(s, c))

-----------------------------------------------------------------------------
(* Properties.                                                             *)

Requests ==
  [ pc : {"idle", "asking", "posting", "looking", "found", "adding", "saving"},
    crawl : Crawls \union {NoCrawl}, seen : Statuses \union Entries ]

\* Every variable has its type.  A crawl never has two worker jobs, however
\* often its creation is repeated after a timeout, a crash or a retry.
TypeOK ==
  /\ status \in [Crawls -> Statuses \union {"none", "gone"}]
  /\ logRef \in [Crawls -> BOOLEAN]
  /\ audits \subseteq Crawls
  /\ queue \in [Crawls -> Entries]
  /\ \A c \in Crawls : queue[c] = "waiting" <=> \E i \in DOMAIN line : line[i] = c
  /\ \A i, j \in DOMAIN line : line[i] = line[j] => i = j
  /\ stalls \in [Crawls -> 0 .. 1]
  /\ made \in [Crawls -> 0 .. 1]
  /\ worker \in [Crawls -> (Statuses \ {"PENDING"}) \union {"none"}]
  /\ tabs \in [Tabs -> [ pc : {"idle", "locked", "counting", "counted", "adding", "raised", "done"},
                         crawl : Crawls \union {NoCrawl}, logs : SUBSET Crawls, used : Nat ]]
  /\ proc \in [ pc : {"idle", "creating", "saving", "polling", "writing", "raised"},
               crawl : Crawls \union {NoCrawl}, seen : Statuses \union {"none"} ]
  /\ request \in [Slots -> Requests]
  /\ crashes \in 0 .. MaxCrashes

Counted == audits \union Live

\* A Starter account never has more conversions than its plan, whichever tabs
\* start them and whatever is deleted meanwhile.
QuotaHeld == Cardinality(Counted) <= Limit

\* Deleting a project gives no conversion back.
UsageKept == [][Counted \subseteq Counted']_vars

Busy(c) ==
  \/ \E t \in Tabs : tabs[t].crawl = c
  \/ proc.crawl = c
  \/ \E s \in Slots : request[s].crawl = c

\* A conversion without a worker job that nothing works on and no entry waits
\* for, while it is not shown as failed: the wizard goes on showing it as under
\* way and does not offer to resume it.
Stranded(c) ==
  /\ c \in Live /\ ~logRef[c] /\ ~Busy(c)
  /\ status[c] # "FAILED" /\ queue[c] \notin {"waiting", "active"}

\* Unless the backend dies no conversion is stranded, whichever calls fail and
\* whoever asks for it to be run meanwhile.
NotStranded == crashes = 0 => \A c \in Crawls : ~Stranded(c)

\* README.md:58-59: an interrupted stage shows "Resume conversion", which the
\* wizard does for a conversion that is shown as failed.
InterruptedIsOffered == \A c \in Crawls : ~Stranded(c)

\* A conversion that was counted gets its worker job in the end, or is deleted,
\* whatever failed after the reservation and however often: resuming it when it
\* is shown as failed goes on with what is there.  Only one that a death of the
\* backend has stranded may stay as it is.
SpentConversionStarts ==
  \A c \in Crawls \ Legacy :
    c \in Live ~> logRef[c] \/ c \notin Live \/ []Stranded(c)

\* What writers with old answers leave in the database is corrected: a
\* conversion the worker completed is shown as completed in the end, for good.
MirrorConverges ==
  \A c \in Crawls \ Legacy :
    worker[c] = "COMPLETED" /\ logRef[c] ~> [](status[c] \in {"COMPLETED", "gone"})

=============================================================================
