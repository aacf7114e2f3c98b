--------------------------- MODULE CaptureToSchema ---------------------------
(***************************************************************************)
(* A job from its capture to its schema: the crawl of SiteCrawl, and the   *)
(* schema inference of SchemaEvidence over the files the crawl left, as    *)
(* infer_schema_stage of engine/service.py loads them.  The two never run  *)
(* at once: the claim of the job (WorkerJobs) keeps them apart.            *)
(***************************************************************************)
EXTENDS SiteCrawl, SchemaEvidence

CONSTANTS
  InferFor  \* bound: the configurations whose schema stage is explored

ASSUME InferAssumption == InferFor \subseteq Configs

\* What may be captured may be inferred from.
ASSUME PagesAssumption == Urls \subseteq Pages

vars == <<crawlVars, evidenceVars>>

Init == CrawlInit /\ EvidenceInit

\* Fault: the files are looked up by the address that was requested.
CapturedPages_requested(c) ==
  LET r == c.work["page"].records
      Loaded == {i \in DOMAIN r : SnapshotFile("page", i, r[i].requested) \in files}
      First(i) == \A j \in Loaded : r[j].url = r[i].url => i <= j
      Page(i) == IF i \in Loaded /\ First(i) THEN <<r[i].url>> ELSE <<>> IN
  FlattenSeq([i \in DOMAIN r |-> Page(i)])

\* The pages of a checkpoint's records, in order: a map from addresses, so an
\* address that was recorded twice occurs once; a record without a file is
\* passed over.
CapturedPages(c) ==
  LET r == c.work["page"].records
      Loaded == {i \in DOMAIN r : SnapshotFile("page", i, r[i].url) \in files}
      First(i) == \A j \in Loaded : r[j].url = r[i].url => i <= j
      Page(i) == IF i \in Loaded /\ First(i) THEN <<r[i].url>> ELSE <<>> IN
  FlattenSeq([i \in DOMAIN r |-> Page(i)])

infer_schema_stage ==
  /\ phase = "idle" /\ outcome = "crawled"
  /\ config \in InferFor
  /\ start_stage(CapturedPages(checkpoint))
  /\ UNCHANGED crawlVars

\* The process dies during the inference; what is on disk stays.
crash_inference ==
  /\ crashes < MaxCrashes
  /\ crashes' = crashes + 1
  /\ evidence_lost
  /\ UNCHANGED <<config, phase, memory, disk, outcome>>

Crawling  == CrawlStep /\ UNCHANGED evidenceVars
Inferring == StageStep /\ UNCHANGED crawlVars

Next ==
  \/ Crawling
  \/ crash_crawl /\ UNCHANGED evidenceVars
  \/ infer_schema_stage \/ Inferring \/ crash_inference
  \/ reject_schema /\ UNCHANGED crawlVars
  \/ BackoffEnds /\ UNCHANGED crawlVars
  \/ \E i \in Refused : damage_answer(i) /\ UNCHANGED crawlVars

\* Threads run on, requests time out and a call that is made returns.  Nothing
\* is assumed of crashes, of the user, of back-offs or of the disk.
Spec == Init /\ [][Next]_vars /\ WF_vars(Crawling) /\ WF_vars(Inferring)

-----------------------------------------------------------------------------
(* Properties.                                                             *)

\* Every variable has its type.
TypeOK == CrawlTypeOK /\ EvidenceTypeOK

\* A schema that is presented was inferred from every page the crawl
\* recorded, whichever failures, crashes and resumptions lie between: no
\* record has lost its file, and none was left out of the batches.
SchemaCoversCapture ==
  stage = "merged" =>
    LET r == checkpoint.work["page"].records
        covered == UNION {batches[i].pages : i \in DOMAIN batches} IN
    /\ outcome = "crawled"
    /\ \A i \in DOMAIN r : \E n \in covered : sources[n] = r[i].url

\* A crawl or an inference that is under way ends: in a result, in a failure
\* or with its process.
StagesEnd ==
  /\ phase # "idle" ~> phase = "idle"
  /\ stage \in {"planning", "inferring", "aborting"}
       ~> stage \in {"idle", "merged", "failed"}

=============================================================================
