----------------------- MODULE CaptureToSchema_proofs -----------------------
(***************************************************************************)
(* Proofs about CaptureToSchema: what SiteCrawl_proofs shows of a crawl    *)
(* and SchemaEvidence_proofs of an inference holds when one follows the    *)
(* other, with crashes in either, and a schema covers every recorded page. *)
(***************************************************************************)
EXTENDS CaptureToSchema, SiteCrawl_proofs, SchemaEvidence_proofs

\* The records an inference starts from.
Recorded == checkpoint.work["page"].records

\* An inference runs over a finished crawl and was given its every page.
GivenAll ==
  stage # "idle" =>
    /\ outcome = "crawled"
    /\ \A i \in DOMAIN Recorded : \E n \in DOMAIN sources : sources[n] = Recorded[i].url

Inv == CrawlInv /\ EvidenceInv /\ GivenAll

\* A step of the crawl, or the death of the process during it.
CrawlMoves == CrawlStep \/ crash_crawl

-----------------------------------------------------------------------------

\* A job whose crawl is finished is not crawled again.
LEMMA CrawlIsOver ==
  ASSUME CrawlInv, outcome = "crawled"
  PROVE  ~CrawlMoves
<1>1. phase = "idle" /\ ~unsaved
  BY DEF CrawlInv, Progress
<1>2. \A k \in Kinds : phase # k
  BY <1>1 DEF Kinds
<1>3. ~start_crawl /\ ~unpack_archive /\ ~archive_fails
  BY DEF start_crawl, unpack_archive, archive_fails
<1>4. ~capture_page /\ ~reject_source /\ ~capture_asset /\ ~save_turn
  BY <1>1 DEF capture_page, reject_source, capture_asset, save_turn, InLoop
<1>5. ~complete_crawl /\ ~return_crawl /\ ~crash_crawl
  BY <1>1 DEF complete_crawl, return_crawl, crash_crawl
<1>6. \A k \in Kinds : ~skip_visited(k) /\ ~fetch_fails(k) /\ ~leave_loop(k)
  BY <1>2 DEF skip_visited, fetch_fails, leave_loop, InLoop
<1> QED BY <1>3, <1>4, <1>5, <1>6 DEF CrawlMoves, CrawlStep

\* After the crawl every record has its file, so the inference loads the
\* page of each, once for every address.
LEMMA AllAreLoaded ==
  ASSUME CrawlInv, outcome = "crawled", CapturedPages(checkpoint) # <<>>
  PROVE  /\ CapturedPages(checkpoint) \in Seq(Pages)
         /\ \A i \in DOMAIN Recorded :
              \E n \in DOMAIN CapturedPages(checkpoint) : CapturedPages(checkpoint)[n] = Recorded[i].url
<1>1. checkpoint # NoCheckpoint /\ checkpoint \in Payloads
  BY DEF CrawlInv, Progress, CrawlTypeOK
<1>2. Recorded \in Seq(Records)
  <2>1. checkpoint.work \in Works /\ "page" \in Kinds
    BY <1>1 DEF Payloads, Kinds
  <2>2. checkpoint.work["page"] \in Ledgers
    BY <2>1 DEF Works
  <2> QED BY <2>2 DEF Ledgers, Recorded
<1>3. PICK r : r = Recorded
  OBVIOUS
<1>4. PICK m \in Nat : m = Len(r) /\ DOMAIN r = 1 .. m /\ \A i \in 1 .. m : r[i] \in Records
  BY <1>2, <1>3
<1>5. \A i \in 1 .. m : SnapshotFile("page", i, r[i].url) \in files
  <2>1. CheckpointBacked
    BY InvImplies
  <2>2. checkpoint.work \in Held /\ "page" \in Kinds
    BY <1>1 DEF Held, Saved, Kinds
  <2>3. RecordFiles("page", checkpoint.work["page"]) \subseteq files
    BY <2>1, <2>2 DEF CheckpointBacked
  <2> QED BY <1>3, <1>4, <2>3 DEF RecordFiles, Recorded
<1>6. \A i \in 1 .. m : r[i].url \in Pages
  BY <1>4, PagesAssumption DEF Records
<1>7. PICK first : first = {i \in 1 .. m : \A j \in 1 .. m : r[j].url = r[i].url => i <= j}
  OBVIOUS
<1>8. PICK ss : ss = [i \in 1 .. m |-> IF i \in first THEN <<r[i].url>> ELSE <<>>]
  OBVIOUS
<1>9. CapturedPages(checkpoint) = FlattenSeq(ss)
  <2>1. PICK Loaded : Loaded = {i \in DOMAIN r : SnapshotFile("page", i, r[i].url) \in files}
    OBVIOUS
  <2>2. Loaded = 1 .. m
    BY <1>4, <1>5, <2>1
  <2>3. [i \in DOMAIN r |-> IF i \in Loaded /\ (\A j \in Loaded : r[j].url = r[i].url => i <= j)
                            THEN <<r[i].url>> ELSE <<>>] = ss
    BY <1>4, <1>7, <1>8, <2>2
  <2>4. CapturedPages(checkpoint) =
          FlattenSeq([i \in DOMAIN r |-> IF i \in Loaded /\ (\A j \in Loaded : r[j].url = r[i].url => i <= j)
                                         THEN <<r[i].url>> ELSE <<>>])
    BY <1>3, <2>1 DEF CapturedPages, Recorded
  <2> QED BY <2>3, <2>4
<1>10. ss \in Seq(Seq(Pages)) /\ DOMAIN ss = 1 .. m
  <2>1. \A i \in 1 .. m : <<r[i].url>> \in Seq(Pages) /\ <<>> \in Seq(Pages)
    BY <1>6
  <2> QED BY <1>8, <2>1
<1>11. ss # <<>>
  <2>1. FlattenSeq(<<>>) = <<>>
    BY DEF FlattenSeq
  <2> QED BY <1>9, <2>1
<1>12. /\ FlattenSeq(ss) \in Seq(Pages)
       /\ \A x : x \in Range(FlattenSeq(ss)) <=> \E j \in 1 .. m : x \in Range(ss[j])
  BY <1>10, <1>11, FlattenIs
<1>13. ASSUME NEW i \in 1 .. m PROVE r[i].url \in Range(FlattenSeq(ss))
  <2>1. PICK T : T = {j \in 1 .. m : r[j].url = r[i].url}
    OBVIOUS
  <2>2. T \in SUBSET Nat /\ i \in T
    BY <2>1
  <2>3. PICK j \in T : \A k \in T : j <= k
    BY <2>2, LeastElement
  <2>4. j \in 1 .. m /\ j \in first /\ r[j].url = r[i].url
    BY <1>7, <2>1, <2>3
  <2>5. ss[j] = <<r[i].url>>
    BY <1>8, <2>4
  <2>6. r[i].url \in Range(ss[j])
    BY <2>5 DEF Range
  <2> QED BY <1>12, <2>4, <2>6
<1>14. \A i \in DOMAIN r : \E n \in DOMAIN FlattenSeq(ss) : FlattenSeq(ss)[n] = r[i].url
  BY <1>4, <1>13 DEF Range
<1> QED BY <1>3, <1>9, <1>12, <1>14

\* A step of the crawl, or its crash.
LEMMA CrawlingKeeps ==
  ASSUME Inv, CrawlMoves, UNCHANGED evidenceVars
  PROVE  Inv'
<1>1. CrawlInv'
  BY StepKeeps DEF Inv, CrawlMoves
<1>2. EvidenceInv'
  BY StageRests DEF Inv
<1>3. stage' = "idle"
  BY CrawlIsOver DEF Inv, GivenAll, evidenceVars
<1> QED BY <1>1, <1>2, <1>3 DEF Inv, GivenAll

\* The crawl rests while the schema is inferred.
LEMMA CrawlRests ==
  ASSUME Inv, UNCHANGED crawlVars
  PROVE  CrawlInv' /\ outcome' = outcome /\ checkpoint' = checkpoint
<1>1. UNCHANGED <<config, phase, memory, disk, outcome>> /\ crashes' = crashes
  BY DEF crawlVars
<1>2. crashes' \in 0 .. MaxCrashes
  BY <1>1 DEF Inv, CrawlInv, CrawlTypeOK
<1> QED BY <1>1, <1>2, PauseKeeps DEF Inv, disk

\* The inference starts with every page of the checkpoint.
LEMMA InferenceStarts ==
  ASSUME Inv, infer_schema_stage
  PROVE  Inv'
<1>1. /\ outcome = "crawled" /\ start_stage(CapturedPages(checkpoint)) /\ UNCHANGED crawlVars
      /\ CapturedPages(checkpoint) # <<>> /\ sources' = CapturedPages(checkpoint)
  BY DEF infer_schema_stage, start_stage
<1>2. CrawlInv' /\ outcome' = outcome /\ checkpoint' = checkpoint
  BY <1>1, CrawlRests
<1>3. /\ CapturedPages(checkpoint) \in Seq(Pages)
      /\ \A i \in DOMAIN Recorded :
           \E n \in DOMAIN CapturedPages(checkpoint) : CapturedPages(checkpoint)[n] = Recorded[i].url
  BY <1>1, AllAreLoaded DEF Inv
<1>4. EvidenceInv'
  <2>1. PICK ps \in Seq(Pages) : ps = CapturedPages(checkpoint)
    BY <1>3
  <2>2. start_stage(ps)
    BY <1>1, <2>1
  <2> QED BY <2>2, StageStarts DEF Inv
<1>5. GivenAll'
  BY <1>1, <1>2, <1>3 DEF GivenAll, Recorded
<1> QED BY <1>2, <1>4, <1>5 DEF Inv

\* A step of the inference leaves the crawl and the pages it was given.
LEMMA InferringKeeps ==
  ASSUME Inv, UNCHANGED crawlVars,
         StageStep \/ BackoffEnds \/ reject_schema \/ \E i \in Refused : damage_answer(i)
  PROVE  Inv'
<1>1. CrawlInv' /\ outcome' = outcome /\ checkpoint' = checkpoint
  BY CrawlRests
<1>2. EvidenceInv'
  BY StageSteps, BackoffSteps, StageIsLeft, DamageKeeps DEF Inv
<1>3. stage' = "idle" \/ (sources' = sources /\ stage # "idle") \/ (sources' = sources /\ stage' = stage)
  <2>1. CASE pack_fragment \/ submit_batches \/ notice_failure \/ raise_failure \/ merge_answers
    BY <2>1 DEF pack_fragment, submit_batches, notice_failure, raise_failure, merge_answers, planVars
  <2>2. CASE \E i \in DOMAIN jobs : BatchStep(i)
    BY <2>2 DEF BatchStep, take_batch, ask_fails, batch_raises, invalid_answer, valid_answer, planVars
  <2>3. CASE BackoffEnds
    BY <2>3 DEF BackoffEnds, planVars
  <2>4. CASE reject_schema
    BY <2>4 DEF reject_schema
  <2>5. CASE \E i \in Refused : damage_answer(i)
    BY <2>5 DEF damage_answer, planVars
  <2> QED BY <2>1, <2>2, <2>3, <2>4, <2>5 DEF StageStep
<1>4. GivenAll'
  BY <1>1, <1>3 DEF Inv, GivenAll, Recorded
<1> QED BY <1>1, <1>2, <1>4 DEF Inv

\* The process dies during the inference.
LEMMA CrashKeeps ==
  ASSUME Inv, crash_inference
  PROVE  Inv'
<1>1. /\ crashes < MaxCrashes /\ crashes' = crashes + 1 /\ evidence_lost
      /\ UNCHANGED <<config, phase, memory, disk, outcome>>
  BY DEF crash_inference
<1>2. crashes' \in 0 .. MaxCrashes
  BY <1>1, CrashAssumption DEF Inv, CrawlInv, CrawlTypeOK
<1>3. CrawlInv'
  BY <1>1, <1>2, PauseKeeps DEF Inv
<1>4. EvidenceInv' /\ stage' = "idle"
  BY <1>1, StageIsLeft DEF Inv, evidence_lost
<1> QED BY <1>3, <1>4 DEF Inv, GivenAll

\* No step breaks the invariant.
LEMMA NextKeeps ==
  ASSUME Inv, [Next]_vars
  PROVE  Inv'
<1>1. CASE Crawling \/ (crash_crawl /\ UNCHANGED evidenceVars)
  BY <1>1, CrawlingKeeps DEF Crawling, CrawlMoves
<1>2. CASE infer_schema_stage
  BY <1>2, InferenceStarts
<1>3. CASE \/ Inferring \/ (reject_schema /\ UNCHANGED crawlVars) \/ (BackoffEnds /\ UNCHANGED crawlVars)
           \/ \E i \in Refused : damage_answer(i) /\ UNCHANGED crawlVars
  BY <1>3, InferringKeeps DEF Inferring
<1>4. CASE crash_inference
  BY <1>4, CrashKeeps
<1>5. CASE UNCHANGED vars
  <2>1. UNCHANGED crawlVars /\ UNCHANGED evidenceVars
    BY <1>5 DEF vars
  <2>2. CrawlInv' /\ outcome' = outcome /\ checkpoint' = checkpoint /\ EvidenceInv'
    BY <2>1, CrawlRests, StageRests DEF Inv
  <2>3. stage' = stage /\ sources' = sources
    BY <2>1 DEF evidenceVars, planVars
  <2> QED BY <2>2, <2>3 DEF Inv, GivenAll, Recorded
<1> QED BY <1>1, <1>2, <1>3, <1>4, <1>5 DEF Next

\* The invariant of the composition: each component's, and that an inference
\* was given every page of a finished crawl.
THEOREM CaptureInvariance == Spec => []Inv
<1>1. Init => Inv
  <2> SUFFICES ASSUME Init PROVE Inv
    OBVIOUS
  <2>1. CrawlInv /\ EvidenceInv /\ stage = "idle"
    BY InitHolds, EvidenceStarts DEF Init, EvidenceInit
  <2> QED BY <2>1 DEF Inv, GivenAll
<1>2. Inv /\ [Next]_vars => Inv'
  BY NextKeeps
<1> QED BY <1>1, <1>2, PTL DEF Spec

\* Every variable of the two stages keeps its type.
THEOREM TypesHold == Spec => []TypeOK
<1>1. Inv => TypeOK
  BY DEF Inv, TypeOK, CrawlInv, EvidenceInv
<1> QED BY <1>1, CaptureInvariance, PTL

\* Whatever the schema stage does in between, what is recorded is on disk.
THEOREM RecordsStay == Spec => []CheckpointBacked
<1>1. Inv => CheckpointBacked
  BY InvImplies DEF Inv
<1> QED BY <1>1, CaptureInvariance, PTL

\* The limits hold of a job that alternates between crawls and inferences.
THEOREM LimitsStay == Spec => []WithinLimits
<1>1. Inv => WithinLimits
  BY InvImplies DEF Inv
<1> QED BY <1>1, CaptureInvariance, PTL

\* A job that alternates between crawls and inferences loses no discovery.
THEOREM DiscoveriesStay == Spec => []NothingMissed
<1>1. Inv => NothingMissed
  BY InvImplies DEF Inv
<1> QED BY <1>1, CaptureInvariance, PTL

\* Every step of the composition is a step of the ledger or leaves it alone.
LEMMA CompositionSteps ==
  ASSUME Inv, [Next]_vars
  PROVE  [Durable!Step]_(Durable!ledger)
<1>1. CASE CrawlMoves
  BY <1>1, LedgerSteps DEF Inv, CrawlMoves
<1>2. CASE ~CrawlMoves
  <2>1. config' = config /\ checkpoint' = checkpoint
    <3>1. CASE UNCHANGED crawlVars
      BY <3>1 DEF crawlVars, disk
    <3>2. CASE crash_inference
      BY <3>2 DEF crash_inference, disk
    <3> QED BY <1>2, <3>1, <3>2 DEF Next, Crawling, CrawlMoves, infer_schema_stage, Inferring, vars
  <2> QED BY <2>1, LedgerRests
<1> QED BY <1>1, <1>2

\* The checkpoint of a job is an uninterrupted crawl, also when inferences
\* and their crashes lie between its calls.
THEOREM CaptureIsALedger == Spec => ImplementsLedger
<1>1. Init => Durable!Start
  BY LedgerStarts DEF Init
<1>2. Inv /\ [Next]_vars => [Durable!Step]_(Durable!ledger)
  BY CompositionSteps
<1> QED BY <1>1, <1>2, CaptureInvariance, PTL DEF Spec, ImplementsLedger, Durable!Ledger

\* A merged schema rests on a current answer for every batch, and its batches
\* on every page.
THEOREM SchemaIsWhole == Spec => []MergedIsWhole
<1>1. Inv => MergedIsWhole
  BY WholeWhenMerged DEF Inv
<1> QED BY <1>1, CaptureInvariance, PTL

\* No thread works for a stage that is over.
THEOREM PoolIsLeft == Spec => []NothingRunsAfter
<1>1. Inv => NothingRunsAfter
  BY DEF Inv, EvidenceInv
<1> QED BY <1>1, CaptureInvariance, PTL

\* A batch is asked about only when the disk holds no answer to its prompt, or
\* one that was damaged since it was saved: an answer that can be read and is a
\* schema is used, whichever failures and crashes lie between.
THEOREM AnswersAreReused == Spec => []SavedIsNotAsked
<1>1. Inv => SavedIsNotAsked
  BY DEF Inv, EvidenceInv
<1> QED BY <1>1, CaptureInvariance, PTL

\* A merged schema covers every page the crawl recorded.
THEOREM SchemaIsComplete == Spec => []SchemaCoversCapture
<1>1. Inv => SchemaCoversCapture
  <2> SUFFICES ASSUME Inv, stage = "merged"
               PROVE  /\ outcome = "crawled"
                      /\ \A i \in DOMAIN Recorded :
                           \E n \in UNION {batches[j].pages : j \in DOMAIN batches} : sources[n] = Recorded[i].url
    BY DEF SchemaCoversCapture, Recorded
  <2>1. UNION {batches[j].pages : j \in DOMAIN batches} = DOMAIN sources
    BY WholeWhenMerged DEF Inv, MergedIsWhole
  <2> QED BY <2>1 DEF Inv, GivenAll
<1> QED BY <1>1, CaptureInvariance, PTL

=============================================================================
