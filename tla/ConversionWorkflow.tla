------------------------- MODULE ConversionWorkflow -------------------------
(***************************************************************************)
(* One invocation of the compiled LangGraph conversion workflow of the     *)
(* worker (apps/worker/src/engine: workflow.py, resilient_nodes.py and the *)
(* nodes of nodes.py it wires together).                                   *)
(*                                                                         *)
(* A node of the graph is a function from ConversionState to               *)
(* ConversionState; here it is an operator that returns the SET of states  *)
(* the node may return, several when the outcome depends on the network,   *)
(* on a provider or on the build.  A router is an operator from a state to *)
(* the name of the next node.  An action runs one node and routes.         *)
(*                                                                         *)
(* Node, router and status names are those of the source.                  *)
(***************************************************************************)
EXTENDS ConversionStage

CONSTANTS
  Shapes,          \* what a provider-written layer may look like
  MaxRetries,      \* state["max_retries"], 3 when it is not given
  RecursionLimit,  \* LangGraph's recursion_limit of the invocation
  Calls,           \* the initial states callers pass to workflow.invoke
  Pending          \* no result yet

Loops  == Layers \union {"crawl", "schema", "validation"}
Scored == Layers \union {"consistency"}

ASSUME ShapesAssumption == Shapes \subseteq LayerShapes
ASSUME BudgetAssumption == MaxRetries \in Nat \ {0} /\ RecursionLimit \in Nat \ {0}
ASSUME CallsAssumption == Calls \subseteq CallSpace
ASSUME PendingAssumption == Pending \notin Results

VARIABLES
  call,    \* the invocation: what the caller passed, never written again
  pc,      \* the node to run next, "END", or "RAISED" (GraphRecursionError)
  state,   \* the ConversionState channels the control depends on
  steps    \* supersteps LangGraph has counted

vars == <<call, pc, state, steps>>

-----------------------------------------------------------------------------
(* Phase 1: crawl and extract.                                             *)

\* Fault: generation captures and infers again.
crawl_site_node_always(s) ==
  {[s EXCEPT !.pages = TRUE, !.status = "crawled"]}
    \union (IF call.pages = "fetch" THEN {[s EXCEPT !.status = "failed"]} ELSE {})

\* Bypassed when generation starts; captured or inline pages are taken as
\* they are; a capture (URL or ZIP) that yields no page fails.
crawl_site_node(s) ==
  IF s.status \in approved_statuses
  THEN {s}
  ELSE {[s EXCEPT !.pages = TRUE, !.status = "crawled"]}
         \union (IF call.pages = "fetch" THEN {[s EXCEPT !.status = "failed"]} ELSE {})

route_after_crawl(s) ==
  CASE s.status = "approved"            -> "mint_schema_version"
    [] s.status = "generation_approved" -> "prepare_template_scaffold"
    [] s.status \in {"crawled", "ready"} -> "sitemap_gate"
    [] OTHER                            -> "END_CANCELLED"

sitemap_gate_node(s) ==
  {IF s.pages
   THEN [s EXCEPT !.status = "sitemap_checked"]
   ELSE IF s.retries["crawl"] < MaxRetries
        THEN [s EXCEPT !.retries["crawl"] = @ + 1, !.status = "retry_crawl"]
        ELSE [s EXCEPT !.status = "cancelled"]}

route_after_sitemap(s) ==
  CASE s.status \in {"failed", "cancelled"} -> "END_CANCELLED"
    [] s.status = "retry_crawl"             -> "crawl_site"
    [] OTHER                                -> "extract_content"

\* What was crawled, or the HTML that came with the call.
PagesAtHand(s) == s.pages \/ call.pages = "inline"

\* Absent blocks are a blocker of the extraction gate.
extract_content_node(s) ==
  IF ~PagesAtHand(s)
  THEN {[s EXCEPT !.status = "failed"]}
  ELSE {[s EXCEPT !.blocks = TRUE, !.extraction = "open", !.status = "extracted"]}
         \union {[s EXCEPT !.blocks = b, !.extraction = "blocked", !.status = "failed"] :
                   b \in BOOLEAN}

\* Fault: an invocation without a target never goes on to inference.
route_after_extract_untargeted(s) ==
  CASE s.status \in {"failed", "cancelled"} -> "END_CANCELLED"
    [] s.status = "extracted" /\ call.target # "schema" -> "END"
    [] OTHER -> "infer_candidates"

route_after_extract(s) ==
  CASE s.status \in {"failed", "cancelled"} -> "END_CANCELLED"
    [] s.status = "extracted" /\ (\/ call.target = "crawl"
                                  \/ /\ call.target # "schema"
                                     /\ s.schema = NoSchema) -> "END"
    [] OTHER -> "infer_candidates"

-----------------------------------------------------------------------------
(* Phase 2: schema.                                                        *)

infer_candidates_node(s) ==
  {[s EXCEPT !.status = IF s.blocks THEN "candidates_inferred" ELSE "cancelled"]}

HasEntities(s) == s.schema \in Schemas

\* The providers fail; or a proposal is made and its quality gate decides.
\* An override of the node (build_conversion_workflow's infer_node) may also
\* propose no entity without failing.
infer_schema_node(s) ==
  {[s EXCEPT !.status = "failed"]}
    \union (IF ~PagesAtHand(s) THEN {} ELSE
      {[s EXCEPT !.schema = p, !.minted = FALSE, !.schemaGate = "open",
                 !.status = "schema_proposed"] : p \in Schemas}
        \union {[s EXCEPT !.schema = p, !.minted = FALSE, !.schemaGate = "blocked",
                          !.status = "failed"] : p \in Schemas \union {EmptySchema}})
    \union (IF ~call.customInfer THEN {} ELSE
      {[s EXCEPT !.schema = EmptySchema, !.minted = FALSE, !.status = "schema_proposed"]})

route_after_infer_schema(s) ==
  IF s.status \in {"schema_proposed", "awaiting_approval", "extracted", "crawled"}
  THEN "schema_review_gate"
  ELSE "END_CANCELLED"

\* Fault: a proposal with entities needs no review.
schema_review_gate_node_lenient(s) ==
  {CASE call.schemaReview = "cancelled" -> [s EXCEPT !.status = "cancelled"]
     [] call.schemaReview # "cancelled" /\ HasEntities(s) -> [s EXCEPT !.status = "schema_approved"]
     [] OTHER -> [s EXCEPT !.status = "awaiting_approval"]}

schema_review_gate_node(s) ==
  {CASE call.schemaReview = "cancelled" -> [s EXCEPT !.status = "cancelled"]
     [] call.schemaReview = "approved"  -> [s EXCEPT !.status = "schema_approved"]
     [] call.schemaReview = "none" /\ ~HasEntities(s) /\ s.retries["schema"] < MaxRetries ->
          [s EXCEPT !.retries["schema"] = @ + 1, !.status = "retry_schema"]
     [] OTHER -> [s EXCEPT !.status = "awaiting_approval"]}

route_after_schema_review(s) ==
  CASE s.status = "schema_approved"   -> "mint_schema_version"
    [] s.status = "awaiting_approval" -> "END"
    [] s.status = "retry_schema"      -> "infer_schema"
    [] OTHER                          -> "END_CANCELLED"

mint_schema_version_node(s) == {[s EXCEPT !.minted = TRUE, !.status = "schema_minted"]}

generation_gate_node(s) ==
  {[s EXCEPT !.status = IF call.generationGate = "cancelled" \/ ~s.minted
                        THEN "cancelled" ELSE "generation_approved"]}

route_after_generation_gate(s) ==
  IF s.status = "generation_approved" THEN "prepare_template_scaffold" ELSE "END_CANCELLED"

-----------------------------------------------------------------------------
(* Phase 3: scaffold and generation.                                       *)

\* The template may not be written at all (gate left alone), or be judged.
prepare_template_scaffold_node(s) ==
  IF s.status \notin approved_statuses
  THEN {[s EXCEPT !.status = "failed"]}
  ELSE { [s EXCEPT !.scaffoldGate = "open", !.status = "template_ready"],
         [s EXCEPT !.scaffoldGate = "blocked", !.status = "failed"],
         [s EXCEPT !.status = "failed"] }

route_after_scaffold(s) ==
  IF s.status = "template_ready" THEN "generate_backend" ELSE "END_CANCELLED"

\* generate_artifacts_node, called by generate_backend_node: closed gates and
\* a proposal without entities refuse; captured pages are preserved whole;
\* otherwise providers write the layers, which stay in the state even when
\* the artifact gate blocks them.
generate_artifacts_node(s) ==
  LET refused == {[s EXCEPT !.status = "failed"]}
      written == {a \in [layers : [Layers -> Shapes], orphans : BOOLEAN, source : {s.schema}] :
                    HasEntities(s)}
  IN IF s.schemaGate # "open" \/ s.scaffoldGate # "open"
     THEN refused
     ELSE IF call.preserved
     THEN {[s EXCEPT !.artifacts = PreservedSite(s.schema), !.status = "generated"]}
     ELSE refused \union {[s EXCEPT !.artifacts = a, !.status = "generated"] : a \in written}
                  \union {[s EXCEPT !.artifacts = a, !.status = "failed"] : a \in written}

Bit(b) == IF b THEN 1 ELSE 0

LayerScore(a, l) ==
  IF a = NoArtifacts THEN 0 ELSE 25 * (Bit(a.layers[l].listed) + a.layers[l].extras)

\* The tail the three layer nodes share: score the layer, retry while the
\* budget lasts, fail when it is gone.
generated_status   == [backend |-> "backend_generated", frontend |-> "frontend_generated",
                       admin |-> "admin_generated"]
needs_retry_status == [backend |-> "backend_needs_retry", frontend |-> "frontend_needs_retry",
                       admin |-> "admin_needs_retry"]
retry_status       == [backend |-> "retry_backend", frontend |-> "retry_frontend",
                       admin |-> "retry_admin"]

\* Fault: the last retry is not counted against the budget.
score_layer_overdrawn(s, l) ==
  LET score  == LayerScore(s.artifacts, l)
      scored == [s EXCEPT !.scores[l] = score]
  IN IF score >= 100
     THEN [scored EXCEPT !.status = generated_status[l]]
     ELSE IF s.retries[l] <= MaxRetries
          THEN [scored EXCEPT !.retries[l] = @ + 1, !.status = needs_retry_status[l]]
          ELSE [scored EXCEPT !.status = "failed"]

\* Fault: three parts of four are enough for a layer.
score_layer_tolerant(s, l) ==
  LET score  == LayerScore(s.artifacts, l)
      scored == [s EXCEPT !.scores[l] = score]
  IN IF score >= 75
     THEN [scored EXCEPT !.status = generated_status[l]]
     ELSE IF s.retries[l] < MaxRetries
          THEN [scored EXCEPT !.retries[l] = @ + 1, !.status = needs_retry_status[l]]
          ELSE [scored EXCEPT !.status = "failed"]

score_layer(s, l) ==
  LET score  == LayerScore(s.artifacts, l)
      scored == [s EXCEPT !.scores[l] = score]
  IN IF score >= 100
     THEN [scored EXCEPT !.status = generated_status[l]]
     ELSE IF s.retries[l] < MaxRetries
          THEN [scored EXCEPT !.retries[l] = @ + 1, !.status = needs_retry_status[l]]
          ELSE [scored EXCEPT !.status = "failed"]

\* Fault: a retry generates the artifacts again.
generate_backend_node_afresh(s) ==
  {IF g.status = "failed" THEN g ELSE score_layer(g, "backend") :
     g \in generate_artifacts_node([s EXCEPT !.status = "template_ready"])}

\* Artifacts are generated on the first pass only; an exception of the
\* generator leaves the status as it was.
generate_backend_node(s) ==
  IF s.artifacts # NoArtifacts
  THEN {score_layer(s, "backend")}
  ELSE {s} \union
       {IF g.status = "failed" THEN g ELSE score_layer(g, "backend") :
          g \in generate_artifacts_node([s EXCEPT !.status = "template_ready"])}

generate_frontend_node(s) == {score_layer(s, "frontend")}
generate_admin_node(s)    == {score_layer(s, "admin")}

route_after_backend(s) ==
  CASE s.status = "backend_needs_retry" -> "generate_backend"
    [] s.status = "backend_generated"   -> "generate_frontend"
    [] OTHER                            -> "END_CANCELLED"

route_after_frontend(s) ==
  CASE s.status = "frontend_needs_retry" -> "generate_frontend"
    [] s.status = "frontend_generated"   -> "generate_admin"
    [] OTHER                             -> "END_CANCELLED"

route_after_admin(s) ==
  CASE s.status = "admin_needs_retry" -> "generate_admin"
    [] s.status = "admin_generated"   -> "validate_consistency"
    [] OTHER                          -> "END_CANCELLED"

-----------------------------------------------------------------------------
(* Phase 4: validation, review and export.                                 *)

ConsistencyScore(a) ==
  IF a = NoArtifacts THEN 20
  ELSE LET listed(l) == a.layers[l].listed
       IN 20 * (Bit(listed("backend")) + Bit(listed("frontend")) + Bit(listed("admin"))
                + Bit(listed("backend") /\ listed("frontend")) + Bit(~a.orphans))

validate_consistency_node(s) ==
  {[s EXCEPT !.scores["consistency"] = ConsistencyScore(s.artifacts),
             !.status = "consistency_validated"]}

\* Four times the overall quality score, which is a mean of four.
OverallX4(s) ==
  s.scores["backend"] + s.scores["frontend"] + s.scores["admin"] + s.scores["consistency"]

\* Fault: the consistency score is ranked with the layers.
WeakestLayer_of_four(s) ==
  IF \A l \in Layers : s.scores["consistency"] < s.scores[l] THEN "consistency"
  ELSE IF s.scores["backend"] <= s.scores["frontend"] THEN "backend" ELSE "frontend"

\* The first layer of the code's list among those with the least score.
WeakestLayer(s) ==
  IF s.scores["backend"] <= s.scores["frontend"] /\ s.scores["backend"] <= s.scores["admin"]
  THEN "backend"
  ELSE IF s.scores["frontend"] <= s.scores["admin"] THEN "frontend" ELSE "admin"

\* Fault: a failed validation is not counted.
validate_build_smoke_node_uncounted(s) ==
  { LET v == [s EXCEPT !.validation = gate]
    IN CASE gate # "open" -> [v EXCEPT !.status = "failed"]
         [] gate = "open" /\ OverallX4(s) >= 400 -> [v EXCEPT !.status = "smoke_validated"]
         [] OTHER -> [v EXCEPT !.retryLayer = WeakestLayer(s), !.status = "smoke_failed"]
    : gate \in {"open", "blocked", s.validation} }

\* The build and smoke test open or block the validation gate; when the
\* validator raises, the report of an earlier pass is still in the state.
validate_build_smoke_node(s) ==
  { LET v == [s EXCEPT !.validation = gate]
    IN CASE gate # "open" -> [v EXCEPT !.status = "failed"]
         [] gate = "open" /\ OverallX4(s) >= 400 -> [v EXCEPT !.status = "smoke_validated"]
         [] gate = "open" /\ OverallX4(s) < 400 /\ s.retries["validation"] < MaxRetries ->
              [v EXCEPT !.retries["validation"] = @ + 1, !.retryLayer = WeakestLayer(s),
                        !.status = "smoke_failed"]
         [] OTHER -> [v EXCEPT !.status = "failed"]
    : gate \in {"open", "blocked", s.validation} }

route_after_smoke(s) ==
  IF s.status \in {"smoke_validated", "smoke_failed"} THEN "validation_review_gate" ELSE "END_CANCELLED"

\* A decision passed by the caller comes first, then the score, then the
\* targeted retry, then (below 50) a restart from the schema.  The restart
\* leaves keys out of the returned dict; a channel that is not returned
\* keeps its value.
validation_review_gate_node(s) ==
  LET d == call.validationReview
  IN {CASE s.validation # "open" -> [s EXCEPT !.status = "failed"]
        [] s.validation = "open" /\ d = "cancelled" -> [s EXCEPT !.status = "cancelled"]
        [] s.validation = "open" /\ d = "retry_backend" ->
             [s EXCEPT !.retries["backend"] = 0, !.status = "retry_backend"]
        [] s.validation = "open" /\ d = "retry_schema" ->
             [s EXCEPT !.retries["schema"] = 0, !.status = "retry_schema"]
        [] OTHER ->
             IF OverallX4(s) >= 400 \/ d = "approved"
             THEN [s EXCEPT !.status = "package_approved"]
             ELSE IF s.status = "smoke_failed" /\ s.retryLayer \in Layers
             THEN [s EXCEPT !.retries[s.retryLayer] = 0, !.status = retry_status[s.retryLayer]]
             ELSE IF OverallX4(s) < 200
             THEN [s EXCEPT !.retries = [r \in Loops |-> IF r = "crawl" THEN @[r] ELSE 0],
                            !.status = "retry_schema"]
             ELSE [s EXCEPT !.status = "failed"]}

route_after_validation_review(s) ==
  CASE s.status = "package_approved" -> "package_export"
    [] s.status = "retry_backend"    -> "generate_backend"
    [] s.status = "retry_frontend"   -> "generate_frontend"
    [] s.status = "retry_admin"      -> "generate_admin"
    [] s.status = "retry_schema"     -> "infer_schema"
    [] OTHER                         -> "END_CANCELLED"

package_export_node(s) == {[s EXCEPT !.status = "exported"]}
end_cancelled_node(s)  == {[s EXCEPT !.status = "cancelled"]}

-----------------------------------------------------------------------------
(* The graph: every action runs one node and follows its edge.             *)

\* What LangGraph does around a node: one superstep, within the limit.
Run(node, results, Route(_)) ==
  /\ pc = node
  /\ steps < RecursionLimit
  /\ \E s \in results : state' = s /\ pc' = Route(s)
  /\ steps' = steps + 1
  /\ UNCHANGED call

CrawlSite            == Run("crawl_site", crawl_site_node(state), route_after_crawl)
SitemapGate          == Run("sitemap_gate", sitemap_gate_node(state), route_after_sitemap)
ExtractContent       == Run("extract_content", extract_content_node(state), route_after_extract)
InferCandidates      == Run("infer_candidates", infer_candidates_node(state), LAMBDA s : "infer_schema")
InferSchema          == Run("infer_schema", infer_schema_node(state), route_after_infer_schema)
SchemaReviewGate     == Run("schema_review_gate", schema_review_gate_node(state), route_after_schema_review)
MintSchemaVersion    == Run("mint_schema_version", mint_schema_version_node(state), LAMBDA s : "generation_gate")
GenerationGate       == Run("generation_gate", generation_gate_node(state), route_after_generation_gate)
PrepareScaffold      == Run("prepare_template_scaffold", prepare_template_scaffold_node(state), route_after_scaffold)
GenerateBackend      == Run("generate_backend", generate_backend_node(state), route_after_backend)
GenerateFrontend     == Run("generate_frontend", generate_frontend_node(state), route_after_frontend)
GenerateAdmin        == Run("generate_admin", generate_admin_node(state), route_after_admin)
ValidateConsistency  == Run("validate_consistency", validate_consistency_node(state), LAMBDA s : "validate_build_smoke")
ValidateBuildSmoke   == Run("validate_build_smoke", validate_build_smoke_node(state), route_after_smoke)
ValidationReviewGate == Run("validation_review_gate", validation_review_gate_node(state), route_after_validation_review)
PackageExport        == Run("package_export", package_export_node(state), LAMBDA s : "END")
EndCancelled         == Run("END_CANCELLED", end_cancelled_node(state), LAMBDA s : "END")

\* The capture writes to disk outside any handler: its exception ends the
\* invocation.
CrawlRaises ==
  /\ pc = "crawl_site"
  /\ state.status \notin approved_statuses
  /\ pc' = "RAISED"
  /\ UNCHANGED <<call, state, steps>>

\* LangGraph gives up when the limit is reached before the end.
GraphRecursionError ==
  /\ pc \notin {"END", "RAISED"}
  /\ steps = RecursionLimit
  /\ pc' = "RAISED"
  /\ UNCHANGED <<call, state, steps>>

\* What workflow.invoke starts from: the channels the caller set.
InitialState(c) ==
  [ status |-> c.status, pages |-> FALSE, blocks |-> FALSE, extraction |-> c.extraction,
    schema |-> c.schema, schemaGate |-> c.schemaGate, minted |-> FALSE,
    scaffoldGate |-> "unknown", artifacts |-> c.artifacts,
    scores |-> [l \in Scored |-> 0], validation |-> "unknown",
    retries |-> [r \in Loops |-> 0], retryLayer |-> "none" ]

Init ==
  /\ call \in Calls
  /\ pc = "crawl_site"
  /\ state = InitialState(call)
  /\ steps = 0

Next ==
  \/ CrawlSite \/ SitemapGate \/ ExtractContent
  \/ InferCandidates \/ InferSchema \/ SchemaReviewGate \/ MintSchemaVersion
  \/ GenerationGate \/ PrepareScaffold
  \/ GenerateBackend \/ GenerateFrontend \/ GenerateAdmin
  \/ ValidateConsistency \/ ValidateBuildSmoke \/ ValidationReviewGate
  \/ PackageExport \/ EndCancelled
  \/ CrawlRaises \/ GraphRecursionError

Spec == Init /\ [][Next]_vars

\* invoke runs the graph in the calling thread until it ends.
FairSpec == Spec /\ WF_vars(Next)

-----------------------------------------------------------------------------
(* Properties.                                                             *)

Nodes ==
  {"crawl_site", "sitemap_gate", "extract_content", "infer_candidates", "infer_schema",
   "schema_review_gate", "mint_schema_version", "generation_gate",
   "prepare_template_scaffold", "generate_backend", "generate_frontend", "generate_admin",
   "validate_consistency", "validate_build_smoke", "validation_review_gate",
   "package_export", "END_CANCELLED"}

Statuses ==
  JobStatus \union approved_statuses \union
  {"sitemap_checked", "retry_crawl", "candidates_inferred", "schema_approved", "retry_schema",
   "schema_minted", "template_ready", "consistency_validated", "smoke_validated",
   "smoke_failed", "package_approved", "exported"}
    \union {generated_status[l] : l \in Layers}
    \union {needs_retry_status[l] : l \in Layers}
    \union {retry_status[l] : l \in Layers}

States ==
  [ status : Statuses, pages : BOOLEAN, blocks : BOOLEAN, extraction : Gates,
    schema : Proposals, schemaGate : Gates, minted : BOOLEAN, scaffoldGate : Gates,
    artifacts : Artifacts \union {NoArtifacts}, scores : [Scored -> 0 .. 100],
    validation : Gates, retries : [Loops -> Nat], retryLayer : Layers \union {"none"} ]

\* The channels and the control hold values of their types.
TypeOK ==
  /\ call \in Calls
  /\ pc \in Nodes \union {"END", "RAISED"}
  /\ steps \in 0 .. RecursionLimit
  /\ state \in States

\* However the retry loops interleave and whichever counters a review resets,
\* no counter ever exceeds the budget (workflow.py: "Retry budgets").
RetryBudget == \A r \in Loops : state.retries[r] <= MaxRetries

\* What is packaged has passed the build and smoke gate, and every layer of
\* the artifacts that are packaged is complete; only a reviewer's explicit
\* "approved" lets inconsistent layers through.
ExportedIsValidated ==
  (pc = "package_export" \/ state.status = "exported") =>
    /\ state.validation = "open"
    /\ \A l \in Layers : LayerScore(state.artifacts, l) = 100
    /\ ConsistencyScore(state.artifacts) = 100 \/ call.validationReview = "approved"

Approved(c) == c.status \in approved_statuses \/ c.schemaReview = "approved"

\* An invocation that carries no approval never changes the artifacts and
\* never reaches the packaging node, whatever it infers on the way.
NoGenerationWithoutApproval ==
  ~Approved(call) =>
    /\ state.artifacts = call.artifacts
    /\ pc # "package_export" /\ state.status # "exported"

\* An invocation started for an approved schema generates from that schema:
\* no retry of generation or validation replaces it by another proposal.
ApprovedSchemaKept ==
  call.status \in approved_statuses /\ call.validationReview # "retry_schema" =>
    /\ state.schema = call.schema
    /\ state.artifacts \notin {NoArtifacts, call.artifacts} => state.artifacts.source = call.schema

\* Callers without a standing retry decision.
Settling(c) == c.validationReview \notin {"retry_backend", "retry_schema"}

\* Supersteps from an entry of the graph to its end when every budget is used.
StepBudget(c) == (IF c.status \in approved_statuses THEN 10 ELSE 15) + 6 * MaxRetries

\* The whole run, retries included, stays within a number of supersteps that
\* depends on the retry budget only, so run_job's limit of 100 is not met.
StepsBounded == Settling(call) => steps <= StepBudget(call)

\* Once there are artifacts no later node replaces them: a retry of a layer
\* scores the same artifacts again.
ArtifactsKept == [][state.artifacts # NoArtifacts => state'.artifacts = state.artifacts]_vars

\* What the engine gets back.
Result ==
  CASE pc = "END" ->
         [ status |-> state.status, extraction |-> state.extraction, schema |-> state.schema,
           schemaGate |-> state.schemaGate, artifacts |-> state.artifacts,
           validation |-> state.validation ]
    [] pc = "RAISED" -> Unchanged(call, "raised")
    [] OTHER         -> Pending

Stage == INSTANCE StageExecution WITH result <- Result

\* Every invocation ends, once, with a result; an invocation by a stage ends
\* with an outcome of the contract the job life cycle is built on.
ImplementsStage == Stage!FairSpec

=============================================================================
