---------------------- MODULE ConversionWorkflow_proofs ----------------------
(***************************************************************************)
(* Proofs about ConversionWorkflow, for every set of schemas and shapes,   *)
(* every retry budget and recursion limit and every call of CallSpace.     *)
(*                                                                         *)
(* First type correctness: each node maps States to subsets of States.     *)
(* Then, node by node, which channels a node may change (the Effect        *)
(* lemmas).  The inductive invariant IInv adds to the safety properties    *)
(* what is known at each node of the graph: which layers are complete      *)
(* there, that scores agree with artifacts, and whether an approval is     *)
(* behind the node.  Paced adds, node by node, how many supersteps are     *)
(* left, and Contract what the engine may get back: with it the graph      *)
(* implements StageExecution.                                              *)
(***************************************************************************)
EXTENDS ConversionWorkflow, TLAPS

(* Every node maps well-typed channels to well-typed channels.             *)

\* Every status the nodes write is a status of the graph.
LEMMA StatusNames ==
  /\ {"crawled", "failed", "cancelled", "extracted", "awaiting_approval", "sitemap_checked",
      "retry_crawl", "candidates_inferred", "schema_proposed", "schema_approved", "retry_schema",
      "schema_minted", "generation_approved", "template_ready", "generated",
      "consistency_validated", "smoke_validated", "smoke_failed", "package_approved",
      "exported", "retry_backend"} \subseteq Statuses
  /\ \A l \in Layers : {generated_status[l], needs_retry_status[l], retry_status[l]} \subseteq Statuses
<1>1. {"crawled", "failed", "cancelled", "extracted", "awaiting_approval",
       "schema_proposed", "generated", "generation_approved"} \subseteq Statuses
  BY DEF Statuses, JobStatus, approved_statuses
<1>2. {"sitemap_checked",
      "retry_crawl", "candidates_inferred", "schema_approved", "retry_schema",
      "schema_minted", "template_ready", 
      "consistency_validated", "smoke_validated", "smoke_failed", "package_approved",
      "exported"} \subseteq Statuses
  BY DEF Statuses
<1>3. \A l \in Layers : {generated_status[l], needs_retry_status[l], retry_status[l]} \subseteq Statuses
  BY DEF Statuses
<1>4. "retry_backend" \in Statuses
  BY <1>3 DEF Layers, retry_status
<1> QED BY <1>1, <1>2, <1>3, <1>4

\* A node that only sets the status keeps the channels typed.
LEMMA StatusSet ==
  ASSUME NEW s \in States, NEW x \in Statuses
  PROVE  [s EXCEPT !.status = x] \in States
BY DEF States

\* A node that counts a retry and sets the status keeps the channels typed.
LEMMA RetryCounted ==
  ASSUME NEW s \in States, NEW r \in Loops, NEW n \in Nat, NEW x \in Statuses
  PROVE  [s EXCEPT !.retries[r] = n, !.status = x] \in States
BY DEF States

\* crawl_site_node keeps the channels typed.
LEMMA CrawlTyped ==
  ASSUME NEW s \in States, NEW t \in crawl_site_node(s)
  PROVE  t \in States
<1>1. t = s \/ t = [s EXCEPT !.pages = TRUE, !.status = "crawled"] \/ t = [s EXCEPT !.status = "failed"]
  BY DEF crawl_site_node
<1> QED BY <1>1, StatusNames DEF States

\* sitemap_gate_node keeps the channels typed.
LEMMA SitemapTyped ==
  ASSUME NEW s \in States, NEW t \in sitemap_gate_node(s)
  PROVE  t \in States
<1> DEFINE n == s.retries["crawl"] + 1
<1>1. n \in Nat /\ "crawl" \in Loops
  BY DEF States, Loops
<1>2. \/ t = [s EXCEPT !.retries["crawl"] = n, !.status = "retry_crawl"]
      \/ \E x \in {"sitemap_checked", "cancelled"} : t = [s EXCEPT !.status = x]
  BY DEF sitemap_gate_node
<1> HIDE DEF n
<1>3. [s EXCEPT !.retries["crawl"] = n, !.status = "retry_crawl"] \in States
  BY <1>1, StatusNames, RetryCounted
<1>4. \A x \in {"sitemap_checked", "cancelled"} : [s EXCEPT !.status = x] \in States
  BY StatusNames, StatusSet
<1> QED BY <1>2, <1>3, <1>4

\* extract_content_node keeps the channels typed.
LEMMA ExtractTyped ==
  ASSUME NEW s \in States, NEW t \in extract_content_node(s)
  PROVE  t \in States
<1>1. \/ t = [s EXCEPT !.status = "failed"]
      \/ t = [s EXCEPT !.blocks = TRUE, !.extraction = "open", !.status = "extracted"]
      \/ \E b \in BOOLEAN : t = [s EXCEPT !.blocks = b, !.extraction = "blocked", !.status = "failed"]
  BY DEF extract_content_node
<1>2. ASSUME NEW b \in BOOLEAN, NEW g \in Gates, NEW x \in Statuses
      PROVE  [s EXCEPT !.blocks = b, !.extraction = g, !.status = x] \in States
  BY DEF States
<1>3. {"open", "blocked"} \subseteq Gates /\ {"extracted", "failed"} \subseteq Statuses
  BY StatusNames DEF Gates
<1>4. [s EXCEPT !.blocks = TRUE, !.extraction = "open", !.status = "extracted"] \in States
  BY <1>2, <1>3
<1>5. \A b \in BOOLEAN : [s EXCEPT !.blocks = b, !.extraction = "blocked", !.status = "failed"] \in States
  BY <1>2, <1>3
<1>6. [s EXCEPT !.status = "failed"] \in States
  BY <1>3, StatusSet
<1> QED BY <1>1, <1>4, <1>5, <1>6

\* infer_candidates_node keeps the channels typed.
LEMMA CandidatesTyped ==
  ASSUME NEW s \in States, NEW t \in infer_candidates_node(s)
  PROVE  t \in States
<1>1. \E x \in {"candidates_inferred", "cancelled"} : t = [s EXCEPT !.status = x]
  BY DEF infer_candidates_node
<1> QED BY <1>1, StatusSet, StatusNames

\* infer_schema_node keeps the channels typed.
LEMMA InferTyped ==
  ASSUME NEW s \in States, NEW t \in infer_schema_node(s)
  PROVE  t \in States
<1>1. ASSUME NEW p \in Proposals, NEW g \in Gates, NEW x \in Statuses
      PROVE  [s EXCEPT !.schema = p, !.minted = FALSE, !.schemaGate = g, !.status = x] \in States
  BY DEF States
<1>2. [s EXCEPT !.schema = EmptySchema, !.minted = FALSE, !.status = "schema_proposed"] \in States
  BY StatusNames DEF States, Proposals
<1>3. [s EXCEPT !.status = "failed"] \in States
  BY StatusSet, StatusNames
<1>4. \/ t = [s EXCEPT !.status = "failed"]
      \/ \E p \in Schemas \union {EmptySchema}, g \in {"open", "blocked"},
            x \in {"schema_proposed", "failed"} :
           t = [s EXCEPT !.schema = p, !.minted = FALSE, !.schemaGate = g, !.status = x]
      \/ t = [s EXCEPT !.schema = EmptySchema, !.minted = FALSE, !.status = "schema_proposed"]
  BY DEF infer_schema_node
<1>5. \A p \in Schemas \union {EmptySchema}, g \in {"open", "blocked"},
        x \in {"schema_proposed", "failed"} :
        [s EXCEPT !.schema = p, !.minted = FALSE, !.schemaGate = g, !.status = x] \in States
  BY <1>1, StatusNames DEF Proposals, Gates
<1>6. CASE \E p \in Schemas \union {EmptySchema}, g \in {"open", "blocked"},
            x \in {"schema_proposed", "failed"} :
           t = [s EXCEPT !.schema = p, !.minted = FALSE, !.schemaGate = g, !.status = x]
  BY <1>5, <1>6
<1> QED BY <1>2, <1>3, <1>4, <1>6

\* schema_review_gate_node keeps the channels typed.
LEMMA SchemaReviewTyped ==
  ASSUME NEW s \in States, NEW t \in schema_review_gate_node(s)
  PROVE  t \in States
<1> DEFINE n == s.retries["schema"] + 1
<1>1. n \in Nat /\ "schema" \in Loops
  BY DEF States, Loops
<1>2. \/ t = [s EXCEPT !.retries["schema"] = n, !.status = "retry_schema"]
      \/ \E x \in {"cancelled", "schema_approved", "awaiting_approval"} : t = [s EXCEPT !.status = x]
  BY DEF schema_review_gate_node
<1> HIDE DEF n
<1>3. [s EXCEPT !.retries["schema"] = n, !.status = "retry_schema"] \in States
  BY <1>1, StatusNames, RetryCounted
<1>4. \A x \in {"cancelled", "schema_approved", "awaiting_approval"} : [s EXCEPT !.status = x] \in States
  BY StatusNames, StatusSet
<1> QED BY <1>2, <1>3, <1>4

\* mint_schema_version_node keeps the channels typed.
LEMMA MintTyped ==
  ASSUME NEW s \in States, NEW t \in mint_schema_version_node(s)
  PROVE  t \in States
BY StatusNames DEF mint_schema_version_node, States

\* generation_gate_node keeps the channels typed.
LEMMA GenerationGateTyped ==
  ASSUME NEW s \in States, NEW t \in generation_gate_node(s)
  PROVE  t \in States
<1>1. \E x \in {"cancelled", "generation_approved"} : t = [s EXCEPT !.status = x]
  BY DEF generation_gate_node
<1> QED BY <1>1, StatusSet, StatusNames

\* prepare_template_scaffold_node keeps the channels typed.
LEMMA ScaffoldTyped ==
  ASSUME NEW s \in States, NEW t \in prepare_template_scaffold_node(s)
  PROVE  t \in States
<1>1. ASSUME NEW g \in Gates, NEW x \in Statuses
      PROVE  [s EXCEPT !.scaffoldGate = g, !.status = x] \in States
  BY DEF States
<1>2. \/ t = [s EXCEPT !.status = "failed"]
      \/ t = [s EXCEPT !.scaffoldGate = "open", !.status = "template_ready"]
      \/ t = [s EXCEPT !.scaffoldGate = "blocked", !.status = "failed"]
  BY DEF prepare_template_scaffold_node
<1> QED BY <1>1, <1>2, StatusSet, StatusNames DEF Gates

\* What generate_artifacts_node may change: the status, and the artifacts.
LEMMA ArtifactsForms ==
  ASSUME NEW s \in States, NEW t \in generate_artifacts_node(s)
  PROVE  \/ t = [s EXCEPT !.status = "failed"]
         \/ \E a \in Artifacts, x \in {"generated", "failed"} :
              a.source = s.schema /\ t = [s EXCEPT !.artifacts = a, !.status = x]
<1>1. PreservedSite(s.schema) \in Artifacts /\ PreservedSite(s.schema).source = s.schema
  BY DEF PreservedSite, Artifacts, States, FullLayer, LayerShapes
<1>2. ASSUME NEW a \in [layers : [Layers -> Shapes], orphans : BOOLEAN, source : {s.schema}]
      PROVE  a \in Artifacts /\ a.source = s.schema
  <2>1. s.schema \in Proposals
    BY DEF States
  <2>2. a.layers \in [Layers -> LayerShapes]
    BY ShapesAssumption
  <2> QED BY <2>1, <2>2 DEF Artifacts
<1>3. \/ t = [s EXCEPT !.status = "failed"]
      \/ t = [s EXCEPT !.artifacts = PreservedSite(s.schema), !.status = "generated"]
      \/ \E a \in [layers : [Layers -> Shapes], orphans : BOOLEAN, source : {s.schema}],
            x \in {"generated", "failed"} : t = [s EXCEPT !.artifacts = a, !.status = x]
  BY DEF generate_artifacts_node
<1>4. CASE t = [s EXCEPT !.artifacts = PreservedSite(s.schema), !.status = "generated"]
  BY <1>1, <1>4
<1> QED BY <1>2, <1>3, <1>4

\* generate_artifacts_node keeps the channels typed.
LEMMA ArtifactsTyped ==
  ASSUME NEW s \in States, NEW t \in generate_artifacts_node(s)
  PROVE  t \in States
<1>1. ASSUME NEW a \in Artifacts, NEW x \in Statuses
      PROVE  [s EXCEPT !.artifacts = a, !.status = x] \in States
  BY DEF States
<1>2. \A a \in Artifacts, x \in {"generated", "failed"} : [s EXCEPT !.artifacts = a, !.status = x] \in States
  BY <1>1, StatusNames
<1>3. [s EXCEPT !.status = "failed"] \in States
  BY StatusSet, StatusNames
<1>4. CASE \E a \in Artifacts, x \in {"generated", "failed"} :
            t = [s EXCEPT !.artifacts = a, !.status = x]
  BY <1>2, <1>4
<1>5. CASE t = [s EXCEPT !.status = "failed"]
  BY <1>3, <1>5
<1>6. \/ t = [s EXCEPT !.status = "failed"]
      \/ \E a \in Artifacts, x \in {"generated", "failed"} :
           a.source = s.schema /\ t = [s EXCEPT !.artifacts = a, !.status = x]
  BY ArtifactsForms
<1> QED BY <1>4, <1>5, <1>6

\* A layer scores between 0 and 100, and 100 only when it is complete.
LEMMA LayerScoreRange ==
  ASSUME NEW a \in Artifacts \union {NoArtifacts}, NEW l \in Layers
  PROVE  LayerScore(a, l) \in 0 .. 100
<1>1. CASE a = NoArtifacts
  BY <1>1 DEF LayerScore
<1>2. CASE a \in Artifacts
  <2>1. a.layers[l] \in LayerShapes
    BY <1>2 DEF Artifacts
  <2> QED BY <2>1, <1>2, ArtifactsAssumption DEF LayerScore, Bit, LayerShapes
<1> QED BY <1>1, <1>2

\* What scoring a layer may change.
LEMMA ScoreForms ==
  ASSUME NEW s \in States, NEW l \in Layers
  PROVE  \/ /\ LayerScore(s.artifacts, l) = 100
            /\ score_layer(s, l) = [s EXCEPT !.scores[l] = 100, !.status = generated_status[l]]
         \/ /\ s.retries[l] < MaxRetries /\ LayerScore(s.artifacts, l) # 100
            /\ score_layer(s, l) = [s EXCEPT !.scores[l] = LayerScore(s.artifacts, l),
                                             !.retries[l] = s.retries[l] + 1,
                                             !.status = needs_retry_status[l]]
         \/ score_layer(s, l) = [s EXCEPT !.scores[l] = LayerScore(s.artifacts, l), !.status = "failed"]
<1>1. LayerScore(s.artifacts, l) \in 0 .. 100
  BY LayerScoreRange DEF States
<1>2. PICK n \in 0 .. 100 : n = LayerScore(s.artifacts, l)
  BY <1>1
<1>3. CASE n >= 100
  <2>1. n = 100
    BY <1>3
  <2> QED BY <1>2, <2>1 DEF score_layer, States
<1>4. CASE ~(n >= 100) /\ s.retries[l] < MaxRetries
  <2>1. n # 100
    BY <1>4
  <2> QED BY <1>2, <1>4, <2>1 DEF score_layer, States
<1>5. CASE ~(n >= 100) /\ ~(s.retries[l] < MaxRetries)
  BY <1>2, <1>5 DEF score_layer, States
<1> QED BY <1>3, <1>4, <1>5

\* score_layer keeps the channels typed.
LEMMA ScoreTyped ==
  ASSUME NEW s \in States, NEW l \in Layers
  PROVE  score_layer(s, l) \in States
<1>1. LayerScore(s.artifacts, l) \in 0 .. 100
  BY LayerScoreRange DEF States
<1>2. ASSUME NEW v \in 0 .. 100, NEW x \in Statuses
      PROVE  [s EXCEPT !.scores[l] = v, !.status = x] \in States
  BY DEF States
<1>3. ASSUME NEW v \in 0 .. 100, NEW n \in Nat, NEW x \in Statuses
      PROVE  [s EXCEPT !.scores[l] = v, !.retries[l] = n, !.status = x] \in States
  BY DEF States
<1>4. s.retries[l] + 1 \in Nat
  BY DEF States, Loops
<1>5. {"failed", generated_status[l], needs_retry_status[l]} \subseteq Statuses
  BY StatusNames
<1>6. [s EXCEPT !.scores[l] = 100, !.status = generated_status[l]] \in States
  <2>1. 100 \in 0 .. 100
    OBVIOUS
  <2> QED BY <2>1, <1>2, <1>5
<1>8. [s EXCEPT !.scores[l] = LayerScore(s.artifacts, l), !.status = "failed"] \in States
  BY <1>1, <1>2, <1>5
<1>7. [s EXCEPT !.scores[l] = LayerScore(s.artifacts, l), !.retries[l] = s.retries[l] + 1,
                !.status = needs_retry_status[l]] \in States
  BY <1>1, <1>3, <1>4, <1>5
<1> QED BY <1>6, <1>7, <1>8, ScoreForms

\* generate_backend_node keeps the channels typed.
LEMMA BackendTyped ==
  ASSUME NEW s \in States, NEW t \in generate_backend_node(s)
  PROVE  t \in States
<1> DEFINE r == [s EXCEPT !.status = "template_ready"]
<1>1. r \in States
  BY StatusSet, StatusNames
<1>2. \A g \in generate_artifacts_node(r) : g \in States
  BY <1>1, ArtifactsTyped
<1>3. \A g \in States : score_layer(g, "backend") \in States
  BY ScoreTyped DEF Layers
<1> QED BY <1>2, <1>3 DEF generate_backend_node

\* validate_consistency_node keeps the channels typed.
LEMMA ConsistencyTyped ==
  ASSUME NEW s \in States, NEW t \in validate_consistency_node(s)
  PROVE  t \in States
<1>1. ConsistencyScore(s.artifacts) \in 0 .. 100
  BY DEF ConsistencyScore, Bit
<1>2. ASSUME NEW v \in 0 .. 100, NEW x \in Statuses
      PROVE  [s EXCEPT !.scores["consistency"] = v, !.status = x] \in States
  BY DEF States
<1> QED BY <1>1, <1>2, StatusNames DEF validate_consistency_node

\* What the build and smoke test may change, for a gate g.
LEMMA SmokeForms ==
  ASSUME NEW s \in States, NEW t \in validate_build_smoke_node(s)
  PROVE  \E g \in Gates :
           \/ t = [s EXCEPT !.validation = g, !.status = "failed"]
           \/ g = "open" /\ OverallX4(s) >= 400
                /\ t = [s EXCEPT !.validation = g, !.status = "smoke_validated"]
           \/ g = "open" /\ OverallX4(s) < 400 /\ s.retries["validation"] < MaxRetries
                /\ t = [s EXCEPT !.validation = g,
                                 !.retries["validation"] = s.retries["validation"] + 1,
                                 !.retryLayer = WeakestLayer(s), !.status = "smoke_failed"]
<1>1. s.validation \in Gates /\ {"open", "blocked"} \subseteq Gates
  BY DEF States, Gates
<1> QED BY <1>1 DEF validate_build_smoke_node, States

\* validate_build_smoke_node keeps the channels typed.
LEMMA SmokeTyped ==
  ASSUME NEW s \in States, NEW t \in validate_build_smoke_node(s)
  PROVE  t \in States
<1>1. ASSUME NEW g \in Gates, NEW x \in Statuses
      PROVE  [s EXCEPT !.validation = g, !.status = x] \in States
  BY DEF States
<1>2. ASSUME NEW g \in Gates, NEW n \in Nat, NEW l \in Layers, NEW x \in Statuses
      PROVE  [s EXCEPT !.validation = g, !.retries["validation"] = n, !.retryLayer = l,
                       !.status = x] \in States
  BY DEF States
<1>3. WeakestLayer(s) \in Layers
  BY DEF WeakestLayer, Layers
<1>4. s.retries["validation"] + 1 \in Nat
  BY DEF States, Loops
<1>5. \A g \in Gates, x \in {"failed", "smoke_validated"} :
        [s EXCEPT !.validation = g, !.status = x] \in States
  BY <1>1, StatusNames
<1>6. \A g \in Gates :
        [s EXCEPT !.validation = g, !.retries["validation"] = s.retries["validation"] + 1,
                  !.retryLayer = WeakestLayer(s), !.status = "smoke_failed"] \in States
  BY <1>2, <1>3, <1>4, StatusNames
<1>7. PICK g \in Gates :
           \/ t = [s EXCEPT !.validation = g, !.status = "failed"]
           \/ g = "open" /\ OverallX4(s) >= 400
                /\ t = [s EXCEPT !.validation = g, !.status = "smoke_validated"]
           \/ g = "open" /\ OverallX4(s) < 400 /\ s.retries["validation"] < MaxRetries
                /\ t = [s EXCEPT !.validation = g,
                                 !.retries["validation"] = s.retries["validation"] + 1,
                                 !.retryLayer = WeakestLayer(s), !.status = "smoke_failed"]
  BY SmokeForms
<1>8. CASE \E x \in {"failed", "smoke_validated"} : t = [s EXCEPT !.validation = g, !.status = x]
  BY <1>5, <1>8
<1> QED BY <1>6, <1>7, <1>8

\* What the validation review may change.
LEMMA ReviewForms ==
  ASSUME NEW s \in States, NEW t \in validation_review_gate_node(s)
  PROVE  \/ t = [s EXCEPT !.status = "failed"] \/ t = [s EXCEPT !.status = "cancelled"]
         \/ /\ s.validation = "open"
            /\ OverallX4(s) >= 400 \/ call.validationReview = "approved"
            /\ t = [s EXCEPT !.status = "package_approved"]
         \/ \E l \in Layers : t = [s EXCEPT !.retries[l] = 0, !.status = retry_status[l]]
         \/ /\ call.validationReview = "retry_schema"
            /\ t = [s EXCEPT !.retries["schema"] = 0, !.status = "retry_schema"]
         \/ /\ OverallX4(s) < 200
            /\ t = [s EXCEPT !.retries = [r \in Loops |-> IF r = "crawl" THEN s.retries[r] ELSE 0],
                             !.status = "retry_schema"]
<1>1. retry_status["backend"] = "retry_backend" /\ "backend" \in Layers
  BY DEF retry_status, Layers
<1>2. s.validation = "open" /\ call.validationReview = "retry_backend" =>
        t = [s EXCEPT !.retries["backend"] = 0, !.status = retry_status["backend"]]
  BY <1>1 DEF validation_review_gate_node
<1> QED BY <1>1, <1>2 DEF validation_review_gate_node

\* validation_review_gate_node keeps the channels typed.
LEMMA ValidationReviewTyped ==
  ASSUME NEW s \in States, NEW t \in validation_review_gate_node(s)
  PROVE  t \in States
<1>1. Layers \subseteq Loops /\ "schema" \in Loops
  BY DEF Loops
<1>2. [s EXCEPT !.retries = [r \in Loops |-> IF r = "crawl" THEN s.retries[r] ELSE 0],
                !.status = "retry_schema"] \in States
  <2>1. [r \in Loops |-> IF r = "crawl" THEN s.retries[r] ELSE 0] \in [Loops -> Nat]
    BY DEF States
  <2> QED BY <2>1, StatusNames DEF States
<1>3. \A x \in {"failed", "cancelled", "package_approved"} : [s EXCEPT !.status = x] \in States
  BY StatusSet, StatusNames
<1>4. \A l \in Layers : [s EXCEPT !.retries[l] = 0, !.status = retry_status[l]] \in States
  BY <1>1, RetryCounted, StatusNames
<1>5. [s EXCEPT !.retries["schema"] = 0, !.status = "retry_schema"] \in States
  BY <1>1, RetryCounted, StatusNames
<1>6. CASE \E l \in Layers : t = [s EXCEPT !.retries[l] = 0, !.status = retry_status[l]]
  BY <1>4, <1>6
<1>7. \/ t = [s EXCEPT !.status = "failed"] \/ t = [s EXCEPT !.status = "cancelled"]
      \/ t = [s EXCEPT !.status = "package_approved"]
      \/ \E l \in Layers : t = [s EXCEPT !.retries[l] = 0, !.status = retry_status[l]]
      \/ t = [s EXCEPT !.retries["schema"] = 0, !.status = "retry_schema"]
      \/ t = [s EXCEPT !.retries = [r \in Loops |-> IF r = "crawl" THEN s.retries[r] ELSE 0],
                       !.status = "retry_schema"]
  BY ReviewForms
<1> QED BY <1>2, <1>3, <1>5, <1>6, <1>7

\* The frontend and admin nodes, both of which score a layer.
LEMMA FrontendTyped ==
  ASSUME NEW s \in States, NEW t \in generate_frontend_node(s)
  PROVE  t \in States
<1>1. "frontend" \in Layers
  BY DEF Layers
<1> QED BY <1>1, ScoreTyped DEF generate_frontend_node

\* generate_admin_node keeps the channels typed.
LEMMA AdminTyped ==
  ASSUME NEW s \in States, NEW t \in generate_admin_node(s)
  PROVE  t \in States
<1>1. "admin" \in Layers
  BY DEF Layers
<1> QED BY <1>1, ScoreTyped DEF generate_admin_node

\* package_export_node keeps the channels typed.
LEMMA ExportTyped ==
  ASSUME NEW s \in States, NEW t \in package_export_node(s)
  PROVE  t \in States
BY StatusNames, StatusSet DEF package_export_node

\* end_cancelled_node keeps the channels typed.
LEMMA EndTyped ==
  ASSUME NEW s \in States, NEW t \in end_cancelled_node(s)
  PROVE  t \in States
BY StatusNames, StatusSet DEF end_cancelled_node

(* Every router names a node, or the end.                                  *)

\* Every router names a node of the graph or its end.
LEMMA RoutersTyped ==
  ASSUME NEW s
  PROVE  {route_after_crawl(s), route_after_sitemap(s), route_after_extract(s),
          route_after_infer_schema(s), route_after_schema_review(s),
          route_after_generation_gate(s), route_after_scaffold(s), route_after_backend(s),
          route_after_frontend(s), route_after_admin(s), route_after_smoke(s),
          route_after_validation_review(s)} \subseteq Nodes \union {"END"}
<1>1. route_after_crawl(s) \in Nodes \union {"END"}
  BY DEF route_after_crawl, Nodes
<1>2. route_after_sitemap(s) \in Nodes \union {"END"}
  BY DEF route_after_sitemap, Nodes
<1>3. route_after_extract(s) \in Nodes \union {"END"}
  BY DEF route_after_extract, Nodes
<1>4. route_after_infer_schema(s) \in Nodes \union {"END"}
  BY DEF route_after_infer_schema, Nodes
<1>5. route_after_schema_review(s) \in Nodes \union {"END"}
  BY DEF route_after_schema_review, Nodes
<1>6. route_after_generation_gate(s) \in Nodes \union {"END"}
  BY DEF route_after_generation_gate, Nodes
<1>7. route_after_scaffold(s) \in Nodes \union {"END"}
  BY DEF route_after_scaffold, Nodes
<1>8. route_after_backend(s) \in Nodes \union {"END"}
  BY DEF route_after_backend, Nodes
<1>9. route_after_frontend(s) \in Nodes \union {"END"}
  BY DEF route_after_frontend, Nodes
<1>10. route_after_admin(s) \in Nodes \union {"END"}
  BY DEF route_after_admin, Nodes
<1>11. route_after_smoke(s) \in Nodes \union {"END"}
  BY DEF route_after_smoke, Nodes
<1>12. route_after_validation_review(s) \in Nodes \union {"END"}
  BY DEF route_after_validation_review, Nodes
<1> QED BY <1>1, <1>2, <1>3, <1>4, <1>5, <1>6, <1>7, <1>8, <1>9, <1>10, <1>11, <1>12

\* One superstep, whatever the node and the router.
LEMMA RunTyped ==
  ASSUME TypeOK, NEW t \in States, NEW next \in Nodes \union {"END"},
         steps < RecursionLimit, state' = t, pc' = next, steps' = steps + 1, call' = call
  PROVE  TypeOK'
BY BudgetAssumption DEF TypeOK

\* What callers pass makes a well-typed initial state.
LEMMA InitTyped == Init => TypeOK
<1> SUFFICES ASSUME Init PROVE TypeOK
  OBVIOUS
<1>1. call \in CallSpace
  BY CallsAssumption DEF Init
<1>2. InitialState(call) \in States
  <2>1. call.status \in Statuses
    BY <1>1 DEF CallSpace, Statuses
  <2>2. /\ call.extraction \in Gates /\ call.schema \in Proposals /\ call.schemaGate \in Gates
        /\ call.artifacts \in Artifacts \union {NoArtifacts}
    BY <1>1 DEF CallSpace
  <2>3. [l \in Scored |-> 0] \in [Scored -> 0 .. 100] /\ [r \in Loops |-> 0] \in [Loops -> Nat]
    OBVIOUS
  <2>4. "unknown" \in Gates
    BY DEF Gates
  <2> QED BY <2>1, <2>2, <2>3, <2>4 DEF InitialState, States
<1>3. "crawl_site" \in Nodes
  BY DEF Nodes
<1> QED BY <1>2, <1>3, BudgetAssumption DEF Init, TypeOK

\* Every action keeps the types.
LEMMA NextTyped == TypeOK /\ [Next]_vars => TypeOK'
<1> SUFFICES ASSUME TypeOK, [Next]_vars PROVE TypeOK'
  OBVIOUS
<1>0. state \in States
  BY DEF TypeOK
<1>1. CASE CrawlSite
  <2>1. PICK t \in crawl_site_node(state) : state' = t /\ pc' = route_after_crawl(t)
    BY <1>1 DEF CrawlSite, Run
  <2>2. t \in States
    BY <1>0, CrawlTyped
  <2> QED BY <1>1, <2>1, <2>2, RoutersTyped, RunTyped DEF CrawlSite, Run
<1>2. CASE SitemapGate
  <2>1. PICK t \in sitemap_gate_node(state) : state' = t /\ pc' = route_after_sitemap(t)
    BY <1>2 DEF SitemapGate, Run
  <2>2. t \in States
    BY <1>0, SitemapTyped
  <2> QED BY <1>2, <2>1, <2>2, RoutersTyped, RunTyped DEF SitemapGate, Run
<1>3. CASE ExtractContent
  <2>1. PICK t \in extract_content_node(state) : state' = t /\ pc' = route_after_extract(t)
    BY <1>3 DEF ExtractContent, Run
  <2>2. t \in States
    BY <1>0, ExtractTyped
  <2> QED BY <1>3, <2>1, <2>2, RoutersTyped, RunTyped DEF ExtractContent, Run
<1>4. CASE InferCandidates
  <2>1. PICK t \in infer_candidates_node(state) : state' = t /\ pc' = "infer_schema"
    BY <1>4 DEF InferCandidates, Run
  <2>2. t \in States
    BY <1>0, CandidatesTyped
  <2> QED BY <1>4, <2>1, <2>2, RunTyped DEF InferCandidates, Run, Nodes
<1>5. CASE InferSchema
  <2>1. PICK t \in infer_schema_node(state) : state' = t /\ pc' = route_after_infer_schema(t)
    BY <1>5 DEF InferSchema, Run
  <2>2. t \in States
    BY <1>0, InferTyped
  <2> QED BY <1>5, <2>1, <2>2, RoutersTyped, RunTyped DEF InferSchema, Run
<1>6. CASE SchemaReviewGate
  <2>1. PICK t \in schema_review_gate_node(state) : state' = t /\ pc' = route_after_schema_review(t)
    BY <1>6 DEF SchemaReviewGate, Run
  <2>2. t \in States
    BY <1>0, SchemaReviewTyped
  <2> QED BY <1>6, <2>1, <2>2, RoutersTyped, RunTyped DEF SchemaReviewGate, Run
<1>7. CASE MintSchemaVersion
  <2>1. PICK t \in mint_schema_version_node(state) : state' = t /\ pc' = "generation_gate"
    BY <1>7 DEF MintSchemaVersion, Run
  <2>2. t \in States
    BY <1>0, MintTyped
  <2> QED BY <1>7, <2>1, <2>2, RunTyped DEF MintSchemaVersion, Run, Nodes
<1>8. CASE GenerationGate
  <2>1. PICK t \in generation_gate_node(state) : state' = t /\ pc' = route_after_generation_gate(t)
    BY <1>8 DEF GenerationGate, Run
  <2>2. t \in States
    BY <1>0, GenerationGateTyped
  <2> QED BY <1>8, <2>1, <2>2, RoutersTyped, RunTyped DEF GenerationGate, Run
<1>9. CASE PrepareScaffold
  <2>1. PICK t \in prepare_template_scaffold_node(state) : state' = t /\ pc' = route_after_scaffold(t)
    BY <1>9 DEF PrepareScaffold, Run
  <2>2. t \in States
    BY <1>0, ScaffoldTyped
  <2> QED BY <1>9, <2>1, <2>2, RoutersTyped, RunTyped DEF PrepareScaffold, Run
<1>10. CASE GenerateBackend
  <2>1. PICK t \in generate_backend_node(state) : state' = t /\ pc' = route_after_backend(t)
    BY <1>10 DEF GenerateBackend, Run
  <2>2. t \in States
    BY <1>0, BackendTyped
  <2> QED BY <1>10, <2>1, <2>2, RoutersTyped, RunTyped DEF GenerateBackend, Run
<1>11. CASE GenerateFrontend
  <2>1. PICK t \in generate_frontend_node(state) : state' = t /\ pc' = route_after_frontend(t)
    BY <1>11 DEF GenerateFrontend, Run
  <2>2. t \in States
    BY <1>0, FrontendTyped
  <2> QED BY <1>11, <2>1, <2>2, RoutersTyped, RunTyped DEF GenerateFrontend, Run
<1>12. CASE GenerateAdmin
  <2>1. PICK t \in generate_admin_node(state) : state' = t /\ pc' = route_after_admin(t)
    BY <1>12 DEF GenerateAdmin, Run
  <2>2. t \in States
    BY <1>0, AdminTyped
  <2> QED BY <1>12, <2>1, <2>2, RoutersTyped, RunTyped DEF GenerateAdmin, Run
<1>13. CASE ValidateConsistency
  <2>1. PICK t \in validate_consistency_node(state) : state' = t /\ pc' = "validate_build_smoke"
    BY <1>13 DEF ValidateConsistency, Run
  <2>2. t \in States
    BY <1>0, ConsistencyTyped
  <2> QED BY <1>13, <2>1, <2>2, RunTyped DEF ValidateConsistency, Run, Nodes
<1>14. CASE ValidateBuildSmoke
  <2>1. PICK t \in validate_build_smoke_node(state) : state' = t /\ pc' = route_after_smoke(t)
    BY <1>14 DEF ValidateBuildSmoke, Run
  <2>2. t \in States
    BY <1>0, SmokeTyped
  <2> QED BY <1>14, <2>1, <2>2, RoutersTyped, RunTyped DEF ValidateBuildSmoke, Run
<1>15. CASE ValidationReviewGate
  <2>1. PICK t \in validation_review_gate_node(state) : state' = t /\ pc' = route_after_validation_review(t)
    BY <1>15 DEF ValidationReviewGate, Run
  <2>2. t \in States
    BY <1>0, ValidationReviewTyped
  <2> QED BY <1>15, <2>1, <2>2, RoutersTyped, RunTyped DEF ValidationReviewGate, Run
<1>16. CASE PackageExport
  <2>1. PICK t \in package_export_node(state) : state' = t /\ pc' = "END"
    BY <1>16 DEF PackageExport, Run
  <2>2. t \in States
    BY <1>0, ExportTyped
  <2> QED BY <1>16, <2>1, <2>2, RunTyped DEF PackageExport, Run, Nodes
<1>17. CASE EndCancelled
  <2>1. PICK t \in end_cancelled_node(state) : state' = t /\ pc' = "END"
    BY <1>17 DEF EndCancelled, Run
  <2>2. t \in States
    BY <1>0, EndTyped
  <2> QED BY <1>17, <2>1, <2>2, RunTyped DEF EndCancelled, Run, Nodes
<1>18. CASE CrawlRaises
  BY <1>18 DEF CrawlRaises, TypeOK
<1>19. CASE GraphRecursionError
  BY <1>19 DEF GraphRecursionError, TypeOK
<1>20. CASE UNCHANGED vars
  BY <1>20 DEF vars, TypeOK
<1> QED
  BY <1>1, <1>2, <1>3, <1>4, <1>5, <1>6, <1>7, <1>8, <1>9, <1>10, <1>11, <1>12, <1>13, <1>14,
     <1>15, <1>16, <1>17, <1>18, <1>19, <1>20 DEF Next

-----------------------------------------------------------------------------
(* The inductive invariant.                                                *)

\* The layer scored full, and the artifacts are the ones that were scored.
Complete(l) == state.scores[l] = 100 /\ LayerScore(state.artifacts, l) = 100

AfterAdmin    == {"validate_consistency", "validate_build_smoke", "validation_review_gate", "package_export"}
AfterFrontend == AfterAdmin \union {"generate_admin"}
AfterBackend  == AfterFrontend \union {"generate_frontend"}
Ends          == {"END_CANCELLED", "END", "RAISED"}
Capture       == {"crawl_site", "sitemap_gate", "extract_content", "infer_candidates",
                  "infer_schema", "schema_review_gate"}
Generation    == AfterBackend \union {"mint_schema_version", "generation_gate",
                                      "prepare_template_scaffold", "generate_backend"}

\* A node past a layer's is only reached with that layer complete.
LayersComplete ==
  /\ pc \in AfterBackend  => Complete("backend")
  /\ pc \in AfterFrontend => Complete("frontend")
  /\ pc \in AfterAdmin    => Complete("admin")

\* A consistency score is that of the artifacts in the state.
ConsistencyCurrent ==
  state.scores["consistency"] # 0 =>
    /\ state.artifacts # NoArtifacts
    /\ state.scores["consistency"] = ConsistencyScore(state.artifacts)

\* The status the caller passed is seen by the entry node only.
EntryStatus == pc = "crawl_site" => state.status \in {call.status, "retry_crawl"}

\* The backend node is entered by the scaffold, by its own retry or by the
\* review.
BackendEntry ==
  pc = "generate_backend" => state.status \in {"template_ready", "backend_needs_retry", "retry_backend"}

\* "exported" is the status of finished invocations.
ExportEnds == state.status = "exported" => pc = "END"

\* Without an approval the second half of the graph is not entered.
UnapprovedPath ==
  ~Approved(call) => pc \in Capture \union Ends

\* With one, and unless a reviewer asks for the schema again, the first half
\* is only passed through.
ApprovedPath ==
  call.status \in approved_statuses /\ call.validationReview # "retry_schema" =>
    /\ pc \in Generation \union Ends \union {"crawl_site"}
    /\ pc = "crawl_site" => state.status = call.status

IInv ==
  /\ TypeOK
  /\ RetryBudget
  /\ LayersComplete
  /\ ConsistencyCurrent
  /\ EntryStatus
  /\ BackendEntry
  /\ ExportEnds
  /\ UnapprovedPath
  /\ ApprovedPath
  /\ ExportedIsValidated
  /\ NoGenerationWithoutApproval
  /\ ApprovedSchemaKept

(* What each node leaves alone, and the status it leaves behind.           *)

Kept(s, t) == t.artifacts = s.artifacts /\ t.scores = s.scores /\ t.schema = s.schema

InBudget(s) == \A r \in Loops : s.retries[r] <= MaxRetries

\* Setting the status changes no other channel.
LEMMA StatusEffect ==
  ASSUME NEW s \in States, NEW x, NEW t, t = [s EXCEPT !.status = x]
  PROVE  Kept(s, t) /\ t.retries = s.retries /\ t.status = x /\ t.validation = s.validation
BY DEF States, Kept

\* crawl_site_node changes only the channels listed here, and what they may
\* become.
LEMMA CrawlEffect ==
  ASSUME NEW s \in States, NEW t \in crawl_site_node(s)
  PROVE  /\ Kept(s, t) /\ t.retries = s.retries
         /\ IF s.status \in approved_statuses THEN t.status = s.status
                                              ELSE t.status \in {"crawled", "failed"}
<1>1. CASE s.status \in approved_statuses
  BY <1>1 DEF crawl_site_node, Kept
<1>2. CASE s.status \notin approved_statuses
  <2>1. t = [s EXCEPT !.pages = TRUE, !.status = "crawled"] \/ t = [s EXCEPT !.status = "failed"]
    BY <1>2 DEF crawl_site_node
  <2> QED BY <1>2, <2>1 DEF States, Kept
<1> QED BY <1>1, <1>2

\* sitemap_gate_node changes only the channels listed here, and what they may
\* become.
LEMMA SitemapEffect ==
  ASSUME NEW s \in States, InBudget(s), NEW t \in sitemap_gate_node(s)
  PROVE  /\ Kept(s, t) /\ InBudget(t)
         /\ t.status \in {"retry_crawl", "sitemap_checked", "cancelled"}
<1> DEFINE n == s.retries["crawl"] + 1
<1>1. s.retries["crawl"] \in Nat /\ n \in Nat /\ "crawl" \in Loops
  BY DEF States, Loops
<1>2. \/ s.retries["crawl"] < MaxRetries /\ t = [s EXCEPT !.retries["crawl"] = n, !.status = "retry_crawl"]
      \/ t = [s EXCEPT !.status = "sitemap_checked"]
      \/ t = [s EXCEPT !.status = "cancelled"]
  BY DEF sitemap_gate_node
<1>3. s.retries["crawl"] < MaxRetries => n <= MaxRetries
  BY <1>1, BudgetAssumption
<1> HIDE DEF n
<1>4. CASE s.retries["crawl"] < MaxRetries /\ t = [s EXCEPT !.retries["crawl"] = n, !.status = "retry_crawl"]
  <2>1. Kept(s, t) /\ t.status = "retry_crawl" /\ t.retries = [s.retries EXCEPT !["crawl"] = n]
    BY <1>4 DEF States, Kept
  <2>2. InBudget(t)
    BY <1>1, <1>3, <1>4, <2>1 DEF States, InBudget
  <2> QED BY <2>1, <2>2
<1> QED BY <1>2, <1>4, StatusEffect DEF InBudget

\* extract_content_node changes only the channels listed here, and what they
\* may become.
LEMMA ExtractEffect ==
  ASSUME NEW s \in States, NEW t \in extract_content_node(s)
  PROVE  Kept(s, t) /\ t.retries = s.retries /\ t.status \in {"extracted", "failed"}
<1>1. \/ t = [s EXCEPT !.status = "failed"]
      \/ t = [s EXCEPT !.blocks = TRUE, !.extraction = "open", !.status = "extracted"]
      \/ \E b \in BOOLEAN : t = [s EXCEPT !.blocks = b, !.extraction = "blocked", !.status = "failed"]
  BY DEF extract_content_node
<1> QED BY <1>1 DEF States, Kept

\* infer_schema_node changes only the channels listed here, and what they may
\* become.
LEMMA InferEffect ==
  ASSUME NEW s \in States, NEW t \in infer_schema_node(s)
  PROVE  /\ t.artifacts = s.artifacts /\ t.scores = s.scores /\ t.retries = s.retries
         /\ t.status \in {"schema_proposed", "failed"}
<1>1. \/ t = [s EXCEPT !.status = "failed"]
      \/ \E p \in Schemas \union {EmptySchema} :
           t = [s EXCEPT !.schema = p, !.minted = FALSE, !.schemaGate = "open", !.status = "schema_proposed"]
      \/ \E p \in Schemas \union {EmptySchema} :
           t = [s EXCEPT !.schema = p, !.minted = FALSE, !.schemaGate = "blocked", !.status = "failed"]
      \/ t = [s EXCEPT !.schema = EmptySchema, !.minted = FALSE, !.status = "schema_proposed"]
  BY DEF infer_schema_node
<1> QED BY <1>1 DEF States

\* schema_review_gate_node changes only the channels listed here, and what
\* they may become.
LEMMA SchemaReviewEffect ==
  ASSUME NEW s \in States, InBudget(s), NEW t \in schema_review_gate_node(s)
  PROVE  /\ Kept(s, t) /\ InBudget(t)
         /\ t.status \in {"cancelled", "schema_approved", "retry_schema", "awaiting_approval"}
         /\ t.status = "schema_approved" => call.schemaReview = "approved"
<1> DEFINE n == s.retries["schema"] + 1
<1>1. s.retries["schema"] \in Nat /\ n \in Nat /\ "schema" \in Loops
  BY DEF States, Loops
<1>2. \/ s.retries["schema"] < MaxRetries /\ t = [s EXCEPT !.retries["schema"] = n, !.status = "retry_schema"]
      \/ t = [s EXCEPT !.status = "cancelled"]
      \/ call.schemaReview = "approved" /\ t = [s EXCEPT !.status = "schema_approved"]
      \/ t = [s EXCEPT !.status = "awaiting_approval"]
  BY DEF schema_review_gate_node
<1>3. s.retries["schema"] < MaxRetries => n <= MaxRetries
  BY <1>1, BudgetAssumption
<1> HIDE DEF n
<1>4. CASE s.retries["schema"] < MaxRetries /\ t = [s EXCEPT !.retries["schema"] = n, !.status = "retry_schema"]
  <2>1. Kept(s, t) /\ t.status = "retry_schema" /\ t.retries = [s.retries EXCEPT !["schema"] = n]
    BY <1>4 DEF States, Kept
  <2>2. InBudget(t)
    BY <1>1, <1>3, <1>4, <2>1 DEF States, InBudget
  <2> QED BY <2>1, <2>2
<1> QED BY <1>2, <1>4, StatusEffect DEF InBudget

\* mint_schema_version_node changes only the channels listed here, and what
\* they may become.
LEMMA MintEffect ==
  ASSUME NEW s \in States, NEW t \in mint_schema_version_node(s)
  PROVE  Kept(s, t) /\ t.retries = s.retries /\ t.status = "schema_minted"
BY DEF mint_schema_version_node, States, Kept

\* generation_gate_node changes only the channels listed here, and what they
\* may become.
LEMMA GenerationGateEffect ==
  ASSUME NEW s \in States, NEW t \in generation_gate_node(s)
  PROVE  Kept(s, t) /\ t.retries = s.retries /\ t.status \in {"generation_approved", "cancelled"}
<1>1. t = [s EXCEPT !.status = "generation_approved"] \/ t = [s EXCEPT !.status = "cancelled"]
  BY DEF generation_gate_node
<1> QED BY <1>1, StatusEffect

\* prepare_template_scaffold_node changes only the channels listed here, and
\* what they may become.
LEMMA ScaffoldEffect ==
  ASSUME NEW s \in States, NEW t \in prepare_template_scaffold_node(s)
  PROVE  Kept(s, t) /\ t.retries = s.retries /\ t.status \in {"template_ready", "failed"}
<1>1. \/ t = [s EXCEPT !.status = "failed"]
      \/ t = [s EXCEPT !.scaffoldGate = "open", !.status = "template_ready"]
      \/ t = [s EXCEPT !.scaffoldGate = "blocked", !.status = "failed"]
  BY DEF prepare_template_scaffold_node
<1> QED BY <1>1 DEF States, Kept

\* Scoring layer l touches its own score and counter only, and leaves the
\* generated status behind just when the layer is complete.
LEMMA ScoreEffect ==
  ASSUME NEW s \in States, InBudget(s), NEW l \in Layers, NEW t, t = score_layer(s, l)
  PROVE  /\ t.artifacts = s.artifacts /\ t.schema = s.schema /\ InBudget(t)
         /\ \A k \in Scored \ {l} : t.scores[k] = s.scores[k]
         /\ \/ /\ t.status = generated_status[l]
               /\ t.scores[l] = 100 /\ LayerScore(t.artifacts, l) = 100
            \/ t.status \in {needs_retry_status[l], "failed"}
<1>1. s.scores \in [Scored -> 0 .. 100] /\ s.retries \in [Loops -> Nat] /\ l \in Scored /\ l \in Loops
  BY DEF States, Scored, Loops
<1>2. CASE /\ LayerScore(s.artifacts, l) = 100
           /\ t = [s EXCEPT !.scores[l] = 100, !.status = generated_status[l]]
  <2>1. /\ t.artifacts = s.artifacts /\ t.schema = s.schema /\ t.retries = s.retries
        /\ t.scores = [s.scores EXCEPT ![l] = 100] /\ t.status = generated_status[l]
    BY <1>2 DEF States
  <2> QED BY <1>1, <1>2, <2>1 DEF InBudget
<1>3. CASE /\ s.retries[l] < MaxRetries
           /\ t = [s EXCEPT !.scores[l] = LayerScore(s.artifacts, l), !.retries[l] = s.retries[l] + 1,
                            !.status = needs_retry_status[l]]
  <2>1. /\ t.artifacts = s.artifacts /\ t.schema = s.schema
        /\ t.retries = [s.retries EXCEPT ![l] = s.retries[l] + 1]
        /\ t.scores = [s.scores EXCEPT ![l] = LayerScore(s.artifacts, l)]
        /\ t.status = needs_retry_status[l]
    BY <1>3 DEF States
  <2>2. s.retries[l] + 1 <= MaxRetries
    BY <1>1, <1>3, BudgetAssumption
  <2>3. InBudget(t)
    BY <1>1, <2>1, <2>2 DEF InBudget
  <2> QED BY <1>1, <2>1, <2>3
<1>4. CASE t = [s EXCEPT !.scores[l] = LayerScore(s.artifacts, l), !.status = "failed"]
  <2>1. /\ t.artifacts = s.artifacts /\ t.schema = s.schema /\ t.retries = s.retries
        /\ t.scores = [s.scores EXCEPT ![l] = LayerScore(s.artifacts, l)] /\ t.status = "failed"
    BY <1>4 DEF States
  <2> QED BY <1>1, <2>1 DEF InBudget
<1> QED BY <1>2, <1>3, <1>4, ScoreForms

\* The backend node builds artifacts, from the proposal in the state, only
\* when there are none.
LEMMA BackendEffect ==
  ASSUME NEW s \in States, InBudget(s), NEW t \in generate_backend_node(s)
  PROVE  /\ t.schema = s.schema /\ InBudget(t)
         /\ \/ t.artifacts = s.artifacts
            \/ s.artifacts = NoArtifacts /\ t.artifacts.source = s.schema
         /\ \A k \in Scored \ {"backend"} : t.scores[k] = s.scores[k]
         /\ \/ t = s
            \/ /\ t.status = "backend_generated"
               /\ t.scores["backend"] = 100 /\ LayerScore(t.artifacts, "backend") = 100
            \/ t.status \in {"backend_needs_retry", "failed"}
<1> DEFINE r == [s EXCEPT !.status = "template_ready"]
<1>1. "backend" \in Layers /\ generated_status["backend"] = "backend_generated"
      /\ needs_retry_status["backend"] = "backend_needs_retry"
  BY DEF Layers, generated_status, needs_retry_status
<1>2. CASE t = s
  BY <1>2
<1>3. CASE s.artifacts # NoArtifacts
  <2>1. t = score_layer(s, "backend")
    BY <1>3 DEF generate_backend_node
  <2> QED BY <1>1, <2>1, ScoreEffect
<1>4. CASE s.artifacts = NoArtifacts /\ t # s
  <2>1. PICK g \in generate_artifacts_node(r) :
          t = IF g.status = "failed" THEN g ELSE score_layer(g, "backend")
    BY <1>4 DEF generate_backend_node
  <2>2. r \in States /\ r.schema = s.schema /\ r.artifacts = s.artifacts /\ r.retries = s.retries
        /\ r.scores = s.scores
    BY StatusSet, StatusNames, StatusEffect DEF Kept
  <2> HIDE DEF r
  <2>3. g \in States
    BY <2>1, <2>2, ArtifactsTyped
  <2>4. /\ g.schema = s.schema /\ g.retries = s.retries /\ g.scores = s.scores
        /\ g.artifacts = s.artifacts \/ g.artifacts.source = s.schema
    <3>1. CASE g = [r EXCEPT !.status = "failed"]
      BY <2>2, <3>1, StatusEffect DEF Kept
    <3>2. CASE \E a \in Artifacts, x \in {"generated", "failed"} :
                 a.source = r.schema /\ g = [r EXCEPT !.artifacts = a, !.status = x]
      BY <2>2, <3>2 DEF States
    <3> QED BY <2>1, <2>2, <3>1, <3>2, ArtifactsForms
  <2>5. InBudget(g)
    BY <2>4 DEF InBudget
  <2>6. CASE g.status = "failed"
    BY <1>4, <2>1, <2>4, <2>5, <2>6
  <2>7. CASE g.status # "failed"
    <3>1. t = score_layer(g, "backend")
      BY <2>1, <2>7
    <3> QED BY <1>1, <1>4, <2>3, <2>4, <2>5, <3>1, ScoreEffect
  <2> QED BY <2>6, <2>7
<1> QED BY <1>2, <1>3, <1>4

\* validate_consistency_node changes only the channels listed here, and what
\* they may become.
LEMMA ConsistencyEffect ==
  ASSUME NEW s \in States, NEW t \in validate_consistency_node(s)
  PROVE  /\ t.artifacts = s.artifacts /\ t.schema = s.schema /\ t.retries = s.retries
         /\ \A l \in Layers : t.scores[l] = s.scores[l]
         /\ t.scores["consistency"] = ConsistencyScore(s.artifacts)
         /\ t.status = "consistency_validated"
<1>1. /\ t.artifacts = s.artifacts /\ t.schema = s.schema /\ t.retries = s.retries
      /\ t.scores = [s.scores EXCEPT !["consistency"] = ConsistencyScore(s.artifacts)]
      /\ t.status = "consistency_validated"
  BY DEF validate_consistency_node, States
<1>2. s.scores \in [Scored -> 0 .. 100]
  BY DEF States
<1> QED BY <1>1, <1>2 DEF Scored, Layers

\* validate_build_smoke_node changes only the channels listed here, and what
\* they may become.
LEMMA SmokeEffect ==
  ASSUME NEW s \in States, InBudget(s), NEW t \in validate_build_smoke_node(s)
  PROVE  /\ Kept(s, t) /\ InBudget(t)
         /\ t.status \in {"failed", "smoke_validated", "smoke_failed"}
<1>1. s.retries \in [Loops -> Nat] /\ "validation" \in Loops
  BY DEF States, Loops
<1>2. PICK g \in Gates :
           \/ t = [s EXCEPT !.validation = g, !.status = "failed"]
           \/ g = "open" /\ OverallX4(s) >= 400
                /\ t = [s EXCEPT !.validation = g, !.status = "smoke_validated"]
           \/ g = "open" /\ OverallX4(s) < 400 /\ s.retries["validation"] < MaxRetries
                /\ t = [s EXCEPT !.validation = g,
                                 !.retries["validation"] = s.retries["validation"] + 1,
                                 !.retryLayer = WeakestLayer(s), !.status = "smoke_failed"]
  BY SmokeForms
<1>3. CASE \/ t = [s EXCEPT !.validation = g, !.status = "failed"]
           \/ t = [s EXCEPT !.validation = g, !.status = "smoke_validated"]
  BY <1>3 DEF States, Kept, InBudget
<1>4. CASE /\ s.retries["validation"] < MaxRetries
           /\ t = [s EXCEPT !.validation = g,
                            !.retries["validation"] = s.retries["validation"] + 1,
                            !.retryLayer = WeakestLayer(s), !.status = "smoke_failed"]
  <2>1. /\ Kept(s, t) /\ t.status = "smoke_failed"
        /\ t.retries = [s.retries EXCEPT !["validation"] = s.retries["validation"] + 1]
    BY <1>4 DEF States, Kept
  <2>2. s.retries["validation"] + 1 <= MaxRetries
    BY <1>1, <1>4, BudgetAssumption
  <2>3. InBudget(t)
    BY <1>1, <2>1, <2>2 DEF InBudget
  <2> QED BY <2>1, <2>3
<1> QED BY <1>2, <1>3, <1>4

\* The review only resets counters, approves only with the gate open and a
\* full score or a reviewer's word, and asks for the schema again only for a
\* reviewer or below half the score.
LEMMA ReviewEffect ==
  ASSUME NEW s \in States, InBudget(s), NEW t \in validation_review_gate_node(s)
  PROVE  /\ Kept(s, t) /\ InBudget(t) /\ t.validation = s.validation
         /\ t.status \in {"failed", "cancelled", "package_approved", "retry_schema"}
              \union {retry_status[l] : l \in Layers}
         /\ t.status = "package_approved" =>
              s.validation = "open" /\ (OverallX4(s) >= 400 \/ call.validationReview = "approved")
         /\ t.status = "retry_schema" => call.validationReview = "retry_schema" \/ OverallX4(s) < 200
<1>1. s.retries \in [Loops -> Nat] /\ Layers \subseteq Loops /\ "schema" \in Loops /\ 0 <= MaxRetries
  BY BudgetAssumption DEF States, Loops
<1>2. \A l \in Layers : retry_status[l] \notin {"package_approved", "retry_schema"}
  BY DEF Layers, retry_status
<1>3. CASE t = [s EXCEPT !.status = "failed"] \/ t = [s EXCEPT !.status = "cancelled"]
  BY <1>3 DEF States, Kept, InBudget
<1>4. CASE /\ s.validation = "open"
           /\ OverallX4(s) >= 400 \/ call.validationReview = "approved"
           /\ t = [s EXCEPT !.status = "package_approved"]
  BY <1>4, StatusEffect DEF InBudget
<1>5. CASE \E l \in Layers : t = [s EXCEPT !.retries[l] = 0, !.status = retry_status[l]]
  <2>1. PICK l \in Layers : t = [s EXCEPT !.retries[l] = 0, !.status = retry_status[l]]
    BY <1>5
  <2>2. /\ Kept(s, t) /\ t.validation = s.validation /\ t.status = retry_status[l]
        /\ t.retries = [s.retries EXCEPT ![l] = 0]
    BY <2>1 DEF States, Kept
  <2>3. InBudget(t)
    BY <1>1, <2>2 DEF InBudget
  <2> QED BY <1>2, <2>2, <2>3
<1>6. CASE /\ call.validationReview = "retry_schema"
           /\ t = [s EXCEPT !.retries["schema"] = 0, !.status = "retry_schema"]
  <2>1. /\ Kept(s, t) /\ t.validation = s.validation /\ t.status = "retry_schema"
        /\ t.retries = [s.retries EXCEPT !["schema"] = 0]
    BY <1>6 DEF States, Kept
  <2>2. InBudget(t)
    BY <1>1, <2>1 DEF InBudget
  <2> QED BY <1>6, <2>1, <2>2
<1>7. CASE /\ OverallX4(s) < 200
           /\ t = [s EXCEPT !.retries = [r \in Loops |-> IF r = "crawl" THEN s.retries[r] ELSE 0],
                            !.status = "retry_schema"]
  <2>1. /\ Kept(s, t) /\ t.validation = s.validation /\ t.status = "retry_schema"
        /\ t.retries = [r \in Loops |-> IF r = "crawl" THEN s.retries[r] ELSE 0]
    BY <1>7 DEF States, Kept
  <2>2. InBudget(t)
    BY <1>1, <2>1 DEF InBudget
  <2> QED BY <1>7, <2>1, <2>2
<1>8. \/ t = [s EXCEPT !.status = "failed"] \/ t = [s EXCEPT !.status = "cancelled"]
      \/ /\ s.validation = "open"
         /\ OverallX4(s) >= 400 \/ call.validationReview = "approved"
         /\ t = [s EXCEPT !.status = "package_approved"]
      \/ \E l \in Layers : t = [s EXCEPT !.retries[l] = 0, !.status = retry_status[l]]
      \/ /\ call.validationReview = "retry_schema"
         /\ t = [s EXCEPT !.retries["schema"] = 0, !.status = "retry_schema"]
      \/ /\ OverallX4(s) < 200
         /\ t = [s EXCEPT !.retries = [r \in Loops |-> IF r = "crawl" THEN s.retries[r] ELSE 0],
                          !.status = "retry_schema"]
  BY ReviewForms
<1> QED BY <1>3, <1>4, <1>5, <1>6, <1>7, <1>8

-----------------------------------------------------------------------------
(* The steps.                                                              *)

\* What remains to be shown of a step that keeps the artifacts and the
\* consistency score.
LEMMA FrameStep ==
  ASSUME IInv, TypeOK', RetryBudget', LayersComplete', EntryStatus', BackendEntry', ExportEnds',
         UnapprovedPath', ApprovedPath', ExportedIsValidated', call' = call,
         state'.artifacts = state.artifacts,
         state'.scores["consistency"] = state.scores["consistency"],
         state'.status = "exported" => Approved(call),
         \/ state'.schema = state.schema
         \/ call.status \notin approved_statuses \/ call.validationReview = "retry_schema"
  PROVE  IInv'
<1>1. ConsistencyCurrent'
  BY DEF IInv, ConsistencyCurrent
<1>2. "package_export" \notin Capture \union Ends
  BY DEF Capture, Ends
<1>3. NoGenerationWithoutApproval'
  BY <1>2 DEF IInv, NoGenerationWithoutApproval, UnapprovedPath, Approved
<1>4. ApprovedSchemaKept'
  BY DEF IInv, ApprovedSchemaKept
<1> QED BY <1>1, <1>3, <1>4 DEF IInv

\* The same for a step that also keeps every score and stays out of the
\* nodes past a generated layer.
LEMMA QuietStep ==
  ASSUME IInv, TypeOK', call' = call, InBudget(state'),
         state'.artifacts = state.artifacts, state'.scores = state.scores,
         \/ state'.schema = state.schema
         \/ call.status \notin approved_statuses \/ call.validationReview = "retry_schema",
         pc' \notin AfterBackend, state'.status # "exported",
         EntryStatus', BackendEntry', UnapprovedPath', ApprovedPath'
  PROVE  IInv'
<1>1. RetryBudget'
  BY DEF RetryBudget, InBudget
<1>2. LayersComplete' /\ pc' # "package_export"
  BY DEF LayersComplete, AfterBackend, AfterFrontend, AfterAdmin
<1>3. ExportEnds' /\ ExportedIsValidated'
  BY <1>2 DEF ExportEnds, ExportedIsValidated
<1> QED BY <1>1, <1>2, <1>3, FrameStep

\* The action CrawlSite keeps the invariant.
LEMMA CrawlSiteStep ==
  ASSUME IInv, TypeOK', CrawlSite
  PROVE  IInv'
<1>1. PICK t \in crawl_site_node(state) : state' = t /\ pc' = route_after_crawl(t)
  BY DEF CrawlSite, Run
<1>2. pc = "crawl_site" /\ call' = call /\ state \in States /\ InBudget(state)
  BY DEF CrawlSite, Run, IInv, TypeOK, RetryBudget, InBudget
<1>3. /\ Kept(state, t) /\ t.retries = state.retries
      /\ IF state.status \in approved_statuses THEN t.status = state.status
                                               ELSE t.status \in {"crawled", "failed"}
  BY <1>2, CrawlEffect
<1>4. IF state.status \in approved_statuses
      THEN pc' \in {"mint_schema_version", "prepare_template_scaffold"}
      ELSE pc' \in {"sitemap_gate", "END_CANCELLED"}
  BY <1>1, <1>3 DEF route_after_crawl, approved_statuses
<1>5. ~Approved(call) => state.status \notin approved_statuses
  BY <1>2 DEF IInv, EntryStatus, Approved, approved_statuses
<1>6. UnapprovedPath'
  BY <1>2, <1>4, <1>5 DEF UnapprovedPath, Capture, Ends, Approved
<1>7. ApprovedPath'
  BY <1>2, <1>4 DEF IInv, ApprovedPath, Generation, AfterBackend, AfterFrontend, AfterAdmin
<1>8. EntryStatus' /\ BackendEntry' /\ pc' \notin AfterBackend /\ state'.status # "exported"
  BY <1>1, <1>3, <1>4 DEF EntryStatus, BackendEntry, AfterBackend, AfterFrontend, AfterAdmin, approved_statuses
<1> QED BY <1>1, <1>2, <1>3, <1>6, <1>7, <1>8, QuietStep DEF Kept, InBudget

\* The other nodes of the first half: an approved call does not run them
\* unless its reviewer asked for the schema again.
LEMMA CaptureOnly ==
  ASSUME IInv, pc \in Capture \ {"crawl_site"}
  PROVE  call.status \notin approved_statuses \/ call.validationReview = "retry_schema"
BY DEF IInv, ApprovedPath, Capture, Generation, Ends, AfterBackend, AfterFrontend, AfterAdmin

\* The capture and schema nodes keep the invariant, given what their own
\* lemma says of the channels.
LEMMA CaptureStep ==
  ASSUME IInv, TypeOK', call' = call, pc \in Capture \ {"crawl_site"}, InBudget(state'),
         state'.artifacts = state.artifacts, state'.scores = state.scores,
         state'.status # "exported",
         pc' \in Capture \union Ends \/ (pc' = "mint_schema_version" /\ Approved(call)),
         pc' = "crawl_site" => state'.status = "retry_crawl"
  PROVE  IInv'
<1>1. call.status \notin approved_statuses \/ call.validationReview = "retry_schema"
  BY CaptureOnly
<1>2. UnapprovedPath' /\ ApprovedPath' /\ EntryStatus'
  BY <1>1 DEF UnapprovedPath, ApprovedPath, EntryStatus, Approved
<1>3. pc' \notin AfterBackend /\ BackendEntry'
  BY DEF Capture, Ends, AfterBackend, AfterFrontend, AfterAdmin, BackendEntry
<1> QED BY <1>1, <1>2, <1>3, QuietStep

\* Each of the capture and schema actions keeps the invariant.
LEMMA CaptureSteps ==
  ASSUME IInv, TypeOK',
         SitemapGate \/ ExtractContent \/ InferCandidates \/ InferSchema \/ SchemaReviewGate
  PROVE  IInv'
<1>0. state \in States /\ InBudget(state)
  BY DEF IInv, TypeOK, RetryBudget, InBudget
<1>1. CASE SitemapGate
  <2>1. PICK t \in sitemap_gate_node(state) : state' = t /\ pc' = route_after_sitemap(t)
    BY <1>1 DEF SitemapGate, Run
  <2>2. Kept(state, t) /\ InBudget(t) /\ t.status \in {"retry_crawl", "sitemap_checked", "cancelled"}
    BY <1>0, SitemapEffect
  <2>3. /\ pc' \in {"END_CANCELLED", "crawl_site", "extract_content"}
        /\ pc' = "crawl_site" => t.status = "retry_crawl"
    BY <2>1, <2>2 DEF route_after_sitemap
  <2>4. pc \in Capture \ {"crawl_site"} /\ pc' \in Capture \union Ends /\ call' = call
    BY <1>1, <2>3 DEF SitemapGate, Run, Capture, Ends
  <2> QED BY <2>1, <2>2, <2>3, <2>4, CaptureStep DEF Kept
<1>2. CASE ExtractContent
  <2>1. PICK t \in extract_content_node(state) : state' = t /\ pc' = route_after_extract(t)
    BY <1>2 DEF ExtractContent, Run
  <2>2. Kept(state, t) /\ t.retries = state.retries /\ t.status \in {"extracted", "failed"}
    BY <1>0, ExtractEffect
  <2>3. pc' \in {"END_CANCELLED", "END", "infer_candidates"}
    BY <2>1 DEF route_after_extract
  <2>4. pc \in Capture \ {"crawl_site"} /\ pc' \in Capture \union Ends /\ pc' # "crawl_site" /\ call' = call
    BY <1>2, <2>3 DEF ExtractContent, Run, Capture, Ends
  <2> QED BY <1>0, <2>1, <2>2, <2>4, CaptureStep DEF Kept, InBudget
<1>3. CASE InferCandidates
  <2>1. PICK t \in infer_candidates_node(state) : state' = t /\ pc' = "infer_schema"
    BY <1>3 DEF InferCandidates, Run
  <2>2. Kept(state, t) /\ t.retries = state.retries /\ t.status \in {"candidates_inferred", "cancelled"}
    <3>1. t = [state EXCEPT !.status = "candidates_inferred"] \/ t = [state EXCEPT !.status = "cancelled"]
      BY <2>1 DEF infer_candidates_node
    <3> QED BY <1>0, <3>1, StatusEffect
  <2>3. pc \in Capture \ {"crawl_site"} /\ pc' \in Capture \union Ends /\ pc' # "crawl_site" /\ call' = call
    BY <1>3, <2>1 DEF InferCandidates, Run, Capture, Ends
  <2> QED BY <1>0, <2>1, <2>2, <2>3, CaptureStep DEF Kept, InBudget
<1>4. CASE InferSchema
  <2>1. PICK t \in infer_schema_node(state) : state' = t /\ pc' = route_after_infer_schema(t)
    BY <1>4 DEF InferSchema, Run
  <2>2. /\ t.artifacts = state.artifacts /\ t.scores = state.scores /\ t.retries = state.retries
        /\ t.status \in {"schema_proposed", "failed"}
    BY <1>0, InferEffect
  <2>3. pc' \in {"END_CANCELLED", "schema_review_gate"}
    BY <2>1 DEF route_after_infer_schema
  <2>4. pc \in Capture \ {"crawl_site"} /\ pc' \in Capture \union Ends /\ pc' # "crawl_site" /\ call' = call
    BY <1>4, <2>3 DEF InferSchema, Run, Capture, Ends
  <2> QED BY <1>0, <2>1, <2>2, <2>4, CaptureStep DEF InBudget
<1>5. CASE SchemaReviewGate
  <2>1. PICK t \in schema_review_gate_node(state) : state' = t /\ pc' = route_after_schema_review(t)
    BY <1>5 DEF SchemaReviewGate, Run
  <2>2. /\ Kept(state, t) /\ InBudget(t)
        /\ t.status \in {"cancelled", "schema_approved", "retry_schema", "awaiting_approval"}
        /\ t.status = "schema_approved" => call.schemaReview = "approved"
    BY <1>0, SchemaReviewEffect
  <2>3. \/ pc' \in {"END_CANCELLED", "END", "infer_schema"}
        \/ pc' = "mint_schema_version" /\ t.status = "schema_approved"
    BY <2>1, <2>2 DEF route_after_schema_review
  <2>4. pc \in Capture \ {"crawl_site"} /\ pc' # "crawl_site" /\ call' = call
    BY <1>5, <2>3 DEF SchemaReviewGate, Run, Capture
  <2>5. pc' \in Capture \union Ends \/ (pc' = "mint_schema_version" /\ Approved(call))
    BY <2>2, <2>3 DEF Capture, Ends, Approved
  <2> QED BY <2>1, <2>2, <2>4, <2>5, CaptureStep DEF Kept
<1> QED BY <1>1, <1>2, <1>3, <1>4, <1>5

\* The second half of the graph runs for approved calls only.
LEMMA GenerationOnly ==
  ASSUME IInv, pc \in Generation
  PROVE  Approved(call)
BY DEF IInv, UnapprovedPath, Capture, Generation, Ends, AfterBackend, AfterFrontend, AfterAdmin

\* The actions from minting the schema to the scaffold keep the invariant.
LEMMA EntrySteps ==
  ASSUME IInv, TypeOK', MintSchemaVersion \/ GenerationGate \/ PrepareScaffold
  PROVE  IInv'
<1>0. state \in States /\ InBudget(state)
  BY DEF IInv, TypeOK, RetryBudget, InBudget
<1>1. ASSUME pc \in Generation, call' = call, NEW t, state' = t, Kept(state, t), t.retries = state.retries,
             pc' \in {"generation_gate", "prepare_template_scaffold", "generate_backend", "END_CANCELLED"},
             t.status # "exported", pc' = "generate_backend" => t.status = "template_ready"
      PROVE  IInv'
  <2>1. UnapprovedPath' /\ ApprovedPath' /\ EntryStatus' /\ BackendEntry'
    BY <1>1, GenerationOnly DEF UnapprovedPath, ApprovedPath, EntryStatus, BackendEntry, Approved, Generation, Ends
  <2>2. pc' \notin AfterBackend
    BY <1>1 DEF AfterBackend, AfterFrontend, AfterAdmin
  <2> QED BY <1>0, <1>1, <2>1, <2>2, QuietStep DEF Kept, InBudget
<1>2. CASE MintSchemaVersion
  <2>1. PICK t \in mint_schema_version_node(state) : state' = t /\ pc' = "generation_gate"
    BY <1>2 DEF MintSchemaVersion, Run
  <2>2. pc \in Generation /\ call' = call
    BY <1>2 DEF MintSchemaVersion, Run, Generation
  <2>3. Kept(state, t) /\ t.retries = state.retries /\ t.status = "schema_minted"
    BY <1>0, MintEffect
  <2> QED BY <1>1, <2>1, <2>2, <2>3
<1>3. CASE GenerationGate
  <2>1. PICK t \in generation_gate_node(state) : state' = t /\ pc' = route_after_generation_gate(t)
    BY <1>3 DEF GenerationGate, Run
  <2>2. pc \in Generation /\ call' = call
    BY <1>3 DEF GenerationGate, Run, Generation
  <2>3. Kept(state, t) /\ t.retries = state.retries /\ t.status \in {"generation_approved", "cancelled"}
    BY <1>0, GenerationGateEffect
  <2>4. pc' \in {"prepare_template_scaffold", "END_CANCELLED"}
    BY <2>1 DEF route_after_generation_gate
  <2> QED BY <1>1, <2>1, <2>2, <2>3, <2>4
<1>4. CASE PrepareScaffold
  <2>1. PICK t \in prepare_template_scaffold_node(state) : state' = t /\ pc' = route_after_scaffold(t)
    BY <1>4 DEF PrepareScaffold, Run
  <2>2. pc \in Generation /\ call' = call
    BY <1>4 DEF PrepareScaffold, Run, Generation
  <2>3. Kept(state, t) /\ t.retries = state.retries /\ t.status \in {"template_ready", "failed"}
    BY <1>0, ScaffoldEffect
  <2>4. /\ pc' \in {"generate_backend", "END_CANCELLED"}
        /\ pc' = "generate_backend" => t.status = "template_ready"
    BY <2>1 DEF route_after_scaffold
  <2> QED BY <1>1, <2>1, <2>2, <2>3, <2>4
<1> QED BY <1>2, <1>3, <1>4

\* The action GenerateBackend keeps the invariant.
LEMMA GenerateBackendStep ==
  ASSUME IInv, TypeOK', GenerateBackend
  PROVE  IInv'
<1>0. state \in States /\ InBudget(state)
  BY DEF IInv, TypeOK, RetryBudget, InBudget
<1>1. PICK t \in generate_backend_node(state) : state' = t /\ pc' = route_after_backend(t)
  BY DEF GenerateBackend, Run
<1>2. pc = "generate_backend" /\ call' = call /\ Approved(call)
  BY GenerationOnly DEF GenerateBackend, Run, Generation
<1>3. /\ t.schema = state.schema /\ InBudget(t)
      /\ \/ t.artifacts = state.artifacts
         \/ state.artifacts = NoArtifacts /\ t.artifacts.source = state.schema
      /\ \A k \in Scored \ {"backend"} : t.scores[k] = state.scores[k]
      /\ \/ t = state
         \/ /\ t.status = "backend_generated"
            /\ t.scores["backend"] = 100 /\ LayerScore(t.artifacts, "backend") = 100
         \/ t.status \in {"backend_needs_retry", "failed"}
  BY <1>0, BackendEffect
<1>4. state.status \in {"template_ready", "backend_needs_retry", "retry_backend"}
  BY <1>2 DEF IInv, BackendEntry
<1>5. \/ pc' \in {"END_CANCELLED"}
      \/ pc' = "generate_backend" /\ t.status = "backend_needs_retry"
      \/ pc' = "generate_frontend" /\ t.scores["backend"] = 100 /\ LayerScore(t.artifacts, "backend") = 100
  BY <1>1, <1>3, <1>4 DEF route_after_backend
<1>6. t.status # "exported"
  BY <1>3, <1>4
<1>7. RetryBudget' /\ EntryStatus' /\ BackendEntry' /\ ExportEnds'
  BY <1>1, <1>3, <1>5, <1>6 DEF RetryBudget, InBudget, EntryStatus, BackendEntry, ExportEnds
<1>8. LayersComplete'
  BY <1>1, <1>5 DEF LayersComplete, Complete, AfterBackend, AfterFrontend, AfterAdmin
<1>9. ConsistencyCurrent'
  <2>1. "consistency" \in Scored \ {"backend"}
    BY DEF Scored
  <2> QED BY <1>1, <1>3, <2>1 DEF IInv, ConsistencyCurrent
<1>10. UnapprovedPath' /\ NoGenerationWithoutApproval'
  BY <1>2 DEF UnapprovedPath, NoGenerationWithoutApproval, Approved
<1>11. ApprovedPath'
  BY <1>2, <1>5 DEF ApprovedPath, Generation, AfterBackend, AfterFrontend, Ends
<1>12. ExportedIsValidated'
  BY <1>1, <1>5, <1>6 DEF ExportedIsValidated
<1>13. ApprovedSchemaKept'
  BY <1>1, <1>2, <1>3 DEF IInv, ApprovedSchemaKept
<1> QED BY <1>7, <1>8, <1>9, <1>10, <1>11, <1>12, <1>13 DEF IInv

\* The action GenerateFrontend keeps the invariant.
LEMMA GenerateFrontendStep ==
  ASSUME IInv, TypeOK', GenerateFrontend
  PROVE  IInv'
<1>0. state \in States /\ InBudget(state) /\ "frontend" \in Layers
      /\ generated_status["frontend"] = "frontend_generated"
      /\ needs_retry_status["frontend"] = "frontend_needs_retry"
  BY DEF IInv, TypeOK, RetryBudget, InBudget, Layers, generated_status, needs_retry_status
<1>1. PICK t \in generate_frontend_node(state) : state' = t /\ pc' = route_after_frontend(t)
  BY DEF GenerateFrontend, Run
<1>2. pc = "generate_frontend" /\ call' = call /\ Approved(call)
  BY GenerationOnly DEF GenerateFrontend, Run, Generation, AfterBackend
<1>3. /\ t.artifacts = state.artifacts /\ t.schema = state.schema /\ InBudget(t)
      /\ \A k \in Scored \ {"frontend"} : t.scores[k] = state.scores[k]
      /\ \/ /\ t.status = "frontend_generated"
            /\ t.scores["frontend"] = 100 /\ LayerScore(t.artifacts, "frontend") = 100
         \/ t.status \in {"frontend_needs_retry", "failed"}
  BY <1>0, <1>1, ScoreEffect DEF generate_frontend_node
<1>4. Complete("backend") /\ "backend" \in Scored \ {"frontend"} /\ "consistency" \in Scored \ {"frontend"}
  BY <1>2 DEF IInv, LayersComplete, AfterBackend, Scored, Layers
<1>5. \/ pc' \in {"END_CANCELLED", "generate_frontend"}
      \/ pc' = "generate_admin" /\ t.scores["frontend"] = 100 /\ LayerScore(t.artifacts, "frontend") = 100
  BY <1>1, <1>3 DEF route_after_frontend
<1>6. LayersComplete'
  BY <1>1, <1>3, <1>4, <1>5 DEF LayersComplete, Complete, AfterBackend, AfterFrontend, AfterAdmin
<1>7. RetryBudget' /\ EntryStatus' /\ BackendEntry' /\ ExportEnds' /\ ExportedIsValidated' /\ t.status # "exported"
  BY <1>1, <1>3, <1>5 DEF RetryBudget, InBudget, EntryStatus, BackendEntry, ExportEnds, ExportedIsValidated
<1>8. UnapprovedPath' /\ ApprovedPath'
  BY <1>2, <1>5 DEF UnapprovedPath, ApprovedPath, Approved, Generation, AfterBackend, AfterFrontend, Ends
<1> QED BY <1>1, <1>2, <1>3, <1>4, <1>6, <1>7, <1>8, FrameStep

\* The action GenerateAdmin keeps the invariant.
LEMMA GenerateAdminStep ==
  ASSUME IInv, TypeOK', GenerateAdmin
  PROVE  IInv'
<1>0. state \in States /\ InBudget(state) /\ "admin" \in Layers
      /\ generated_status["admin"] = "admin_generated"
      /\ needs_retry_status["admin"] = "admin_needs_retry"
  BY DEF IInv, TypeOK, RetryBudget, InBudget, Layers, generated_status, needs_retry_status
<1>1. PICK t \in generate_admin_node(state) : state' = t /\ pc' = route_after_admin(t)
  BY DEF GenerateAdmin, Run
<1>2. pc = "generate_admin" /\ call' = call /\ Approved(call)
  BY GenerationOnly DEF GenerateAdmin, Run, Generation, AfterBackend, AfterFrontend
<1>3. /\ t.artifacts = state.artifacts /\ t.schema = state.schema /\ InBudget(t)
      /\ \A k \in Scored \ {"admin"} : t.scores[k] = state.scores[k]
      /\ \/ /\ t.status = "admin_generated"
            /\ t.scores["admin"] = 100 /\ LayerScore(t.artifacts, "admin") = 100
         \/ t.status \in {"admin_needs_retry", "failed"}
  BY <1>0, <1>1, ScoreEffect DEF generate_admin_node
<1>4. /\ Complete("backend") /\ Complete("frontend")
      /\ {"backend", "frontend", "consistency"} \subseteq Scored \ {"admin"}
  BY <1>2 DEF IInv, LayersComplete, AfterBackend, AfterFrontend, Scored, Layers
<1>5. \/ pc' \in {"END_CANCELLED", "generate_admin"}
      \/ pc' = "validate_consistency" /\ t.scores["admin"] = 100 /\ LayerScore(t.artifacts, "admin") = 100
  BY <1>1, <1>3 DEF route_after_admin
<1>6. LayersComplete'
  BY <1>1, <1>3, <1>4, <1>5 DEF LayersComplete, Complete, AfterBackend, AfterFrontend, AfterAdmin
<1>7. RetryBudget' /\ EntryStatus' /\ BackendEntry' /\ ExportEnds' /\ ExportedIsValidated' /\ t.status # "exported"
  BY <1>1, <1>3, <1>5 DEF RetryBudget, InBudget, EntryStatus, BackendEntry, ExportEnds, ExportedIsValidated
<1>8. UnapprovedPath' /\ ApprovedPath'
  BY <1>2, <1>5 DEF UnapprovedPath, ApprovedPath, Approved, Generation, AfterBackend, AfterFrontend, AfterAdmin, Ends
<1> QED BY <1>1, <1>2, <1>3, <1>4, <1>6, <1>7, <1>8, FrameStep

\* The action ValidateConsistency keeps the invariant.
LEMMA ValidateConsistencyStep ==
  ASSUME IInv, TypeOK', ValidateConsistency
  PROVE  IInv'
<1>0. state \in States /\ InBudget(state)
  BY DEF IInv, TypeOK, RetryBudget, InBudget
<1>1. PICK t \in validate_consistency_node(state) : state' = t /\ pc' = "validate_build_smoke"
  BY DEF ValidateConsistency, Run
<1>2. pc = "validate_consistency" /\ call' = call /\ Approved(call)
  BY GenerationOnly DEF ValidateConsistency, Run, Generation, AfterBackend, AfterFrontend, AfterAdmin
<1>3. /\ t.artifacts = state.artifacts /\ t.schema = state.schema /\ t.retries = state.retries
      /\ \A l \in Layers : t.scores[l] = state.scores[l]
      /\ t.scores["consistency"] = ConsistencyScore(state.artifacts)
      /\ t.status = "consistency_validated"
  BY <1>0, <1>1, ConsistencyEffect
<1>4. Complete("backend") /\ Complete("frontend") /\ Complete("admin")
  BY <1>2 DEF IInv, LayersComplete, AfterBackend, AfterFrontend, AfterAdmin
<1>5. LayersComplete'
  BY <1>1, <1>3, <1>4 DEF LayersComplete, Complete, AfterBackend, AfterFrontend, AfterAdmin, Layers
<1>6. state.artifacts # NoArtifacts
  BY <1>4 DEF Complete, LayerScore
<1>7. ConsistencyCurrent'
  BY <1>1, <1>3, <1>6 DEF ConsistencyCurrent
<1>8. RetryBudget' /\ EntryStatus' /\ BackendEntry' /\ ExportEnds' /\ ExportedIsValidated'
  BY <1>0, <1>1, <1>3 DEF RetryBudget, InBudget, EntryStatus, BackendEntry, ExportEnds, ExportedIsValidated
<1>9. UnapprovedPath' /\ ApprovedPath' /\ NoGenerationWithoutApproval'
  BY <1>1, <1>2 DEF UnapprovedPath, ApprovedPath, NoGenerationWithoutApproval, Approved, Generation, AfterBackend,
                    AfterFrontend, AfterAdmin
<1>10. ApprovedSchemaKept'
  BY <1>1, <1>2, <1>3 DEF IInv, ApprovedSchemaKept
<1> QED BY <1>5, <1>7, <1>8, <1>9, <1>10 DEF IInv

\* The action ValidateBuildSmoke keeps the invariant.
LEMMA ValidateBuildSmokeStep ==
  ASSUME IInv, TypeOK', ValidateBuildSmoke
  PROVE  IInv'
<1>0. state \in States /\ InBudget(state)
  BY DEF IInv, TypeOK, RetryBudget, InBudget
<1>1. PICK t \in validate_build_smoke_node(state) : state' = t /\ pc' = route_after_smoke(t)
  BY DEF ValidateBuildSmoke, Run
<1>2. pc = "validate_build_smoke" /\ call' = call /\ Approved(call)
  BY GenerationOnly DEF ValidateBuildSmoke, Run, Generation, AfterBackend, AfterFrontend, AfterAdmin
<1>3. /\ Kept(state, t) /\ InBudget(t)
      /\ t.status \in {"failed", "smoke_validated", "smoke_failed"}
  BY <1>0, SmokeEffect
<1>4. pc' \in {"validation_review_gate", "END_CANCELLED"}
  BY <1>1 DEF route_after_smoke
<1>5. LayersComplete'
  BY <1>1, <1>2, <1>3, <1>4
  DEF IInv, LayersComplete, Complete, Kept, AfterBackend, AfterFrontend, AfterAdmin
<1>6. RetryBudget' /\ EntryStatus' /\ BackendEntry' /\ ExportEnds' /\ ExportedIsValidated' /\ t.status # "exported"
  BY <1>1, <1>3, <1>4 DEF RetryBudget, InBudget, EntryStatus, BackendEntry, ExportEnds, ExportedIsValidated
<1>7. UnapprovedPath' /\ ApprovedPath'
  BY <1>2, <1>4 DEF UnapprovedPath, ApprovedPath, Approved, Generation, AfterBackend, AfterFrontend, AfterAdmin, Ends
<1> QED BY <1>1, <1>2, <1>3, <1>5, <1>6, <1>7, FrameStep DEF Kept

\* At the review the layers are complete, so a full score means consistent
\* artifacts, and the score is never below half.
LEMMA ReviewScores ==
  ASSUME IInv, pc = "validation_review_gate"
  PROVE  /\ OverallX4(state) >= 400 => ConsistencyScore(state.artifacts) = 100
         /\ ~(OverallX4(state) < 200)
         /\ \A l \in Layers : LayerScore(state.artifacts, l) = 100
<1>1. Complete("backend") /\ Complete("frontend") /\ Complete("admin")
  BY DEF IInv, LayersComplete, AfterBackend, AfterFrontend, AfterAdmin
<1>2. state.scores["consistency"] \in 0 .. 100
  BY DEF IInv, TypeOK, States, Scored
<1>3. OverallX4(state) = 300 + state.scores["consistency"]
  BY <1>1, <1>2 DEF OverallX4, Complete
<1>4. OverallX4(state) >= 400 => state.scores["consistency"] = 100
  BY <1>2, <1>3
<1>5. state.scores["consistency"] = 100 => ConsistencyScore(state.artifacts) = 100
  BY DEF IInv, ConsistencyCurrent
<1>6. ~(OverallX4(state) < 200)
  BY <1>2, <1>3
<1>7. \A l \in Layers : LayerScore(state.artifacts, l) = 100
  BY <1>1 DEF Layers, Complete
<1> QED BY <1>4, <1>5, <1>6, <1>7

\* The action ValidationReview keeps the invariant.
LEMMA ValidationReviewStep ==
  ASSUME IInv, TypeOK', ValidationReviewGate
  PROVE  IInv'
<1>0. state \in States /\ InBudget(state)
  BY DEF IInv, TypeOK, RetryBudget, InBudget
<1>1. PICK t \in validation_review_gate_node(state) : state' = t /\ pc' = route_after_validation_review(t)
  BY DEF ValidationReviewGate, Run
<1>2. pc = "validation_review_gate" /\ call' = call /\ Approved(call)
  BY GenerationOnly DEF ValidationReviewGate, Run, Generation, AfterBackend, AfterFrontend, AfterAdmin
<1>3. /\ Kept(state, t) /\ InBudget(t) /\ t.validation = state.validation
      /\ t.status \in {"failed", "cancelled", "package_approved", "retry_schema"}
           \union {retry_status[l] : l \in Layers}
      /\ t.status = "package_approved" =>
           state.validation = "open" /\ (OverallX4(state) >= 400 \/ call.validationReview = "approved")
      /\ t.status = "retry_schema" => call.validationReview = "retry_schema" \/ OverallX4(state) < 200
  BY <1>0, ReviewEffect
<1>4. {retry_status[l] : l \in Layers} = {"retry_backend", "retry_frontend", "retry_admin"}
  BY DEF Layers, retry_status
<1>5. \/ pc' = "package_export" /\ t.status = "package_approved"
      \/ pc' = "generate_backend" /\ t.status = "retry_backend"
      \/ pc' = "infer_schema" /\ t.status = "retry_schema"
      \/ pc' \in {"generate_frontend", "generate_admin", "END_CANCELLED"}
  BY <1>1, <1>3 DEF route_after_validation_review
<1>6. LayersComplete'
  BY <1>1, <1>2, <1>3 DEF IInv, LayersComplete, Complete, Kept, AfterBackend, AfterFrontend, AfterAdmin
<1>7. RetryBudget' /\ EntryStatus' /\ BackendEntry'
  BY <1>1, <1>3, <1>5 DEF RetryBudget, InBudget, EntryStatus, BackendEntry
<1>8. t.status # "exported"
  BY <1>3, <1>4
<1>9. ExportEnds'
  BY <1>1, <1>8 DEF ExportEnds
<1>10. ExportedIsValidated'
  BY <1>1, <1>2, <1>3, <1>5, <1>8, ReviewScores DEF ExportedIsValidated, Kept
<1>11. UnapprovedPath'
  BY <1>2 DEF UnapprovedPath, Approved
<1>12. ApprovedPath'
  BY <1>2, <1>3, <1>5, ReviewScores
  DEF ApprovedPath, Generation, AfterBackend, AfterFrontend, AfterAdmin, Ends
<1> QED BY <1>1, <1>2, <1>3, <1>6, <1>7, <1>8, <1>9, <1>10, <1>11, <1>12, FrameStep DEF Kept

\* The action PackageExport keeps the invariant.
LEMMA PackageExportStep ==
  ASSUME IInv, TypeOK', PackageExport
  PROVE  IInv'
<1>0. state \in States /\ InBudget(state)
  BY DEF IInv, TypeOK, RetryBudget, InBudget
<1>1. PICK t \in package_export_node(state) : state' = t /\ pc' = "END"
  BY DEF PackageExport, Run
<1>2. pc = "package_export" /\ call' = call /\ Approved(call)
  BY GenerationOnly DEF PackageExport, Run, Generation, AfterBackend, AfterFrontend, AfterAdmin
<1>3. Kept(state, t) /\ t.retries = state.retries /\ t.status = "exported" /\ t.validation = state.validation
  BY <1>0, StatusEffect DEF package_export_node
<1>4. ExportedIsValidated'
  BY <1>1, <1>2, <1>3 DEF IInv, ExportedIsValidated, Kept
<1>5. LayersComplete' /\ UnapprovedPath' /\ ApprovedPath'
  BY <1>1, <1>2 DEF LayersComplete, UnapprovedPath, ApprovedPath, AfterBackend, AfterFrontend, AfterAdmin, Ends
<1>6. RetryBudget' /\ EntryStatus' /\ BackendEntry' /\ ExportEnds'
  BY <1>0, <1>1, <1>3 DEF RetryBudget, InBudget, EntryStatus, BackendEntry, ExportEnds
<1> QED BY <1>1, <1>2, <1>3, <1>4, <1>5, <1>6, FrameStep DEF Kept

\* The cancelling node and the two ways of raising keep the invariant.
LEMMA EndSteps ==
  ASSUME IInv, TypeOK', EndCancelled \/ CrawlRaises \/ GraphRecursionError
  PROVE  IInv'
<1>0. state \in States /\ InBudget(state)
  BY DEF IInv, TypeOK, RetryBudget, InBudget
<1>1. /\ call' = call /\ pc' \in {"END", "RAISED"} /\ pc # "END"
      /\ \/ state' = state
         \/ /\ Kept(state, state') /\ state'.retries = state.retries
            /\ state'.status = "cancelled"
  <2>1. CASE EndCancelled
    <3>1. state' = [state EXCEPT !.status = "cancelled"]
      BY <2>1 DEF EndCancelled, Run, end_cancelled_node
    <3> QED BY <1>0, <2>1, <3>1, StatusEffect DEF EndCancelled, Run
  <2>2. CASE CrawlRaises \/ GraphRecursionError
    BY <2>2 DEF CrawlRaises, GraphRecursionError
  <2> QED BY <2>1, <2>2
<1>2. state'.status # "exported"
  BY <1>1 DEF IInv, ExportEnds
<1>3. pc' \notin AfterBackend /\ EntryStatus' /\ BackendEntry' /\ UnapprovedPath' /\ ApprovedPath'
  BY <1>1 DEF AfterBackend, AfterFrontend, AfterAdmin, EntryStatus, BackendEntry, UnapprovedPath, ApprovedPath, Ends
<1> QED BY <1>0, <1>1, <1>2, <1>3, QuietStep DEF Kept, InBudget

\* The invariant holds of what callers pass.
LEMMA InitInvariant == Init => IInv
<1> SUFFICES ASSUME Init PROVE IInv
  OBVIOUS
<1>1. TypeOK
  BY InitTyped
<1>2. call.status \in JobStatus \union approved_statuses
  BY CallsAssumption DEF Init, CallSpace
<1>3. call.status # "exported"
  BY <1>2 DEF JobStatus, approved_statuses
<1>4. /\ pc = "crawl_site" /\ state.status = call.status /\ state.schema = call.schema
      /\ state.artifacts = call.artifacts
      /\ state.scores = [l \in Scored |-> 0] /\ state.retries = [r \in Loops |-> 0]
  BY DEF Init, InitialState
<1>5. RetryBudget
  BY <1>4, BudgetAssumption DEF RetryBudget
<1>6. LayersComplete /\ ConsistencyCurrent
  BY <1>4 DEF LayersComplete, ConsistencyCurrent, AfterBackend, AfterFrontend, AfterAdmin, Scored
<1>7. EntryStatus /\ BackendEntry /\ ExportEnds /\ UnapprovedPath /\ ApprovedPath
  BY <1>3, <1>4 DEF EntryStatus, BackendEntry, ExportEnds, UnapprovedPath, ApprovedPath, Capture
<1>8. ExportedIsValidated /\ NoGenerationWithoutApproval /\ ApprovedSchemaKept
  BY <1>3, <1>4 DEF ExportedIsValidated, NoGenerationWithoutApproval, ApprovedSchemaKept
<1> QED BY <1>1, <1>5, <1>6, <1>7, <1>8 DEF IInv

\* Every action preserves the invariant: one lemma per node above.
LEMMA NextInvariant == IInv /\ [Next]_vars => IInv'
<1> SUFFICES ASSUME IInv, [Next]_vars PROVE IInv'
  OBVIOUS
<1>1. TypeOK'
  BY NextTyped DEF IInv
<1>2. CASE UNCHANGED vars
  BY <1>2 DEF vars, IInv, TypeOK, RetryBudget, LayersComplete, Complete, ConsistencyCurrent, EntryStatus,
              BackendEntry, ExportEnds, UnapprovedPath, ApprovedPath, ExportedIsValidated,
              NoGenerationWithoutApproval, ApprovedSchemaKept
<1>3. CASE CrawlSite
  BY <1>1, <1>3, CrawlSiteStep
<1>4. CASE SitemapGate \/ ExtractContent \/ InferCandidates \/ InferSchema \/ SchemaReviewGate
  BY <1>1, <1>4, CaptureSteps
<1>5. CASE MintSchemaVersion \/ GenerationGate \/ PrepareScaffold
  BY <1>1, <1>5, EntrySteps
<1>6. CASE GenerateBackend
  BY <1>1, <1>6, GenerateBackendStep
<1>7. CASE GenerateFrontend
  BY <1>1, <1>7, GenerateFrontendStep
<1>8. CASE GenerateAdmin
  BY <1>1, <1>8, GenerateAdminStep
<1>9. CASE ValidateConsistency
  BY <1>1, <1>9, ValidateConsistencyStep
<1>10. CASE ValidateBuildSmoke
  BY <1>1, <1>10, ValidateBuildSmokeStep
<1>11. CASE ValidationReviewGate
  BY <1>1, <1>11, ValidationReviewStep
<1>12. CASE PackageExport
  BY <1>1, <1>12, PackageExportStep
<1>13. CASE EndCancelled \/ CrawlRaises \/ GraphRecursionError
  BY <1>1, <1>13, EndSteps
<1> QED
  BY <1>2, <1>3, <1>4, <1>5, <1>6, <1>7, <1>8, <1>9, <1>10, <1>11, <1>12, <1>13 DEF Next

\* The invariant holds in every behaviour.
LEMMA Invariant == Spec => []IInv
<1>1. Init => IInv
  BY InitInvariant
<1>2. IInv /\ [Next]_vars => IInv'
  BY NextInvariant
<1> QED BY <1>1, <1>2, PTL DEF Spec

-----------------------------------------------------------------------------
(* The theorems.                                                           *)

\* The channels and the control hold values of their types (state.py,
\* ConversionState), for every provider, retry budget and call.
THEOREM TypeCorrect == Spec => []TypeOK
<1>1. IInv => TypeOK
  BY DEF IInv
<1> QED BY <1>1, Invariant, PTL

\* No retry counter of resilient_nodes.py passes max_retries, for every
\* budget and whatever counters the validation review resets.
THEOREM RetriesInBudget == Spec => []RetryBudget
<1>1. IInv => RetryBudget
  BY DEF IInv
<1> QED BY <1>1, Invariant, PTL

\* Only artifacts with an open build gate, three complete layers and (unless
\* a reviewer said otherwise) full consistency are packaged by
\* package_export_node.
THEOREM OnlyValidatedIsExported == Spec => []ExportedIsValidated
<1>1. IInv => ExportedIsValidated
  BY DEF IInv
<1> QED BY <1>1, Invariant, PTL

\* A call without an approval generates and packages nothing.
THEOREM GenerationIsApproved == Spec => []NoGenerationWithoutApproval
<1>1. IInv => NoGenerationWithoutApproval
  BY DEF IInv
<1> QED BY <1>1, Invariant, PTL

\* No retry loop of the graph replaces the proposal an approved call started
\* with, or builds artifacts from another one.
THEOREM ApprovedSchemaSurvives == Spec => []ApprovedSchemaKept
<1>1. IInv => ApprovedSchemaKept
  BY DEF IInv
<1> QED BY <1>1, Invariant, PTL

\* No action replaces artifacts there already are.
LEMMA ArtifactsStep ==
  ASSUME IInv, [Next]_vars, state.artifacts # NoArtifacts
  PROVE  state'.artifacts = state.artifacts
<1>0. state \in States /\ InBudget(state)
  BY DEF IInv, TypeOK, RetryBudget, InBudget
<1>1. CASE CrawlSite \/ SitemapGate \/ ExtractContent
  BY <1>0, <1>1, CrawlEffect, SitemapEffect, ExtractEffect
  DEF CrawlSite, SitemapGate, ExtractContent, Run, Kept
<1>2. CASE InferCandidates
  <2>1. \/ state' = [state EXCEPT !.status = "candidates_inferred"]
        \/ state' = [state EXCEPT !.status = "cancelled"]
    BY <1>2 DEF InferCandidates, Run, infer_candidates_node
  <2> QED BY <1>0, <2>1, StatusEffect DEF Kept
<1>3. CASE InferSchema \/ SchemaReviewGate
  BY <1>0, <1>3, InferEffect, SchemaReviewEffect DEF InferSchema, SchemaReviewGate, Run, Kept
<1>4. CASE MintSchemaVersion \/ GenerationGate \/ PrepareScaffold
  BY <1>0, <1>4, MintEffect, GenerationGateEffect, ScaffoldEffect
  DEF MintSchemaVersion, GenerationGate, PrepareScaffold, Run, Kept
<1>5. CASE GenerateBackend
  BY <1>0, <1>5, BackendEffect DEF GenerateBackend, Run
<1>6. CASE GenerateFrontend \/ GenerateAdmin
  <2>1. {"frontend", "admin"} \subseteq Layers
    BY DEF Layers
  <2>2. \E l \in Layers : state' = score_layer(state, l)
    BY <1>6, <2>1 DEF GenerateFrontend, GenerateAdmin, Run, generate_frontend_node, generate_admin_node
  <2> QED BY <1>0, <2>2, ScoreEffect
<1>7. CASE ValidateConsistency \/ ValidateBuildSmoke \/ ValidationReviewGate
  BY <1>0, <1>7, ConsistencyEffect, SmokeEffect, ReviewEffect
  DEF ValidateConsistency, ValidateBuildSmoke, ValidationReviewGate, Run, Kept
<1>8. CASE PackageExport \/ EndCancelled
  BY <1>0, <1>8, StatusEffect
  DEF PackageExport, EndCancelled, Run, package_export_node, end_cancelled_node, Kept
<1>9. CASE CrawlRaises \/ GraphRecursionError \/ UNCHANGED vars
  BY <1>9 DEF CrawlRaises, GraphRecursionError, vars
<1> QED
  BY <1>1, <1>2, <1>3, <1>4, <1>5, <1>6, <1>7, <1>8, <1>9 DEF Next

\* Once there are artifacts no node of the graph replaces them, in any
\* retry: generate_backend_node generates on the first pass only.
THEOREM ArtifactsAreKept == Spec => ArtifactsKept
<1>1. IInv /\ [Next]_vars => [state.artifacts # NoArtifacts => state'.artifacts = state.artifacts]_vars
  BY ArtifactsStep
<1> QED BY <1>1, Invariant, PTL DEF Spec, ArtifactsKept

-----------------------------------------------------------------------------
(* The length of a run.  What a run may still need depends on the node it  *)
(* is at: a layer that was found incomplete is scored until its budget is  *)
(* used, and nothing follows; complete layers that do not agree go round   *)
(* from a layer to the review, six nodes, once per validation retry.       *)

Validations == state.retries["validation"]

\* At most n supersteps are left of the run.
LeftAtMost(n) == steps + n <= StepBudget(call)

\* A round of validation was lost because complete layers do not agree, which
\* no further round changes.
Inconsistent ==
  Validations > 0 =>
    /\ \A l \in Layers : LayerScore(state.artifacts, l) = 100
    /\ ConsistencyScore(state.artifacts) < 100

\* A layer is at its turn with n nodes ahead, or was found incomplete.
LayerPaced(l, n) ==
  IF state.status = needs_retry_status[l]
  THEN /\ state.artifacts # NoArtifacts /\ LayerScore(state.artifacts, l) # 100
       /\ LeftAtMost(MaxRetries - state.retries[l] + 2)
  ELSE LeftAtMost(n + 6 * (MaxRetries - Validations))

CapturePaced ==
  /\ pc = "crawl_site" => steps = 0
  /\ pc = "sitemap_gate" => state.pages /\ LeftAtMost(14 + 6 * MaxRetries)
  /\ pc = "extract_content" => LeftAtMost(13 + 6 * MaxRetries)
  /\ pc = "infer_candidates" => LeftAtMost(12 + 6 * MaxRetries)
  /\ pc = "infer_schema" =>
       IF call.schemaReview = "none" THEN LeftAtMost(2 * (MaxRetries - state.retries["schema"]) + 3)
       ELSE LeftAtMost(11 + 6 * MaxRetries)
  /\ pc = "schema_review_gate" =>
       IF call.schemaReview = "none" THEN LeftAtMost(2 * (MaxRetries - state.retries["schema"]) + 2)
       ELSE LeftAtMost(10 + 6 * MaxRetries)

GenerationPaced ==
  /\ pc = "mint_schema_version" => LeftAtMost(9 + 6 * MaxRetries)
  /\ pc = "generation_gate" => LeftAtMost(8 + 6 * MaxRetries)
  /\ pc = "prepare_template_scaffold" => LeftAtMost(7 + 6 * MaxRetries)
  /\ pc = "generate_backend" => LayerPaced("backend", 6)
  /\ pc = "generate_frontend" => LayerPaced("frontend", 5)
  /\ pc = "generate_admin" => LayerPaced("admin", 4)

ValidationPaced ==
  /\ pc = "validate_consistency" => LeftAtMost(3 + 6 * (MaxRetries - Validations))
  /\ pc = "validate_build_smoke" =>
       /\ state.scores["consistency"] = ConsistencyScore(state.artifacts)
       /\ LeftAtMost(2 + 6 * (MaxRetries - Validations))
  /\ pc = "validation_review_gate" =>
       IF state.status = "smoke_failed"
       THEN Validations > 0 /\ LeftAtMost(7 + 6 * (MaxRetries - Validations))
       ELSE LeftAtMost(2)
  /\ pc \in {"package_export", "END_CANCELLED"} => LeftAtMost(1)
  /\ pc \in {"END", "RAISED"} => LeftAtMost(0)

\* The nodes a run comes to before it first validates.
Before == Capture \union {"mint_schema_version", "generation_gate", "prepare_template_scaffold"}

Paced ==
  Settling(call) =>
    /\ Inconsistent
    /\ pc \in Before => Validations = 0
    /\ CapturePaced /\ GenerationPaced /\ ValidationPaced

\* The numbers the bounds are made of.
LEMMA PaceNumbers ==
  ASSUME IInv
  PROVE  /\ MaxRetries \in Nat \ {0} /\ steps \in Nat /\ StepBudget(call) \in Nat
         /\ StepBudget(call) >= 10 + 6 * MaxRetries
         /\ state \in States /\ \A r \in Loops : state.retries[r] \in 0 .. MaxRetries
         /\ Validations \in 0 .. MaxRetries
<1>1. MaxRetries \in Nat \ {0}
  BY BudgetAssumption
<1>2. steps \in Nat /\ state \in States
  BY BudgetAssumption DEF IInv, TypeOK
<1>3. StepBudget(call) \in Nat /\ StepBudget(call) >= 10 + 6 * MaxRetries
  BY <1>1 DEF StepBudget
<1>4. \A r \in Loops : state.retries[r] \in Nat /\ state.retries[r] <= MaxRetries
  BY <1>2 DEF IInv, RetryBudget, States
<1>5. "validation" \in Loops
  BY DEF Loops
<1> QED BY <1>1, <1>2, <1>3, <1>4, <1>5 DEF Validations

\* A step takes one superstep off what was left.
LEMMA PaceStep ==
  ASSUME IInv, call' = call, steps' = steps + 1, NEW n \in Int, NEW m \in Int,
         LeftAtMost(n), m <= n - 1
  PROVE  LeftAtMost(m)'
<1>1. steps \in Int /\ StepBudget(call) \in Int
  BY PaceNumbers
<1> QED BY <1>1 DEF LeftAtMost

\* A run that is about to end is paced.
LEMMA PacedAtEnd ==
  ASSUME Inconsistent', pc' = "END_CANCELLED" \/ pc' = "package_export", LeftAtMost(1)'
  PROVE  Paced'
BY DEF Paced, Before, Capture, CapturePaced, GenerationPaced, ValidationPaced

\* A run that has ended is paced.
LEMMA PacedAfter ==
  ASSUME Inconsistent', pc' \in {"END", "RAISED"}, LeftAtMost(0)'
  PROVE  Paced'
BY DEF Paced, Before, Capture, CapturePaced, GenerationPaced, ValidationPaced

\* The entry node.
LEMMA CrawlPace ==
  ASSUME IInv, TypeOK', Paced, Settling(call), CrawlSite
  PROVE  Paced'
<1>0. /\ MaxRetries \in Nat \ {0} /\ state \in States /\ pc = "crawl_site" /\ steps = 0
      /\ call' = call /\ steps' = steps + 1 /\ Validations = 0
  BY PaceNumbers DEF CrawlSite, Run, Paced, CapturePaced, Before, Capture
<1>1. PICK t \in crawl_site_node(state) : state' = t /\ pc' = route_after_crawl(t)
  BY DEF CrawlSite, Run
<1>2. call.status \in approved_statuses => state.status = call.status
  BY <1>0 DEF IInv, ApprovedPath, Settling
<1>3. t.retries = state.retries
  BY <1>0, CrawlEffect
<1>4. Validations' = 0 /\ Inconsistent'
  BY <1>0, <1>1, <1>3 DEF Validations, Inconsistent
<1>5. LeftAtMost(10 + 6 * MaxRetries)
  BY <1>0, PaceNumbers DEF LeftAtMost
<1>6. CASE state.status \in approved_statuses
  <2>1. pc' \in {"mint_schema_version", "prepare_template_scaffold"}
    BY <1>1, <1>6 DEF crawl_site_node, route_after_crawl, approved_statuses
  <2>2. LeftAtMost(9 + 6 * MaxRetries)' /\ LeftAtMost(7 + 6 * MaxRetries)'
    BY <1>0, <1>5, PaceStep
  <2> QED BY <1>4, <2>1, <2>2 DEF Paced, CapturePaced, GenerationPaced, ValidationPaced
<1>7. CASE state.status \notin approved_statuses
  <2>1. LeftAtMost(15 + 6 * MaxRetries)
    <3>1. call.status \notin approved_statuses
      BY <1>2, <1>7
    <3> QED BY <1>0, <3>1 DEF LeftAtMost, StepBudget
  <2>2. CASE t = [state EXCEPT !.pages = TRUE, !.status = "crawled"]
    <3>1. t.pages /\ t.status = "crawled"
      BY <1>0, <2>2 DEF States
    <3>2. pc' = "sitemap_gate" /\ state'.pages
      BY <1>1, <3>1 DEF route_after_crawl
    <3>3. LeftAtMost(14 + 6 * MaxRetries)'
      BY <1>0, <2>1, PaceStep
    <3> QED BY <1>4, <3>2, <3>3 DEF Paced, CapturePaced, GenerationPaced, ValidationPaced
  <2>3. CASE t = [state EXCEPT !.status = "failed"]
    <3>1. pc' = "END_CANCELLED"
      BY <1>0, <1>1, <2>3 DEF States, route_after_crawl
    <3>2. LeftAtMost(1)'
      BY <1>0, <2>1, PaceStep
    <3> QED BY <1>4, <3>1, <3>2, PacedAtEnd
  <2> QED BY <1>1, <1>7, <2>2, <2>3 DEF crawl_site_node
<1> QED BY <1>6, <1>7

\* What is left at the sitemap gate and the extraction.
LEMMA SitemapPace ==
  ASSUME IInv, TypeOK', Paced, Settling(call), SitemapGate \/ ExtractContent \/ InferCandidates
  PROVE  Paced'
<1>0. /\ MaxRetries \in Nat \ {0} /\ state \in States
      /\ call' = call /\ steps' = steps + 1 /\ Validations = 0 /\ InBudget(state)
  BY PaceNumbers DEF SitemapGate, ExtractContent, InferCandidates, Run, Paced, Before, Capture, InBudget
<1>1. CASE SitemapGate
  <2>1. pc = "sitemap_gate" /\ state.pages /\ LeftAtMost(14 + 6 * MaxRetries)
    BY <1>1 DEF SitemapGate, Run, Paced, CapturePaced
  <2>2. PICK t \in sitemap_gate_node(state) : state' = t /\ pc' = route_after_sitemap(t)
    BY <1>1 DEF SitemapGate, Run
  <2>3. t = [state EXCEPT !.status = "sitemap_checked"]
    BY <2>1, <2>2 DEF sitemap_gate_node
  <2>4. t.retries = state.retries /\ t.status = "sitemap_checked"
    BY <1>0, <2>3 DEF States
  <2>5. pc' = "extract_content" /\ Validations' = 0
    BY <1>0, <2>2, <2>4 DEF route_after_sitemap, Validations
  <2>6. LeftAtMost(13 + 6 * MaxRetries)'
    BY <1>0, <2>1, PaceStep
  <2> QED BY <2>5, <2>6 DEF Paced, Inconsistent, CapturePaced, GenerationPaced, ValidationPaced
<1>2. CASE ExtractContent
  <2>1. pc = "extract_content" /\ LeftAtMost(13 + 6 * MaxRetries)
    BY <1>2 DEF ExtractContent, Run, Paced, CapturePaced
  <2>2. PICK t \in extract_content_node(state) : state' = t /\ pc' = route_after_extract(t)
    BY <1>2 DEF ExtractContent, Run
  <2>3. t.retries = state.retries
    BY <1>0, <2>2, ExtractEffect
  <2>4. pc' \in {"END", "END_CANCELLED", "infer_candidates"} /\ Validations' = 0 /\ Inconsistent'
    BY <1>0, <2>2, <2>3 DEF route_after_extract, Validations, Inconsistent
  <2>5. LeftAtMost(12 + 6 * MaxRetries)' /\ LeftAtMost(1)' /\ LeftAtMost(0)'
    BY <1>0, <2>1, PaceStep
  <2>6. CASE pc' = "infer_candidates"
    BY <2>4, <2>5, <2>6 DEF Paced, CapturePaced, GenerationPaced, ValidationPaced
  <2> QED BY <2>4, <2>5, <2>6, PacedAtEnd, PacedAfter
<1>3. CASE InferCandidates
  <2>1. pc = "infer_candidates" /\ LeftAtMost(12 + 6 * MaxRetries)
    BY <1>3 DEF InferCandidates, Run, Paced, CapturePaced
  <2>2. PICK x : state' = [state EXCEPT !.status = x] /\ pc' = "infer_schema"
    BY <1>3 DEF InferCandidates, Run, infer_candidates_node
  <2>3. state'.retries = state.retries
    BY <1>0, <2>2 DEF States
  <2>4. PICK k \in 0 .. MaxRetries : k = state.retries["schema"]
    BY PaceNumbers DEF Loops
  <2>5. LeftAtMost(11 + 6 * MaxRetries)' /\ LeftAtMost(2 * (MaxRetries - k) + 3)'
    BY <1>0, <2>1, PaceStep
  <2>6. Validations' = 0 /\ Inconsistent'
    BY <1>0, <2>3 DEF Validations, Inconsistent
  <2> QED BY <2>2, <2>3, <2>4, <2>5, <2>6 DEF Paced, CapturePaced, GenerationPaced, ValidationPaced
<1> QED BY <1>1, <1>2, <1>3

\* What is left while the schema is inferred: a retry is only made when no
\* approval is waiting, so the two never add up.
LEMMA SchemaPace ==
  ASSUME IInv, TypeOK', Paced, Settling(call), InferSchema \/ SchemaReviewGate
  PROVE  Paced'
<1>0. /\ MaxRetries \in Nat \ {0} /\ state \in States
      /\ call' = call /\ steps' = steps + 1 /\ Validations = 0
  BY PaceNumbers DEF InferSchema, SchemaReviewGate, Run, Paced, Before, Capture
<1>1. PICK k \in 0 .. MaxRetries : k = state.retries["schema"]
  BY PaceNumbers DEF Loops
<1>2. CASE InferSchema
  <2>1. /\ pc = "infer_schema"
        /\ IF call.schemaReview = "none" THEN LeftAtMost(2 * (MaxRetries - k) + 3)
           ELSE LeftAtMost(11 + 6 * MaxRetries)
    BY <1>1, <1>2 DEF InferSchema, Run, Paced, CapturePaced
  <2>2. PICK t \in infer_schema_node(state) : state' = t /\ pc' = route_after_infer_schema(t)
    BY <1>2 DEF InferSchema, Run
  <2>3. t.retries = state.retries
    BY <1>0, <2>2, InferEffect
  <2>4. pc' \in {"END_CANCELLED", "schema_review_gate"} /\ Validations' = 0 /\ Inconsistent'
    BY <1>0, <2>2, <2>3 DEF route_after_infer_schema, Validations, Inconsistent
  <2>5. /\ LeftAtMost(1)'
        /\ IF call.schemaReview = "none" THEN LeftAtMost(2 * (MaxRetries - k) + 2)'
           ELSE LeftAtMost(10 + 6 * MaxRetries)'
    <3>1. CASE call.schemaReview = "none"
      BY <1>0, <2>1, <3>1, PaceStep
    <3>2. CASE call.schemaReview # "none"
      BY <1>0, <2>1, <3>2, PaceStep
    <3> QED BY <3>1, <3>2
  <2>6. CASE pc' = "schema_review_gate"
    BY <1>0, <1>1, <2>2, <2>3, <2>4, <2>5, <2>6 DEF Paced, CapturePaced, GenerationPaced, ValidationPaced
  <2> QED BY <2>4, <2>5, <2>6, PacedAtEnd
<1>3. CASE SchemaReviewGate
  <2>1. /\ pc = "schema_review_gate"
        /\ IF call.schemaReview = "none" THEN LeftAtMost(2 * (MaxRetries - k) + 2)
           ELSE LeftAtMost(10 + 6 * MaxRetries)
    BY <1>1, <1>3 DEF SchemaReviewGate, Run, Paced, CapturePaced
  <2>2. PICK t \in schema_review_gate_node(state) : state' = t /\ pc' = route_after_schema_review(t)
    BY <1>3 DEF SchemaReviewGate, Run
  <2>3. LeftAtMost(1)' /\ LeftAtMost(0)'
    <3>1. CASE call.schemaReview = "none"
      BY <1>0, <2>1, <3>1, PaceStep
    <3>2. CASE call.schemaReview # "none"
      BY <1>0, <2>1, <3>2, PaceStep
    <3> QED BY <3>1, <3>2
  <2>4. CASE \E x \in {"cancelled", "schema_approved", "awaiting_approval"} : t = [state EXCEPT !.status = x]
    <3>1. PICK x \in {"cancelled", "schema_approved", "awaiting_approval"} : t = [state EXCEPT !.status = x]
      BY <2>4
    <3>2. t.retries = state.retries /\ t.status = x
      BY <1>0, <3>1 DEF States
    <3>3. Validations' = 0 /\ Inconsistent'
      BY <1>0, <2>2, <3>2 DEF Validations, Inconsistent
    <3>4. CASE x = "schema_approved"
      <4>1. call.schemaReview # "none"
        <5>1. InBudget(state)
          BY DEF IInv, RetryBudget, InBudget
        <5> QED BY <1>0, <2>2, <3>2, <3>4, <5>1, SchemaReviewEffect
      <4>2. LeftAtMost(9 + 6 * MaxRetries)'
        BY <1>0, <2>1, <4>1, PaceStep
      <4>3. pc' = "mint_schema_version"
        BY <2>2, <3>2, <3>4 DEF route_after_schema_review
      <4> QED BY <3>3, <4>2, <4>3 DEF Paced, CapturePaced, GenerationPaced, ValidationPaced
    <3>5. CASE x # "schema_approved"
      <4>1. pc' \in {"END", "END_CANCELLED"}
        BY <2>2, <3>1, <3>2, <3>5 DEF route_after_schema_review
      <4> QED BY <2>3, <3>3, <4>1, PacedAtEnd, PacedAfter
    <3> QED BY <3>4, <3>5
  <2>5. CASE /\ call.schemaReview = "none" /\ k < MaxRetries
             /\ t = [state EXCEPT !.retries["schema"] = k + 1, !.status = "retry_schema"]
    <3>1. /\ t.retries = [state.retries EXCEPT !["schema"] = k + 1] /\ t.status = "retry_schema"
          /\ state.retries \in [Loops -> Nat]
      BY <1>0, <2>5 DEF States
    <3>2. t.retries["schema"] = k + 1 /\ t.retries["validation"] = state.retries["validation"]
      BY <3>1 DEF Loops
    <3>3. pc' = "infer_schema"
      BY <2>2, <3>1 DEF route_after_schema_review
    <3>4. LeftAtMost(2 * (MaxRetries - (k + 1)) + 3)'
      BY <1>0, <1>1, <2>1, <2>5, PaceStep
    <3>5. Validations' = 0 /\ Inconsistent'
      BY <1>0, <2>2, <3>2 DEF Validations, Inconsistent
    <3> QED BY <1>0, <2>2, <2>5, <3>2, <3>3, <3>4, <3>5 DEF Paced, CapturePaced, GenerationPaced, ValidationPaced
  <2> QED BY <1>1, <2>2, <2>4, <2>5 DEF schema_review_gate_node
<1> QED BY <1>2, <1>3

\* The nodes between approval and generation.
LEMMA EntryPace ==
  ASSUME IInv, TypeOK', Paced, Settling(call), MintSchemaVersion \/ GenerationGate \/ PrepareScaffold
  PROVE  Paced'
<1>0. /\ MaxRetries \in Nat \ {0} /\ state \in States
      /\ call' = call /\ steps' = steps + 1 /\ Validations = 0
  BY PaceNumbers DEF MintSchemaVersion, GenerationGate, PrepareScaffold, Run, Paced, Before
<1>1. state'.retries = state.retries
  BY <1>0, MintEffect, GenerationGateEffect, ScaffoldEffect
  DEF MintSchemaVersion, GenerationGate, PrepareScaffold, Run
<1>2. Validations' = 0 /\ Inconsistent'
  BY <1>0, <1>1 DEF Validations, Inconsistent
<1>3. CASE MintSchemaVersion
  <2>1. LeftAtMost(9 + 6 * MaxRetries) /\ pc' = "generation_gate"
    BY <1>3 DEF MintSchemaVersion, Run, Paced, GenerationPaced
  <2>2. LeftAtMost(8 + 6 * MaxRetries)'
    BY <1>0, <2>1, PaceStep
  <2> QED BY <1>2, <2>1, <2>2 DEF Paced, CapturePaced, GenerationPaced, ValidationPaced
<1>4. CASE GenerationGate
  <2>1. LeftAtMost(8 + 6 * MaxRetries) /\ pc' \in {"prepare_template_scaffold", "END_CANCELLED"}
    BY <1>4 DEF GenerationGate, Run, route_after_generation_gate, Paced, GenerationPaced
  <2>2. LeftAtMost(7 + 6 * MaxRetries)' /\ LeftAtMost(1)'
    BY <1>0, <2>1, PaceStep
  <2>3. CASE pc' = "prepare_template_scaffold"
    BY <1>2, <2>2, <2>3 DEF Paced, CapturePaced, GenerationPaced, ValidationPaced
  <2> QED BY <1>2, <2>1, <2>2, <2>3, PacedAtEnd
<1>5. CASE PrepareScaffold
  <2>1. LeftAtMost(7 + 6 * MaxRetries)
    BY <1>5 DEF PrepareScaffold, Run, Paced, GenerationPaced
  <2>2. \/ pc' = "generate_backend" /\ state'.status = "template_ready"
        \/ pc' = "END_CANCELLED"
    BY <1>5 DEF PrepareScaffold, Run, route_after_scaffold
  <2>3. LeftAtMost(6 + 6 * MaxRetries)' /\ LeftAtMost(1)'
    BY <1>0, <2>1, PaceStep
  <2>4. CASE pc' = "generate_backend" /\ state'.status = "template_ready"
    <3>1. LayerPaced("backend", 6)'
      BY <1>0, <1>2, <2>3, <2>4 DEF LayerPaced, needs_retry_status
    <3> QED BY <1>2, <2>4, <3>1 DEF Paced, Before, Capture, CapturePaced, GenerationPaced, ValidationPaced
  <2> QED BY <1>2, <2>2, <2>3, <2>4, PacedAtEnd
<1> QED BY <1>3, <1>4, <1>5

\* What scoring a layer leaves behind.
LEMMA ScoredLayer ==
  ASSUME NEW s \in States, NEW l \in Layers, NEW t, t = score_layer(s, l)
  PROVE  /\ t.artifacts = s.artifacts /\ t.retries["validation"] = s.retries["validation"]
         /\ \/ t.status = generated_status[l] /\ LayerScore(s.artifacts, l) = 100
            \/ /\ t.status = needs_retry_status[l] /\ LayerScore(s.artifacts, l) # 100
               /\ s.retries[l] < MaxRetries /\ t.retries[l] = s.retries[l] + 1
            \/ t.status = "failed"
<1>1. s.retries \in [Loops -> Nat] /\ l \in Loops /\ "validation" \in Loops /\ l # "validation"
  BY DEF States, Loops, Layers
<1>2. CASE /\ LayerScore(s.artifacts, l) = 100
           /\ t = [s EXCEPT !.scores[l] = 100, !.status = generated_status[l]]
  <2>1. t.artifacts = s.artifacts /\ t.retries = s.retries /\ t.status = generated_status[l]
    BY <1>2 DEF States
  <2> QED BY <1>2, <2>1
<1>3. CASE /\ s.retries[l] < MaxRetries /\ LayerScore(s.artifacts, l) # 100
           /\ t = [s EXCEPT !.scores[l] = LayerScore(s.artifacts, l), !.retries[l] = s.retries[l] + 1,
                            !.status = needs_retry_status[l]]
  <2>1. /\ t.artifacts = s.artifacts /\ t.status = needs_retry_status[l]
        /\ t.retries = [s.retries EXCEPT ![l] = s.retries[l] + 1]
    BY <1>3 DEF States
  <2> QED BY <1>1, <1>3, <2>1
<1>4. CASE t = [s EXCEPT !.scores[l] = LayerScore(s.artifacts, l), !.status = "failed"]
  <2>1. t.artifacts = s.artifacts /\ t.retries = s.retries /\ t.status = "failed"
    BY <1>4 DEF States
  <2> QED BY <2>1
<1>5. CASE /\ LayerScore(s.artifacts, l) = 100
           /\ score_layer(s, l) = [s EXCEPT !.scores[l] = 100, !.status = generated_status[l]]
  BY <1>2, <1>5
<1>6. CASE /\ s.retries[l] < MaxRetries /\ LayerScore(s.artifacts, l) # 100
           /\ score_layer(s, l) = [s EXCEPT !.scores[l] = LayerScore(s.artifacts, l),
                                            !.retries[l] = s.retries[l] + 1,
                                            !.status = needs_retry_status[l]]
  BY <1>3, <1>6
<1>7. CASE score_layer(s, l) = [s EXCEPT !.scores[l] = LayerScore(s.artifacts, l), !.status = "failed"]
  BY <1>4, <1>7
<1>8. \/ /\ LayerScore(s.artifacts, l) = 100
         /\ score_layer(s, l) = [s EXCEPT !.scores[l] = 100, !.status = generated_status[l]]
      \/ /\ s.retries[l] < MaxRetries /\ LayerScore(s.artifacts, l) # 100
         /\ score_layer(s, l) = [s EXCEPT !.scores[l] = LayerScore(s.artifacts, l),
                                          !.retries[l] = s.retries[l] + 1,
                                          !.status = needs_retry_status[l]]
      \/ score_layer(s, l) = [s EXCEPT !.scores[l] = LayerScore(s.artifacts, l), !.status = "failed"]
  BY ScoreForms
<1> QED BY <1>5, <1>6, <1>7, <1>8

\* How a layer's turn goes on.  An incomplete layer uses its own budget, in
\* the first round of validation only; a complete one hands over.
LEMMA LayerTurn ==
  ASSUME IInv, Inconsistent, NEW l \in Layers, NEW n \in 4 .. 6, LayerPaced(l, n),
         call' = call, steps' = steps + 1,
         state'.retries["validation"] = state.retries["validation"],
         state'.artifacts = state.artifacts \/ state.artifacts = NoArtifacts
  PROVE  /\ Inconsistent' /\ LeftAtMost(1)'
         /\ LayerScore(state'.artifacts, l) = 100 => LeftAtMost(n - 1 + 6 * (MaxRetries - Validations))'
         /\ /\ state'.status = needs_retry_status[l]
            /\ LayerScore(state'.artifacts, l) # 100 /\ state'.artifacts # NoArtifacts
            /\ state.retries[l] < MaxRetries /\ state'.retries[l] = state.retries[l] + 1
            => LayerPaced(l, n)'
<1>1. PICK v \in 0 .. MaxRetries, k \in 0 .. MaxRetries : v = Validations /\ k = state.retries[l]
  <2>1. l \in Loops
    BY DEF Loops
  <2> QED BY <2>1, PaceNumbers
<1>2. MaxRetries \in Nat \ {0} /\ steps \in Nat /\ StepBudget(call) \in Nat
  BY PaceNumbers
<1>3. LayerScore(NoArtifacts, l) # 100
  BY DEF LayerScore
<1>4. v > 0 => /\ LayerScore(state.artifacts, l) = 100 /\ state'.artifacts = state.artifacts
  BY <1>1, <1>3 DEF Inconsistent
<1>5. v = Validations'
  BY <1>1 DEF Validations
<1>6. Inconsistent'
  BY <1>1, <1>4, <1>5 DEF Inconsistent
<1>7. CASE state.status = needs_retry_status[l]
  <2>1. /\ LayerScore(state.artifacts, l) # 100 /\ state.artifacts # NoArtifacts
        /\ LeftAtMost(MaxRetries - k + 2)
    BY <1>1, <1>7 DEF LayerPaced
  <2>2. LeftAtMost(1)' /\ LeftAtMost(MaxRetries - (k + 1) + 2)'
    BY <1>1, <1>2, <2>1, PaceStep
  <2>3. state'.artifacts = state.artifacts
    BY <2>1
  <2> QED BY <1>1, <1>6, <2>1, <2>2, <2>3 DEF LayerPaced
<1>8. CASE state.status # needs_retry_status[l]
  <2>1. LeftAtMost(n + 6 * (MaxRetries - v))
    BY <1>1, <1>8 DEF LayerPaced
  <2>2. LeftAtMost(n - 1 + 6 * (MaxRetries - v))' /\ LeftAtMost(1)'
    BY <1>1, <1>2, <2>1, PaceStep
  <2>3. LayerScore(state'.artifacts, l) # 100 => LeftAtMost(MaxRetries - (k + 1) + 2)'
    <3>1. LayerScore(state'.artifacts, l) # 100 => v = 0
      BY <1>1, <1>4
    <3> QED BY <1>1, <1>2, <2>1, <3>1, PaceStep
  <2> QED BY <1>1, <1>5, <1>6, <2>2, <2>3 DEF LayerPaced
<1> QED BY <1>7, <1>8

\* The backend's turn.
LEMMA BackendPace ==
  ASSUME IInv, TypeOK', Paced, Settling(call), GenerateBackend
  PROVE  Paced'
<1>0. /\ state \in States /\ pc = "generate_backend" /\ call' = call /\ steps' = steps + 1
      /\ LayerPaced("backend", 6) /\ Inconsistent /\ "backend" \in Layers
      /\ generated_status["backend"] = "backend_generated"
      /\ needs_retry_status["backend"] = "backend_needs_retry"
      /\ needs_retry_status["frontend"] = "frontend_needs_retry"
  BY PaceNumbers DEF GenerateBackend, Run, Paced, GenerationPaced, Layers, generated_status, needs_retry_status
<1>1. PICK t \in generate_backend_node(state) : state' = t /\ pc' = route_after_backend(t)
  BY DEF GenerateBackend, Run
<1>2. /\ t.retries["validation"] = state.retries["validation"]
      /\ t.artifacts = state.artifacts \/ state.artifacts = NoArtifacts
      /\ \/ t.status = "backend_generated" /\ LayerScore(t.artifacts, "backend") = 100
         \/ /\ t.status = "backend_needs_retry" /\ LayerScore(t.artifacts, "backend") # 100
            /\ t.artifacts # NoArtifacts
            /\ state.retries["backend"] < MaxRetries
            /\ t.retries["backend"] = state.retries["backend"] + 1
         \/ t.status \notin {"backend_generated", "backend_needs_retry"}
  <2>1. CASE state.artifacts # NoArtifacts
    <3>1. t = score_layer(state, "backend")
      BY <1>1, <2>1 DEF generate_backend_node
    <3> QED BY <1>0, <2>1, <3>1, ScoredLayer
  <2>2. CASE state.artifacts = NoArtifacts /\ t = state
    <3>1. state.status \in {"template_ready", "retry_backend"}
      BY <1>0, <2>2 DEF IInv, BackendEntry, LayerPaced
    <3> QED BY <2>2, <3>1
  <2>3. CASE state.artifacts = NoArtifacts /\ t # state
    <3>1. PICK r : r = [state EXCEPT !.status = "template_ready"]
      OBVIOUS
    <3>2. r \in States /\ r.retries = state.retries
      BY <1>0, <3>1, StatusSet, StatusNames, StatusEffect
    <3>3. PICK g \in generate_artifacts_node(r) :
            t = IF g.status = "failed" THEN g ELSE score_layer(g, "backend")
      BY <1>1, <2>3, <3>1 DEF generate_backend_node
    <3>4. g \in States
      BY <3>2, <3>3, ArtifactsTyped
    <3>5. g.retries = state.retries /\ (g.status # "failed" => g.artifacts # NoArtifacts)
      <4>1. CASE g = [r EXCEPT !.status = "failed"]
        <5>1. g.retries = r.retries /\ g.status = "failed"
          BY <3>2, <4>1, StatusEffect
        <5> QED BY <3>2, <5>1
      <4>2. CASE \E a \in Artifacts, x \in {"generated", "failed"} : g = [r EXCEPT !.artifacts = a, !.status = x]
        <5>1. PICK a \in Artifacts, x \in {"generated", "failed"} : g = [r EXCEPT !.artifacts = a, !.status = x]
          BY <4>2
        <5>2. g.retries = r.retries /\ g.artifacts = a
          BY <3>2, <5>1 DEF States
        <5> QED BY <3>2, <5>2, ArtifactsAssumption
      <4>3. \/ g = [r EXCEPT !.status = "failed"]
            \/ \E a \in Artifacts, x \in {"generated", "failed"} :
                 a.source = r.schema /\ g = [r EXCEPT !.artifacts = a, !.status = x]
        <5>1. r \in States /\ g \in generate_artifacts_node(r)
          BY <3>2, <3>3
        <5> QED BY <5>1, ArtifactsForms
      <4> QED BY <4>1, <4>2, <4>3
    <3>6. CASE g.status = "failed"
      BY <2>3, <3>3, <3>5, <3>6
    <3>7. CASE g.status # "failed"
      <4>1. t = score_layer(g, "backend")
        BY <3>3, <3>7
      <4> QED BY <1>0, <2>3, <3>4, <3>5, <3>7, <4>1, ScoredLayer
    <3> QED BY <3>6, <3>7
  <2> QED BY <2>1, <2>2, <2>3
<1>3. /\ Inconsistent' /\ LeftAtMost(1)'
      /\ LayerScore(t.artifacts, "backend") = 100 => LeftAtMost(5 + 6 * (MaxRetries - Validations))'
      /\ /\ t.status = needs_retry_status["backend"]
         /\ LayerScore(t.artifacts, "backend") # 100 /\ t.artifacts # NoArtifacts
         /\ state.retries["backend"] < MaxRetries /\ t.retries["backend"] = state.retries["backend"] + 1
         => LayerPaced("backend", 6)'
  <2>1. PICK n \in 4 .. 6 : n = 6 /\ n - 1 = 5
    OBVIOUS
  <2> QED BY <1>0, <1>1, <1>2, <2>1, LayerTurn
<1>4. CASE t.status = "backend_generated" /\ LayerScore(t.artifacts, "backend") = 100
  <2>1. pc' = "generate_frontend" /\ LayerPaced("frontend", 5)'
    BY <1>0, <1>1, <1>3, <1>4 DEF route_after_backend, LayerPaced
  <2> QED BY <1>3, <2>1 DEF Paced, Before, Capture, CapturePaced, GenerationPaced, ValidationPaced
<1>5. CASE /\ t.status = "backend_needs_retry" /\ LayerScore(t.artifacts, "backend") # 100
           /\ t.artifacts # NoArtifacts
           /\ state.retries["backend"] < MaxRetries
           /\ t.retries["backend"] = state.retries["backend"] + 1
  <2>1. pc' = "generate_backend" /\ LayerPaced("backend", 6)'
    BY <1>0, <1>1, <1>3, <1>5 DEF route_after_backend
  <2> QED BY <1>3, <2>1 DEF Paced, Before, Capture, CapturePaced, GenerationPaced, ValidationPaced
<1>6. CASE t.status \notin {"backend_generated", "backend_needs_retry"}
  <2>1. pc' = "END_CANCELLED"
    BY <1>1, <1>6 DEF route_after_backend
  <2> QED BY <1>3, <2>1, PacedAtEnd
<1> QED BY <1>2, <1>4, <1>5, <1>6

\* The turns of the frontend and the admin.
LEMMA OtherLayersPace ==
  ASSUME IInv, TypeOK', Paced, Settling(call), GenerateFrontend \/ GenerateAdmin
  PROVE  Paced'
<1>0. /\ state \in States /\ call' = call /\ steps' = steps + 1 /\ Inconsistent
      /\ "frontend" \in Layers /\ "admin" \in Layers
      /\ generated_status["frontend"] = "frontend_generated"
      /\ needs_retry_status["frontend"] = "frontend_needs_retry"
      /\ generated_status["admin"] = "admin_generated"
      /\ needs_retry_status["admin"] = "admin_needs_retry"
  BY PaceNumbers DEF GenerateFrontend, GenerateAdmin, Run, Paced, Layers, generated_status, needs_retry_status
<1>1. state.artifacts # NoArtifacts
  <2>1. Complete("backend")
    BY DEF GenerateFrontend, GenerateAdmin, Run, IInv, LayersComplete, AfterBackend, AfterFrontend
  <2> QED BY <2>1 DEF Complete, LayerScore
<1>2. CASE GenerateFrontend
  <2>1. PICK t : t = score_layer(state, "frontend") /\ state' = t /\ pc' = route_after_frontend(t)
    BY <1>2 DEF GenerateFrontend, Run, generate_frontend_node
  <2>2. LayerPaced("frontend", 5)
    BY <1>2 DEF GenerateFrontend, Run, Paced, GenerationPaced
  <2>3. /\ t.artifacts = state.artifacts /\ t.retries["validation"] = state.retries["validation"]
        /\ \/ t.status = "frontend_generated" /\ LayerScore(state.artifacts, "frontend") = 100
           \/ /\ t.status = "frontend_needs_retry" /\ LayerScore(state.artifacts, "frontend") # 100
              /\ state.retries["frontend"] < MaxRetries
              /\ t.retries["frontend"] = state.retries["frontend"] + 1
           \/ t.status = "failed"
    BY <1>0, <2>1, ScoredLayer
  <2>4. /\ Inconsistent' /\ LeftAtMost(1)'
        /\ LayerScore(t.artifacts, "frontend") = 100 => LeftAtMost(4 + 6 * (MaxRetries - Validations))'
        /\ /\ t.status = needs_retry_status["frontend"]
           /\ LayerScore(t.artifacts, "frontend") # 100 /\ t.artifacts # NoArtifacts
           /\ state.retries["frontend"] < MaxRetries /\ t.retries["frontend"] = state.retries["frontend"] + 1
           => LayerPaced("frontend", 5)'
    <3>1. PICK n \in 4 .. 6 : n = 5 /\ n - 1 = 4
      OBVIOUS
    <3> QED BY <1>0, <2>1, <2>2, <2>3, <3>1, LayerTurn
  <2>5. CASE t.status = "frontend_generated" /\ LayerScore(state.artifacts, "frontend") = 100
    <3>1. pc' = "generate_admin" /\ LayerPaced("admin", 4)'
      BY <1>0, <2>1, <2>3, <2>4, <2>5 DEF route_after_frontend, LayerPaced
    <3> QED BY <2>4, <3>1 DEF Paced, Before, Capture, CapturePaced, GenerationPaced, ValidationPaced
  <2>6. CASE /\ t.status = "frontend_needs_retry" /\ LayerScore(state.artifacts, "frontend") # 100
             /\ state.retries["frontend"] < MaxRetries
             /\ t.retries["frontend"] = state.retries["frontend"] + 1
    <3>1. pc' = "generate_frontend" /\ LayerPaced("frontend", 5)'
      BY <1>0, <1>1, <2>1, <2>3, <2>4, <2>6 DEF route_after_frontend
    <3> QED BY <2>4, <3>1 DEF Paced, Before, Capture, CapturePaced, GenerationPaced, ValidationPaced
  <2>7. CASE t.status = "failed"
    <3>1. pc' = "END_CANCELLED"
      BY <2>1, <2>7 DEF route_after_frontend
    <3> QED BY <2>4, <3>1, PacedAtEnd
  <2> QED BY <2>3, <2>5, <2>6, <2>7
<1>3. CASE GenerateAdmin
  <2>1. PICK t : t = score_layer(state, "admin") /\ state' = t /\ pc' = route_after_admin(t)
    BY <1>3 DEF GenerateAdmin, Run, generate_admin_node
  <2>2. LayerPaced("admin", 4)
    BY <1>3 DEF GenerateAdmin, Run, Paced, GenerationPaced
  <2>3. /\ t.artifacts = state.artifacts /\ t.retries["validation"] = state.retries["validation"]
        /\ \/ t.status = "admin_generated" /\ LayerScore(state.artifacts, "admin") = 100
           \/ /\ t.status = "admin_needs_retry" /\ LayerScore(state.artifacts, "admin") # 100
              /\ state.retries["admin"] < MaxRetries
              /\ t.retries["admin"] = state.retries["admin"] + 1
           \/ t.status = "failed"
    BY <1>0, <2>1, ScoredLayer
  <2>4. /\ Inconsistent' /\ LeftAtMost(1)'
        /\ LayerScore(t.artifacts, "admin") = 100 => LeftAtMost(3 + 6 * (MaxRetries - Validations))'
        /\ /\ t.status = needs_retry_status["admin"]
           /\ LayerScore(t.artifacts, "admin") # 100 /\ t.artifacts # NoArtifacts
           /\ state.retries["admin"] < MaxRetries /\ t.retries["admin"] = state.retries["admin"] + 1
           => LayerPaced("admin", 4)'
    <3>1. PICK n \in 4 .. 6 : n = 4 /\ n - 1 = 3
      OBVIOUS
    <3> QED BY <1>0, <2>1, <2>2, <2>3, <3>1, LayerTurn
  <2>5. CASE t.status = "admin_generated" /\ LayerScore(state.artifacts, "admin") = 100
    <3>1. pc' = "validate_consistency" /\ LeftAtMost(3 + 6 * (MaxRetries - Validations))'
      BY <1>0, <2>1, <2>3, <2>4, <2>5 DEF route_after_admin
    <3> QED BY <2>4, <3>1 DEF Paced, Before, Capture, CapturePaced, GenerationPaced, ValidationPaced
  <2>6. CASE /\ t.status = "admin_needs_retry" /\ LayerScore(state.artifacts, "admin") # 100
             /\ state.retries["admin"] < MaxRetries
             /\ t.retries["admin"] = state.retries["admin"] + 1
    <3>1. pc' = "generate_admin" /\ LayerPaced("admin", 4)'
      BY <1>0, <1>1, <2>1, <2>3, <2>4, <2>6 DEF route_after_admin
    <3> QED BY <2>4, <3>1 DEF Paced, Before, Capture, CapturePaced, GenerationPaced, ValidationPaced
  <2>7. CASE t.status = "failed"
    <3>1. pc' = "END_CANCELLED"
      BY <2>1, <2>7 DEF route_after_admin
    <3> QED BY <2>4, <3>1, PacedAtEnd
  <2> QED BY <2>3, <2>5, <2>6, <2>7
<1> QED BY <1>2, <1>3

\* The consistency report gives the score the smoke test reads.
LEMMA ConsistencyPace ==
  ASSUME IInv, TypeOK', Paced, Settling(call), ValidateConsistency
  PROVE  Paced'
<1>0. /\ state \in States /\ call' = call /\ steps' = steps + 1 /\ Inconsistent
      /\ pc' = "validate_build_smoke" /\ MaxRetries \in Nat \ {0}
      /\ LeftAtMost(3 + 6 * (MaxRetries - Validations))
  BY PaceNumbers DEF ValidateConsistency, Run, Paced, ValidationPaced
<1>1. PICK t \in validate_consistency_node(state) : state' = t
  BY DEF ValidateConsistency, Run
<1>2. /\ t.artifacts = state.artifacts /\ t.retries = state.retries
      /\ t.scores["consistency"] = ConsistencyScore(t.artifacts)
  BY <1>0, ConsistencyEffect
<1>3. PICK v \in 0 .. MaxRetries : v = Validations
  BY PaceNumbers
<1>4. v = Validations' /\ Inconsistent'
  BY <1>0, <1>1, <1>2, <1>3 DEF Validations, Inconsistent
<1>5. LeftAtMost(2 + 6 * (MaxRetries - v))'
  BY <1>0, <1>3, PaceStep
<1> QED BY <1>0, <1>1, <1>2, <1>4, <1>5
        DEF Paced, Before, Capture, CapturePaced, GenerationPaced, ValidationPaced

\* The smoke test counts a round that failed on the score, and it fails on
\* the score in every round or in none.
LEMMA SmokePace ==
  ASSUME IInv, TypeOK', Paced, Settling(call), ValidateBuildSmoke
  PROVE  Paced'
<1>0. /\ state \in States /\ call' = call /\ steps' = steps + 1 /\ Inconsistent
      /\ pc = "validate_build_smoke" /\ MaxRetries \in Nat \ {0}
      /\ LeftAtMost(2 + 6 * (MaxRetries - Validations))
      /\ state.scores["consistency"] = ConsistencyScore(state.artifacts)
  BY PaceNumbers DEF ValidateBuildSmoke, Run, Paced, ValidationPaced
<1>1. PICK t \in validate_build_smoke_node(state) : state' = t /\ pc' = route_after_smoke(t)
  BY DEF ValidateBuildSmoke, Run
<1>2. PICK v \in 0 .. MaxRetries : v = Validations
  BY PaceNumbers
<1>3. PICK c \in 0 .. 100 : c = state.scores["consistency"] /\ OverallX4(state) = 300 + c
  <2>1. Complete("backend") /\ Complete("frontend") /\ Complete("admin")
    BY <1>0 DEF IInv, LayersComplete, AfterBackend, AfterFrontend, AfterAdmin
  <2>2. state.scores["consistency"] \in 0 .. 100
    BY <1>0 DEF States, Scored
  <2> QED BY <2>1, <2>2 DEF OverallX4, Complete
<1>4. \A l \in Layers : LayerScore(state.artifacts, l) = 100
  BY <1>0 DEF IInv, LayersComplete, AfterBackend, AfterFrontend, AfterAdmin, Complete, Layers
<1>5. PICK g \in Gates :
           \/ t = [state EXCEPT !.validation = g, !.status = "failed"]
           \/ g = "open" /\ OverallX4(state) >= 400
                /\ t = [state EXCEPT !.validation = g, !.status = "smoke_validated"]
           \/ g = "open" /\ OverallX4(state) < 400 /\ state.retries["validation"] < MaxRetries
                /\ t = [state EXCEPT !.validation = g,
                                     !.retries["validation"] = state.retries["validation"] + 1,
                                     !.retryLayer = WeakestLayer(state), !.status = "smoke_failed"]
  BY <1>0, <1>1, SmokeForms
<1>6. CASE t = [state EXCEPT !.validation = g, !.status = "failed"]
  <2>1. t.status = "failed" /\ t.artifacts = state.artifacts /\ t.retries = state.retries
    BY <1>0, <1>6 DEF States
  <2>2. pc' = "END_CANCELLED" /\ Inconsistent'
    BY <1>0, <1>1, <2>1 DEF route_after_smoke, Inconsistent, Validations
  <2>3. LeftAtMost(1)'
    BY <1>0, <1>2, PaceStep
  <2> QED BY <2>2, <2>3, PacedAtEnd
<1>7. CASE OverallX4(state) >= 400 /\ t = [state EXCEPT !.validation = g, !.status = "smoke_validated"]
  <2>1. t.status = "smoke_validated" /\ t.artifacts = state.artifacts /\ t.retries = state.retries
    BY <1>0, <1>7 DEF States
  <2>2. pc' = "validation_review_gate" /\ Inconsistent'
    BY <1>0, <1>1, <2>1 DEF route_after_smoke, Inconsistent, Validations
  <2>3. v = 0
    <3>1. ~(c < 100)
      BY <1>3, <1>7
    <3> QED BY <1>0, <1>2, <1>3, <3>1 DEF Inconsistent
  <2>4. LeftAtMost(2 + 6 * MaxRetries)
    BY <1>0, <1>2, <2>3
  <2>5. LeftAtMost(2)'
    BY <1>0, <2>4, PaceStep
  <2> QED BY <1>1, <2>1, <2>2, <2>5
          DEF Paced, Before, Capture, CapturePaced, GenerationPaced, ValidationPaced
<1>8. CASE /\ OverallX4(state) < 400 /\ state.retries["validation"] < MaxRetries
           /\ t = [state EXCEPT !.validation = g,
                                !.retries["validation"] = state.retries["validation"] + 1,
                                !.retryLayer = WeakestLayer(state), !.status = "smoke_failed"]
  <2>1. /\ t.status = "smoke_failed" /\ t.artifacts = state.artifacts
        /\ t.retries = [state.retries EXCEPT !["validation"] = state.retries["validation"] + 1]
    BY <1>0, <1>8 DEF States
  <2>2. "validation" \in DOMAIN state.retries
    BY <1>0 DEF States, Loops
  <2>3. Validations' = v + 1 /\ v < MaxRetries
    BY <1>1, <1>2, <1>8, <2>1, <2>2 DEF Validations
  <2>4. pc' = "validation_review_gate"
    BY <1>1, <2>1 DEF route_after_smoke
  <2>5. c < 100
    BY <1>3, <1>8
  <2>6. Inconsistent'
    BY <1>0, <1>1, <1>3, <1>4, <2>1, <2>5 DEF Inconsistent
  <2>7. LeftAtMost(7 + 6 * (MaxRetries - (v + 1)))'
    BY <1>0, <1>2, PaceStep
  <2>8. Validations' > 0
    BY <2>3
  <2>9. LeftAtMost(7 + 6 * (MaxRetries - Validations))'
    BY <2>3, <2>7
  <2> QED BY <1>1, <2>1, <2>4, <2>6, <2>8, <2>9
          DEF Paced, Before, Capture, CapturePaced, GenerationPaced, ValidationPaced
<1> QED BY <1>5, <1>6, <1>7, <1>8

\* Without a standing decision of the caller the review goes on, stops, or
\* sends back the layer that the smoke test named.
LEMMA ReviewTurn ==
  ASSUME IInv, Settling(call), pc = "validation_review_gate", NEW t \in validation_review_gate_node(state)
  PROVE  /\ t.artifacts = state.artifacts /\ t.retries["validation"] = state.retries["validation"]
         /\ \/ t.status \in {"failed", "cancelled", "package_approved"}
            \/ /\ state.status = "smoke_failed"
               /\ \E l \in Layers : t.status = retry_status[l]
<1>0. state \in States /\ ~(OverallX4(state) < 200)
  BY PaceNumbers, ReviewScores
<1>1. call.validationReview \notin {"retry_backend", "retry_schema"}
  BY DEF Settling
<1>2. \/ \E x \in {"failed", "cancelled", "package_approved"} : t = [state EXCEPT !.status = x]
      \/ /\ state.status = "smoke_failed"
         /\ \E l \in Layers : t = [state EXCEPT !.retries[l] = 0, !.status = retry_status[l]]
  BY <1>0, <1>1 DEF validation_review_gate_node
<1>3. CASE \E x \in {"failed", "cancelled", "package_approved"} : t = [state EXCEPT !.status = x]
  BY <1>0, <1>3 DEF States
<1>4. CASE /\ state.status = "smoke_failed"
           /\ \E l \in Layers : t = [state EXCEPT !.retries[l] = 0, !.status = retry_status[l]]
  <2>1. PICK l \in Layers : t = [state EXCEPT !.retries[l] = 0, !.status = retry_status[l]]
    BY <1>4
  <2>2. /\ t.artifacts = state.artifacts /\ t.status = retry_status[l]
        /\ t.retries = [state.retries EXCEPT ![l] = 0]
    BY <1>0, <2>1 DEF States
  <2>3. l # "validation" /\ "validation" \in DOMAIN state.retries
    BY <1>0 DEF States, Loops, Layers
  <2> QED BY <1>4, <2>2, <2>3
<1> QED BY <1>2, <1>3, <1>4

\* A round lost in validation is paid for when the review sends it back.
LEMMA ReviewPace ==
  ASSUME IInv, TypeOK', Paced, Settling(call), ValidationReviewGate
  PROVE  Paced'
<1>0. /\ state \in States /\ call' = call /\ steps' = steps + 1 /\ Inconsistent
      /\ pc = "validation_review_gate" /\ MaxRetries \in Nat \ {0}
  BY PaceNumbers DEF ValidationReviewGate, Run, Paced
<1>1. PICK t \in validation_review_gate_node(state) : state' = t /\ pc' = route_after_validation_review(t)
  BY DEF ValidationReviewGate, Run
<1>2. /\ t.artifacts = state.artifacts /\ t.retries["validation"] = state.retries["validation"]
      /\ \/ t.status \in {"failed", "cancelled", "package_approved"}
         \/ state.status = "smoke_failed" /\ \E l \in Layers : t.status = retry_status[l]
  BY <1>0, <1>1, ReviewTurn
<1>3. PICK v \in 0 .. MaxRetries : v = Validations
  BY PaceNumbers
<1>4. v = Validations' /\ Inconsistent'
  BY <1>0, <1>1, <1>2, <1>3 DEF Validations, Inconsistent
<1>5. IF state.status = "smoke_failed" THEN v > 0 /\ LeftAtMost(7 + 6 * (MaxRetries - v)) ELSE LeftAtMost(2)
  BY <1>0, <1>3 DEF Paced, ValidationPaced
<1>6. CASE t.status \in {"failed", "cancelled", "package_approved"}
  <2>1. pc' \in {"END_CANCELLED", "package_export"}
    BY <1>1, <1>6 DEF route_after_validation_review
  <2>2. LeftAtMost(1)'
    <3>1. CASE state.status = "smoke_failed"
      BY <1>0, <1>3, <1>5, <3>1, PaceStep
    <3>2. CASE state.status # "smoke_failed"
      BY <1>0, <1>5, <3>2, PaceStep
    <3> QED BY <3>1, <3>2
  <2> QED BY <1>4, <2>1, <2>2, PacedAtEnd
<1>7. CASE state.status = "smoke_failed" /\ \E l \in Layers : t.status = retry_status[l]
  <2>1. \/ pc' = "generate_backend" /\ t.status = "retry_backend"
        \/ pc' = "generate_frontend" /\ t.status = "retry_frontend"
        \/ pc' = "generate_admin" /\ t.status = "retry_admin"
    BY <1>1, <1>7 DEF Layers, retry_status, route_after_validation_review
  <2>2. LeftAtMost(6 + 6 * (MaxRetries - v))' /\ LeftAtMost(5 + 6 * (MaxRetries - v))'
        /\ LeftAtMost(4 + 6 * (MaxRetries - v))'
    BY <1>0, <1>3, <1>5, <1>7, PaceStep
  <2>3. \/ pc' = "generate_backend" /\ LayerPaced("backend", 6)'
        \/ pc' = "generate_frontend" /\ LayerPaced("frontend", 5)'
        \/ pc' = "generate_admin" /\ LayerPaced("admin", 4)'
    BY <1>1, <1>4, <2>1, <2>2 DEF LayerPaced, needs_retry_status
  <2> QED BY <1>4, <2>3 DEF Paced, Before, Capture, CapturePaced, GenerationPaced, ValidationPaced
<1> QED BY <1>2, <1>6, <1>7

\* The last nodes of a run.
LEMMA LastPace ==
  ASSUME IInv, TypeOK', Paced, Settling(call), PackageExport \/ EndCancelled
  PROVE  Paced'
<1>0. /\ state \in States /\ call' = call /\ steps' = steps + 1 /\ Inconsistent
      /\ pc' = "END" /\ LeftAtMost(1)
  BY PaceNumbers DEF PackageExport, EndCancelled, Run, Paced, ValidationPaced
<1>1. LeftAtMost(0)'
  BY <1>0, PaceStep
<1>2. state'.artifacts = state.artifacts /\ state'.retries = state.retries
  BY <1>0 DEF PackageExport, EndCancelled, Run, package_export_node, end_cancelled_node, States
<1>3. Inconsistent'
  BY <1>0, <1>2 DEF Inconsistent, Validations
<1> QED BY <1>0, <1>1, <1>3, PacedAfter

\* A paced run has used no more than its budget.
LEMMA PacedIsBounded ==
  ASSUME IInv, Paced
  PROVE  StepsBounded /\ (Settling(call) => LeftAtMost(0))
<1> SUFFICES ASSUME Settling(call)
             PROVE  LeftAtMost(0)
  <2>1. steps \in Nat /\ StepBudget(call) \in Nat
    BY PaceNumbers
  <2> QED BY <2>1 DEF StepsBounded, LeftAtMost
<1>1. /\ MaxRetries \in Nat \ {0} /\ steps \in Nat /\ StepBudget(call) \in Nat
      /\ StepBudget(call) >= 10 + 6 * MaxRetries
  BY PaceNumbers
<1>2. PICK v \in 0 .. MaxRetries : v = Validations
  BY PaceNumbers
<1>3. PICK k \in 0 .. MaxRetries : k = state.retries["schema"]
  BY PaceNumbers DEF Loops
<1>4. \A n \in Nat : LeftAtMost(n) => LeftAtMost(0)
  BY <1>1 DEF LeftAtMost
<1>5. CASE pc \in Capture
  <2>1. \/ steps = 0
        \/ \E n \in Nat : LeftAtMost(n)
    <3>1. {14 + 6 * MaxRetries, 13 + 6 * MaxRetries, 12 + 6 * MaxRetries, 11 + 6 * MaxRetries,
           10 + 6 * MaxRetries, 2 * (MaxRetries - k) + 3, 2 * (MaxRetries - k) + 2} \subseteq Nat
      BY <1>1, <1>3
    <3> QED BY <1>3, <1>5, <3>1 DEF Paced, CapturePaced, Capture
  <2> QED BY <1>1, <1>4, <2>1 DEF LeftAtMost
<1>6. CASE pc \in {"mint_schema_version", "generation_gate", "prepare_template_scaffold"}
  <2>1. {9 + 6 * MaxRetries, 8 + 6 * MaxRetries, 7 + 6 * MaxRetries} \subseteq Nat
    BY <1>1
  <2> QED BY <1>4, <1>6, <2>1 DEF Paced, GenerationPaced
<1>7. ASSUME NEW l \in Layers, NEW n \in 4 .. 6, LayerPaced(l, n)
      PROVE  LeftAtMost(0)
  <2>1. PICK j \in 0 .. MaxRetries : j = state.retries[l]
    BY PaceNumbers DEF Loops
  <2>2. MaxRetries - j + 2 \in Nat /\ n + 6 * (MaxRetries - v) \in Nat
    BY <1>1, <2>1
  <2> QED BY <1>2, <1>4, <1>7, <2>1, <2>2 DEF LayerPaced
<1>8. CASE pc \in {"generate_backend", "generate_frontend", "generate_admin"}
  <2>1. 4 \in 4 .. 6 /\ 5 \in 4 .. 6 /\ 6 \in 4 .. 6 /\ Layers = {"backend", "frontend", "admin"}
    BY DEF Layers
  <2> QED BY <1>7, <1>8, <2>1 DEF Paced, GenerationPaced
<1>9. CASE pc \in {"validate_consistency", "validate_build_smoke", "validation_review_gate",
                   "package_export", "END_CANCELLED", "END", "RAISED"}
  <2>1. {3 + 6 * (MaxRetries - v), 2 + 6 * (MaxRetries - v), 7 + 6 * (MaxRetries - v), 2, 1, 0} \subseteq Nat
    BY <1>1
  <2> QED BY <1>2, <1>4, <1>9, <2>1 DEF Paced, ValidationPaced
<1>10. pc \in Nodes \union {"END", "RAISED"}
  BY DEF IInv, TypeOK
<1> QED BY <1>5, <1>6, <1>8, <1>9, <1>10 DEF Nodes, Capture

\* A run that raises has taken no further step.
LEMMA RaisePace ==
  ASSUME IInv, TypeOK', Paced, Settling(call), CrawlRaises \/ GraphRecursionError
  PROVE  Paced'
<1>1. UNCHANGED <<call, state, steps>> /\ pc' = "RAISED" /\ Inconsistent
  BY DEF CrawlRaises, GraphRecursionError, Paced
<1>2. LeftAtMost(0)' /\ Inconsistent'
  BY <1>1, PacedIsBounded DEF LeftAtMost, Inconsistent, Validations
<1> QED BY <1>1, <1>2, PacedAfter

\* Every step keeps the pace.
LEMMA NextPaced == IInv /\ IInv' /\ Paced /\ [Next]_vars => Paced'
<1> SUFFICES ASSUME IInv, IInv', Paced, [Next]_vars
             PROVE  Paced'
  OBVIOUS
<1>1. CASE UNCHANGED vars
  BY <1>1 DEF vars, Paced, Inconsistent, Validations, CapturePaced, GenerationPaced, ValidationPaced,
              LayerPaced, LeftAtMost
<1>2. CASE Next
  <2>1. call' = call
    BY <1>2 DEF Next, Run, CrawlSite, SitemapGate, ExtractContent, InferCandidates, InferSchema,
       SchemaReviewGate, MintSchemaVersion, GenerationGate, PrepareScaffold, GenerateBackend,
       GenerateFrontend, GenerateAdmin, ValidateConsistency, ValidateBuildSmoke,
       ValidationReviewGate, PackageExport, EndCancelled, CrawlRaises, GraphRecursionError
  <2>2. CASE ~Settling(call)
    BY <2>1, <2>2 DEF Paced
  <2>3. CASE Settling(call)
    <3>1. TypeOK'
      BY DEF IInv
    <3> QED BY <1>2, <2>3, <3>1, CrawlPace, SitemapPace, SchemaPace, EntryPace, BackendPace,
               OtherLayersPace, ConsistencyPace, SmokePace, ReviewPace, LastPace, RaisePace DEF Next
  <2> QED BY <2>2, <2>3
<1> QED BY <1>1, <1>2

\* A run starts at its full budget.
LEMMA InitPaced == Init => Paced
<1> SUFFICES ASSUME Init
             PROVE  Paced
  OBVIOUS
<1>1. pc = "crawl_site" /\ steps = 0 /\ state.retries = [r \in Loops |-> 0]
  BY DEF Init, InitialState
<1>2. Validations = 0
  BY <1>1 DEF Validations, Loops
<1> QED BY <1>1, <1>2 DEF Paced, Inconsistent, CapturePaced, GenerationPaced, ValidationPaced

\* However the retries of inference, of the layers and of validation combine,
\* a run without a standing retry decision takes a number of supersteps that
\* only depends on the retry budget, so with the limit run_job sets LangGraph
\* does not cut a conversion short.
THEOREM StepsAreBounded == Spec => []StepsBounded
<1>1. IInv /\ IInv' /\ Paced /\ [Next]_vars => Paced'
  BY NextPaced
<1>2. IInv /\ Paced => StepsBounded
  BY PacedIsBounded
<1> QED BY <1>1, <1>2, InitPaced, Invariant, PTL DEF Spec

-----------------------------------------------------------------------------
(* The contract of a stage: what the graph does when the engine calls it.  *)

\* What the engine would get from a state that ends with status x.
ResultOf(s, x) ==
  [ status |-> x, extraction |-> s.extraction, schema |-> s.schema, schemaGate |-> s.schemaGate,
    artifacts |-> s.artifacts, validation |-> s.validation ]

\* The proposal and its gate are those the caller passed.
AsCalled(s) == s.schema = call.schema /\ s.schemaGate = call.schemaGate

\* Nothing was built and validated.
Unbuilt(s) == s.artifacts = call.artifacts /\ s.validation = "unknown"

\* On the way through the first half of the graph: what a capture that is
\* repeated, and an inference after it, have left of the call.
CaptureContract ==
  call.status \notin approved_statuses =>
    /\ pc \in Capture => Unbuilt(state)
    /\ pc \in {"crawl_site", "sitemap_gate", "extract_content"} =>
         AsCalled(state) /\ state.extraction = call.extraction
    /\ pc \in {"infer_candidates", "infer_schema"} =>
         ~StopsAfterExtract(call) /\ AsCalled(state) /\ state.extraction = "open"
    /\ pc = "schema_review_gate" =>
         /\ ~StopsAfterExtract(call) /\ state.extraction = "open"
         /\ state.schema \in Schemas /\ state.schemaGate = "open"

\* On the way through the second half: the artifacts are the caller's or were
\* built from its proposal, they are consistent, and nothing is packaged
\* before its validation opened the gate.
GenerationContract ==
  call.status \in approved_statuses =>
    /\ pc \in Generation \union {"crawl_site"} =>
         /\ AsCalled(state) /\ state.extraction = call.extraction
         /\ state.artifacts \in {call.artifacts} \union Worked(call)
         /\ state.validation = IF pc \in {"validation_review_gate", "package_export"} THEN "open"
                                                                                     ELSE "unknown"
    /\ pc \in {"validate_build_smoke", "validation_review_gate"} => state.scores["consistency"] = 100

\* What is given back, or about to be, is an outcome of the call.
EndContract ==
  /\ pc = "END_CANCELLED" => ResultOf(state, "cancelled") \in Outcomes(call)
  /\ pc = "END" => ResultOf(state, state.status) \in Outcomes(call)

Contract == CaptureContract /\ GenerationContract /\ EndContract

\* The engine's calls carry no review decision, so that an unapproved one
\* stays in the first half and an approved one in the second.
LEMMA StagePath ==
  ASSUME IInv, call \in StageCalls
  PROVE  /\ call.status \notin approved_statuses => pc \in Capture \union Ends
         /\ call.status \in approved_statuses =>
              /\ pc \in Generation \union Ends \union {"crawl_site"}
              /\ pc = "crawl_site" => state.status = call.status
         /\ pc = "crawl_site" /\ call.status \notin approved_statuses =>
              state.status \notin approved_statuses
         /\ call.preserved /\ ~call.customInfer /\ call.schemaReview = "none"
         /\ call.generationGate = "none" /\ call.validationReview = "none"
         /\ call.extraction \in Gates /\ call.schema \in Proposals
<1>1. /\ call.preserved /\ ~call.customInfer /\ call.schemaReview = "none"
      /\ call.generationGate = "none" /\ call.validationReview = "none"
  BY DEF StageCalls
<1>2. call.extraction \in Gates /\ call.schema \in Proposals
  BY DEF StageCalls, CallSpace
<1> QED BY <1>1, <1>2 DEF IInv, UnapprovedPath, ApprovedPath, EntryStatus, Approved, approved_statuses

\* What a run that leaves the artifacts alone may give back.
LEMMA FirstHalfEnds ==
  ASSUME NEW s, call.status \notin approved_statuses, Unbuilt(s)
  PROVE  /\ AsCalled(s) /\ s.extraction \in {call.extraction, "blocked"} =>
              ResultOf(s, "cancelled") \in Outcomes(call)
         /\ AsCalled(s) /\ s.extraction = "open" /\ ~StopsAfterExtract(call) =>
              ResultOf(s, "cancelled") \in Outcomes(call)
         /\ AsCalled(s) /\ s.extraction = "open" /\ StopsAfterExtract(call) =>
              ResultOf(s, "extracted") \in Outcomes(call)
         /\ s.schema \in Schemas \union {EmptySchema} /\ s.schemaGate = "blocked"
              /\ s.extraction = "open" /\ ~StopsAfterExtract(call) =>
              ResultOf(s, "cancelled") \in Outcomes(call)
         /\ s.schema \in Schemas /\ s.schemaGate = "open"
              /\ s.extraction = "open" /\ ~StopsAfterExtract(call) =>
              ResultOf(s, "awaiting_approval") \in Outcomes(call)
<1>1. \A x : ResultOf(s, x) = Inferred(call, x, s.extraction, s.schema, s.schemaGate)
  BY DEF ResultOf, Inferred, Unbuilt
<1>2. /\ StopsAfterExtract(call) => Outcomes(call) = {Unchanged(call, "raised")} \union CaptureOutcomes(call)
      /\ ~StopsAfterExtract(call) => Outcomes(call) = {Unchanged(call, "raised")} \union InferenceOutcomes(call)
  BY DEF Outcomes
<1>3. AsCalled(s) /\ s.extraction \in {call.extraction, "blocked"} =>
        ResultOf(s, "cancelled") \in CaptureOutcomes(call) /\ ResultOf(s, "cancelled") \in InferenceOutcomes(call)
  BY <1>1 DEF CaptureOutcomes, InferenceOutcomes, AsCalled
<1>4. AsCalled(s) /\ s.extraction = "open" =>
        ResultOf(s, "extracted") \in CaptureOutcomes(call) /\ ResultOf(s, "cancelled") \in InferenceOutcomes(call)
  BY <1>1 DEF CaptureOutcomes, InferenceOutcomes, AsCalled
<1>5. /\ s.schema \in Schemas \union {EmptySchema} /\ s.schemaGate = "blocked" /\ s.extraction = "open" =>
           ResultOf(s, "cancelled") \in InferenceOutcomes(call)
      /\ s.schema \in Schemas /\ s.schemaGate = "open" /\ s.extraction = "open" =>
           ResultOf(s, "awaiting_approval") \in InferenceOutcomes(call)
  BY <1>1 DEF InferenceOutcomes
<1> QED BY <1>2, <1>3, <1>4, <1>5

\* What a run of the second half may give back.
LEMMA SecondHalfEnds ==
  ASSUME NEW s, call.status \in approved_statuses, AsCalled(s), s.extraction = call.extraction,
         s.artifacts \in {call.artifacts} \union Worked(call)
  PROVE  /\ s.validation = "unknown" => ResultOf(s, "cancelled") \in Outcomes(call)
         /\ s.artifacts # NoArtifacts /\ s.validation = "blocked" =>
              ResultOf(s, "cancelled") \in Outcomes(call)
         /\ s.artifacts # NoArtifacts /\ s.validation = "open" =>
              ResultOf(s, "exported") \in Outcomes(call)
<1>1. \A x : ResultOf(s, x) = Generated(call, x, s.artifacts, s.validation)
  BY DEF ResultOf, Generated, AsCalled
<1>2. GenerationOutcomes(call) \subseteq Outcomes(call)
  BY DEF Outcomes
<1>3. s.artifacts \in Worked(call) \/ (s.artifacts = call.artifacts /\ s.artifacts = NoArtifacts)
  BY DEF Worked
<1> QED BY <1>1, <1>2, <1>3 DEF GenerationOutcomes, Unchanged

\* The nodes of the first half keep the contract of an unapproved call.
LEMMA FirstHalfSteps ==
  ASSUME IInv, Contract, call \in StageCalls, call.status \notin approved_statuses,
         CrawlSite \/ SitemapGate \/ ExtractContent \/ InferCandidates \/ InferSchema \/ SchemaReviewGate
  PROVE  Contract'
<1>0. state \in States /\ call' = call
  BY DEF IInv, TypeOK, Run, CrawlSite, SitemapGate, ExtractContent, InferCandidates, InferSchema,
         SchemaReviewGate
<1>1. CASE CrawlSite
  <2>1. PICK t \in crawl_site_node(state) : state' = t /\ pc' = route_after_crawl(t)
    BY <1>1 DEF CrawlSite, Run
  <2>2. pc = "crawl_site" /\ state.status \notin approved_statuses
    BY <1>1, StagePath DEF CrawlSite, Run
  <2>3. \/ t = [state EXCEPT !.pages = TRUE, !.status = "crawled"]
        \/ t = [state EXCEPT !.status = "failed"]
    BY <2>2 DEF crawl_site_node
  <2>4. /\ Unbuilt(t) /\ AsCalled(t) /\ t.extraction = call.extraction /\ t.status \in {"crawled", "failed"}
    BY <1>0, <2>2, <2>3 DEF Contract, CaptureContract, Capture, Unbuilt, AsCalled, States
  <2>5. pc' \in {"sitemap_gate", "END_CANCELLED"}
    BY <2>1, <2>4 DEF route_after_crawl
  <2>6. ResultOf(t, "cancelled") \in Outcomes(call)
    BY <2>4, FirstHalfEnds
  <2> QED BY <1>0, <2>1, <2>4, <2>5, <2>6
          DEF Contract, CaptureContract, GenerationContract, EndContract, Unbuilt, AsCalled
<1>2. CASE SitemapGate
  <2>1. PICK t \in sitemap_gate_node(state) : state' = t /\ pc' = route_after_sitemap(t)
    BY <1>2 DEF SitemapGate, Run
  <2>2. pc = "sitemap_gate"
    BY <1>2 DEF SitemapGate, Run
  <2>3. \/ \E x \in {"sitemap_checked", "cancelled"} : t = [state EXCEPT !.status = x]
        \/ t = [state EXCEPT !.retries["crawl"] = @ + 1, !.status = "retry_crawl"]
    BY DEF sitemap_gate_node
  <2>4. /\ Unbuilt(t) /\ AsCalled(t) /\ t.extraction = call.extraction
        /\ t.status \in {"sitemap_checked", "cancelled", "retry_crawl"}
    BY <1>0, <2>2, <2>3 DEF Contract, CaptureContract, Capture, Unbuilt, AsCalled, States
  <2>5. pc' \in {"extract_content", "crawl_site", "END_CANCELLED"}
    BY <2>1, <2>4 DEF route_after_sitemap
  <2>6. ResultOf(t, "cancelled") \in Outcomes(call)
    BY <2>4, FirstHalfEnds
  <2> QED BY <1>0, <2>1, <2>4, <2>5, <2>6
          DEF Contract, CaptureContract, GenerationContract, EndContract, Unbuilt, AsCalled
<1>3. CASE ExtractContent
  <2>1. PICK t \in extract_content_node(state) : state' = t /\ pc' = route_after_extract(t)
    BY <1>3 DEF ExtractContent, Run
  <2>2. pc = "extract_content"
    BY <1>3 DEF ExtractContent, Run
  <2>3. \/ t = [state EXCEPT !.status = "failed"]
        \/ t = [state EXCEPT !.blocks = TRUE, !.extraction = "open", !.status = "extracted"]
        \/ \E b \in BOOLEAN :
             t = [state EXCEPT !.blocks = b, !.extraction = "blocked", !.status = "failed"]
    BY DEF extract_content_node
  <2>4. /\ Unbuilt(t) /\ AsCalled(t)
        /\ \/ t.status = "failed" /\ t.extraction \in {call.extraction, "blocked"}
           \/ t.status = "extracted" /\ t.extraction = "open"
    BY <1>0, <2>2, <2>3 DEF Contract, CaptureContract, Capture, Unbuilt, AsCalled, States
  <2>5. \/ pc' = "END_CANCELLED" /\ t.extraction \in {call.extraction, "blocked"}
        \/ pc' = "END" /\ t.status = "extracted" /\ t.extraction = "open" /\ StopsAfterExtract(call)
        \/ pc' = "infer_candidates" /\ t.extraction = "open" /\ ~StopsAfterExtract(call)
    BY <2>1, <2>4 DEF route_after_extract, StopsAfterExtract, AsCalled
  <2>6. /\ pc' = "END_CANCELLED" => ResultOf(t, "cancelled") \in Outcomes(call)
        /\ pc' = "END" => ResultOf(t, t.status) \in Outcomes(call)
    BY <2>4, <2>5, FirstHalfEnds
  <2> QED BY <1>0, <2>1, <2>4, <2>5, <2>6
          DEF Contract, CaptureContract, GenerationContract, EndContract, Unbuilt, AsCalled
<1>4. CASE InferCandidates
  <2>1. PICK x \in Statuses : state' = [state EXCEPT !.status = x] /\ pc' = "infer_schema" /\ pc = "infer_candidates"
    BY <1>4, StatusNames DEF InferCandidates, Run, infer_candidates_node
  <2>2. /\ Unbuilt(state') /\ AsCalled(state') /\ state'.extraction = "open" /\ ~StopsAfterExtract(call)
    BY <1>0, <2>1 DEF Contract, CaptureContract, Capture, Unbuilt, AsCalled, States
  <2> QED BY <1>0, <2>1, <2>2
          DEF Contract, CaptureContract, GenerationContract, EndContract, Unbuilt, AsCalled
<1>5. CASE InferSchema
  <2>1. PICK t \in infer_schema_node(state) : state' = t /\ pc' = route_after_infer_schema(t)
    BY <1>5 DEF InferSchema, Run
  <2>2. pc = "infer_schema" /\ ~call.customInfer
    BY <1>5, StagePath DEF InferSchema, Run
  <2>3. \/ t = [state EXCEPT !.status = "failed"]
        \/ \E p \in Schemas : t = [state EXCEPT !.schema = p, !.minted = FALSE, !.schemaGate = "open",
                                                !.status = "schema_proposed"]
        \/ \E p \in Schemas \union {EmptySchema} :
             t = [state EXCEPT !.schema = p, !.minted = FALSE, !.schemaGate = "blocked", !.status = "failed"]
    BY <2>2 DEF infer_schema_node
  <2>4. /\ Unbuilt(t) /\ t.extraction = "open" /\ ~StopsAfterExtract(call)
        /\ \/ t.status = "failed" /\ AsCalled(t)
           \/ t.status = "failed" /\ t.schema \in Schemas \union {EmptySchema} /\ t.schemaGate = "blocked"
           \/ t.status = "schema_proposed" /\ t.schema \in Schemas /\ t.schemaGate = "open"
    BY <1>0, <2>2, <2>3 DEF Contract, CaptureContract, Capture, Unbuilt, AsCalled, States
  <2>5. \/ pc' = "END_CANCELLED" /\ t.status = "failed"
        \/ pc' = "schema_review_gate" /\ t.status = "schema_proposed"
    BY <2>1, <2>4 DEF route_after_infer_schema
  <2>6. pc' = "END_CANCELLED" => ResultOf(t, "cancelled") \in Outcomes(call)
    BY <2>4, <2>5, FirstHalfEnds
  <2> QED BY <1>0, <2>1, <2>4, <2>5, <2>6
          DEF Contract, CaptureContract, GenerationContract, EndContract, Unbuilt, AsCalled
<1>6. CASE SchemaReviewGate
  <2>1. PICK t \in schema_review_gate_node(state) : state' = t /\ pc' = route_after_schema_review(t)
    BY <1>6 DEF SchemaReviewGate, Run
  <2>2. pc = "schema_review_gate" /\ call.schemaReview = "none"
    BY <1>6, StagePath DEF SchemaReviewGate, Run
  <2>3. state.schema \in Schemas
    BY <2>2 DEF Contract, CaptureContract
  <2>4. t = [state EXCEPT !.status = "awaiting_approval"]
    BY <2>2, <2>3 DEF schema_review_gate_node, HasEntities
  <2>5. /\ Unbuilt(t) /\ t.extraction = "open" /\ ~StopsAfterExtract(call)
        /\ t.schema \in Schemas /\ t.schemaGate = "open" /\ t.status = "awaiting_approval"
    BY <1>0, <2>2, <2>4 DEF Contract, CaptureContract, Capture, Unbuilt, States
  <2>6. pc' = "END" /\ ResultOf(t, t.status) \in Outcomes(call)
    BY <2>1, <2>5, FirstHalfEnds DEF route_after_schema_review
  <2> QED BY <1>0, <2>1, <2>6 DEF Contract, CaptureContract, GenerationContract, EndContract, Capture
<1> QED BY <1>1, <1>2, <1>3, <1>4, <1>5, <1>6

\* A preserved site is whole, and stage 3 works on nothing else.
LEMMA WorkedIsWhole ==
  ASSUME call \in StageCalls, NEW a \in Worked(call)
  PROVE  a # NoArtifacts /\ ConsistencyScore(a) = 100
<1>1. PICK p \in Proposals : a = PreservedSite(p)
  BY DEF StageCalls, StageArtifacts, CallSpace, Worked
<1>2. FullLayer \in LayerShapes
  BY DEF FullLayer, LayerShapes
<1>3. a \in Artifacts
  BY <1>1, <1>2 DEF PreservedSite, Artifacts
<1>4. a # NoArtifacts
  BY <1>3, ArtifactsAssumption
<1>5. /\ a.layers["backend"].listed = TRUE /\ a.layers["frontend"].listed = TRUE
      /\ a.layers["admin"].listed = TRUE /\ a.orphans = FALSE
  BY <1>1 DEF PreservedSite, FullLayer, Layers
<1> QED BY <1>4, <1>5 DEF ConsistencyScore, Bit

\* The channels a generation gives back, but for the validation.
Carried(s, t) ==
  /\ t.extraction = s.extraction /\ t.schema = s.schema /\ t.schemaGate = s.schemaGate
  /\ t.artifacts = s.artifacts

\* Scoring a layer leaves them and the validation alone.
LEMMA ScoreCarries ==
  ASSUME NEW s \in States, NEW l \in Layers
  PROVE  Carried(s, score_layer(s, l)) /\ score_layer(s, l).validation = s.validation
<1>1. ASSUME NEW t, \/ t = [s EXCEPT !.scores[l] = 100, !.status = generated_status[l]]
                    \/ t = [s EXCEPT !.scores[l] = LayerScore(s.artifacts, l),
                                     !.retries[l] = s.retries[l] + 1, !.status = needs_retry_status[l]]
                    \/ t = [s EXCEPT !.scores[l] = LayerScore(s.artifacts, l), !.status = "failed"]
      PROVE  Carried(s, t) /\ t.validation = s.validation
  BY <1>1 DEF Carried, States
<1> QED BY <1>1, ScoreForms

\* So does the backend node, but for artifacts it builds from the proposal.
LEMMA BackendCarries ==
  ASSUME call \in StageCalls, NEW s \in States, AsCalled(s),
         s.artifacts \in {call.artifacts} \union Worked(call), NEW t \in generate_backend_node(s)
  PROVE  /\ t.extraction = s.extraction /\ AsCalled(t) /\ t.validation = s.validation
         /\ t.artifacts \in {call.artifacts} \union Worked(call)
<1>1. "backend" \in Layers /\ call.preserved
  BY DEF Layers, StageCalls
<1>2. CASE s.artifacts # NoArtifacts
  <2>1. t = score_layer(s, "backend")
    BY <1>2 DEF generate_backend_node
  <2> QED BY <1>1, <2>1, ScoreCarries DEF Carried, AsCalled
<1>3. CASE t = s
  BY <1>3
<1>4. CASE s.artifacts = NoArtifacts /\ t # s
  <2> DEFINE r == [s EXCEPT !.status = "template_ready"]
  <2>1. PICK g \in generate_artifacts_node(r) :
          t = IF g.status = "failed" THEN g ELSE score_layer(g, "backend")
    BY <1>4 DEF generate_backend_node
  <2>2. r \in States /\ Carried(s, r) /\ r.validation = s.validation
    BY StatusSet, StatusNames DEF Carried, States
  <2> HIDE DEF r
  <2>3. g \in States
    BY <2>1, <2>2, ArtifactsTyped
  <2>4. \/ g = [r EXCEPT !.status = "failed"]
        \/ /\ r.schemaGate = "open"
           /\ g = [r EXCEPT !.artifacts = PreservedSite(r.schema), !.status = "generated"]
    BY <1>1, <2>1 DEF generate_artifacts_node
  <2>5. /\ g.extraction = s.extraction /\ AsCalled(g) /\ g.validation = s.validation
        /\ \/ g.artifacts = s.artifacts
           \/ s.schemaGate = "open" /\ g.artifacts = PreservedSite(s.schema)
    BY <2>2, <2>4 DEF Carried, AsCalled, States
  <2>6. g.artifacts \in {call.artifacts} \union Worked(call)
    <3>1. CASE s.artifacts \in Worked(call)
      BY <1>4, <3>1, WorkedIsWhole
    <3>2. CASE s.artifacts = call.artifacts
      BY <1>4, <2>5, <3>2 DEF Worked, AsCalled
    <3> QED BY <3>1, <3>2
  <2>7. t = g \/ t = score_layer(g, "backend")
    BY <2>1
  <2> QED BY <1>1, <2>3, <2>5, <2>6, <2>7, ScoreCarries DEF Carried, AsCalled
<1> QED BY <1>2, <1>3, <1>4

\* A step of the second half whose validation is still to come.
LEMMA SecondHalfStep ==
  ASSUME IInv, call' = call, call.status \in approved_statuses,
         AsCalled(state'), state'.extraction = call.extraction, state'.validation = "unknown",
         state'.artifacts \in {call.artifacts} \union Worked(call),
         pc' \in (Generation \union {"crawl_site", "END_CANCELLED"})
                   \ {"validate_build_smoke", "validation_review_gate", "package_export"}
  PROVE  Contract'
<1>1. ResultOf(state', "cancelled") \in Outcomes(call)
  BY SecondHalfEnds
<1>2. CaptureContract'
  BY DEF CaptureContract
<1>3. GenerationContract'
  BY DEF GenerationContract, AsCalled
<1>4. EndContract'
  BY <1>1 DEF EndContract, Generation, AfterBackend, AfterFrontend, AfterAdmin
<1> QED BY <1>2, <1>3, <1>4 DEF Contract

\* The nodes before the validation keep the contract of an approved call.
LEMMA SecondHalfSteps ==
  ASSUME IInv, Contract, call \in StageCalls, call.status \in approved_statuses,
         \/ CrawlSite \/ MintSchemaVersion \/ GenerationGate \/ PrepareScaffold
         \/ GenerateBackend \/ GenerateFrontend \/ GenerateAdmin
  PROVE  Contract'
<1>0. state \in States /\ call' = call /\ {"backend", "frontend", "admin"} = Layers
  BY DEF IInv, TypeOK, Run, CrawlSite, MintSchemaVersion, GenerationGate, PrepareScaffold,
         GenerateBackend, GenerateFrontend, GenerateAdmin, Layers
<1>1. /\ pc \in (Generation \union {"crawl_site"})
                  \ {"validate_build_smoke", "validation_review_gate", "package_export"}
      /\ pc = "crawl_site" => state.status = call.status
  BY StagePath DEF Run, CrawlSite, MintSchemaVersion, GenerationGate, PrepareScaffold,
         GenerateBackend, GenerateFrontend, GenerateAdmin, Generation, AfterBackend, AfterFrontend, AfterAdmin
<1>2. /\ AsCalled(state) /\ state.extraction = call.extraction /\ state.validation = "unknown"
      /\ state.artifacts \in {call.artifacts} \union Worked(call)
  BY <1>1 DEF Contract, GenerationContract
<1>3. CASE CrawlSite
  <2>1. state' = state /\ pc' = route_after_crawl(state)
    BY <1>1, <1>3 DEF CrawlSite, Run, crawl_site_node
  <2>2. pc' \in {"mint_schema_version", "prepare_template_scaffold"}
    BY <1>1, <1>3, <2>1 DEF CrawlSite, Run, route_after_crawl, approved_statuses
  <2> QED BY <1>0, <1>2, <2>1, <2>2, SecondHalfStep DEF Generation
<1>4. CASE MintSchemaVersion \/ GenerationGate \/ PrepareScaffold
  <2>1. /\ pc' \in {"generation_gate", "prepare_template_scaffold", "generate_backend", "END_CANCELLED"}
        /\ \/ state' \in mint_schema_version_node(state)
           \/ state' \in generation_gate_node(state)
           \/ state' \in prepare_template_scaffold_node(state)
    BY <1>4 DEF MintSchemaVersion, GenerationGate, PrepareScaffold, Run, route_after_generation_gate,
                route_after_scaffold
  <2>2. \/ state' = [state EXCEPT !.minted = TRUE, !.status = "schema_minted"]
        \/ \E x \in {"cancelled", "generation_approved", "failed"} : state' = [state EXCEPT !.status = x]
        \/ \E g \in Gates, x \in {"failed", "template_ready"} :
             state' = [state EXCEPT !.scaffoldGate = g, !.status = x]
    BY <2>1 DEF mint_schema_version_node, generation_gate_node, prepare_template_scaffold_node, Gates
  <2>3. /\ AsCalled(state') /\ state'.extraction = call.extraction /\ state'.validation = "unknown"
        /\ state'.artifacts = state.artifacts
    BY <1>0, <1>2, <2>2 DEF AsCalled, States
  <2> QED BY <1>0, <1>2, <2>1, <2>3, SecondHalfStep DEF Generation
<1>5. CASE GenerateBackend
  <2>1. state' \in generate_backend_node(state)
        /\ pc' \in {"generate_backend", "generate_frontend", "END_CANCELLED"}
    BY <1>5 DEF GenerateBackend, Run, route_after_backend
  <2> QED BY <1>0, <1>2, <2>1, BackendCarries, SecondHalfStep DEF Generation, AfterBackend
<1>6. CASE GenerateFrontend \/ GenerateAdmin
  <2>1. PICK l \in Layers : state' = score_layer(state, l)
    BY <1>0, <1>6 DEF GenerateFrontend, GenerateAdmin, Run, generate_frontend_node, generate_admin_node
  <2>2. pc' \in {"generate_frontend", "generate_admin", "validate_consistency", "END_CANCELLED"}
    BY <1>6 DEF GenerateFrontend, GenerateAdmin, Run, route_after_frontend, route_after_admin
  <2>3. Carried(state, state') /\ state'.validation = state.validation
    BY <1>0, <2>1, ScoreCarries
  <2> QED BY <1>0, <1>2, <2>2, <2>3, SecondHalfStep
          DEF Carried, AsCalled, Generation, AfterBackend, AfterFrontend, AfterAdmin
<1> QED BY <1>3, <1>4, <1>5, <1>6

\* The validation of a preserved site never sends a layer back: it finds the
\* site whole and consistent, so that only the build decides.
LEMMA ValidationSteps ==
  ASSUME IInv, Contract, call \in StageCalls, call.status \in approved_statuses,
         ValidateConsistency \/ ValidateBuildSmoke \/ ValidationReviewGate \/ PackageExport
  PROVE  Contract'
<1>0. /\ state \in States /\ call' = call /\ call.validationReview = "none"
      /\ pc \in AfterAdmin
  BY StagePath DEF IInv, TypeOK, Run, ValidateConsistency, ValidateBuildSmoke, ValidationReviewGate,
                   PackageExport, AfterAdmin
<1>1. /\ AsCalled(state) /\ state.extraction = call.extraction
      /\ state.artifacts \in {call.artifacts} \union Worked(call)
      /\ state.validation = IF pc \in {"validation_review_gate", "package_export"} THEN "open" ELSE "unknown"
      /\ pc \in {"validate_build_smoke", "validation_review_gate"} => state.scores["consistency"] = 100
  BY <1>0 DEF Contract, GenerationContract, Generation, AfterBackend, AfterFrontend
<1>2. /\ Complete("backend") /\ Complete("frontend") /\ Complete("admin")
      /\ state.artifacts # NoArtifacts
  BY <1>0 DEF IInv, LayersComplete, AfterBackend, AfterFrontend, Complete, LayerScore
<1>3. state.artifacts \in Worked(call)
  BY <1>1, <1>2 DEF Worked
<1>4. CaptureContract'
  BY <1>0 DEF CaptureContract
<1>5. CASE ValidateConsistency
  <2>1. /\ pc = "validate_consistency" /\ pc' = "validate_build_smoke"
        /\ state' = [state EXCEPT !.scores["consistency"] = ConsistencyScore(state.artifacts),
                                  !.status = "consistency_validated"]
    BY <1>5 DEF ValidateConsistency, Run, validate_consistency_node
  <2>2. ConsistencyScore(state.artifacts) = 100
    BY <1>3, WorkedIsWhole
  <2>3. /\ AsCalled(state') /\ state'.extraction = state.extraction /\ state'.artifacts = state.artifacts
        /\ state'.validation = state.validation /\ state'.scores["consistency"] = 100
    BY <1>0, <1>1, <2>1, <2>2 DEF States, AsCalled, Scored
  <2> QED BY <1>0, <1>1, <1>4, <2>1, <2>3 DEF Contract, GenerationContract, EndContract, AsCalled
<1>6. CASE ValidateBuildSmoke
  <2>1. PICK t \in validate_build_smoke_node(state) : state' = t /\ pc' = route_after_smoke(t)
    BY <1>6 DEF ValidateBuildSmoke, Run
  <2>2. pc = "validate_build_smoke" /\ state.validation = "unknown"
    BY <1>1, <1>6 DEF ValidateBuildSmoke, Run
  <2>3. OverallX4(state) = 400
    BY <1>1, <1>2, <2>2 DEF OverallX4, Complete
  <2>4. \/ \E g \in {"blocked", "unknown"} : t = [state EXCEPT !.validation = g, !.status = "failed"]
        \/ t = [state EXCEPT !.validation = "open", !.status = "smoke_validated"]
    BY <2>2, <2>3 DEF validate_build_smoke_node
  <2>5. /\ AsCalled(t) /\ t.extraction = state.extraction /\ t.artifacts = state.artifacts
        /\ t.scores = state.scores
        /\ \/ t.status = "failed" /\ t.validation \in {"blocked", "unknown"}
           \/ t.status = "smoke_validated" /\ t.validation = "open"
    BY <1>0, <1>1, <2>4 DEF States, AsCalled
  <2>6. \/ pc' = "END_CANCELLED" /\ t.validation \in {"blocked", "unknown"}
        \/ pc' = "validation_review_gate" /\ t.validation = "open"
    BY <2>1, <2>5 DEF route_after_smoke
  <2>7. pc' = "END_CANCELLED" => ResultOf(t, "cancelled") \in Outcomes(call)
    BY <1>1, <1>2, <2>5, <2>6, SecondHalfEnds
  <2> QED BY <1>0, <1>1, <1>4, <2>1, <2>2, <2>5, <2>6, <2>7
          DEF Contract, GenerationContract, EndContract, AsCalled, Generation, AfterBackend, AfterFrontend, AfterAdmin
<1>7. CASE ValidationReviewGate
  <2>1. pc = "validation_review_gate" /\ state.validation = "open"
    BY <1>1, <1>7 DEF ValidationReviewGate, Run
  <2>2. OverallX4(state) = 400
    BY <1>1, <1>2, <2>1 DEF OverallX4, Complete
  <2>3. /\ state' = [state EXCEPT !.status = "package_approved"]
        /\ pc' = route_after_validation_review(state')
    BY <1>0, <1>7, <2>1, <2>2 DEF ValidationReviewGate, Run, validation_review_gate_node
  <2>4. /\ AsCalled(state') /\ state'.extraction = state.extraction /\ state'.artifacts = state.artifacts
        /\ state'.validation = "open" /\ state'.status = "package_approved"
    BY <1>0, <1>1, <2>1, <2>3 DEF States, AsCalled
  <2>5. pc' = "package_export"
    BY <2>3, <2>4 DEF route_after_validation_review
  <2> QED BY <1>0, <1>1, <1>4, <2>4, <2>5 DEF Contract, GenerationContract, EndContract, AsCalled
<1>8. CASE PackageExport
  <2>1. /\ pc = "package_export" /\ state.validation = "open" /\ pc' = "END"
        /\ state' = [state EXCEPT !.status = "exported"]
    BY <1>1, <1>8 DEF PackageExport, Run, package_export_node
  <2>2. /\ AsCalled(state') /\ state'.extraction = call.extraction /\ state'.artifacts = state.artifacts
        /\ state'.validation = "open" /\ state'.status = "exported"
    BY <1>0, <1>1, <2>1 DEF States, AsCalled
  <2>3. ResultOf(state', state'.status) \in Outcomes(call)
    BY <1>1, <1>2, <2>2, SecondHalfEnds
  <2> QED BY <1>0, <1>4, <2>1, <2>3
          DEF Contract, GenerationContract, EndContract, Generation, AfterBackend, AfterFrontend, AfterAdmin
<1> QED BY <1>5, <1>6, <1>7, <1>8

\* Every step of an invocation by the engine keeps the contract.
LEMMA NextContract == IInv /\ Contract /\ call \in StageCalls /\ [Next]_vars => Contract'
<1> SUFFICES ASSUME IInv, Contract, call \in StageCalls, [Next]_vars
             PROVE  Contract'
  OBVIOUS
<1>1. CASE UNCHANGED vars
  BY <1>1 DEF vars, Contract, CaptureContract, GenerationContract, EndContract, AsCalled, Unbuilt, ResultOf
<1>2. CASE EndCancelled
  <2>1. /\ pc = "END_CANCELLED" /\ pc' = "END" /\ call' = call
        /\ state' = [state EXCEPT !.status = "cancelled"]
    BY <1>2 DEF EndCancelled, Run, end_cancelled_node
  <2>2. state \in States
    BY DEF IInv, TypeOK
  <2>3. ResultOf(state', state'.status) = ResultOf(state, "cancelled")
    BY <2>1, <2>2 DEF ResultOf, States
  <2> QED BY <2>1, <2>3 DEF Contract, CaptureContract, GenerationContract, EndContract,
                           Capture, Generation, AfterBackend, AfterFrontend, AfterAdmin
<1>3. CASE CrawlRaises \/ GraphRecursionError
  BY <1>3 DEF CrawlRaises, GraphRecursionError, Contract, CaptureContract, GenerationContract, EndContract,
              Capture, Generation, AfterBackend, AfterFrontend, AfterAdmin
<1>4. CASE Next /\ ~(EndCancelled \/ CrawlRaises \/ GraphRecursionError) /\ call.status \in approved_statuses
  <2>1. pc \in Generation \union {"crawl_site"} \union Ends
    BY <1>4, StagePath
  <2>2. ~(SitemapGate \/ ExtractContent \/ InferCandidates \/ InferSchema \/ SchemaReviewGate)
    BY <2>1 DEF SitemapGate, ExtractContent, InferCandidates, InferSchema, SchemaReviewGate, Run,
                Generation, AfterBackend, AfterFrontend, AfterAdmin, Ends
  <2> QED BY <1>4, <2>2, SecondHalfSteps, ValidationSteps DEF Next
<1>5. CASE Next /\ ~(EndCancelled \/ CrawlRaises \/ GraphRecursionError) /\ call.status \notin approved_statuses
  <2>1. pc \in Capture \union Ends
    BY <1>5, StagePath
  <2>2. CrawlSite \/ SitemapGate \/ ExtractContent \/ InferCandidates \/ InferSchema \/ SchemaReviewGate
    BY <1>5, <2>1 DEF Next, Run, MintSchemaVersion, GenerationGate, PrepareScaffold, GenerateBackend,
              GenerateFrontend, GenerateAdmin, ValidateConsistency, ValidateBuildSmoke,
              ValidationReviewGate, PackageExport, Capture, Ends
  <2> QED BY <1>5, <2>2, FirstHalfSteps
<1> QED BY <1>1, <1>2, <1>3, <1>4, <1>5

\* What callers pass meets the contract.
LEMMA InitContract == Init => Contract
<1> SUFFICES ASSUME Init
             PROVE  Contract
  OBVIOUS
<1>1. /\ pc = "crawl_site" /\ state.extraction = call.extraction /\ state.schema = call.schema
      /\ state.schemaGate = call.schemaGate /\ state.artifacts = call.artifacts
      /\ state.validation = "unknown"
  BY DEF Init, InitialState
<1> QED BY <1>1 DEF Contract, CaptureContract, GenerationContract, EndContract, AsCalled, Unbuilt

\* The abstract stage has the contract's calls, outcomes and results.
LEMMA SameContract ==
  /\ Stage!Outcomes(call) = Outcomes(call)
  /\ Stage!StageCalls = StageCalls
  /\ Stage!Results = Results
<1>1. Stage!Outcomes(call) = Outcomes(call)
  BY DEF Stage!Outcomes, Stage!Unchanged, Stage!Generated, Stage!GenerationOutcomes, Stage!Worked,
         Stage!PreservedSite, Stage!Layers, Stage!FullLayer, Stage!approved_statuses,
         Stage!StopsAfterExtract, Stage!CaptureOutcomes, Stage!InferenceOutcomes, Stage!Inferred,
         Outcomes, Unchanged, Generated, GenerationOutcomes, Worked, PreservedSite, Layers, FullLayer,
         approved_statuses, StopsAfterExtract, CaptureOutcomes, InferenceOutcomes, Inferred
<1>2. /\ Stage!Proposals = Proposals /\ Stage!Artifacts = Artifacts /\ Stage!Gates = Gates
      /\ Stage!StageArtifacts = StageArtifacts
  BY DEF Stage!Proposals, Stage!Artifacts, Stage!Gates, Stage!LayerShapes, Stage!Layers,
         Stage!StageArtifacts, Stage!PreservedSite, Stage!FullLayer,
         Proposals, Artifacts, Gates, LayerShapes, Layers, StageArtifacts, PreservedSite, FullLayer
<1>3. Stage!CallSpace = CallSpace
  BY <1>2 DEF Stage!CallSpace, Stage!JobStatus, Stage!approved_statuses, CallSpace, JobStatus, approved_statuses
<1> QED BY <1>1, <1>2, <1>3 DEF Stage!StageCalls, Stage!Results, StageCalls, Results

\* The statuses of a result.
ResultStatuses == {"extracted", "awaiting_approval", "exported", "cancelled"}

\* Four nodes lead to the end, each with a status of its own.
LEMMA StatusAtEnd ==
  ASSUME TypeOK, Next, pc' = "END"
  PROVE  state'.status \in ResultStatuses
<1>1. state \in States
  BY DEF TypeOK
<1>2. CASE ExtractContent
  <2>1. pc' = route_after_extract(state')
    BY <1>2 DEF ExtractContent, Run
  <2> QED BY <2>1 DEF route_after_extract, ResultStatuses
<1>3. CASE SchemaReviewGate
  <2>1. pc' = route_after_schema_review(state')
    BY <1>3 DEF SchemaReviewGate, Run
  <2> QED BY <2>1 DEF route_after_schema_review, ResultStatuses
<1>4. CASE PackageExport
  BY <1>1, <1>4 DEF PackageExport, Run, package_export_node, States, ResultStatuses
<1>5. CASE EndCancelled
  BY <1>1, <1>5 DEF EndCancelled, Run, end_cancelled_node, States, ResultStatuses
<1>6. CASE CrawlSite \/ SitemapGate \/ InferCandidates \/ InferSchema
  BY <1>6 DEF CrawlSite, SitemapGate, InferCandidates, InferSchema, Run,
              route_after_crawl, route_after_sitemap, route_after_infer_schema
<1>7. CASE MintSchemaVersion \/ GenerationGate \/ PrepareScaffold
  BY <1>7 DEF MintSchemaVersion, GenerationGate, PrepareScaffold, Run,
              route_after_generation_gate, route_after_scaffold
<1>8. CASE GenerateBackend \/ GenerateFrontend \/ GenerateAdmin
  BY <1>8 DEF GenerateBackend, GenerateFrontend, GenerateAdmin, Run,
              route_after_backend, route_after_frontend, route_after_admin
<1>9. CASE ValidateConsistency \/ ValidateBuildSmoke \/ ValidationReviewGate
  BY <1>9 DEF ValidateConsistency, ValidateBuildSmoke, ValidationReviewGate, Run,
              route_after_smoke, route_after_validation_review
<1>10. CASE CrawlRaises \/ GraphRecursionError
  BY <1>10 DEF CrawlRaises, GraphRecursionError
<1> QED BY <1>2, <1>3, <1>4, <1>5, <1>6, <1>7, <1>8, <1>9, <1>10 DEF Next

\* However an invocation ends, the engine gets a result.
LEMMA ResultTyped ==
  ASSUME TypeOK', pc' = "RAISED" \/ (pc' = "END" /\ state'.status \in ResultStatuses)
  PROVE  Result' \in Results
<1>1. CASE pc' = "END" /\ state'.status \in ResultStatuses
  <2>1. state' \in States
    BY DEF TypeOK
  <2> QED BY <1>1, <2>1 DEF Result, Results, States, ResultStatuses
<1>2. CASE pc' = "RAISED"
  <2>1. call' \in CallSpace
    BY CallsAssumption DEF TypeOK
  <2>2. "unknown" \in Gates
    BY DEF Gates
  <2> QED BY <1>2, <2>1, <2>2 DEF Result, Results, Unchanged, Generated, CallSpace
<1> QED BY <1>1, <1>2

\* What the contract says of an invocation that is a stage's.
StageContract == call \in StageCalls => Contract

\* A step that ends an invocation yields, and every other leaves the stage
\* as it is.
LEMMA StepImplements ==
  ASSUME IInv, IInv', StageContract', [Next]_vars
  PROVE  [Stage!Next]_Stage!stageVars
<1>1. CASE UNCHANGED vars
  BY <1>1 DEF vars, Stage!stageVars, Result
<1>2. CASE Next
  <2>1. call' = call /\ pc \notin {"END", "RAISED"}
    BY <1>2 DEF Next, Run, CrawlSite, SitemapGate, ExtractContent, InferCandidates, InferSchema,
       SchemaReviewGate, MintSchemaVersion, GenerationGate, PrepareScaffold, GenerateBackend,
       GenerateFrontend, GenerateAdmin, ValidateConsistency, ValidateBuildSmoke,
       ValidationReviewGate, PackageExport, EndCancelled, CrawlRaises, GraphRecursionError
  <2>2. Result = Pending
    BY <2>1 DEF Result
  <2>3. CASE pc' \in {"END", "RAISED"}
    <3>1. Result' \in Results
      <4>1. TypeOK /\ TypeOK'
        BY DEF IInv
      <4>2. pc' = "END" => state'.status \in ResultStatuses
        BY <1>2, <4>1, StatusAtEnd
      <4>3. pc' = "RAISED" \/ (pc' = "END" /\ state'.status \in ResultStatuses)
        BY <2>3, <4>2
      <4> QED BY <4>1, <4>3, ResultTyped
    <3>2. ASSUME call \in StageCalls PROVE Result' \in Outcomes(call')
      <4>1. Contract'
        BY <2>1, <3>2 DEF StageContract
      <4>2. CASE pc' = "END"
        BY <4>1, <4>2 DEF Contract, EndContract, Result, ResultOf
      <4>3. CASE pc' = "RAISED"
        BY <4>3 DEF Result, Outcomes
      <4> QED BY <2>3, <4>2, <4>3
    <3>3. Result' \in IF call \in Stage!StageCalls THEN Stage!Outcomes(call) ELSE Stage!Results
      BY <2>1, <3>1, <3>2, SameContract
    <3> QED BY <2>1, <2>2, <3>3 DEF Stage!Next, Stage!Yield
  <2>4. CASE pc' \notin {"END", "RAISED"}
    <3>1. Result' = Pending
      BY <2>4 DEF Result
    <3> QED BY <2>1, <2>2, <3>1 DEF Stage!stageVars
  <2> QED BY <2>3, <2>4
<1> QED BY <1>1, <1>2

\* An invocation keeps its call, so the contract stays.
LEMMA NextStageContract == IInv /\ StageContract /\ [Next]_vars => StageContract'
<1> SUFFICES ASSUME IInv, StageContract, [Next]_vars, call' \in StageCalls
             PROVE  Contract'
  BY DEF StageContract
<1>1. call' = call
  BY DEF vars, Next, Run, CrawlSite, SitemapGate, ExtractContent, InferCandidates, InferSchema,
       SchemaReviewGate, MintSchemaVersion, GenerationGate, PrepareScaffold, GenerateBackend,
       GenerateFrontend, GenerateAdmin, ValidateConsistency, ValidateBuildSmoke,
       ValidationReviewGate, PackageExport, EndCancelled, CrawlRaises, GraphRecursionError
<1>2. call \in StageCalls /\ Contract
  BY <1>1 DEF StageContract
<1> QED BY <1>2, NextContract

\* Every invocation does what the abstract stage allows, whatever the calls,
\* the schemas, the budgets and the recursion limit: it ends at most once, with
\* a result, and if the call is one a stage makes, with an outcome of the
\* contract.  (That it ends is ImplementsStage.)
THEOREM GraphImplementsStage == Spec => Stage!Spec
<1>1. Init => Stage!Init
  BY DEF Init, Result, Stage!Init
<1>2. Init => StageContract
  BY InitContract DEF StageContract
<1>3. Spec => []IInv /\ []StageContract
  BY <1>2, NextStageContract, Invariant, PTL DEF Spec
<1>4. IInv /\ IInv' /\ StageContract' /\ [Next]_vars => [Stage!Next]_Stage!stageVars
  BY StepImplements
<1> QED BY <1>1, <1>3, <1>4, PTL DEF Spec, Stage!Spec

=============================================================================
