--------------------------- MODULE ConversionStage ---------------------------
(***************************************************************************)
(* The data that a conversion job and an invocation of the workflow share, *)
(* and what the worker's engine may get back from one invocation: the      *)
(* contract between service.py, which runs stages, and the graph that      *)
(* executes them.  ConversionWorkflow is shown to implement it; WorkerJobs *)
(* is built on it.                                                         *)
(***************************************************************************)
EXTENDS Integers

CONSTANTS
  Schemas,         \* identities of schema proposals that hold entities
  NoSchema,        \* the empty proposal {}
  EmptySchema,     \* a proposal whose entity list is empty
  NoArtifacts      \* generated_artifacts = {}

Layers == {"backend", "frontend", "admin"}
Gates  == {"unknown", "open", "blocked"}

\* A layer: does it list its items (endpoints, pages, resources), and how
\* many of its three other parts are there.
LayerShapes == [listed : BOOLEAN, extras : 0 .. 3]
FullLayer   == [listed |-> TRUE, extras |-> 3]

Proposals == Schemas \union {NoSchema, EmptySchema}

\* source names the proposal the artifacts were generated from (their seed
\* holds it); orphans: more admin resources than endpoints.
Artifacts == [layers : [Layers -> LayerShapes], orphans : BOOLEAN, source : Proposals]

ASSUME SchemaAssumption ==
  /\ NoSchema \notin Schemas
  /\ EmptySchema \notin Schemas
  /\ NoSchema # EmptySchema
ASSUME ArtifactsAssumption == NoArtifacts \notin Artifacts

JobStatus ==
  {"draft", "crawled", "extracted", "inferring_schema", "schema_proposed",
   "awaiting_approval", "approved", "generated", "validated", "cancelled", "failed"}

approved_statuses == {"approved", "generation_approved"}

\* generate_preserved_site: captured pages become a site with every layer.
PreservedSite(p) ==
  [layers |-> [l \in Layers |-> FullLayer], orphans |-> FALSE, source |-> p]

\* What a caller passes to workflow.invoke; the three review fields are only
\* set by direct callers of the graph.
CallSpace ==
  [ status           : JobStatus \union approved_statuses,
    target           : {"none", "crawl", "schema", "generate"},
    pages            : {"captured", "inline", "fetch"},
    preserved        : BOOLEAN,
    customInfer      : BOOLEAN,
    extraction       : Gates,
    schema           : Proposals,
    schemaGate       : Gates,
    artifacts        : Artifacts \union {NoArtifacts},
    schemaReview     : {"none", "approved", "cancelled"},
    generationGate   : {"none", "cancelled"},
    validationReview : {"none", "approved", "retry_backend", "retry_schema", "cancelled"} ]

\* The artifacts the engine's own stages leave in a job: none, or a site
\* preserved from some proposal.
StageArtifacts == {NoArtifacts} \union {PreservedSite(p) : p \in Proposals}

\* What run_job and infer_schema_stage pass: they set no review decision, use
\* the graph's own inference, and hand on artifacts an earlier stage left.
StageCalls ==
  { c \in CallSpace :
      /\ c.preserved /\ ~c.customInfer
      /\ c.schemaReview = "none" /\ c.generationGate = "none" /\ c.validationReview = "none"
      /\ c.artifacts \in StageArtifacts }

-----------------------------------------------------------------------------
(* What the engine reads from the result of an invocation.                 *)

Results ==
  [ status     : {"extracted", "awaiting_approval", "exported", "cancelled", "raised"},
    extraction : Gates,
    schema     : Proposals,
    schemaGate : Gates,
    artifacts  : Artifacts \union {NoArtifacts},
    validation : Gates ]

\* What a capture or an inference gives back: the artifacts stay as they are.
Inferred(c, status, extraction, schema, gate) ==
  [ status |-> status, extraction |-> extraction, schema |-> schema, schemaGate |-> gate,
    artifacts |-> c.artifacts, validation |-> "unknown" ]

\* What a generation gives back: the gates of the capture and the proposal
\* stay as they are.
Generated(c, status, artifacts, validation) ==
  [ status |-> status, extraction |-> c.extraction, schema |-> c.schema,
    schemaGate |-> c.schemaGate, artifacts |-> artifacts, validation |-> validation ]

\* The call's own fields, with the validation report gone.
Unchanged(c, status) == Generated(c, status, c.artifacts, "unknown")

\* Stage 1 ends extracted, with its gate open, or cancelled.
CaptureOutcomes(c) ==
  LET Captured(status, gate) == Inferred(c, status, gate, c.schema, c.schemaGate)
  IN {Captured("extracted", "open")}
       \union {Captured("cancelled", g) : g \in {c.extraction, "blocked"}}

\* Stage 2 extracts again; inference then fails (the proposal stays), is
\* blocked by the schema gate, or proposes.  Artifacts stay.
InferenceOutcomes(c) ==
  {Inferred(c, "cancelled", g, c.schema, c.schemaGate) : g \in {c.extraction, "blocked", "open"}}
    \union {Inferred(c, "cancelled", "open", p, "blocked") : p \in Schemas \union {EmptySchema}}
    \union {Inferred(c, "awaiting_approval", "open", p, "open") : p \in Schemas}

\* What stage 3 works on: artifacts that are there already, whatever they were
\* built from, or a site built from the call's proposal.
Worked(c) ==
  IF c.artifacts # NoArtifacts THEN {c.artifacts}
  ELSE IF c.schemaGate = "open" THEN {PreservedSite(c.schema)} ELSE {}

\* Stage 3 fails before there is anything, fails after, is blocked by its
\* validation, or packages.
GenerationOutcomes(c) ==
  {Unchanged(c, "cancelled")}
    \union {Generated(c, "cancelled", a, v) : a \in Worked(c), v \in {"unknown", "blocked"}}
    \union {Generated(c, "exported", a, "open") : a \in Worked(c)}

\* Stage 1 is where an invocation stops unless inference was asked for or a
\* proposal is there already.
StopsAfterExtract(c) == c.target = "crawl" \/ (c.target # "schema" /\ c.schema = NoSchema)

\* An exception of a node, or the recursion limit, gives no result.
Outcomes(c) ==
  {Unchanged(c, "raised")} \union
    (IF c.status \in approved_statuses THEN GenerationOutcomes(c)
     ELSE IF StopsAfterExtract(c) THEN CaptureOutcomes(c)
     ELSE InferenceOutcomes(c))

=============================================================================
