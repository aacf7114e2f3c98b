------------------------ MODULE MCConversionWorkflow ------------------------
(***************************************************************************)
(* A small instance of ConversionWorkflow.  EngineCalls are the initial     *)
(* states ConversionEngine builds (service.py run_job and                  *)
(* infer_schema_stage, for the API stages and for the MCP tools);          *)
(* DirectCalls are those of callers of the compiled graph, which may also  *)
(* set the review decisions of state.py.                                   *)
(***************************************************************************)
EXTENDS ConversionWorkflow

MCSchemas == {"s1", "s2"}

Partial(n) == [listed |-> TRUE, extras |-> n]
MCShapes == {FullLayer, Partial(2), [listed |-> FALSE, extras |-> 0]}

Built(backend, frontend, admin, orphans) ==
  [ layers |-> [backend |-> backend, frontend |-> frontend, admin |-> admin],
    orphans |-> orphans, source |-> "s1" ]

EarlierArtifacts ==
  { Built(FullLayer, FullLayer, FullLayer, FALSE), Built(FullLayer, FullLayer, FullLayer, TRUE),
    Built(Partial(2), FullLayer, FullLayer, FALSE), Built(FullLayer, Partial(1), FullLayer, FALSE),
    Built(FullLayer, FullLayer, Partial(0), FALSE) }

NoReview == [schemaReview |-> "none", generationGate |-> "none", validationReview |-> "none"]

\* Two records with disjoint fields as one.
Join(r, q) == [f \in DOMAIN r \union DOMAIN q |-> IF f \in DOMAIN r THEN r[f] ELSE q[f]]

Finished == Built(FullLayer, FullLayer, FullLayer, FALSE)

\* Every call WorkerJobs makes is one of these, whatever earlier stages left
\* in the record.
EngineInputs ==
  [ status : {"draft", "failed"}, target : {"crawl", "none"}, pages : {"inline", "fetch"},
    preserved : {TRUE}, customInfer : {FALSE}, extraction : Gates,
    schema : {NoSchema, EmptySchema, "s1"}, schemaGate : Gates,
    artifacts : {NoArtifacts, Finished} ]
  \union
  [ status : {"extracted", "inferring_schema"}, target : {"schema"}, pages : {"captured", "fetch"},
    preserved : {TRUE}, customInfer : {FALSE}, extraction : Gates,
    schema : {NoSchema, EmptySchema, "s1"}, schemaGate : Gates,
    artifacts : {NoArtifacts, Finished} ]
  \union
  [ status : {"approved"}, target : {"generate"}, pages : {"captured"},
    preserved : {TRUE}, customInfer : {FALSE}, extraction : Gates,
    schema : MCSchemas \union {EmptySchema}, schemaGate : Gates,
    artifacts : {NoArtifacts, Finished} ]

EngineCalls == {Join(i, NoReview) : i \in EngineInputs}

ASSUME EngineCallsAssumption == EngineCalls \subseteq StageCalls

DirectInputs ==
  [ status : {"draft"}, target : {"schema"}, pages : {"inline"},
    preserved : BOOLEAN, customInfer : BOOLEAN, extraction : {"unknown"}, schema : {NoSchema},
    schemaGate : {"unknown"}, artifacts : {NoArtifacts} ]
  \union
  [ status : approved_statuses, target : {"generate"}, pages : {"inline"},
    preserved : BOOLEAN, customInfer : {FALSE}, extraction : {"open"}, schema : {"s1"},
    schemaGate : {"open"}, artifacts : {NoArtifacts} \union EarlierArtifacts ]

SettlingReviews ==
  [ schemaReview : {"none", "approved", "cancelled"}, generationGate : {"none", "cancelled"},
    validationReview : {"none", "approved", "cancelled"} ]

SettlingCalls == {Join(i, r) : i \in DirectInputs, r \in SettlingReviews}

RetryReviews ==
  [ schemaReview : {"none", "approved"}, generationGate : {"none"},
    validationReview : {"retry_backend", "retry_schema"} ]

RetryCalls == {Join(i, r) : i \in DirectInputs, r \in RetryReviews}

DirectCalls == SettlingCalls \union RetryCalls

MCCalls == EngineCalls \union DirectCalls

=============================================================================
