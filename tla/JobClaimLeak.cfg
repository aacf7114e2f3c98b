CONSTANTS
  Schemas = {"s1"}
  NoSchema = NoSchema
  EmptySchema = EmptySchema
  NoArtifacts = NoArtifacts
  Jobs = {j1}
  Keys = {}
  NoKey = NoKey
  NoJob = NoJob
  StoreFaults = TRUE
SPECIFICATION Spec
INVARIANTS
  ClaimHasTask
CHECK_DEADLOCK FALSE
