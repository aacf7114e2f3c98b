CONSTANTS
  Schemas = {"s1"}
  NoSchema = NoSchema
  EmptySchema = EmptySchema
  NoArtifacts = NoArtifacts
  Jobs = {j1}
  Keys = {}
  NoKey = NoKey
  NoJob = NoJob
  StoreFaults = FALSE
SPECIFICATION Spec
INVARIANTS
  ResumeMatchesView
CHECK_DEADLOCK FALSE
