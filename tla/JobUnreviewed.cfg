CONSTANTS
  Schemas = {"s1", "s2"}
  NoSchema = NoSchema
  EmptySchema = EmptySchema
  NoArtifacts = NoArtifacts
  Jobs = {j1}
  Keys = {}
  NoKey = NoKey
  NoJob = NoJob
  StoreFaults = FALSE
SPECIFICATION Spec
INVARIANTS
  ValidatedIsReviewed
CHECK_DEADLOCK FALSE
