CONSTANTS
  Schemas = {"s1"}
  NoSchema = NoSchema
  EmptySchema = EmptySchema
  NoArtifacts = NoArtifacts
  Jobs = {j1, j2}
  Keys = {k1}
  NoKey = NoKey
  NoJob = NoJob
  StoreFaults = TRUE
SPECIFICATION Spec
INVARIANTS
  OneJobPerKey
  NoStuckJob
SYMMETRY JobSymmetry
CHECK_DEADLOCK FALSE
