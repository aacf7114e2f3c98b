CONSTANTS
  Schemas = {"s1", "s2"}
  NoSchema = NoSchema
  EmptySchema = EmptySchema
  NoArtifacts = NoArtifacts
  Jobs = {j1}
  Keys = {}
  NoKey = NoKey
  NoJob = NoJob
  StoreFaults = FALSE
SPECIFICATION FairSpec
INVARIANTS
  TypeOK
  SnapshotCurrent
  ArtifactsReviewed
  DecisionKept
  InterruptionIsReal
PROPERTIES
  ValidatedIsFinal
  ClaimsReleased
CHECK_DEADLOCK FALSE
