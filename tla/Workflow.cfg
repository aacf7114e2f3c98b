CONSTANTS
  Schemas <- MCSchemas
  NoSchema = NoSchema
  EmptySchema = EmptySchema
  NoArtifacts = NoArtifacts
  Shapes <- MCShapes
  MaxRetries = 3
  RecursionLimit = 100
  Calls <- MCCalls
  Pending = Pending
SPECIFICATION FairSpec
INVARIANTS
  TypeOK
  NoGenerationWithoutApproval
  RetryBudget
  ExportedIsValidated
  ApprovedSchemaKept
  StepsBounded
PROPERTIES
  ImplementsStage
  ArtifactsKept
CHECK_DEADLOCK FALSE
