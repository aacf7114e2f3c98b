\* Capture and schema inference of one job, in six crawl configurations.
CONSTANTS
  Urls <- MCUrls
  Root = "home"
  Admissible <- MCAdmissible
  PageLinks <- MCPageLinks
  AssetLinks <- MCAssetLinks
  Sitemap = {"moved"}
  Landing <- MCLanding
  Archive <- MCArchive
  Configs <- MCConfigs
  NoCheckpoint = NoCheckpoint
  MaxCrashes = 1
  NumProviders = 2
  Pages <- MCUrls
  Contents = {"long", "short"}
  ContentOf <- MCContentOf
  Size <- MCSize
  SharedSize = 3
  Extra <- MCExtra
  MaxChars = 12
  MinRoom = 3
  Gap = 1
  Label = 1
  Concurrency = 2
  MaxAttempts = 2
  MaxRounds = 1
  Refused = {2}
  InferFor <- MCInferFor
SPECIFICATION Spec
INVARIANTS
  TypeOK
  CheckpointBacked
  WithinLimits
  NothingMissed
  MergedIsWhole
  NothingRunsAfter
  SavedIsNotAsked
  SchemaCoversCapture
PROPERTIES
  ImplementsLedger
  StagesEnd
CHECK_DEADLOCK FALSE
