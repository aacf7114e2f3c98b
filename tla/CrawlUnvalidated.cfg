\* The capture alone, in the configuration that demands a static source.
CONSTANTS
  Urls <- MCUrls
  Root = "home"
  Admissible <- MCAdmissible
  PageLinks <- MCPageLinks
  AssetLinks <- MCAssetLinks
  Sitemap = {"moved"}
  Landing <- MCLanding
  Archive <- MCArchive
  Configs <- MCStaticConfigs
  NoCheckpoint = NoCheckpoint
  MaxCrashes = 1
  NumProviders = 2
  Pages <- MCUrls
  Contents = {"long", "short"}
  ContentOf <- MCContentOf
  Size <- MCSize
  SharedSize = 3
  Extra <- MCExtra
  MaxChars = 12
  MinRoom = 3
  Gap = 1
  Label = 1
  Concurrency = 2
  MaxAttempts = 2
  MaxRounds = 1
  Refused = {2}
  InferFor = {}
SPECIFICATION Spec
INVARIANT OnlyStaticSources
CHECK_DEADLOCK FALSE
