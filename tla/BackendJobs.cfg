\* Two tabs, one legacy crawl, two new ones, one request at a time.
CONSTANTS
  old = old
  first = first
  second = second
  Crawls <- MCCrawls
  Legacy <- MCLegacy
  NoCrawl = NoCrawl
  Tabs = {1, 2}
  Slots = {s1}
  Limit = 2
  MaxCrashes = 1
SPECIFICATION FairSpec
INVARIANTS
  TypeOK
  QuotaHeld
  NotStranded
PROPERTIES
  UsageKept
  SpentConversionStarts
  MirrorConverges
CHECK_DEADLOCK FALSE
