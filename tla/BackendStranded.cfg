\* The same account, until an interruption leaves a conversion in between.
CONSTANTS
  old = old
  first = first
  second = second
  Crawls <- MCCrawls
  Legacy <- MCLegacy
  NoCrawl = NoCrawl
  Tabs = {1, 2}
  Slots = {s1}
  Limit = 2
  MaxCrashes = 1
SPECIFICATION Spec
INVARIANT InterruptedIsOffered
CHECK_DEADLOCK FALSE
