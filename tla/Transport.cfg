SPECIFICATION TransportSpec
CONSTANTS
  Gets = {1, 2}
  k1 = k1
  k2 = k2
  CacheKeys = {k1, k2}
  NoEntry = NoEntry
  NoAge = NoAge
  NoCondition = NoCondition
  NoControl = NoControl
  CacheLimits <- TwoLimits
  FreshFor = {1}
  Headers <- SomeHeaders
  BodyBytes <- TwoBodies
  OwnCondition <- OneOwn
  MaxNow = 1
  MaxAnswers = 3
  NoFile = NoFile
  NoTag = NoTag
  NoLength = NoLength
  Anything = Anything
  MaxChanges = 1
  Workloads <- FourWorkloads
  Length <- TwoLengths
  UploadLimit = 2
  UploadAttempts = 2
  MaxBlocks = 3
  MaxWrites = 3
  Calls = {1, 2, 3}
  IdempotencyKeys = {1, 2, 3}
  NoKey = 0
  Prints = {1, 2}
  NoPrint = 0
  KeyLimits = {0, 1, 2}
  Workers = {1, 2}
  FunctionalTickets = 1
  MaxTickets = 3
  Permits = 1
  Hangs = {2}
  NoTicket = 0
  Left = Left
CHECK_DEADLOCK FALSE
INVARIANTS
  CacheIsBounded
  StoredWasCurrent
  PublishedIsComplete
  ReportIsTrue
  UploadIsAuthentic
  LastKeysAreRemembered
  VerdictIsEarned
  PeakIsExplained
PROPERTIES
  KeepsExisting
