SPECIFICATION ExecutionsSpec
CONSTANTS
  Policies <- FourPolicies
  Urls = {1, 2}
  AwayUrls = {2}
  NoUrl = 0
  NoJob = NoJob
  NoResult = NoResult
  MaxRecoveries = 1
  Paginations <- SomePaginations
  Sources <- SomeSources
  NoPage = 0
  Batches <- SomeBatches
  NoAdditions = 0
  NoOutput = NoOutput
  MaxSignals = 2
CHECK_DEADLOCK FALSE
INVARIANTS
  OpenJobsAreReported
  HandlesReachHost
  CancellationsAreTold
  CredentialsStayHome
  EffectIsTold
  OneOutcomePerRecord
  PagesAreComplete
  PagesAreProtected
  BatchIsAligned
  ExitIsTrue
PROPERTIES
  EveryExecutionReturns
  SignalEndsCommand
