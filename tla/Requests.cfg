SPECIFICATION RequestsSpec
CONSTANTS
  Requests = {r1, r2, r3, r4}
  TokenKeys = {}
  NoToken = NoToken
  Kinds <- Retried
  MaxConcurrent = 4
  MaxAttempts = 2
  MaxCachedTokens = 1
  Delays = {1}
  Lives = {1}
  MaxAhead = 1
  Second = 2
  HalfWord = 5
  FractionBits = 3
  TopField = 14
  MinExponent <- Lowest
  Nanos = 10
  NanoBits = 4
  Settings <- SomeSettings
  RetryAfters = {2, 4}
  MaxWaits = 6
  NoValue = NoValue
  Int64 = 8
  UInt64 = 16
  Int128 = 32
  Floats <- SomeFloats
  ExactInteger = 4
  Scale <- SmallScale
  MaxDecimals = 2
  Kelvin = 12
  Received <- SomeReceived
  Texts <- SomeTexts
  Transforms <- SomeTransforms
  MaxTransforms = 2
  ParameterNames <- TwoNames
  Connections <- SomeConnections
  Inputs <- SomeInputs
  Nothing = Nothing
  Messages <- SomeMessages
  NoAnswer = NoAnswer
  LinkHeaders <- SomeLinks
  PolledJobs <- SomeJobs
  Unnamed = Unnamed
SYMMETRY Symmetry
CHECK_DEADLOCK FALSE
INVARIANTS
  NeverFasterThanRate
  ArithmeticIsExact
  TransformsAreExact
  SentAsDeclared
  RefusalIsFirst
  FollowUpsAreFound
