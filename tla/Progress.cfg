SPECIFICATION ProgressSpec
CONSTANTS
  Tasks = {t1, t2}
  Origins = {o1}
  Nonces = {n1}
  Capacity = 1
  MaxPooled = 1
  MaxGeneration = 1
  MaxSequence = 7
  Requests = {r1, r2}
  k1 = k1
  k2 = k2
  TokenKeys = {k1, k2}
  NoToken = NoToken
  MaxConcurrent = 1
  MaxAttempts = 2
  MaxCachedTokens = 1
  Delays = {1}
  Lives = {2}
  MaxAhead = 1
PROPERTIES
  CallsReturn
  EveryRequestEnds
