SPECIFICATION RateSpec
CONSTANTS
  Requests = {r1, r2, r3, r4, r5}
  TokenKeys = {}
  NoToken = NoToken
  Kinds <- OnlyPlain
  MaxConcurrent = 1
  MaxAttempts = 1
  MaxCachedTokens = 1
  Delays = {1}
  Lives = {1}
  MaxAhead = 5
  Second = 1
SYMMETRY Symmetry
INVARIANT
  WithinRateGate
