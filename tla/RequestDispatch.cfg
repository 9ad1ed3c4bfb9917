SPECIFICATION Spec
CONSTANTS
  Requests = {r1, r2, r3}
  k1 = k1
  k2 = k2
  TokenKeys = {k1, k2}
  NoToken = NoToken
  Kinds <- Mixed
  MaxConcurrent = 2
  MaxAttempts = 2
  MaxCachedTokens = 1
  Delays = {1}
  Lives = {2}
  MaxAhead = 1
SYMMETRY Symmetry
INVARIANTS
  SlotsAreSpaced
PROPERTIES
  NoRedundantExchange
