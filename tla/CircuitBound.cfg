SPECIFICATION Spec
CONSTANTS
  Requests = {r1, r2}
  Keys = {k1, k2}
  Policies <- OnePolicy
  MaxLease = 2
  MaxOrigins = 1
  MaxTime = 1
  MaxSequence = 5
SYMMETRY Symmetry
INVARIANT
  StatesAreBounded
