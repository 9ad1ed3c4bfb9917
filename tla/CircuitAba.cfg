SPECIFICATION Spec
CONSTANTS
  Requests = {r1, r2, r3}
  Keys = {k1, k2}
  Policies <- OnePolicy
  MaxLease = 2
  MaxOrigins = 1
  MaxTime = 3
  MaxSequence = 6
SYMMETRY Symmetry
PROPERTY
  OnlyProbesClose
