SPECIFICATION Spec
CONSTANTS
  Requests = {r1, r2, r3}
  Keys = {k1, k2}
  Policies <- TwoPolicies
  MaxLease = 2
  MaxOrigins = 1
  MaxTime = 3
  MaxSequence = 5
SYMMETRY Symmetry
INVARIANTS
  ProbeKeepsCircuitOpen
  ClosedBelowThreshold
PROPERTIES
  OneProbePerLease
  OutdatedOutcomeIsIgnored
