SPECIFICATION Spec
CONSTANTS
  Tasks = {t1, t2, t3}
  Origins = {o1}
  Nonces = {n1}
  Capacity = 2
  MaxPooled = 1
  MaxGeneration = 1
  MaxSequence = 8
SYMMETRY Symmetry
INVARIANTS
  HandleNamesOneSession
  HeldJarKeepsItsSlot
  OperationUsesItsOwnSession
  NoForgottenClient
PROPERTIES
  ImplementsService
