SPECIFICATION Spec
CONSTANTS
  Content = {c1, c2, c3}
  TheLayer = TheLayer
  Kinds <- FileKinds
  Overlap = TRUE
  MayThrow = FALSE
  Hides = FALSE
INVARIANTS OneTransition
