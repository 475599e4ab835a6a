SPECIFICATION FSpec
CONSTANTS
  Content = {c1, c2}
  Filter = {f1}
  TheLayer = TheLayer
  Kinds <- CalmKinds
  Overlap = FALSE
  MayThrow = FALSE
  MaxLost = 0
  Hides = FALSE
INVARIANTS OldFiltersGone
