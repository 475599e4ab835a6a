SPECIFICATION FFairSpec
CONSTANTS
  Content = {c1, c2, c3}
  Filter = {f1}
  TheLayer = TheLayer
  Kinds <- AllKinds
  Overlap = TRUE
  MayThrow = TRUE
  MaxLost = 1
  Hides = FALSE
INVARIANTS TypeOK ShownAlive TargetAlive AnnouncedUnlessLost PaneCoversNewest
PROPERTIES TransitionEnds
