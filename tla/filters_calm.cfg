SPECIFICATION FFairSpec
CONSTANTS
  Content = {c1, c2, c3}
  Filter = {f1, f2}
  TheLayer = TheLayer
  Kinds <- CalmKinds
  Overlap = FALSE
  MayThrow = FALSE
  MaxLost = 0
  Hides = TRUE
INVARIANTS VisibleAsAsked PaneMirrors TargetShown
PROPERTIES FadeSpec
