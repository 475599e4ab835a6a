SPECIFICATION FairSpec
CONSTANTS
  File = {f1, f2, f3}
  None = None
  Blank = Blank
  Self = Self
  Other = Other
CHECK_DEADLOCK FALSE
INVARIANTS OwnThumbnail OthersKept
PROPERTIES QueueEnds
