SPECIFICATION PartsSpec
CONSTANTS
  samples = samples
  blocks = blocks
  v1 = v1
  v2 = v2
  v3 = v3
  Sarray = {samples}
  Barray = {blocks}
  Shape <- MCShape
  Value <- MCValue
  ObjectSize = {3}
  Heap <- MCHeap
  MaxMemoryToUse = 40
  MaxAllocChunk = 8
  AlignType = 2
  PoolHdr = 2
  FirstPoolSlop <- MCFirstPoolSlop
  ExtraPoolSlop <- MCExtraPoolSlop
  MinSlop = 3
  ControlBlock = 6
  MaxObjects = 1
  Images <- MCImages
  Membership <- MCMembership
  Intervals = {0, 1, 2}
  BufferSize = 24
  Arrivals = {1, 5}
  MaxLost = 2
  DCTSIZE = 8
  Files <- MCFiles
  Limits = {2, 90}
  Deliveries = {3, 500}
  Left = {0, 3}
SYMMETRY Symmetric
INVARIANTS
  SpaceAccounted RowsKept GrantReads NoFileLost
  DecodedAsCoded NeverStuck
  MarkersSaved ReadAsWritten
  TablesDecode ScansAgree TurnedAsAsked PixelsRestored ColorsQuantized
