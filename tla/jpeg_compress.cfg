SPECIFICATION Spec
CONSTANTS
  DCTSIZE = 2
  Images <- MCImages
  Qualities = {"q1", "q2"}
  Chunks = {1, 4}
  Rooms = {2, 5}
  MaxFiles = 2
INVARIANTS FileIsImage ScansInOrder TablesInForce
CHECK_DEADLOCK FALSE
