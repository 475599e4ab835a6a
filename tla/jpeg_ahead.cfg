SPECIFICATION Spec
CONSTANTS
  DCTSIZE = 2
  Jobs <- MCJobs
  Supplies = {2, 5}
  Chunks = {1, 3}
INVARIANTS SuspendsOnlyForInput
CHECK_DEADLOCK FALSE
