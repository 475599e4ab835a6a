SPECIFICATION CaseSpec
INVARIANTS IndexClosest
CHECK_DEADLOCK FALSE
