CONSTANTS
  Callers = {c1}
  Authority = TRUE
  Hazards = {"lost", "refuse", "restart"}
  MaxOps = 3
  MaxSeq = 1
  MaxFaults = 2
SPECIFICATION Spec
INVARIANTS SessionAccounted
PROPERTIES LossIsNoticed NobodyStuck
CHECK_DEADLOCK FALSE
