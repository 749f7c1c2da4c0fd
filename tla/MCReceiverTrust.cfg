CONSTANTS
  Workers = {w1, w2}
  Hazards = {"lost", "refuse", "dbfail", "crash", "race"}
  MaxFaults = 2
  MaxRevokes = 1
SPECIFICATION Spec
INVARIANTS TrustAccounted
PROPERTIES OutboxDelivers
CHECK_DEADLOCK FALSE
