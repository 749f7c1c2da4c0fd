CONSTANTS
  Workers = {w1}
  Hazards = {"crash"}
  MaxFaults = 1
  MaxRevokes = 1
SPECIFICATION Spec
PROPERTIES RestartKeepsRevocation
CHECK_DEADLOCK FALSE
