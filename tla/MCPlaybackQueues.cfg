CONSTANTS
  t1 = t1
  t2 = t2
  Tracks = {t1, t2}
  Lists <- TwoLists
  Callers = {c1, c2}
  None = None
  Hazards = {"drop", "vanish", "lag", "restart", "crash", "playfail"}
  MaxOps = 2
  MaxLen = 2
  MaxEvts = 1
  MaxMoves = 1
  MaxFaults = 1
SPECIFICATION Spec
INVARIANTS QueueHeals PlaceKept
CHECK_DEADLOCK FALSE
SYMMETRY Sym
