SPECIFICATION Spec
CONSTANTS
  Person = {"ann"}
  Sync = {"s1", "s2"}
  Change = {"c1", "c2"}
  Of <- MCOf
  Event <- MCEvent
  Identified = {"c1"}
  DURATION = 6
  THRESHOLD = 5
  LAG = 1
  MaxOpen = 1
  MaxFaults = 1
  None = None
INVARIANTS TypeOK StoredIsLive StoredOnce NoneMissed
