SPECIFICATION FairSpec
CONSTANTS
  Person = {"ann", "bob"}
  Sync = {"s1"}
  Change = {}
  Of <- MCOf
  Event <- MCEvent
  Identified = {}
  DURATION = 5
  THRESHOLD = 4
  LAG = 1
  MaxOpen = 1
  MaxFaults = 0
  None = None
PROPERTIES ValidAgain
