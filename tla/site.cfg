SPECIFICATION Spec
CONSTANTS
  Kind <- MCKind
  Max <- MCMax
  WINDOW = 2
  MaxTime = 5
  Customer = {"ann", "bob"}
  Date = {"d1", "d2"}
  Slot = {"s1"}
  DateOf <- MCDateOf
  Picks <- MCPicks
  None = None
  q1 = q1  q2 = q2
  Post = {q1, q2}
  ClientPage = {"bob"}
  BUCKET = 1
  HOLD_TTL = 4
  LAG = 1
  LastPick = 1
  MaxFaults = 1
INVARIANTS TypeOK WindowLimit SlotsOfTheDate SentMeansTakenUp
SYMMETRY Posts
CHECK_DEADLOCK FALSE
