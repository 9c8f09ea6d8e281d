SPECIFICATION Spec
CONSTANTS
  r1 = r1  r2 = r2  p1 = p1  p2 = p2  c1 = c1  c2 = c2  h1 = h1  h2 = h2  h3 = h3  k1 = k1
  alice = alice  nine = nine  halfPast = halfPast
  None = None
  Row = {r1, r2}
  Proc = {p1, p2}
  Customer = {c1}
  Slot = {nine, halfPast}
  Owner <- MCOwner
  Overlap <- MCOverlap
  Deadline <- MCDeadline
  HoldKey = {h1, h2}
  Key = {}
  Repeated = {"cancel"}
  HoldTTL = 1
  ConfirmWindow = 1
  MaxTime = 3
  LastHold = 2
SYMMETRY Symmetry
INVARIANTS TypeOK ConfirmedIsSettled NoDoubleConfirm HoldKeyFree
PROPERTIES NoHoldStolen
