SPECIFICATION RFairSpec
CONSTANTS
  r1 = r1  p1 = p1  p2 = p2  c1 = c1  h1 = h1  h2 = h2  k1 = k1  alice = alice  nine = nine
  None = None
  Row = {r1}
  Proc = {p1, p2}
  Customer = {c1}
  Slot = {nine}
  Owner <- MCOwner
  Overlap <- MCOverlap
  Deadline <- MCDeadline
  HoldKey = {h1, h2}
  Key = {k1}
  Repeated = {"cancel"}
  HoldTTL = 2
  ConfirmWindow = 1
  MaxTime = 6
  LastHold = 3
INVARIANTS OpenLosesHoldOnlyByRace ConfirmTokenWithinHold VerifyTokenWithinHold
PROPERTIES KeepsPromises EventuallySettled
