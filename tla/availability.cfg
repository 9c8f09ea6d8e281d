SPECIFICATION Spec
CONSTANTS
  ann = ann  bob = bob  p1 = p1  p2 = p2  None = None
  Staff <- MCStaff
  Interval <- MCIntervals
  Proc = {p1, p2}
  Asked <- MCAsked
  Offset <- MCOffset
  DayLength = 4
  OpenAt = 1
  CloseAt = 2
  SlotMinutes = 1
  BufferMinutes = 1
  Breaks = {}
  MaxRows = 2
SYMMETRY Symmetry
INVARIANTS TypeOK OnlyLateReadersOffer RoundRobin
