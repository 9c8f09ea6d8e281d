SPECIFICATION Spec
CONSTANTS
  r1 = r1  p1 = p1  p2 = p2  nine = nine  ten = ten  None = None
  Row = {r1}
  Proc = {p1}
  Slot = {nine, ten}
INVARIANTS ConfirmedInCalendar
