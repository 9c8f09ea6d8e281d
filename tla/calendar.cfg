SPECIFICATION RSpec
CONSTANTS
  r1 = r1  p1 = p1  p2 = p2  nine = nine  ten = ten  noon = noon  None = None
  Row = {r1}
  Proc = {p1, p2}
  Slot = {nine, ten, noon}
SYMMETRY Symmetry
INVARIANTS TypeOK AgreeWhenQuiet CanceledLeavesNoEvent ToldOrFlagged
