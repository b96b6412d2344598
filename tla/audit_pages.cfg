CONSTANTS
  Org = {o1, o2}
  Action = {read}
  Writer = {w1, w2}
  Limit = {0, 1, 2}
  Ids = 2
  MaxTime = 1
  None = None
SPECIFICATION LogSpec
SYMMETRY Symmetry
INVARIANTS LogTypeOK WalkExact NothingSkipped
