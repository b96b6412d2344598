CONSTANTS
  Session = {s1, s2}
  SessionTTL = 1
  Tab = {"keys", "services", "members", "activity"}
  Subject = {x1, x2}
  Slot = {r1, r2}
  RevealTTL = 1
  MaxVersion = 1
  None = None
SPECIFICATION Spec
SYMMETRY Symmetry
INVARIANTS TypeOK ShowsTheLatest RevealLasts
PROPERTIES GateExact
