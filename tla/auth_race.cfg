CONSTANTS
  Service = {s1}
  Key = {k1}
  Challenge = {c1}
  Token = {t1, t2}
  Request = {r1, r2}
  ChallengeTTL = 1
  TokenTTL = 1
  MaxTime = 1
  MaxGen = 2
  DbFails = TRUE
  None = None
SPECIFICATION Spec
SYMMETRY Symmetry
INVARIANTS TypeOK SingleUse RevocationHonoured RotationHonoured
