CONSTANTS
  Call = {c1, c2}
  Token = {t1, t2}
  TTL = 3
  Skew = 2
  Drift = 1
  Failures = TRUE
  None = None
SPECIFICATION Spec
SYMMETRY Symmetry
INVARIANTS TypeOK CacheNeverTheLastWord SkewCovers
PROPERTIES CallsGetOn
