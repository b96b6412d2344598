CONSTANTS
  Org = {o1, o2}
  Project = {p1, p2}
  Env = {e1, e2}
  Key = {k1}
  Svc = {s1}
  Grant = {g1, g2}
  Role = {"member", "owner"}
  Rights <- OfOne
  Request = {r1, r2}
  None = None
SPECIFICATION Spec
SYMMETRY Symmetry
INVARIANTS TypeOK GrantsWithinEnvironment
PROPERTIES TenantsApart ProtectedKeysGuarded
