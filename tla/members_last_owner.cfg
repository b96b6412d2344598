CONSTANTS
  User = {u1, u2}
  Org = {o1}
  Member = {m1, m2}
  Role = {"owner", "admin"}
  Request = {r1, r2}
  None = None
SPECIFICATION Spec
SYMMETRY Symmetry
INVARIANT OwnerRemains
