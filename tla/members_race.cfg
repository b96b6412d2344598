CONSTANTS
  User = {u1, u2}
  Org = {o1, o2}
  Member = {m1, m2}
  Role = {"owner", "admin", "member"}
  Request = {r1, r2}
  None = None
SPECIFICATION Spec
SYMMETRY Symmetry
INVARIANTS TypeOK
PROPERTIES ChangesAuthorized
