CONSTANTS
  Key = {k1}
  Public = {}
  Value = {a, b}
  Master = {m1, m2}
  Instance = {i1, i2}
  Job = {j1}
  Request = {r1, r2}
  MaxVersion = 2
  MaxKek = 2
  None = None
SPECIFICATION Spec
SYMMETRY Symmetry
INVARIANTS TypeOK WrapsMatchRegistry LastIsActive ServersMatchRegistry
PROPERTIES ImplementsStore
