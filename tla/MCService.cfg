SPECIFICATION Spec
CONSTANTS
  Threads = {t1, t2}
  Slots = {s1, s2, s3}
  Handles = {h1, h2}
  Sessions = {x1, x2}
  Ids = {i1, i2}
  None = None
  Sizes = {1}
  Unknown = 2
  Lengths = {1}
SYMMETRY Symmetry
CHECK_DEADLOCK FALSE
INVARIANTS
  TypeOK
  HandleIsItsOwn
  RequestsFit
  RepliesFit
  ObjectsAreHeld
