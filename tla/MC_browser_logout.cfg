SPECIFICATION Spec
CONSTANTS
  Pair = {p1, p2, p3}
  Call = {c1, c2}
  None = None
PROPERTY LogoutEndsSession
