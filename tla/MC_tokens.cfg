SPECIFICATION Spec
CONSTANTS
  Pair = {p1, p2}
  Request = {r1, r2}
  None = None
SYMMETRY Symmetry
INVARIANTS TypeOK LoggedOutStaysOut ReplayIsRefused RotatedIsSpent
