SPECIFICATION Spec
CONSTANTS
  Container = {c1}
  File = {f1, f2, f3}
  Request = {r1, r2, r3}
  None = None
SYMMETRY Symmetry
INVARIANTS TypeOK RowsFollowObjects VersionsFollowTime
