SPECIFICATION Spec
CONSTANTS
  Container = {c1}
  File = {f1, f2}
  Request = {r1, r2}
  None = None
SYMMETRY Symmetry
INVARIANT VersionCodesUnique
