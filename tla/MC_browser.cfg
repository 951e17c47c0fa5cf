SPECIFICATION FairSpec
CONSTANTS
  Pair = {p1, p2}
  Call = {c1, c2}
  None = None
INVARIANT TypeOK
PROPERTIES CallsEnd DeadSessionEnds CallsAdvance
