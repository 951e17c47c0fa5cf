SPECIFICATION Spec
CONSTANTS
  author = author
  reviewer = reviewer
  admin = admin
  User = {author, reviewer}
  Member = {author, reviewer}
  PlatformAdmin = {}
  Permission <- MCPermission
  Container = {c1}
  Workflow = {w1}
  Request = {r1, r2}
  Title = {t1, t2}
  Expected = {None}
  Verdict = {"approved", "rejected"}
  MaxStages = 1
  MaxHistory = 1
  None = None
PROPERTY OnlyWipUpdated
