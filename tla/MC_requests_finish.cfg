SPECIFICATION FairSpec
CONSTANTS
  author = author
  reviewer = reviewer
  admin = admin
  User = {reviewer, admin}
  Member = {reviewer}
  PlatformAdmin = {admin}
  Permission <- MCPermission
  Container = {c1}
  Workflow = {w1, w2}
  Request = {r1, r2}
  Title = {t1}
  Expected = {None}
  Verdict = {"approved", "rejected"}
  MaxStages = 1
  MaxHistory = 1
  None = None
INVARIANT NoDeadlock
PROPERTY RequestsFinish
