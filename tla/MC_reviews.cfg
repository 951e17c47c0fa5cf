SPECIFICATION Spec
CONSTANTS
  author = author
  reviewer = reviewer
  admin = admin
  User = {author, reviewer}
  Member = {author, reviewer}
  PlatformAdmin = {}
  Permission <- MCPermission
  Container = {c1}
  Workflow = {w1}
  Request = {r1, r2}
  Title = {t1}
  Expected = {None, "Published"}
  Verdict = {"approved", "rejected"}
  MaxStages = 2
  MaxHistory = 3
  None = None
INVARIANTS TypeOK IndInv StatusFollowsVotes HistoryChain ReturnsAreJustified
PROPERTIES ImplementsLifecycle ImplementsReview
