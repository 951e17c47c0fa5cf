SPECIFICATION Spec
CONSTANTS
  member = member
  alice = alice
  bob = bob
  User = {member, alice, bob}
  Manager = {alice, bob}
  Share = {s1, s2}
  Token = {t1, t2}
  Request = {r1, r2}
  Lifetime = {1, 2}
  MaxTime = 3
  None = None
SYMMETRY Symmetry
INVARIANTS TypeOK ApprovedIsWhole LinksAreIssued
PROPERTY ImplementsLinkLife
