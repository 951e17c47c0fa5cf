SPECIFICATION Spec
CONSTANTS
  Text <- MCText
  Word <- MCWord
  Separator = {"-", "_"}
  Identifier <- MCIdentifier
  Split <- MCSplitBySeparator
  Container = {c1, c2}
  RuleId = {d1, d2}
  RuleBody <- MCRuleBody
  Request = {r1, r2}
  None = None
SYMMETRY Symmetry
INVARIANT IdentifiersUnique
