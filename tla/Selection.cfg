CONSTANTS
  v1 = v1
  v2 = v2
  None = None
  Branch = {"main"}
  DefaultBranch = "main"
  Config <- MCConfig
  Tree <- MCTree
  Initial <- MCOpen
  MaxCommits = 2
  TrimSpace <- MCTrimSpace
  Visitor = {v1, v2}
  Wish <- MCWish
  Parts <- MCParts
  CacheSize = 1
SPECIFICATION Spec
SYMMETRY Symmetry
INVARIANTS
  TypeOK
  SelectionIsOfCommit
  LinkKeepsSelection
PROPERTY
  ImplementsSnapshot
CHECK_DEADLOCK FALSE
