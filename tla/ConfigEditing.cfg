CONSTANTS
  e1 = e1
  None = None
  Branch = {"trunk"}
  DefaultBranch = "trunk"
  Config <- MCConfig
  Tree <- MCTree
  Initial <- MCInitial
  MaxCommits = 3
  TrimSpace <- MCTrimSpace
  Editor = {e1}
  Field = {"trunk", ""}
  MaxLoads = 2
  MaxChanges = 1
  MaxSaves = 2
SPECIFICATION Spec
INVARIANTS
  TypeOK
  AcknowledgedIsCommitted
PROPERTY ImplementsUpdates
CHECK_DEADLOCK FALSE
