CONSTANTS
  e1 = e1
  None = None
  Branch = {"main"}
  DefaultBranch = "main"
  Config <- MCConfig
  Tree <- MCTree
  Initial <- MCInitial
  MaxCommits = 3
  TrimSpace <- MCTrimSpace
  Editor = {e1}
  Field = {"main"}
  MaxLoads = 2
  MaxChanges = 1
  MaxSaves = 2
SPECIFICATION Spec
INVARIANTS
  SavesReplaceLoaded
CHECK_DEADLOCK FALSE
