CONSTANTS
  Selections <- MCSelections
  Positions <- MCPositions
  Max16 = 2
  Max32 = 150
SPECIFICATION Spec
INVARIANTS
  TypeOK
  ExactlyAnnounced
  TailFits
  DirectoryReadable
  HashedWhole
PROPERTY ImplementsAnswer
