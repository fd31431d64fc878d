CONSTANTS
  root1 = root1
  root2 = root2
  lib = lib
  blob = blob
  r1 = r1
  r2 = r2
  w1 = w1
  w2 = w2
  NoTask = NoTask
  Tree <- MCTree
  Blob <- MCBlob
  Node <- MCNode
  Parent <- MCParent
  Target <- MCTarget
  Listed <- MCListed
  Request <- MCRequest
  RootOf <- MCSameRoot
  Worker <- MCWorker
  Capacity = 3
  MaxCrashes = 1
SPECIFICATION Spec
SYMMETRY Symmetry
INVARIANTS
  TypeOK
  IndexedComplete
  AnswersComplete
  NoSendAfterClose
PROPERTY ImplementsPromise
