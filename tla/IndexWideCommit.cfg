CONSTANTS
  root1 = root1
  root2 = root2
  lib = lib
  blob = blob
  r1 = r1
  r2 = r2
  w1 = w1
  w2 = w2
  NoTask = NoTask
  Tree <- WideTree
  Blob <- MCBlob
  Node <- WideNode
  Parent <- WideParent
  Target <- WideTarget
  Listed <- WideListed
  Request <- MCOneRequest
  RootOf <- MCOneRoot
  Worker <- MCWorker
  Capacity = 5
  MaxCrashes = 1
SPECIFICATION FairSpec
INVARIANTS
  NoSendBlocks
  PoolGoesOn
PROPERTIES
  PoolNearsItsEnd
  EveryCallReturns
  CloserEnds
