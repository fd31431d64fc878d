CONSTANT Attempts = 3
SPECIFICATION FairSpec
INVARIANTS
  TypeOK
  FailsOnlyInTheEnd
PROPERTIES
  ImplementsCall
  EveryCallReturns
