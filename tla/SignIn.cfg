CONSTANTS
  None = None
  t1 = t1
  t2 = t2
  here = here
  there = there
  Tab = {t1, t2}
  Origin = {here, there}
  Lifetime = {0, 1}
  StateTTL = 1
  SessionTTL = 2
  MaxTime = 3
  MaxLogins = 2
  MaxTries = 2
SPECIFICATION Spec
SYMMETRY Symmetry
INVARIANTS
  TypeOK
  EachStateOnce
  SessionsAreSignIns
  StatesAreRecent
CHECK_DEADLOCK FALSE
