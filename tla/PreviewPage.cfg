CONSTANTS
  None = None
  s1 = s1
  s2 = s2
  here = here
  there = there
  Commit = {"c1"}
  Stream = {s1, s2}
  Files = 3
  Step = 1
  Workers = 2
  Buffer = 2
  Place = {here, there}
  Preset = {"", "docs"}
  MaxChanges = 3
SPECIFICATION Spec
CONSTRAINT FewActs
SYMMETRY Symmetry
INVARIANTS
  TypeOK
  ShowsItsSelection
  ToldIsCurrent
  StreamsFollowPreviews
