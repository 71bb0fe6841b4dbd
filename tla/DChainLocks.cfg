CONSTANTS
  IndexRange = 3
  Lcores = {0, 1}
  expiration_time = 1
  CountWrap = 2
  MaxTime = 2
SPECIFICATION Spec
INVARIANTS
  CopiesAgree
  ListsExact
PROPERTY OnlyOldFreed
