CONSTANTS
  IndexRange = 2
  Lcores = {0, 1}
  expiration_time = 1
  CountWrap = 2
  MaxTime = 3
SPECIFICATION FairSpec
PROPERTY ExpiratorReturns
