CONSTANTS
  f1 = f1
  f2 = f2
  f3 = f3
  Files = {f1, f2, f3}
  StatusCodes = {200, 504}
SPECIFICATION FairSpec
INVARIANTS TypeOK OneStatusEach SuccessMeansAll
PROPERTY MultiReturns
\* The call is over when it has returned.
CHECK_DEADLOCK FALSE
