SPECIFICATION FairSpec
CONSTANTS
  Loader = {l}
  Graphics = {g}
  IdCount = 3
  MaxCallbacks = 4
INVARIANT TypeOK
INVARIANT IdIsOfItsCallback
INVARIANT CurrentOperationIsCarried
PROPERTY CallbackRuns
CHECK_DEADLOCK FALSE
