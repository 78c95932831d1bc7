SPECIFICATION FairSpec
CONSTANTS
  Loader = {l}
  Graphics = {}
  IdCount = 3
  MaxCallbacks = 1
PROPERTY ReadCallbackRuns
CHECK_DEADLOCK FALSE
