SPECIFICATION Spec
CONSTANTS
  Object = {o}
  Resource = {}
  MaxOwned = 2
  MaxMessages = 2
  MaxPassed = 3
  MaxDiscards = 0
INVARIANT SingleRefInBrowser
