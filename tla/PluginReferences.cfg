SPECIFICATION Spec
CONSTANTS
  Object = {o}
  Resource = {r}
  MaxOwned = 2
  MaxMessages = 2
  MaxPassed = 3
  MaxDiscards = 1
INVARIANTS
  TypeOK
  RefsAddUp
  TrackerCoversOwned
  OwnedResourceIsAlive
PROPERTY ReleasedResourceIsFreed
