SPECIFICATION FairSpec
CONSTANTS
  main = main
  other = other
  third = third
  pump = pump
  auto = auto
  manual = manual
  w1 = w1
  Nobody = Nobody
  Thread = {main, other, third}
  Loop = main
  Event = {pump, auto, manual}
  Manual = {manual}
  Pump = pump
  Address <- Addresses
  Watcher = {w1}
  Nestable = {TRUE, FALSE}
  Delays = {0, 1}
  MaxTime = 2
  Budgets <- SmallBudgets
INVARIANT TypeOK
INVARIANT ListedWaiterWaits
INVARIANT SignalIsReceivedOnce
INVARIANT TaskIsInOneQueue
INVARIANT PumpSleepsUntilDue
INVARIANT TasksRunInOrder
PROPERTY HeardOnlyWhileWatching
PROPERTY LocksAreReleased
PROPERTY EveryTaskIsRun
CHECK_DEADLOCK FALSE
