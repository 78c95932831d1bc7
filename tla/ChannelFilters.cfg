SPECIFICATION BoundedSpec
CONSTANTS
  f1 = f1
  w1 = w1
  Filters = {f1}
  Workers = {w1}
  CreateNow = {TRUE, FALSE}
  Blocking = {TRUE, FALSE}
  Outcomes = {TRUE, FALSE}
  MaxSends = 2
  MaxPosts = 1
  MaxIncoming = 1
INVARIANT TypeOK
INVARIANT FilterLifeCycle
INVARIANT DeletedChannelIsForgotten
INVARIANT PendingEntryIsOnStack
INVARIANT ResultWasAnswered
INVARIANT UnansweredSendIsCarried
PROPERTY ListenerHearsInOrder
PROPERTY FilterSendReturns
CHECK_DEADLOCK FALSE
