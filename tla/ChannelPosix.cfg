SPECIFICATION FairSpec
CONSTANTS
  S = 1
  C = 2
  MaxMessages <- Messages
  MaxSize = 2
  Maximum = 2
  Capacity = 3
  FdCapacity = 1
  BufferSize = 2
  WithFd = {TRUE, FALSE}
  Fifo = {TRUE, FALSE}
  Accepts = {TRUE, FALSE}
  Closers = {"server", "client"}
  Repliers = {"server", "client"}
INVARIANT TypeOK
INVARIANT DescriptorsArriveFirst
INVARIANT UnsentIsWatched
PROPERTY CarriesMessages
PROPERTY OwnerLearnsOfEnd
CHECK_DEADLOCK FALSE
