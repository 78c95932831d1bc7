SPECIFICATION Spec
CONSTANTS
  S = 0
  C = 2
  MaxMessages <- Messages
  MaxSize = 2
  Maximum = 4
  Capacity = 2
  FdCapacity = 1
  BufferSize = 2
  WithFd = {FALSE}
  Fifo = {FALSE}
  Accepts = {TRUE}
  Closers = {"server"}
  Repliers = {}
PROPERTY SendOnClosedFails
CHECK_DEADLOCK FALSE
