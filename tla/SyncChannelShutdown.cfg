SPECIFICATION HandlersMayHangSpec
CONSTANTS
  Proc = {1, 2}
  Peers <- Pair
  SendKinds = {"sync"}
  MaxSends <- OneNone
  Timed = {FALSE}
  Pumped = {FALSE}
  Outcomes = {TRUE}
  Closers = {}
  Crashers = {}
  ShutDowners = {1}
PROPERTY ShutdownReleasesSends
CHECK_DEADLOCK FALSE
