SPECIFICATION BoundedSpec
CONSTANTS
  Proc = {1, 2, 3}
  Peers <- Row
  SendKinds = {"sync", "async"}
  MaxSends <- TwoOneOne
  Timed = {FALSE}
  Pumped = {FALSE}
  Outcomes = {TRUE, FALSE}
  Closers = {}
  Crashers = {}
  ShutDowners = {}
INVARIANT TypeOK
INVARIANT SendOwnsLastEntry
INVARIANT SuccessWasAnswered
INVARIANT QueuedReplyIsCarried
INVARIANT QueuedMessageHasDispatcher
INVARIANT BlockedSendIsWoken
CHECK_DEADLOCK FALSE
