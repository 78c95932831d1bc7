SPECIFICATION ScenarioSpec
CONSTANTS
  Proc = {1, 2}
  Peers <- Pair
  SendKinds = {"sync"}
  MaxSends <- TwoOne
  Timed = {TRUE, FALSE}
  Pumped = {TRUE, FALSE}
  Outcomes = {TRUE}
  Closers = {1}
  Crashers = {2}
  ShutDowners = {1}
INVARIANT QuitIsForInnermostSend
PROPERTY EverySendReturns
PROPERTY TimedSendReturns
CHECK_DEADLOCK FALSE
