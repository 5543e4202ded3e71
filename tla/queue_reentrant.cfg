SPECIFICATION FairSpec
CONSTANTS
  p1 = p1
  p2 = p2
  p3 = p3
  Payloads = {p1, p2, p3}
  Kind <- MixedKinds
  SentKinds <- AllKinds
  Flushers = {}
  Closers = {k1}
  MaxQueueSize = 1
  SendConcurrency = 0
  DefaultMaxQueueSize = 1
  DefaultSendConcurrency = 1
  Verdicts = {"keep", "panic"}
  Results = {"error"}
  OnErrorCaptures = TRUE
  NoPayload = NoPayload
PROPERTIES
  CaptureReturns
  AcceptedIsSettled
  FlushLeaksNoGoroutine
CHECK_DEADLOCK FALSE
