SPECIFICATION Spec
CONSTANTS
  p1 = p1
  p2 = p2
  p3 = p3
  Payloads = {p1, p2}
  Kind <- LogsOnly
  SentKinds <- AllKinds
  Flushers = {f1}
  Closers = {}
  MaxQueueSize = 1
  SendConcurrency = 1
  DefaultMaxQueueSize = 1
  DefaultSendConcurrency = 1
  Verdicts = {"keep"}
  Results = {"ok"}
  OnErrorCaptures = FALSE
  NoPayload = NoPayload
INVARIANT FlushNeverPanics
CHECK_DEADLOCK FALSE
