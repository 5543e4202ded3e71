SPECIFICATION Spec
CONSTANTS
  p1 = p1
  p2 = p2
  p3 = p3
  Payloads = {p1, p2, p3}
  Kind <- MixedKinds
  SentKinds = {"event", "log"}
  Flushers = {}
  Closers = {k1, k2}
  MaxQueueSize = 0
  SendConcurrency = 2
  DefaultMaxQueueSize = 1
  DefaultSendConcurrency = 1
  Verdicts = {"keep", "discard", "panic"}
  Results = {"ok", "error", "panic"}
  OnErrorCaptures = FALSE
  NoPayload = NoPayload
INVARIANTS
  TypeOK
  PendingMatchesWork
  NoSendOnClosedChannel
  NobodyWaitsInVain
  StoppedMeansDrained
  NothingLostSilently
  FlushCovers
PROPERTY
  ImplementsDelivery
SYMMETRY Swap
