SPECIFICATION Spec
CONSTANTS
  Stacks <- SomeStacks
  Errors = {"app error", "runtime"}
  Headers <- SomeHeaders
  Fingerprints <- SomeFingerprints
  Depth = 7
  MaxEvents = 2
INVARIANTS
  TypeOK
  CallSiteFirst
  OneFailureIsOneIssue
  ContextShowsTheLine
  OneClientPerRequest
CHECK_DEADLOCK FALSE
