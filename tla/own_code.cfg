SPECIFICATION Spec
CONSTANTS
  Stacks <- SomeStacks
  Errors = {"app error"}
  Headers <- SomeHeaders
  Fingerprints <- SomeFingerprints
  Depth = 64
  MaxEvents = 1
INVARIANT InAppIsOwnCode
CHECK_DEADLOCK FALSE
