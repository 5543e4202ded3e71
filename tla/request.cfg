SPECIFICATION FairSpec
CONSTANTS
  Goroutines = {h, b}
  Handler = h
  Stored = Stored
  Kinds = {}
  Ways = {"context", "share", "clone"}
  MaxBreadcrumbs = 1
  MaxScopes = 3
  Frameworks = {"fiber", "echo"}
INVARIANTS
  RequestTypeOK
  NoDuplicateReport
  EveryPathIsSettled
PROPERTY
  SilenceIsJustified
CHECK_DEADLOCK FALSE
