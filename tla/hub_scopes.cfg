SPECIFICATION HubSpec
CONSTANTS
  Goroutines = {g1, g2}
  Stored = Stored
  Kinds = {"breadcrumb"}
  Ways <- OwnHubs
  MaxBreadcrumbs = 2
  MaxScopes = 3
INVARIANTS
  TypeOK
  RequestScopeIsClean
  ScopeRestored
  CaptureIsEnriched
SYMMETRY Interchangeable
CHECK_DEADLOCK FALSE
