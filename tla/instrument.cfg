SPECIFICATION InstrumentSpec
CONSTANTS
  Spans = {s1, s2, s3}
  NoSpan = NoSpan
  Roots = {s1}
  Annotated = {s1, s2, s3}
  Noted = {}
  Rates = {"all"}
  Marks = {"error", "command"}
  Statuses = {"internal_error"}
  Calls = {1, 2}
  NoCall = 0
  KindsOf <- KindsByCall
  Chain <- MixedChain
  Hubs = {"all", "absent"}
VIEW Untimed
SYMMETRY ChildrenAlike
INVARIANTS
  CallsTypeOK
  OneSpanPerCall
  ReportTellsOutcome
  EndFindsItsStart
CHECK_DEADLOCK FALSE
