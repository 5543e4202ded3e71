SPECIFICATION FairSpec
CONSTANTS
  Spans = {s1, s2, s3}
  NoSpan = NoSpan
  Roots = {s1}
  Annotated = {s1}
  Rates <- EveryRate
  Marks = {"tag"}
  Statuses = {"internal_error"}
INVARIANTS
  TypeOK
  ReportedOnce
  ReportIsExact
  WaterfallFits
PROPERTIES
  FinishIsFinal
  ReportIsSent
CHECK_DEADLOCK FALSE
