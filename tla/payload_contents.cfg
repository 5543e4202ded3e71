SPECIFICATION Spec
CONSTANTS
  i1 = i1
  i2 = i2
  Items = {i1, i2}
  Keys <- FourKeys
  Lists <- OneTagged
  ClientKeys = {"os", "token"}
  OptionKeys <- Environment
  Sensitive = {"token"}
  HostKeys = {"os"}
INVARIANTS
  TypeOK
  EventsAreScrubbed
  MostSpecificTagWins
CHECK_DEADLOCK FALSE
