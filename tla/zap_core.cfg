SPECIFICATION Spec
CONSTANTS
  Goroutines = {g1, g2}
  NoContext = NoContext
  Fields <- SomeFields
  Contexts = {"c1", "c2"}
  Levels <- SomeLevels
  Minimum = 1
  Inputs <- SomeInputs
  Texts = {"op", "e1", "e2", "o1", "o2", "nil"}
  Messages <- SomeMessages
  MaxCores = 3
  MaxEntries = 1
SYMMETRY Alike
INVARIANTS
  TypeOK
  TitleNamesTheError
PROPERTY
  KeepsPromise
CHECK_DEADLOCK FALSE
