\* Every flow of up to three nodes over up to two items.
SPECIFICATION Spec
CONSTANTS
  o1 = o1  o2 = o2  o3 = o3  o4 = o4  o5 = o5  o6 = o6  o7 = o7
  Nil = Nil
  Declared <- MCDeclared
  Objs = {o1, o2, o3, o4, o5, o6, o7}
  MaxNodes = 3
  MaxItems = 2
  MaxKept = 1
INVARIANTS TypeOK RunsWholeOrNotAtAll KeysAreOwned NothingAccumulates
PROPERTIES Isolation PipelineSpec
\* A run ends.
CHECK_DEADLOCK FALSE
