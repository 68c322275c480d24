SPECIFICATION RequestsSpec
CHECK_DEADLOCK FALSE
CONSTANTS
  Calls <- MCCalls
  FieldSets <- MCFieldSets
  MaxId = 5
  Cap = 2
  Default = 1
  Limits = {0, 1, 2, 3}
  Faulty = {2}
  Documents <- MCDocuments
  Errors <- MCErrors
INVARIANTS
  Ownership
  RequestWhole
  OutcomeSound
  WalkSound
  ReadersSound
PROPERTY
  PagingEnds
