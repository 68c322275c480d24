CONSTANTS
  MaxDepth = 3
  MaxText = 9
  MaxOdd = 1
  Strings <- MCStrings
  Scalars = {"1"}
SPECIFICATION Spec
INVARIANTS
  OomSaid
