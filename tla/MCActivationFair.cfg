SPECIFICATION FairSpec
CONSTANTS
  c1 = c1
  c2 = c2
  L1 = L1
  L2 = L2
  Calls = {c1, c2}
  Licenses = {L1, L2}
  Fingerprints = {"f", "ff"}
  Ids = {1, 2, 3}
  Contains <- MCContains
  Installed <- MCInstalled
  Policies <- FewPolicies
  SeatLimit = 1
  PageSize = 1
  NoCall = NoCall
  NoRow = NoRow
  Cullable = {2}
  ArgSet <- FewArgs
  MaxPages = 2
  MaxRetries = 1
CHECK_DEADLOCK FALSE
PROPERTIES
  CallsReturn
  ImplementsContract
