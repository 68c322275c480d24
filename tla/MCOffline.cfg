SPECIFICATION Spec
CONSTANTS
  k1 = k1
  k2 = k2
  Keys = {k1, k2}
  KeyIds = {"i1", "i2", "x2", "u"}
  Served <- MCServed
  Computed <- MCComputed
  UnpublishedId = "u"
  Legacy <- MCLegacy
  Pins <- MCPins
  InitialCapacity = 1
  MaxEntries = 4
  Calls <- MCCalls
  Nobody = Nobody
  OtherKey = OtherKey
  NoKid = NoKid
  NoExpiry = NoExpiry
  NoFile = NoFile
  NoArg = NoArg
INVARIANTS
  TypeOK
  BlocksAccounted
  MergeAllOrNothing
  TrustsSignedOnly
  RotationSurvived
  RefusalTrue
