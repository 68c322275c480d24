SPECIFICATION UtilitiesSpec
CONSTANTS
  MaxNumberChars = 5
  Mantissa = 3
  Bytes <- MCBytes
  Chars64 <- MCChars64
  MaxChars64 = 6
  NumberChars <- MCNumberChars
  MaxNumber = 6
  StringChars <- MCStringChars
  MaxString = 8
  Labels <- MCLabels
  Values <- MCValues
  MaxComponents = 2
  Spellings <- MCSpellings
  Wrong <- MCWrong
  Stamps <- MCStamps
  MaxInteger = 40
  W = 3
  LimbBytes = 3
  NewtonSteps = 2
  N = 3
  C = 3
  Prime = 23
  Order = 17
  CurveB = 15
  Gx = 1
  Gy = 6
  Bits = 5
  Q = 29
  YBits = 5
  D = 27
  SqrtM1 = 12
  L = 5
  BaseY = 23
  ScalarBits = 4
  DerBits = 4
  MaxLenBytes = 2
  MinModulus = 2
  MaxModulus = 3
  MaxExponent = 2
  ScalarLen = 1
  MinPadding = 1
  Digest <- MCDigest
  Mask <- MCMask
  GcmBits = 4
  Polynomial <- MCPolynomial
  BlockLen = 2
  CounterMax = 4
  Cipher <- MCCipher
  MaxModLen = 6
  Exponents = {0, 1, 2, 3, 6}
  ExpLens = {0, 1, 3, 4}
  FieldOperands <- MCFieldOperands
  Scales <- MCScales
  Digests <- MCDigests
  Scalars <- MCScalars
  Hashes <- MCHashes
  DerBytes <- MCDerBytes
  MaxHeader = 4
  Fillers = {0, 7, 8, 9, 17}
  Integers4 <- MCIntegers4
  MaxBlock = 6
  HashBlock <- MCHashBlock
  LengthRoom <- MCLengthRoom
  LengthBytes = 2
  MaxChunk = 17
  MaxChunks = 3
  MaxAad = 2
  MaxText = 4
  SizeMax = 6
  MinCap = 2
  Octets = {0, 1}
  Pieces <- MCPieces
  Lost = 9
  MaxAsked = 6
INVARIANT
  ModexpTotal
