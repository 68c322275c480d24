SPECIFICATION FairSpec
CONSTANTS
  t1 = t1
  t2 = t2
  Transports = {t1, t2}
  Careful = {t1}
  Documented = {}
  NoTransport = NoTransport
  Builtin = Builtin
  Backend = TRUE
  MaxHeaders = 2
  Budgets = {0, 17}
  Timeouts = {0, 45000}
  Credentials <- MCCredentials
  Requests <- MCRequests
  Answers <- MCAnswers
  Jitters = {0}
  NoAuth = NoAuth
  NoRequest = NoRequest
  NoReply = NoReply
  NoResponse = NoResponse
  NoAfter = NoAfter
INVARIANTS
  TypeOK
  BlocksAccounted
  CredentialWhole
  RetriesBounded
  Handover
  AnswerTold
PROPERTIES
  SendReturns
