SPECIFICATION Spec
CONSTANTS
  t1 = t1
  t2 = t2
  Transports = {t1}
  Careful = {}
  Documented = {t1}
  NoTransport = NoTransport
  Builtin = Builtin
  Backend = FALSE
  MaxHeaders = 2
  Budgets = {0, 17}
  Timeouts = {0, 45000}
  Credentials <- MCCredentials
  Requests <- MCRequests
  Answers <- MCAnswers
  Jitters = {0}
  NoAuth = NoAuth
  NoRequest = NoRequest
  NoReply = NoReply
  NoResponse = NoResponse
  NoAfter = NoAfter
INVARIANTS
  AnswerNotLost
