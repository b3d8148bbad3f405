CONSTANTS
  r1 = r1
  r2 = r2
  r3 = r3
  r4 = r4
  httpGet = httpGet
  sprintf = sprintf
  exec = exec
  Request = {r1, r2, r3, r4}
  Language = "expr"
  Function <- Names
  Whitelist <- Functions
  HTTPGet = httpGet
  Calls <- ExprCalls
  BadBody = {r4}
  BadExpression = {r3}
  BadOutput = {}
  NoEnv = NoEnv
  NoOutput = NoOutput
  NoResponse = NoResponse
  Failed = Failed
  Error = Error
SPECIFICATION ImpatientSpec
CHECK_DEADLOCK FALSE
INVARIANTS TypeOK AttestsOwnEvaluation SelectCanReturn EvaluatesWhatIsSupported
PROPERTIES KeepsEvaluationPromise HandlerReturns
