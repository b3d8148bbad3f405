CONSTANTS
  r1 = r1
  r2 = r2
  r3 = r3
  r4 = r4
  httpGet = httpGet
  sprintf = sprintf
  exec = exec
  Request = {r1, r2, r3, r4}
  Language = "cel"
  Function <- Names
  Whitelist <- Functions
  HTTPGet = httpGet
  Calls <- CELCalls
  BadBody = {}
  BadExpression = {}
  BadOutput = {r2}
  NoEnv = NoEnv
  NoOutput = NoOutput
  NoResponse = NoResponse
  Failed = Failed
  Error = Error
SPECIFICATION PatientSpec
CHECK_DEADLOCK FALSE
INVARIANTS AttestsOwnEvaluation SelectCanReturn EvaluatesWhatIsSupported
PROPERTIES KeepsEvaluationPromise WorkerExits
