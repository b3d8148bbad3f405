CONSTANTS
  n1 = n1
  n2 = n2
  localhost = localhost
  other = other
  Examples = {"https", "http", "expr", "cel"}
  Nonclave = {n1, n2}
  Mismatched = {n2}
  EnclaveArgs <- NoArgs
  NonclaveArgs <- NobodysArgs
  DefaultDomain = DefaultDomain
  DefaultIP = localhost
  Host = localhost
  NotString = NotString
  EmptyString = EmptyString
  Faults <- AllFaults
  Compose = FALSE
  MaxRestarts = 0
  NoReply = NoReply
  Error = Error
SPECIFICATION FairSpec
CHECK_DEADLOCK FALSE
PROPERTIES EveryNonclaveEnds SharedFate
