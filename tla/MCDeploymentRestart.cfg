CONSTANTS
  n1 = n1
  n2 = n2
  localhost = localhost
  other = other
  Examples = {"https", "http", "expr", "cel"}
  Nonclave = {n1, n2}
  Mismatched = {}
  EnclaveArgs <- NoArgs
  NonclaveArgs <- OthersArgs
  DefaultDomain = DefaultDomain
  DefaultIP = localhost
  Host = localhost
  NotString = NotString
  EmptyString = EmptyString
  Faults <- AllFaults
  Compose = FALSE
  MaxRestarts = 1
  NoReply = NoReply
  Error = Error
SPECIFICATION Spec
CHECK_DEADLOCK FALSE
INVARIANTS TypeOK SameEnclave
PROPERTIES KeepsCallPromise
