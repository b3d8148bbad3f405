CONSTANTS
  n1 = n1
  n2 = n2
  localhost = localhost
  other = other
  Examples = {"https", "http", "expr", "cel"}
  Nonclave = {n1}
  Mismatched = {}
  EnclaveArgs <- NoArgs
  NonclaveArgs <- OddArgs
  DefaultDomain = DefaultDomain
  DefaultIP = localhost
  Host = localhost
  NotString = NotString
  EmptyString = EmptyString
  Faults <- SetupFaults
  Compose = TRUE
  MaxRestarts = 0
  NoReply = NoReply
  Error = Error
SPECIFICATION FairSpec
CHECK_DEADLOCK FALSE
INVARIANTS ReadyMeansListening
PROPERTIES DemoServed
