CONSTANTS
  n1 = n1
  n2 = n2
  n3 = n3
  data = data
  fixed = fixed
  Nonclave = {n1, n2}
  Malformed = {}
  Mismatched = {}
  Faults <- NoFaults
  Awaited = TRUE
  Nonce <- OwnNonce
  UserData <- SomeData
  Empty = Empty
  NoRequest = NoRequest
  NoReport = NoReport
  NoReply = NoReply
  NoResponse = NoResponse
  Error = Error
SPECIFICATION Spec
CHECK_DEADLOCK FALSE
INVARIANTS ReturnedToRequester
