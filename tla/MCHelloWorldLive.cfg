CONSTANTS
  n1 = n1
  n2 = n2
  n3 = n3
  data = data
  fixed = fixed
  Nonclave = {n1, n2, n3}
  Malformed = {n2}
  Mismatched = {}
  Faults <- AllFaults
  Awaited = FALSE
  Nonce <- OwnNonce
  UserData <- SomeData
  Empty = Empty
  NoRequest = NoRequest
  NoReport = NoReport
  NoReply = NoReply
  NoResponse = NoResponse
  Error = Error
SPECIFICATION FairSpec
CHECK_DEADLOCK FALSE
PROPERTIES EveryRequestAnswered
