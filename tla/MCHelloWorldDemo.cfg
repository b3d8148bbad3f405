CONSTANTS
  n1 = n1
  n2 = n2
  n3 = n3
  data = data
  fixed = fixed
  Nonclave = {n1, n2, n3}
  Malformed = {}
  Mismatched = {}
  Faults <- SetupFaults
  Awaited = TRUE
  Nonce <- FixedNonce
  UserData <- FixedData
  Empty = Empty
  NoRequest = NoRequest
  NoReport = NoReport
  NoReply = NoReply
  NoResponse = NoResponse
  Error = Error
SPECIFICATION FairSpec
CHECK_DEADLOCK FALSE
PROPERTIES AllServed
