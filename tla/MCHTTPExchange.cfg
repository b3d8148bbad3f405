CONSTANT
  None = None
SPECIFICATION FairSpec
CHECK_DEADLOCK FALSE
INVARIANTS TypeOK OutcomeIsTrue
PROPERTIES HandlerFollowsClient ConnectionReleased
