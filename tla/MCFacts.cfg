SPECIFICATION FairSpec
CONSTANTS
  tag1 = tag1
  tag2 = tag2
  Tags = {tag1, tag2}
  Triples <- ThreeTriples
  UwMax = 7
  MaxDepth = 3
  HasLog = TRUE
  Connected = TRUE
  ServerCount = TRUE
  FailStages = {"action", "set"}
INVARIANTS
  TypeOK
  IndexesAgree
  LockBalanced
  RollbackNeverAborts
  TagsCounted
  LogReplays
  ReplicasFollow
  EventsInOrder
  AnnouncedIsLogged
  ResyncFromAnyCursor
PROPERTIES
  ImplementsTransactions
  Returns
CHECK_DEADLOCK FALSE
