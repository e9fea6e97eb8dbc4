SPECIFICATION Spec
CONSTANTS
  tag1 = tag1
  tag2 = tag2
  Tags = {tag1, tag2}
  Triples <- TwoTriples
  UwMax = 6
  MaxDepth = 1
  HasLog = FALSE
  Connected = TRUE
  ServerCount = FALSE
  FailStages = {}
INVARIANT ReplicasFollow
CHECK_DEADLOCK FALSE
