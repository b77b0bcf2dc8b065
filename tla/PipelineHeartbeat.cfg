SPECIFICATION FairSpec
CONSTANTS
  Loop = {l1}
  MaxEntries = 1
  MaxElected = 1
  Forwards = FALSE
  ReadyCap = 1
  CommitCap = 1
CHECK_DEADLOCK FALSE
PROPERTIES HeartbeatGoesOn
