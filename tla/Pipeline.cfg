SPECIFICATION DeliverySpec
CONSTANTS
  Loop = {l1, l2}
  MaxEntries = 3
  MaxElected = 1
  Forwards = TRUE
  ReadyCap = 1
  CommitCap = 1
CHECK_DEADLOCK FALSE
INVARIANTS PipelineTypeOK InOrderOnce WakeupOnItsWay
PROPERTIES CommittedIsPersisted ImplementsDelivery
