SPECIFICATION FairSpec
CONSTANTS
  MaxConns = 2
  MaxInputs = 5
  MaxMenus = 3
CHECK_DEADLOCK FALSE
INVARIANTS ClientTypeOK DoneClosedOnce LogsOutBeforeLeaving
PROPERTIES JoinGroupChatReturns
