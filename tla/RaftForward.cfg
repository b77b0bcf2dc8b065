SPECIFICATION ForwardSpec
CONSTANTS
  Server = {s1, s2, s3}
  Nil = Nil
  Old = s1
  Boot = s2
  Late = FALSE
  MaxTerm = 2
  MaxElections = 2
  MaxRounds = 2
  MaxSubmits = 1
  MaxCrashes = 1
CHECK_DEADLOCK FALSE
INVARIANTS CommandOnce
PROPERTIES CommandReachesLeader
