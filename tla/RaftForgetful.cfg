SPECIFICATION Spec
CONSTANTS
  Server = {s1, s2, s3}
  Nil = Nil
  Boot = s1
  Late = FALSE
  MaxTerm = 1
  MaxElections = 1
  MaxRounds = 0
  MaxSubmits = 0
  MaxCrashes = 1
SYMMETRY ServerSymmetry
CHECK_DEADLOCK FALSE
PROPERTIES RestartKeepsTerm
