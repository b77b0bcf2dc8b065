SPECIFICATION SplitSpec
CONSTANTS
  Server = {s1, s2, s3}
  Nil = Nil
  Boot = s1
  Late = TRUE
  MaxTerm = 2
  MaxElections = 3
  MaxRounds = 2
  MaxSubmits = 2
  MaxCrashes = 0
SYMMETRY PeerSymmetry
CHECK_DEADLOCK FALSE
INVARIANTS StateMachineSafety
