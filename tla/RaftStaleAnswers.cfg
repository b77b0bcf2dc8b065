SPECIFICATION StaleAnswerSpec
CONSTANTS
  Server = {s1, s2, s3}
  Nil = Nil
  Boot = s1
  Late = FALSE
  MaxTerm = 6
  MaxElections = 6
  MaxRounds = 6
  MaxSubmits = 5
  MaxCrashes = 0
SYMMETRY PeerSymmetry
CHECK_DEADLOCK FALSE
INVARIANTS StateMachineSafety
