SPECIFICATION ElectionsSpec
CONSTANTS
  Server = {s1, s2, s3}
  Nil = Nil
  Boot = s1
  Late = FALSE
  MaxTerm = 3
  MaxElections = 3
  MaxRounds = 1
  MaxSubmits = 2
  MaxCrashes = 0
SYMMETRY PeerSymmetry
CHECK_DEADLOCK FALSE
INVARIANTS ElectionSafety LeaderHasMandate LeadsTermItWon LeaderCompleteness
