SPECIFICATION ReplicationSpec
CONSTANTS
  Server = {s1, s2, s3}
  Nil = Nil
  Boot = s1
  Late = FALSE
  MaxTerm = 4
  MaxElections = 4
  MaxRounds = 3
  MaxSubmits = 4
  MaxCrashes = 1
SYMMETRY PeerSymmetry
CHECK_DEADLOCK FALSE
INVARIANTS TypeOK LogMatching VoteIsDurable NoLostWakeup StateMachineSafety MatchIndexIsHeld
PROPERTIES CommittedIsStable ImplementsLog
