SPECIFICATION JoinedSpec
CONSTANTS
  User = {u1, u2, u3}
  Group = {g1, g2}
  NoGroup = NoGroup
  Nil = Nil
  Bob = u3
  Ann = u1
  NameOf <- Names
  ChatEvent = {"a", "r"}
  MaxRequests = 2
  MaxDeaths = 1
SYMMETRY GroupSymmetry
CHECK_DEADLOCK FALSE
INVARIANTS EverybodySeesChanges
