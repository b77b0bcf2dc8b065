SPECIFICATION JoinedSpec
CONSTANTS
  Server = {s1}
  User = {u1, u2, u3}
  Group = {g1, g2}
  None = None
  Bob = u3
  Ann = u1
  NameOf <- Names
  Event = {"a", "l", "r", "j", "q"}
  Recent = 2
  Word = 256
  MaxNumber = 1
  MaxCommands = 3
  MaxCrashes = 1
SYMMETRY GroupSymmetry
CHECK_DEADLOCK FALSE
INVARIANTS MembershipConverges NoMessageLost LikesByLog LatestOnScreen
