--------------------------- MODULE MCChatService ----------------------------
(* Model-checking instances of ChatService. *)
EXTENDS ChatService, TLC, SequencesExt

CONSTANTS
    Bob,       \* the one user with a name of his own
    Ann        \* one of those who share the other name

Names == [u \in User |-> IF u = Bob THEN "bob" ELSE "ann"]

(* The users of online have logged in, and those of early have joined      *)
(* group g, one after the other, and all that has been applied, broadcast  *)
(* and shown.                                                              *)
Joined(online, early, g) ==
    LET n == Cardinality(online)
        logins == SetToSeq(online)
        joins == SetToSeq(early)
        InG(u) == IF u \in early THEN g ELSE NoGroup
    IN /\ log = [i \in 1..n |-> Command(0, "u", logins[i], NoGroup, NoGroup)]
                  \o [i \in 1..Len(joins) |-> Command(0, "j", joins[i], NoGroup, g)]
       /\ pending = {} /\ applied = Len(log)
       /\ up = TRUE /\ casts = <<>> /\ caster = NotCasting
       /\ clients = [u \in User |-> InG(u)]
       /\ activeusers = online
       /\ activeusergroup = [u \in User |-> InG(u)]
       /\ context = [u \in User |-> IF u \in early THEN "open" ELSE "none"]
       /\ inbox = [u \in User |-> <<>>]
       /\ handler = [u \in User |-> Idle]
       /\ session = [u \in User |-> IF u \in online THEN "in" ELSE "out"]
       /\ group = [u \in User |-> InG(u)]
       /\ count = 0 /\ deaths = 0
       /\ seen = [u \in User |-> IF u \in early THEN Len(log) ELSE 0]
       /\ hasty = {} /\ interrupted = "no"

(* Those of the same name have joined, or one of them and Bob, or nobody   *)
(* and Bob has logged in.                                                  *)
JoinedSpec ==
    /\ \E g \in Group :
        \/ \E early \in {User \ {Bob}, {Ann, Bob}} : Joined(early, early, g)
        \/ Joined({Bob}, {}, g)
    /\ [][Next]_vars

GroupSymmetry == Permutations(Group)
=============================================================================
