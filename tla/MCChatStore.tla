---------------------------- MODULE MCChatStore -----------------------------
(* Model-checking instances of ChatStore. *)
EXTENDS ChatStore, TLC, SequencesExt

CONSTANTS
    Bob,       \* the one user with a name of his own
    Ann        \* one of those who share the other name

Names == [u \in User |-> IF u = Bob THEN "bob" ELSE "ann"]

(* The log of the users in early, who have logged in and joined group g,   *)
(* one after the other.                                                    *)
JoinLog(early, g) ==
    LET n == Cardinality(early)
        order == SetToSeq(early)
    IN [i \in 1..(2 * n) |->
           [id |-> 0, group |-> None, number |-> 0,
            event |-> IF i <= n THEN "u" ELSE "j",
            user |-> order[IF i <= n THEN i ELSE i - n],
            new |-> IF i <= n THEN None ELSE g]]

(* The users in early are in group g, on every server; the commands that   *)
(* follow are counted from here.                                           *)
Joined(early, g) ==
    /\ log = JoinLog(early, g)
    /\ pending = {} /\ count = 0
    /\ session = [u \in User |-> IF u \in early THEN "in" ELSE "out"]
    /\ group = [u \in User |-> IF u \in early THEN g ELSE None]
    /\ asked = [u \in User |-> <<>>]
    /\ store = [n \in Server |->
           [EmptyStore EXCEPT !.users = early, !.created = {g}, !.members[g] = early]]
    /\ applied = [n \in Server |-> Len(log)]
    /\ half = [n \in Server |-> FALSE]
    /\ crashes = 0

(* Those of the same name have joined, or one of them and Bob. *)
JoinedSpec ==
    /\ \E g \in Group, early \in {User \ {Bob}, {Ann, Bob}} : Joined(early, g)
    /\ [][Next]_vars

GroupSymmetry == Permutations(Group)
=============================================================================
