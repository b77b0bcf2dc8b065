----------------------------- MODULE StoreProofs ----------------------------
(***************************************************************************)
(* Theorems about ChatStore, for any servers, users, names and groups, and *)
(* any number of commands and crashes.                                     *)
(***************************************************************************)
EXTENDS ChatStore, FiniteSetTheorems, SequenceTheorems, TLAPS

-----------------------------------------------------------------------------
(***************************************************************************)
(* The inductive invariant, in parts.                                      *)
(***************************************************************************)
GroupName == Group \cup {None}
Names == {NameOf[u] : u \in User}

CommandType ==
    [id : Nat, event : {"u", "j", "a", "l", "r", "q"}, user : User, group : GroupName,
     new : GroupName, number : Nat]
MessageType == [id : Nat, by : User, likedBy : SUBSET Names]
StoreType ==
    [users : SUBSET User, created : SUBSET Group, members : [Group -> SUBSET User],
     messages : [Group -> Seq(MessageType)]]

ClientTypes ==
    /\ pending \in SUBSET CommandType /\ count \in Nat /\ crashes \in Nat
    /\ group \in [User -> GroupName] /\ asked \in [User -> Seq(Group)]

ServerTypes ==
    /\ log \in Seq(CommandType)
    /\ store \in [Server -> StoreType]
    /\ applied \in [Server -> Nat] /\ half \in [Server -> BOOLEAN]

(* Does the log, up to entry k, take somebody to group g? *)
Made(g, k) == \E i \in 1..k : log[i].event = "j" /\ log[i].new = g

(* A client is in a group, and names it, only when a join to it has been    *)
(* committed; so no entry appends to a group before it is made.            *)
NamedInv ==
    /\ \A u \in User : group[u] \in Group => Made(group[u], Len(log))
    /\ \A c \in pending :
           /\ c.event = "j" => c.new \in Group
           /\ c.event = "a" => c.group \in Group /\ Made(c.group, Len(log))
    /\ \A i \in 1..Len(log) :
           /\ log[i].event = "j" => log[i].new \in Group
           /\ log[i].event = "a" => log[i].group \in Group /\ Made(log[i].group, i - 1)

(* Between two writes there is an entry to apply, and the first write has   *)
(* been done.                                                              *)
HalfOf(n) ==
    half[n] =>
        /\ applied[n] < Len(log) /\ Next1(n).event \in {"j", "q"}
        /\ Next1(n).event = "j" /\ Next1(n).group \in Group
               => Next1(n).user \notin store[n].members[Next1(n).group]

(* A group that is not there holds nothing. *)
Sound(s) ==
    \A g \in Group : g \notin s.created => s.members[g] = {} /\ s.messages[g] = <<>>

(* The groups on disk are made by the log; all those that what has been     *)
(* applied makes are there.                                                 *)
CreatedOf(n) ==
    /\ applied[n] <= Len(log)
    /\ \A g \in store[n].created : Made(g, Len(log))
    /\ \A g \in Group : Made(g, applied[n]) => g \in store[n].created
    /\ Sound(store[n])

(* Entry i is the last one up to k that concerns u and g. *)
LastWord(u, g, i, k) ==
    /\ i \in 1..k /\ Concerns(log[i], u, g)
    /\ \A j \in (i + 1)..k : ~Concerns(log[j], u, g)

TakesTo(c, u, g) == c.event = "j" /\ c.user = u /\ c.new = g

(* Half of a join of u from g has been applied. *)
Leaving(n, u, g) ==
    half[n] /\ Next1(n).event = "j" /\ Next1(n).user = u /\ Next1(n).group = g

(* Whether u is in g is as the last entry says that concerns them, of those *)
(* applied since the server started; or there is none; or the next entry   *)
(* is just being applied.                                                  *)
Decided(n, u, g) ==
    \/ \E i \in 1..applied[n] :
           /\ LastWord(u, g, i, applied[n])
           /\ u \in store[n].members[g] <=> TakesTo(log[i], u, g)
    \/ \A i \in 1..applied[n] : ~Concerns(log[i], u, g)
    \/ Leaving(n, u, g)

(* Who is in a group, has been taken there by some entry, applied now or    *)
(* before a crash.                                                         *)
TakenThere(n, u, g) ==
    u \in store[n].members[g] => \E i \in 1..Len(log) : TakesTo(log[i], u, g)

MembersOf(n) == \A u \in User, g \in Group : Decided(n, u, g) /\ TakenThere(n, u, g)

(* The appends applied since the server started are the last messages. *)
MessageAt(n, g, i, later) ==
    LET m == store[n].messages[g]
    IN later < Len(m) /\ m[Len(m) - later].id = log[i].id

MessagesOf(n) ==
    \A g \in Group : \A i \in Appends(g, 0, applied[n]) :
        MessageAt(n, g, i, Cardinality(Appends(g, i, applied[n])))

(* As long as nobody has crashed they are all the messages, by the authors  *)
(* and with the likes of the log.                                          *)
LikedAt(n, g, a, k) ==
    /\ store[n].messages[g][k].by = log[a].user
    /\ store[n].messages[g][k].likedBy = LikedBy(a, g, k, applied[n])

LikesOf(n) ==
    crashes = 0 =>
        \A g \in Group :
            /\ Len(store[n].messages[g]) = Cardinality(Appends(g, 0, applied[n]))
            /\ \A a \in Appends(g, 0, applied[n]) :
                   LikedAt(n, g, a, Cardinality(Appends(g, 0, a)))

ServerOf(n) == HalfOf(n) /\ CreatedOf(n) /\ MembersOf(n) /\ MessagesOf(n) /\ LikesOf(n)

StoreInv ==
    ClientTypes /\ ServerTypes /\ NamedInv /\ \A n \in Server : ServerOf(n)
-----------------------------------------------------------------------------
(***************************************************************************)
(* What the operations of DiskStore do.                                    *)
(***************************************************************************)
USE ChatStoreAssumption

(* The parts of a store. *)
LEMMA StoreParts ==
    ASSUME NEW s \in StoreType
    PROVE  /\ s.users \in SUBSET User /\ s.created \in SUBSET Group
           /\ s.members \in [Group -> SUBSET User]
           /\ s.messages \in [Group -> Seq(MessageType)]
           /\ s = [users |-> s.users, created |-> s.created, members |-> s.members,
                   messages |-> s.messages]
BY DEF StoreType

(* The parts of a command. *)
LEMMA CommandParts ==
    ASSUME NEW c \in CommandType
    PROVE  /\ c.id \in Nat /\ c.event \in {"u", "j", "a", "l", "r", "q"} /\ c.user \in User
           /\ c.group \in GroupName /\ c.new \in GroupName /\ c.number \in Nat
BY DEF CommandType

(* The parts of a message. *)
LEMMA MessageParts ==
    ASSUME NEW m \in MessageType
    PROVE  m.id \in Nat /\ m.by \in User /\ m.likedBy \in SUBSET Names
BY DEF MessageType

(* The users are nothing but users. *)
LEMMA UserWrites ==
    ASSUME NEW s \in StoreType, NEW u \in User, NEW t,
           t = SaveUser(s, u) \/ t = DeleteUser(s, u)
    PROVE  /\ t \in StoreType /\ t.created = s.created /\ t.members = s.members
           /\ t.messages = s.messages
<1>1. PICK users \in SUBSET User : t = [s EXCEPT !.users = users]
    BY StoreParts DEF SaveUser, DeleteUser
<1> QED BY ONLY <1>1, s \in StoreType DEF StoreType

(* From s to t user u leaves g, when that is there. *)
Removed(s, t, u, g) ==
    /\ t \in StoreType /\ t.created = s.created /\ t.messages = s.messages
    /\ \A h \in Group : t.members[h] =
           IF h = g /\ g \in s.created THEN s.members[h] \ {u} ELSE s.members[h]

(* From s to t user u joins g, and there it is. *)
Joined(s, t, u, g) ==
    /\ t \in StoreType /\ t.created = s.created \cup {g} /\ t.messages = s.messages
    /\ \A h \in Group : t.members[h] =
           IF h = g THEN s.members[h] \cup {u} ELSE s.members[h]

(* A user leaves a group that there is. *)
LEMMA RemoveWrites ==
    ASSUME NEW s \in StoreType, NEW u \in User, NEW g \in GroupName, NEW t,
           t = RemoveUserInGroup(s, u, g)
    PROVE  Removed(s, t, u, g)
<1>1. CASE g \in s.created
    <2> DEFINE M == [s.members EXCEPT ![g] = s.members[g] \ {u}]
    <2>0. s.members \in [Group -> SUBSET User] /\ g \in Group
        BY <1>1, StoreParts
    <2>1. t = [s EXCEPT !.members = M]
        BY <1>1 DEF RemoveUserInGroup
    <2>2. M \in [Group -> SUBSET User]
          /\ \A h \in Group : M[h] = IF h = g THEN s.members[h] \ {u} ELSE s.members[h]
        BY <2>0
    <2> HIDE DEF M
    <2>3. t \in StoreType /\ t.created = s.created /\ t.members = M
          /\ t.messages = s.messages
        BY ONLY <2>1, <2>2, s \in StoreType DEF StoreType
    <2> QED BY <1>1, <2>2, <2>3 DEF Removed
<1>2. CASE g \notin s.created
    BY <1>2 DEF RemoveUserInGroup, Removed
<1> QED BY <1>1, <1>2

(* A user joins a group, and there it is. *)
LEMMA JoinGroupWrites ==
    ASSUME NEW s \in StoreType, NEW u \in User, NEW g \in Group, NEW t,
           t = JoinGroup(s, u, g)
    PROVE  Joined(s, t, u, g)
<1> DEFINE M == [s.members EXCEPT ![g] = s.members[g] \cup {u}]
           C == s.created \cup {g}
<1>0. s.members \in [Group -> SUBSET User] /\ C \in SUBSET Group
    BY StoreParts
<1>1. t = [s EXCEPT !.created = C, !.members = M]
    BY DEF JoinGroup
<1>2. M \in [Group -> SUBSET User]
      /\ \A h \in Group : M[h] = IF h = g THEN s.members[h] \cup {u} ELSE s.members[h]
    BY <1>0
<1>c. C = s.created \cup {g}
    OBVIOUS
<1> HIDE DEF M, C
<1>3. t \in StoreType /\ t.created = C /\ t.members = M /\ t.messages = s.messages
    BY ONLY <1>0, <1>1, <1>2, s \in StoreType DEF StoreType
<1> QED BY <1>2, <1>3, <1>c DEF Joined

(* From s to t a message by u is added to g, when that is there. *)
Appended(s, t, id, u, g) ==
    /\ t \in StoreType /\ t.created = s.created /\ t.members = s.members
    /\ \E message \in MessageType :
           /\ message.id = id /\ message.by = u /\ message.likedBy = {}
           /\ \A h \in Group : t.messages[h] =
                  IF h = g /\ g \in s.created THEN Append(s.messages[h], message)
                  ELSE s.messages[h]

(* A message goes to the end of its group, when that is there. *)
LEMMA AppendWrites ==
    ASSUME NEW s \in StoreType, NEW id \in Nat, NEW u \in User, NEW g \in GroupName, NEW t,
           t = AppendMessage(s, id, u, g)
    PROVE  Appended(s, t, id, u, g)
<1> DEFINE message == [id |-> id, by |-> u, likedBy |-> {}]
<1>0. message \in MessageType /\ message.id = id /\ message.by = u /\ message.likedBy = {}
    BY DEF MessageType
<1>1. CASE g \in s.created
    <2> DEFINE M == [s.messages EXCEPT ![g] = Append(s.messages[g], message)]
    <2>1. t = [s EXCEPT !.messages = M]
        BY <1>1 DEF AppendMessage
    <2> HIDE DEF message
    <2>2. s.messages \in [Group -> Seq(MessageType)] /\ g \in Group
        BY <1>1, StoreParts
    <2>3. Append(s.messages[g], message) \in Seq(MessageType)
        BY <1>0, <2>2, AppendProperties
    <2>4. M \in [Group -> Seq(MessageType)]
          /\ \A h \in Group : M[h] = IF h = g THEN Append(s.messages[h], message)
                                     ELSE s.messages[h]
        BY <2>2, <2>3
    <2> HIDE DEF M
    <2>5. t \in StoreType /\ t.created = s.created /\ t.members = s.members
          /\ t.messages = M
        BY ONLY <2>1, <2>4, s \in StoreType DEF StoreType
    <2> QED BY <1>0, <1>1, <2>4, <2>5 DEF Appended
<1>2. CASE g \notin s.created
    <2>1. t = s
        BY <1>2 DEF AppendMessage
    <2> HIDE DEF message
    <2> QED BY <1>0, <1>2, <2>1 DEF Appended
<1> QED BY <1>1, <1>2

(* Message k of a group with the likes L. *)
WithLikes(s, g, k, L) == [s EXCEPT !.messages[g][k].likedBy = L]

(* From s to t message k of a group was given the likes L. *)
LikesGiven(s, t, g, k, L) ==
    /\ t \in StoreType /\ t.created = s.created /\ t.members = s.members
    /\ \A h \in Group :
           /\ Len(t.messages[h]) = Len(s.messages[h])
           /\ \A i \in 1..Len(s.messages[h]) :
                  /\ t.messages[h][i].id = s.messages[h][i].id
                  /\ t.messages[h][i].by = s.messages[h][i].by
                  /\ t.messages[h][i].likedBy =
                         IF h = g /\ i = k THEN L ELSE s.messages[h][i].likedBy

(* Message k of a group is given the likes L. *)
LEMMA LikesWritten ==
    ASSUME NEW s \in StoreType, NEW g \in Group, NEW k, k \in 1..Len(s.messages[g]),
           NEW L, L \in SUBSET Names, NEW t, t = WithLikes(s, g, k, L)
    PROVE  LikesGiven(s, t, g, k, L)
<1> DEFINE m == s.messages[g]
           message == [m[k] EXCEPT !.likedBy = L]
           new == [m EXCEPT ![k] = message]
           M == [s.messages EXCEPT ![g] = new]
<1>0. s.messages \in [Group -> Seq(MessageType)]
    BY StoreParts
<1>1. m \in Seq(MessageType) /\ m[k] \in MessageType
    BY <1>0
<1>2. /\ message \in MessageType /\ message.id = m[k].id /\ message.by = m[k].by
      /\ message.likedBy = L
    BY <1>1 DEF MessageType
<1>3. t = [s EXCEPT !.messages = M]
    BY DEF WithLikes
<1> HIDE DEF message
<1>4. /\ new \in Seq(MessageType) /\ Len(new) = Len(m)
      /\ \A i \in 1..Len(m) : new[i] = IF i = k THEN message ELSE m[i]
    BY <1>1, <1>2, ExceptSeq
<1> HIDE DEF new
<1>5. M \in [Group -> Seq(MessageType)]
      /\ \A h \in Group : M[h] = IF h = g THEN new ELSE s.messages[h]
    BY <1>0, <1>4
<1> HIDE DEF M
<1>6. t \in StoreType /\ t.created = s.created /\ t.members = s.members /\ t.messages = M
    BY ONLY <1>3, <1>5, s \in StoreType DEF StoreType
<1>7. ASSUME NEW h \in Group
      PROVE  /\ Len(M[h]) = Len(s.messages[h])
             /\ \A i \in 1..Len(s.messages[h]) :
                    /\ M[h][i].id = s.messages[h][i].id
                    /\ M[h][i].by = s.messages[h][i].by
                    /\ M[h][i].likedBy = IF h = g /\ i = k THEN L
                                         ELSE s.messages[h][i].likedBy
    <2>1. CASE h = g
        BY <1>2, <1>4, <1>5, <2>1
    <2>2. CASE h # g
        BY <1>5, <2>2
    <2> QED BY <2>1, <2>2
<1> QED BY <1>6, <1>7 DEF LikesGiven

(* A like or an unlike c leaves in the messages new of g those of m, but   *)
(* for the likes of one, of somebody else.                                 *)
LikesSet(c, g, m, new) ==
    /\ Len(new) = Len(m)
    /\ \A i \in 1..Len(m) :
           /\ new[i].id = m[i].id /\ new[i].by = m[i].by
           /\ new[i].likedBy =
                  IF g = c.group /\ i = c.number /\ NameOf[m[i].by] # NameOf[c.user]
                  THEN IF c.event = "l" THEN m[i].likedBy \cup {NameOf[c.user]}
                       ELSE m[i].likedBy \ {NameOf[c.user]}
                  ELSE m[i].likedBy

(* A like or an unlike changes the likes of one message, of somebody else, *)
(* if there is such a message.                                             *)
LEMMA LikeWrites ==
    ASSUME NEW s \in StoreType, NEW c \in CommandType, c.event \in {"l", "r"}, NEW t,
           t = IF c.event = "l" THEN LikeMessage(s, c.user, c.group, c.number)
               ELSE UnLikeMessage(s, c.user, c.group, c.number),
           \A g \in Group : g \notin s.created => s.messages[g] = <<>>
    PROVE  /\ t \in StoreType /\ t.created = s.created /\ t.members = s.members
           /\ \A g \in Group : LikesSet(c, g, s.messages[g], t.messages[g])
<1> DEFINE g == c.group
           k == c.number
           x == NameOf[c.user]
           L == IF c.event = "l" THEN s.messages[g][k].likedBy \cup {x}
                ELSE s.messages[g][k].likedBy \ {x}
<1>0. /\ s.messages \in [Group -> Seq(MessageType)] /\ s.created \in SUBSET Group
      /\ c.user \in User /\ g \in GroupName /\ k \in Nat /\ x \in Names
    BY StoreParts, CommandParts DEF Names
<1>1. ASSUME NEW h \in Group
      PROVE  /\ DOMAIN s.messages[h] = 1..Len(s.messages[h])
             /\ \A i \in 1..Len(s.messages[h]) : s.messages[h][i] \in MessageType
    <2>1. s.messages[h] \in Seq(MessageType)
        BY <1>0
    <2> QED BY <2>1, LenProperties
<1>2. CASE Others(s, c.user, g, k)
    <2>1. /\ g \in Group /\ k \in 1..Len(s.messages[g]) /\ NameOf[s.messages[g][k].by] # x
        BY <1>0, <1>1, <1>2 DEF Others, HasMessage
    <2>2. L \in SUBSET Names
        BY <1>0, <1>1, <2>1, MessageParts
    <2>3. t = WithLikes(s, g, k, L)
        BY <1>2 DEF LikeMessage, UnLikeMessage, WithLikes
    <2>l. L = IF c.event = "l" THEN s.messages[g][k].likedBy \cup {x}
              ELSE s.messages[g][k].likedBy \ {x}
        OBVIOUS
    <2> HIDE DEF L
    <2>4. LikesGiven(s, t, g, k, L)
        BY ONLY <2>1, <2>2, <2>3, s \in StoreType, LikesWritten
    <2> QED BY ONLY <2>1, <2>4, <2>l, ZenonT(60) DEF LikesGiven, LikesSet
<1>3. CASE ~Others(s, c.user, g, k)
    <2>1. t = s
        BY <1>3 DEF LikeMessage, UnLikeMessage
    <2>2. ASSUME NEW h \in Group, NEW i \in 1..Len(s.messages[h]), h = g, i = k
          PROVE  NameOf[s.messages[h][i].by] = x
        <3>1. h \in s.created
            BY EmptySeq
        <3> QED BY <1>1, <1>3, <2>2, <3>1 DEF Others, HasMessage
    <2> QED BY <2>1, <2>2 DEF LikesSet
<1> QED BY <1>2, <1>3
-----------------------------------------------------------------------------
(***************************************************************************)
(* What depends on the beginning of the log only.                          *)
(***************************************************************************)
LogGrows ==
    /\ Len(log) \in Nat /\ Len(log') \in Nat /\ Len(log) <= Len(log')
    /\ \A i \in 1..Len(log) : log'[i] = log[i]

(* What the first k entries say, they say when the log has grown. *)
LEMMA LogPrefix ==
    ASSUME LogGrows, NEW k \in Nat, k <= Len(log)
    PROVE  /\ \A g : Made(g, k)' <=> Made(g, k)
           /\ \A g : \A j \in Nat : Appends(g, j, k)' = Appends(g, j, k)
           /\ \A u, g, i : LastWord(u, g, i, k)' <=> LastWord(u, g, i, k)
<1>1. \A i \in 1..k : log'[i] = log[i]
    BY DEF LogGrows
<1>2. \A g : Made(g, k)' <=> Made(g, k)
    BY <1>1 DEF Made
<1>3. ASSUME NEW g, NEW j \in Nat PROVE Appends(g, j, k)' = Appends(g, j, k)
    <2>1. \A i \in (j + 1)..k : log'[i] = log[i]
        BY <1>1
    <2> QED BY <2>1 DEF Appends
<1>4. ASSUME NEW u, NEW g, NEW i PROVE LastWord(u, g, i, k)' <=> LastWord(u, g, i, k)
    <2>1. i \in 1..k => \A j \in (i + 1)..k : log'[j] = log[j]
        BY <1>1
    <2> QED BY <1>1, <2>1 DEF LastWord, Concerns
<1> QED BY <1>2, <1>3, <1>4

(* The likes, too. *)
LEMMA LikesPrefix ==
    ASSUME LogGrows, NEW k \in Nat, k <= Len(log), NEW a \in 1..k, NEW g, NEW p
    PROVE  LikedBy(a, g, p, k)' = LikedBy(a, g, p, k)
<1>1. \A i \in 1..k : log'[i] = log[i]
    BY DEF LogGrows
<1>2. \A i \in 1..k : Appends(g, 0, i)' = Appends(g, 0, i)
    BY LogPrefix
<1>3. ASSUME NEW x PROVE Opinions(x, g, p, k)' = Opinions(x, g, p, k)
    BY <1>1, <1>2 DEF Opinions
<1>4. \A x : Opinions(x, g, p, k) \subseteq 1..k
    BY DEF Opinions
<1> QED BY <1>1, <1>3, <1>4 DEF LikedBy

(* A server that does nothing keeps its invariant when the log grows. *)
LEMMA ServerKept ==
    ASSUME NEW n \in Server, LogGrows, applied[n] \in Nat, ServerOf(n),
           store'[n] = store[n], applied'[n] = applied[n], half'[n] = half[n],
           crashes' = 0 => crashes = 0
    PROVE  ServerOf(n)'
<1>0. /\ applied[n] <= Len(log) /\ Len(log) \in Nat /\ Len(log') \in Nat
      /\ Len(log) <= Len(log') /\ 0 \in Nat
      /\ \A i \in 1..Len(log) : log'[i] = log[i]
    BY DEF ServerOf, CreatedOf, LogGrows
<1>1. /\ \A g : Made(g, applied[n])' <=> Made(g, applied[n])
      /\ \A g : \A j \in Nat : Appends(g, j, applied[n])' = Appends(g, j, applied[n])
      /\ \A u, g, i : LastWord(u, g, i, applied[n])' <=> LastWord(u, g, i, applied[n])
    <2> DEFINE k == applied[n]
    <2>0. k \in Nat /\ k <= Len(log) /\ k' = k
        BY <1>0
    <2> HIDE DEF k
    <2>1. /\ \A g : Made(g, k)' <=> Made(g, k)
          /\ \A g : \A j \in Nat : Appends(g, j, k)' = Appends(g, j, k)
          /\ \A u, g, i : LastWord(u, g, i, k)' <=> LastWord(u, g, i, k)
        BY <2>0, LogPrefix
    <2> QED BY <2>1 DEF k
<1>2. applied[n] < Len(log) => Next1(n)' = Next1(n)
    BY <1>0 DEF Next1
<1>3. HalfOf(n)'
    BY <1>0, <1>2 DEF ServerOf, HalfOf
<1>4. CreatedOf(n)'
    <2>1. \A g : Made(g, Len(log)) => Made(g, Len(log))'
        BY <1>0 DEF Made
    <2> QED BY <1>0, <1>1, <2>1 DEF ServerOf, CreatedOf, Sound
<1>5. MembersOf(n)'
    <2>1. ASSUME NEW u \in User, NEW g \in Group, Decided(n, u, g) PROVE Decided(n, u, g)'
        <3>1. \A i \in 1..applied[n] : log'[i] = log[i]
            BY <1>0
        <3>2. Leaving(n, u, g) => Leaving(n, u, g)'
            BY <1>2 DEF Leaving, ServerOf, HalfOf
        <3> QED BY <1>1, <2>1, <3>1, <3>2 DEF Decided, TakesTo, Concerns
    <2>2. ASSUME NEW u \in User, NEW g \in Group, TakenThere(n, u, g)
          PROVE  TakenThere(n, u, g)'
        BY <1>0, <2>2 DEF TakenThere, TakesTo
    <2> QED BY <2>1, <2>2 DEF ServerOf, MembersOf
<1>6. ASSUME NEW g \in Group, NEW i \in Appends(g, 0, applied[n])
      PROVE  i \in 1..applied[n] /\ i \in Nat /\ log'[i] = log[i]
    BY <1>0 DEF Appends
<1>7. MessagesOf(n)'
    BY <1>1, <1>0, <1>6 DEF ServerOf, MessagesOf, MessageAt
<1>8. LikesOf(n)'
    <2>1. \A g \in Group : \A a \in Appends(g, 0, applied[n]) :
              Appends(g, 0, a)' = Appends(g, 0, a)
        BY <1>0, <1>6, LogPrefix
    <2>2. ASSUME NEW g \in Group, NEW a \in Appends(g, 0, applied[n]), NEW p
          PROVE  LikedBy(a, g, p, applied[n])' = LikedBy(a, g, p, applied[n])
        <3> DEFINE k == applied[n]
        <3>0. k \in Nat /\ k <= Len(log) /\ k' = k /\ a \in 1..k
            BY <1>0, <1>6
        <3> HIDE DEF k
        <3>1. LikedBy(a, g, p, k)' = LikedBy(a, g, p, k)
            BY <3>0, LikesPrefix
        <3> QED BY <3>1 DEF k
    <2>3. ASSUME NEW g \in Group, NEW a \in Appends(g, 0, applied[n]), NEW p,
                 LikedAt(n, g, a, p)
          PROVE  LikedAt(n, g, a, p)'
        BY <1>6, <2>2, <2>3 DEF LikedAt
    <2> QED BY <1>0, <1>1, <2>1, <2>3 DEF ServerOf, LikesOf
<1> QED BY <1>3, <1>4, <1>5, <1>7, <1>8 DEF ServerOf
-----------------------------------------------------------------------------
(***************************************************************************)
(* Counting the appends of the log.                                        *)
(***************************************************************************)
(* Does c append to g? *)
Adds(c, g) == c.event = "a" /\ c.group = g

(* Entry l comes right after the first k. *)
Follows(l, k) == k \in Nat /\ l = k + 1

(* The appends of a piece of the log are so many, a number. *)
LEMMA AppendsFinite ==
    ASSUME NEW g, NEW j \in Nat, NEW k \in Nat
    PROVE  IsFiniteSet(Appends(g, j, k)) /\ Cardinality(Appends(g, j, k)) \in Nat
<1>1. IsFiniteSet((j + 1)..k)
    BY FS_Interval
<1>2. Appends(g, j, k) \in SUBSET ((j + 1)..k)
    BY DEF Appends
<1> QED BY <1>1, <1>2, FS_Subset, FS_CardinalityType

(* One more entry is one more append, or none. *)
LEMMA AppendsNext ==
    ASSUME NEW g, NEW j, NEW k, NEW l, j \in Nat, k \in Nat, j <= k, l = k + 1
    PROVE  /\ Adds(log[l], g) =>
                  Cardinality(Appends(g, j, l)) = Cardinality(Appends(g, j, k)) + 1
           /\ ~Adds(log[l], g) => Appends(g, j, l) = Appends(g, j, k)
<1>1. \A i : i \in (j + 1)..l <=> i \in (j + 1)..k \/ i = l
    OBVIOUS
<1>2. l \notin Appends(g, j, k)
    BY DEF Appends
<1>3. ASSUME Adds(log[l], g)
      PROVE  Appends(g, j, l) = Appends(g, j, k) \cup {l}
    BY <1>1, <1>3 DEF Appends, Adds
<1>4. ASSUME ~Adds(log[l], g)
      PROVE  Appends(g, j, l) = Appends(g, j, k)
    BY <1>1, <1>4 DEF Appends, Adds
<1>5. Cardinality(Appends(g, j, k) \cup {l}) = Cardinality(Appends(g, j, k)) + 1
    BY <1>2, AppendsFinite, FS_AddElement
<1> QED BY <1>3, <1>4, <1>5

(* Fewer entries hold no more appends, and an append counts for one. *)
LEMMA AppendsFewer ==
    ASSUME NEW g, NEW i \in Nat, NEW k \in Nat, i <= k
    PROVE  /\ Cardinality(Appends(g, 0, i)) <= Cardinality(Appends(g, 0, k))
           /\ i \in Appends(g, 0, k) => Cardinality(Appends(g, 0, i)) >= 1
<1>1. Appends(g, 0, i) \in SUBSET Appends(g, 0, k)
    BY DEF Appends
<1>2. Cardinality(Appends(g, 0, i)) <= Cardinality(Appends(g, 0, k))
    <2>1. IsFiniteSet(Appends(g, 0, k))
        BY AppendsFinite
    <2> QED BY <1>1, <2>1, FS_Subset
<1>3. ASSUME i \in Appends(g, 0, k) PROVE Cardinality(Appends(g, 0, i)) >= 1
    <2>1. i - 1 \in Nat /\ (i - 1) + 1 = i /\ Adds(log[i], g)
        BY <1>3 DEF Appends, Adds
    <2>2. /\ Cardinality(Appends(g, 0, i)) = Cardinality(Appends(g, 0, i - 1)) + 1
          /\ Cardinality(Appends(g, 0, i - 1)) \in Nat
        <3> DEFINE h == i - 1
        <3>1. h \in Nat /\ h + 1 = i /\ 0 <= h /\ 0 \in Nat
            BY <2>1
        <3> HIDE DEF h
        <3>2. Cardinality(Appends(g, 0, i)) = Cardinality(Appends(g, 0, h)) + 1
            BY <2>1, <3>1, AppendsNext
        <3>3. Cardinality(Appends(g, 0, h)) \in Nat
            BY <3>1, AppendsFinite
        <3> QED BY <3>1, <3>2, <3>3 DEF h
    <2> QED BY <2>2
<1> QED BY <1>2, <1>3
-----------------------------------------------------------------------------
(***************************************************************************)
(* What the application of an entry leaves.                                *)
(***************************************************************************)

(* Server n has applied k entries, and applies entry c, the next of the   *)
(* log.                                                                    *)
Applies(n, k, c) ==
    /\ log' = log /\ Len(log) \in Nat
    /\ applied[n] = k /\ k \in Nat /\ k < Len(log) /\ applied'[n] = k + 1
    /\ c = log[k + 1]

(* When the members are those before, but for those whom c concerns, of     *)
(* whom c says it, the last entry goes on deciding.                        *)
LEMMA MembersApplied ==
    ASSUME NEW n, NEW k, NEW c, Applies(n, k, c), MembersOf(n),
           \A u \in User, g \in Group :
               u \in store'[n].members[g] <=>
                   IF Concerns(c, u, g) THEN TakesTo(c, u, g)
                   ELSE u \in store[n].members[g]
    PROVE  MembersOf(n)'
<1> SUFFICES ASSUME NEW u \in User, NEW g \in Group
             PROVE  Decided(n, u, g)' /\ TakenThere(n, u, g)'
    BY DEF MembersOf
<1>1. /\ k \in Nat /\ k < Len(log) /\ Len(log) \in Nat /\ applied[n] = k /\ applied'[n] = k + 1
      /\ c = log[k + 1] /\ log' = log
    BY DEF Applies
<1>2. Decided(n, u, g) /\ TakenThere(n, u, g)
    BY DEF MembersOf
<1>3. CASE Concerns(c, u, g)
    <2>1. LastWord(u, g, k + 1, k + 1)'
        BY <1>1, <1>3 DEF LastWord, Concerns
    <2>2. u \in store'[n].members[g] <=> TakesTo(log'[k + 1], u, g)
        BY <1>1, <1>3 DEF TakesTo
    <2>3. Decided(n, u, g)'
        BY <1>1, <2>1, <2>2 DEF Decided, TakesTo
    <2>4. TakenThere(n, u, g)'
        BY <1>1, <2>2 DEF TakenThere, TakesTo
    <2> QED BY <2>3, <2>4
<1>4. CASE ~Concerns(c, u, g)
    <2>1. u \in store'[n].members[g] <=> u \in store[n].members[g]
        BY <1>4
    <2>2. TakenThere(n, u, g)'
        BY <1>1, <1>2, <2>1 DEF TakenThere, TakesTo
    <2>3. ~Leaving(n, u, g)
        BY <1>1, <1>4 DEF Leaving, Concerns, Next1
    <2>4. CASE \E i \in 1..k : /\ LastWord(u, g, i, k)
                               /\ u \in store[n].members[g] <=> TakesTo(log[i], u, g)
        <3>1. PICK i \in 1..k : /\ LastWord(u, g, i, k)
                                /\ u \in store[n].members[g] <=> TakesTo(log[i], u, g)
            BY <2>4
        <3>2. i \in 1..(k + 1) /\ \A j \in (i + 1)..(k + 1) : j \in (i + 1)..k \/ j = k + 1
            BY <1>1, <3>1
        <3>3. LastWord(u, g, i, k + 1)'
            BY <1>1, <1>4, <3>1, <3>2 DEF LastWord, Concerns
        <3> QED BY <1>1, <2>1, <2>2, <3>1, <3>2, <3>3 DEF Decided, TakesTo
    <2>5. CASE \A i \in 1..k : ~Concerns(log[i], u, g)
        <3>1. \A i \in 1..(k + 1) : i \in 1..k \/ i = k + 1
            BY <1>1
        <3>2. \A i \in 1..(k + 1) : ~Concerns(log[i], u, g)
            BY <1>1, <1>4, <2>5, <3>1
        <3> QED BY <1>1, <2>2, <3>2 DEF Decided, Concerns
    <2> QED BY <1>1, <1>2, <2>3, <2>4, <2>5 DEF Decided
<1> QED BY <1>3, <1>4

(* What c adds to the messages m of g. *)
AppendsWell(c, g, m, new) ==
    /\ Len(m) \in Nat
    /\ \A i \in 1..Len(m) : new[i].id = m[i].id
    /\ IF Adds(c, g)
       THEN Len(new) = Len(m) + 1 /\ new[Len(m) + 1].id = c.id
       ELSE Len(new) = Len(m)

(* When c adds what it should, the appends applied are the last messages,   *)
(* c the last of them if it is one.                                        *)
LEMMA MessagesApplied ==
    ASSUME NEW n, NEW k, NEW c, Applies(n, k, c), MessagesOf(n),
           \A g \in Group : AppendsWell(c, g, store[n].messages[g], store'[n].messages[g])
    PROVE  MessagesOf(n)'
<1>1. /\ k \in Nat /\ k < Len(log) /\ Len(log) \in Nat /\ applied[n] = k /\ applied'[n] = k + 1
      /\ c = log[k + 1] /\ log' = log
    BY DEF Applies
<1> SUFFICES ASSUME NEW g \in Group, NEW i \in Appends(g, 0, k + 1)
             PROVE  MessageAt(n, g, i, Cardinality(Appends(g, i, k + 1)))'
    BY <1>1 DEF MessagesOf, Appends
<1> DEFINE m == store[n].messages[g]
           new == store'[n].messages[g]
<1>2. /\ Len(m) \in Nat /\ \A j \in 1..Len(m) : new[j].id = m[j].id
      /\ Adds(c, g) => Len(new) = Len(m) + 1 /\ new[Len(m) + 1].id = c.id
      /\ ~Adds(c, g) => Len(new) = Len(m)
    BY DEF AppendsWell
<1> HIDE DEF m, new
<1>3. i \in 1..(k + 1) /\ i \in Nat /\ Adds(log[i], g)
    BY <1>1 DEF Appends, Adds
<1>4. CASE i = k + 1
    <2>1. Appends(g, i, k + 1) = {}
        BY <1>1, <1>4 DEF Appends
    <2>2. Cardinality(Appends(g, i, k + 1)) = 0
        BY <2>1, FS_EmptySet
    <2>3. c = log[i] /\ c.id = log[i].id /\ Adds(c, g)
        BY <1>1, <1>3, <1>4
    <2>4. new[Len(new) - 0].id = log[i].id /\ 0 < Len(new)
        BY ONLY <1>2, <2>3
    <2> QED BY <1>1, <2>2, <2>4 DEF MessageAt, Appends, new
<1>5. CASE i # k + 1
    <2> DEFINE later == Cardinality(Appends(g, i, k))
    <2>1. i \in Appends(g, 0, k) /\ i <= k
        BY <1>1, <1>3, <1>5 DEF Appends
    <2>2. later < Len(m) /\ m[Len(m) - later].id = log[i].id
        BY <1>1, <2>1 DEF MessagesOf, MessageAt, m
    <2>3. later \in Nat
        BY <1>1, <1>3, AppendsFinite
    <2>4. /\ Adds(c, g) => Cardinality(Appends(g, i, k + 1)) = later + 1
          /\ ~Adds(c, g) => Cardinality(Appends(g, i, k + 1)) = later
        <3>1. /\ Adds(log[k + 1], g) =>
                     Cardinality(Appends(g, i, k + 1)) = Cardinality(Appends(g, i, k)) + 1
              /\ ~Adds(log[k + 1], g) => Appends(g, i, k + 1) = Appends(g, i, k)
            BY <1>1, <1>3, <2>1, AppendsNext
        <3> QED BY <1>1, <3>1
    <2> HIDE DEF later
    <2>5. /\ Len(m) - later \in 1..Len(m)
          /\ Adds(c, g) => Len(new) - (later + 1) = Len(m) - later
        BY <1>2, <2>2, <2>3
    <2>6. CASE Adds(c, g)
        <3>1. Len(new) = Len(m) + 1 /\ Len(new) - (later + 1) = Len(m) - later
              /\ later + 1 < Len(new)
            BY ONLY <1>2, <2>2, <2>3, <2>6
        <3>2. later + 1 < Len(new) /\ new[Len(new) - (later + 1)].id = log[i].id
            BY ONLY <1>2, <2>2, <2>5, <3>1
        <3> QED BY <1>1, <2>4, <2>6, <3>2 DEF MessageAt, Appends, new
    <2>7. CASE ~Adds(c, g)
        <3>1. later < Len(new) /\ new[Len(new) - later].id = log[i].id
            BY <1>2, <2>2, <2>3, <2>5, <2>7
        <3> QED BY <1>1, <2>4, <2>7, <3>1 DEF MessageAt, Appends, new
    <2> QED BY <2>6, <2>7
<1> QED BY <1>4, <1>5

(* Does c like or unlike message p of g in the name of x? *)
OpinionOn(c, x, g, p) ==
    c.event \in {"l", "r"} /\ NameOf[c.user] = x /\ c.group = g /\ c.number = p

(* From entry k on, nobody has said anything new about a message but the   *)
(* next.                                                                   *)
LEMMA OpinionsNext ==
    ASSUME NEW x, NEW g, NEW p, NEW k, NEW l, Follows(l, k)
    PROVE  /\ OpinionOn(log[l], x, g, p) /\ Cardinality(Appends(g, 0, l)) >= p
                  => Opinions(x, g, p, l) = Opinions(x, g, p, k) \cup {l}
           /\ ~OpinionOn(log[l], x, g, p) => Opinions(x, g, p, l) = Opinions(x, g, p, k)
<1>1. \A i : i \in 1..l <=> i \in 1..k \/ i = l
    BY DEF Follows
<1>2. ASSUME OpinionOn(log[l], x, g, p), Cardinality(Appends(g, 0, l)) >= p
      PROVE  Opinions(x, g, p, l) = Opinions(x, g, p, k) \cup {l}
    BY <1>1, <1>2 DEF Opinions, OpinionOn
<1>3. ASSUME ~OpinionOn(log[l], x, g, p)
      PROVE  Opinions(x, g, p, l) = Opinions(x, g, p, k)
    BY <1>1, <1>3 DEF Opinions, OpinionOn
<1> QED BY <1>2, <1>3

(* Does c like or unlike message p of g? *)
SpeaksOf(c, g, p) == c.event \in {"l", "r"} /\ c.group = g /\ c.number = p

(* The likes L of message p of g, by u, once c has been applied. *)
LikesAfter(c, g, p, u, L) ==
    IF SpeaksOf(c, g, p) /\ NameOf[u] # NameOf[c.user]
    THEN IF c.event = "l" THEN L \cup {NameOf[c.user]} ELSE L \ {NameOf[c.user]}
    ELSE L

(* The likes of a message after one more entry of the log. *)
LEMMA LikedByNext ==
    ASSUME NEW g, NEW a, NEW p, NEW k, NEW l, Follows(l, k), NEW c, c = log[l],
           c.user \in User, Cardinality(Appends(g, 0, l)) >= p
    PROVE  LikedBy(a, g, p, l) = LikesAfter(c, g, p, log[a].user, LikedBy(a, g, p, k))
<1>1. ASSUME ~SpeaksOf(c, g, p)
      PROVE  LikedBy(a, g, p, l) = LikedBy(a, g, p, k)
    <2>1. ASSUME NEW x PROVE Opinions(x, g, p, l) = Opinions(x, g, p, k)
        <3>1. ~OpinionOn(log[l], x, g, p)
            BY <1>1 DEF OpinionOn, SpeaksOf
        <3> QED BY <3>1, OpinionsNext
    <2> QED BY <2>1 DEF LikedBy
<1>2. ASSUME SpeaksOf(c, g, p)
      PROVE  LikedBy(a, g, p, l) =
                 IF c.event = "l" /\ NameOf[c.user] # NameOf[log[a].user]
                 THEN LikedBy(a, g, p, k) \cup {NameOf[c.user]}
                 ELSE LikedBy(a, g, p, k) \ {NameOf[c.user]}
    <2> DEFINE y == NameOf[c.user]
               z == NameOf[log[a].user]
    <2>y. y \in {NameOf[u] : u \in User}
        OBVIOUS
    <2>1. Opinions(y, g, p, l) = Opinions(y, g, p, k) \cup {l}
        <3>1. OpinionOn(log[l], y, g, p)
            BY <1>2 DEF OpinionOn, SpeaksOf
        <3> QED BY <1>2, <3>1, OpinionsNext
    <2>2. ASSUME NEW x, x # y PROVE Opinions(x, g, p, l) = Opinions(x, g, p, k)
        <3>1. ~OpinionOn(log[l], x, g, p)
            BY <2>2 DEF OpinionOn
        <3> QED BY <3>1, OpinionsNext
    <2>0. log[l] = c
        OBVIOUS
    <2> HIDE DEF y, z
    <2>3. ASSUME NEW x, x # y
          PROVE  x \in LikedBy(a, g, p, l) <=> x \in LikedBy(a, g, p, k)
        BY <2>2, <2>3 DEF LikedBy
    <2>4. y \in LikedBy(a, g, p, l) <=> c.event = "l" /\ y # z
        <3>1. \A i \in Opinions(y, g, p, l) : i \in Int /\ i <= l
            BY <2>1 DEF Opinions, Follows
        <3>2. (\E i \in Opinions(y, g, p, l) :
                  /\ log[i].event = "l"
                  /\ \A j \in Opinions(y, g, p, l) : j <= i) <=> c.event = "l"
            <4> DEFINE O == Opinions(y, g, p, l)
            <4>1. l \in O /\ \A i \in O : i \in Int /\ i <= l
                BY <2>1, <3>1
            <4> HIDE DEF O
            <4>2. (\E i \in O : log[i].event = "l" /\ \A j \in O : j <= i)
                  <=> c.event = "l"
                BY <1>2, <2>0, <4>1 DEF SpeaksOf
            <4> QED BY <4>2 DEF O
        <3> QED BY <2>y, <3>2 DEF LikedBy, z
    <2>5. LikedBy(a, g, p, l) =
              IF c.event = "l" /\ y # z
              THEN LikedBy(a, g, p, k) \cup {y} ELSE LikedBy(a, g, p, k) \ {y}
        BY <2>3, <2>4
    <2> QED BY <2>5 DEF y, z
<1>3. NameOf[log[a].user] \notin LikedBy(a, g, p, k)
    BY DEF LikedBy
<1> DEFINE L == LikedBy(a, g, p, k)
           M == LikedBy(a, g, p, l)
<1>4. /\ NameOf[log[a].user] \notin L
      /\ ~SpeaksOf(c, g, p) => M = L
      /\ SpeaksOf(c, g, p) =>
            M = IF c.event = "l" /\ NameOf[c.user] # NameOf[log[a].user]
                THEN L \cup {NameOf[c.user]} ELSE L \ {NameOf[c.user]}
    BY <1>1, <1>2, <1>3
<1> HIDE DEF L, M
<1>5. M = LikesAfter(c, g, p, log[a].user, L)
    BY ONLY <1>4 DEF LikesAfter
<1> QED BY <1>5 DEF L, M

(* What c does to the messages m of g. *)
LikesWell(c, g, m, new) ==
    /\ Len(m) \in Nat
    /\ \A i \in 1..Len(m) :
           new[i].by = m[i].by /\ new[i].likedBy = LikesAfter(c, g, i, m[i].by, m[i].likedBy)
    /\ IF Adds(c, g)
       THEN /\ Len(new) = Len(m) + 1
            /\ new[Len(m) + 1].by = c.user /\ new[Len(m) + 1].likedBy = {}
       ELSE Len(new) = Len(m)

(* Nobody has spoken of a message that has just come. *)
LEMMA NewNotLiked ==
    ASSUME NEW g, NEW k, NEW l, Follows(l, k), Adds(log[l], g),
           NEW p, p = Cardinality(Appends(g, 0, k)) + 1, NEW a
    PROVE  LikedBy(a, g, p, l) = {}
<1>1. ASSUME NEW x PROVE Opinions(x, g, p, l) = {}
    <2>1. ASSUME NEW i \in 1..l, i # l PROVE ~(Cardinality(Appends(g, 0, i)) >= p)
        <3>1. i \in Nat /\ k \in Nat /\ i <= k /\ 0 \in Nat
            BY <2>1 DEF Follows
        <3>2. /\ Cardinality(Appends(g, 0, i)) <= Cardinality(Appends(g, 0, k))
              /\ Cardinality(Appends(g, 0, i)) \in Nat
              /\ Cardinality(Appends(g, 0, k)) \in Nat
            BY <3>1, AppendsFewer, AppendsFinite
        <3> QED BY <3>2
    <2> QED BY <2>1 DEF Opinions, Adds
<1> QED BY <1>1 DEF LikedBy

(* When c does to the likes what it should, they are those of the log, the  *)
(* entry c included.                                                       *)
LEMMA LikesApplied ==
    ASSUME NEW n, NEW k, NEW c, Applies(n, k, c), c.user \in User, LikesOf(n),
           crashes' = crashes,
           \A g \in Group : LikesWell(c, g, store[n].messages[g], store'[n].messages[g])
    PROVE  LikesOf(n)'
<1> DEFINE l == k + 1
<1>1. /\ k \in Nat /\ k < Len(log) /\ Len(log) \in Nat /\ applied[n] = k /\ applied'[n] = l
      /\ c = log[l] /\ log' = log /\ Follows(l, k) /\ l \in Nat /\ 0 \in Nat /\ k <= l /\ 0 <= k
    BY DEF Applies, Follows
<1> HIDE DEF l
<1>2. \A g, i : Appends(g, 0, i)' = Appends(g, 0, i)
    BY <1>1 DEF Appends
<1>3. \A g, a, p : LikedBy(a, g, p, l)' = LikedBy(a, g, p, l)
    BY <1>1, <1>2 DEF LikedBy, Opinions
<1>4. ASSUME NEW g \in Group, crashes = 0
      PROVE  LET new == store'[n].messages[g]
             IN /\ Len(new) = Cardinality(Appends(g, 0, l))
                /\ \A a \in Appends(g, 0, l) :
                      /\ new[Cardinality(Appends(g, 0, a))].by = log[a].user
                      /\ new[Cardinality(Appends(g, 0, a))].likedBy
                             = LikedBy(a, g, Cardinality(Appends(g, 0, a)), l)
    <2> DEFINE m == store[n].messages[g]
               new == store'[n].messages[g]
    <2>1. LikesWell(c, g, m, new)
        OBVIOUS
    <2>2. /\ Len(m) = Cardinality(Appends(g, 0, k))
          /\ \A a \in Appends(g, 0, k) :
                /\ m[Cardinality(Appends(g, 0, a))].by = log[a].user
                /\ m[Cardinality(Appends(g, 0, a))].likedBy
                       = LikedBy(a, g, Cardinality(Appends(g, 0, a)), k)
        BY <1>1, <1>4 DEF LikesOf, LikedAt
    <2> HIDE DEF m, new
    <2>3. /\ Adds(c, g) =>
                Cardinality(Appends(g, 0, l)) = Cardinality(Appends(g, 0, k)) + 1
          /\ ~Adds(c, g) => Appends(g, 0, l) = Appends(g, 0, k)
        <3>1. l = k + 1
            BY <1>1 DEF Follows
        <3> QED BY <1>1, <3>1, AppendsNext
    <2>4. Len(new) = Cardinality(Appends(g, 0, l))
        BY <2>1, <2>2, <2>3 DEF LikesWell
    <2>5. ASSUME NEW a \in Appends(g, 0, l), a # l, NEW p, p = Cardinality(Appends(g, 0, a))
          PROVE  new[p].by = log[a].user /\ new[p].likedBy = LikedBy(a, g, p, l)
        <3>1. a \in Nat /\ a <= k /\ a \in Appends(g, 0, k)
            BY <1>1, <2>5 DEF Appends, Follows
        <3>2. p \in Nat /\ 1 <= p /\ p <= Len(m)
            BY <1>1, <2>2, <2>5, <3>1, AppendsFewer, AppendsFinite
        <3>3. Cardinality(Appends(g, 0, l)) >= p
            <4>1. Cardinality(Appends(g, 0, k)) <= Cardinality(Appends(g, 0, l))
                BY <1>1, AppendsFewer
            <4>2. Cardinality(Appends(g, 0, k)) \in Nat /\ Cardinality(Appends(g, 0, l)) \in Nat
                BY <1>1, AppendsFinite
            <4> QED BY <2>2, <3>2, <4>1, <4>2
        <3>4. m[p].by = log[a].user /\ m[p].likedBy = LikedBy(a, g, p, k)
            BY <2>2, <2>5, <3>1
        <3>5. /\ new[p].by = m[p].by
              /\ new[p].likedBy = LikesAfter(c, g, p, m[p].by, m[p].likedBy)
            BY <2>1, <3>2 DEF LikesWell
        <3>6. LikedBy(a, g, p, l) = LikesAfter(c, g, p, log[a].user, LikedBy(a, g, p, k))
            BY <1>1, <3>3, LikedByNext
        <3> QED BY <3>4, <3>5, <3>6
    <2>6. ASSUME l \in Appends(g, 0, l), NEW p, p = Cardinality(Appends(g, 0, l))
          PROVE  new[p].by = log[l].user /\ new[p].likedBy = LikedBy(l, g, p, l)
        <3>1. Adds(c, g)
            BY <1>1, <2>6 DEF Appends, Adds
        <3>2. p = Len(m) + 1 /\ p = Cardinality(Appends(g, 0, k)) + 1
            BY <2>2, <2>3, <2>6, <3>1
        <3>3. new[p].by = c.user /\ new[p].likedBy = {}
            BY <2>1, <3>1, <3>2 DEF LikesWell
        <3>4. LikedBy(l, g, p, l) = {}
            BY <1>1, <3>1, <3>2, NewNotLiked
        <3> QED BY <1>1, <3>3, <3>4
    <2> QED BY <2>4, <2>5, <2>6 DEF new
<1> QED BY <1>1, <1>2, <1>3, <1>4 DEF LikesOf, LikedAt

(* The messages of a group, as a sequence. *)
LEMMA GroupMessages ==
    ASSUME NEW s \in StoreType, NEW g \in Group
    PROVE  /\ s.messages[g] \in Seq(MessageType) /\ Len(s.messages[g]) \in Nat
           /\ Len(s.messages[g]) = 0 => s.messages[g] = <<>>
<1>1. s.messages[g] \in Seq(MessageType)
    BY StoreParts
<1> QED BY <1>1, LenProperties, EmptySeq

(* A command that is one write does to the messages what it should, and    *)
(* nothing to groups and members.                                          *)
LEMMA OneWriteDone ==
    ASSUME NEW s \in StoreType, NEW c \in CommandType, c.event \notin {"j", "q"},
           c.event = "a" => c.group \in s.created, Sound(s), NEW t, t = OneWrite(s, c)
    PROVE  /\ t \in StoreType /\ t.created = s.created /\ t.members = s.members /\ Sound(t)
           /\ \A g \in Group : /\ AppendsWell(c, g, s.messages[g], t.messages[g])
                               /\ LikesWell(c, g, s.messages[g], t.messages[g])
<1>0. /\ c.id \in Nat /\ c.event \in {"u", "a", "l", "r"} /\ c.user \in User
      /\ c.group \in GroupName
    BY CommandParts
<1>1. CASE c.event = "u"
    <2>1. t = SaveUser(s, c.user)
        BY <1>1 DEF OneWrite
    <2>2. /\ t \in StoreType /\ t.created = s.created /\ t.members = s.members
          /\ t.messages = s.messages
        BY <1>0, <2>1, UserWrites
    <2> QED BY <1>1, <2>2, GroupMessages
            DEF Sound, AppendsWell, LikesWell, LikesAfter, SpeaksOf, Adds
<1>2. CASE c.event = "a"
    <2>1. t = AppendMessage(s, c.id, c.user, c.group)
        BY <1>2 DEF OneWrite
    <2>2. /\ t \in StoreType /\ t.created = s.created /\ t.members = s.members
          /\ \E message \in MessageType :
                 /\ message.id = c.id /\ message.by = c.user /\ message.likedBy = {}
                 /\ \A h \in Group : t.messages[h] =
                        IF h = c.group /\ c.group \in s.created
                        THEN Append(s.messages[h], message) ELSE s.messages[h]
        <3>1. Appended(s, t, c.id, c.user, c.group)
            BY <1>0, <2>1, AppendWrites, Zenon
        <3> QED BY <3>1 DEF Appended
    <2>3. PICK message \in MessageType :
                 /\ message.id = c.id /\ message.by = c.user /\ message.likedBy = {}
                 /\ \A h \in Group : t.messages[h] =
                        IF h = c.group THEN Append(s.messages[h], message) ELSE s.messages[h]
        BY <1>2, <2>2
    <2>4. Sound(t)
        BY <1>2, <2>2, <2>3 DEF Sound
    <2>5. ASSUME NEW g \in Group, g # c.group
          PROVE  /\ AppendsWell(c, g, s.messages[g], t.messages[g])
                 /\ LikesWell(c, g, s.messages[g], t.messages[g])
        <3>1. ~Adds(c, g) /\ t.messages[g] = s.messages[g]
            BY <2>3, <2>5 DEF Adds
        <3> QED BY <1>2, <3>1, GroupMessages
                DEF AppendsWell, LikesWell, LikesAfter, SpeaksOf
    <2>6. ASSUME NEW g \in Group, g = c.group
          PROVE  /\ AppendsWell(c, g, s.messages[g], t.messages[g])
                 /\ LikesWell(c, g, s.messages[g], t.messages[g])
        <3> DEFINE m == s.messages[g]
                   new == t.messages[g]
        <3>1. m \in Seq(MessageType) /\ Len(m) \in Nat /\ new = Append(m, message)
            BY <2>3, <2>6, GroupMessages
        <3> HIDE DEF m, new
        <3>2. /\ Len(new) = Len(m) + 1 /\ new[Len(m) + 1] = message
              /\ \A i \in 1..Len(m) : new[i] = m[i]
            BY <3>1, AppendProperties
        <3>3. Adds(c, g) /\ \A i : ~SpeaksOf(c, g, i)
            BY <1>2, <2>6 DEF Adds, SpeaksOf
        <3>4. AppendsWell(c, g, m, new)
            BY <2>3, <3>1, <3>2, <3>3 DEF AppendsWell
        <3>5. LikesWell(c, g, m, new)
            BY <2>3, <3>1, <3>2, <3>3 DEF LikesWell, LikesAfter
        <3> QED BY <3>4, <3>5 DEF m, new
    <2> QED BY <2>2, <2>4, <2>5, <2>6
<1>3. CASE c.event \in {"l", "r"}
    <2>1. t = IF c.event = "l" THEN LikeMessage(s, c.user, c.group, c.number)
              ELSE UnLikeMessage(s, c.user, c.group, c.number)
        BY <1>3 DEF OneWrite
    <2>2. /\ t \in StoreType /\ t.created = s.created /\ t.members = s.members
          /\ \A h \in Group : LikesSet(c, h, s.messages[h], t.messages[h])
        BY <1>3, <2>1, LikeWrites DEF Sound
    <2>3. Sound(t)
        BY <2>2, GroupMessages, EmptySeq DEF Sound, LikesSet
    <2>4. ASSUME NEW g \in Group
          PROVE  /\ AppendsWell(c, g, s.messages[g], t.messages[g])
                 /\ LikesWell(c, g, s.messages[g], t.messages[g])
        <3> DEFINE m == s.messages[g]
                   new == t.messages[g]
        <3>1. Len(m) \in Nat /\ LikesSet(c, g, m, new) /\ ~Adds(c, g)
            BY <1>3, <2>2, GroupMessages DEF Adds
        <3> HIDE DEF m, new
        <3>2. AppendsWell(c, g, m, new)
            BY <3>1 DEF AppendsWell, LikesSet
        <3>3. LikesWell(c, g, m, new)
            BY <1>3, <3>1 DEF LikesWell, LikesSet, LikesAfter, SpeaksOf
        <3> QED BY <3>2, <3>3 DEF m, new
    <2> QED BY <2>2, <2>3, <2>4
<1> QED BY <1>0, <1>1, <1>2, <1>3
-----------------------------------------------------------------------------
(***************************************************************************)
(* The steps of a server.                                                  *)
(***************************************************************************)

(* What a server knows of the entry it is about to apply. *)
Applying(n, s, k, c) ==
    /\ s = store[n] /\ s \in StoreType /\ k = applied[n] /\ k \in Nat /\ k < Len(log)
    /\ Len(log) \in Nat /\ c = log[k + 1] /\ c = Next1(n) /\ c \in CommandType
    /\ c.event = "j" => c.new \in Group
    /\ c.event = "a" => c.group \in Group /\ Made(c.group, k)

(* It is the entry of the log that NamedInv speaks of. *)
LEMMA NextEntry ==
    ASSUME ServerTypes, NamedInv, NEW n \in Server, applied[n] < Len(log),
           NEW s, NEW k, NEW c, s = store[n], k = applied[n], c = Next1(n)
    PROVE  Applying(n, s, k, c)
<1>1. s \in StoreType /\ k \in Nat /\ Len(log) \in Nat /\ log \in Seq(CommandType)
    BY LenProperties DEF ServerTypes
<1>2. c = log[k + 1] /\ k + 1 \in 1..Len(log) /\ (k + 1) - 1 = k
    BY <1>1 DEF Next1
<1>3. c \in CommandType
    BY <1>1, <1>2, ElementOfSeq
<1>4. /\ c.event = "j" => c.new \in Group
      /\ c.event = "a" => c.group \in Group /\ Made(c.group, (k + 1) - 1)
    BY <1>2 DEF NamedInv
<1> QED BY <1>1, <1>2, <1>3, <1>4 DEF Applying

(* An entry is applied, and the second half of it if it has two: what is   *)
(* left to show is what became of the groups and of their members.         *)
LEMMA EntryApplied ==
    ASSUME NEW n \in Server, NEW s, NEW k, NEW c, NEW t, Applying(n, s, k, c), ServerOf(n),
           applied \in [Server -> Nat], store \in [Server -> StoreType],
           log' = log, crashes' = crashes, applied' = [applied EXCEPT ![n] = @ + 1],
           half'[n] = FALSE, t = store'[n],
           Sound(t), \A g \in t.created : g \in s.created \/ TakesTo(c, c.user, g),
           \A g \in Group : g \in s.created \/ TakesTo(c, c.user, g) => g \in t.created,
           \A u \in User, g \in Group :
               u \in t.members[g] <=>
                   IF Concerns(c, u, g) THEN TakesTo(c, u, g) ELSE u \in s.members[g],
           \A g \in Group : /\ AppendsWell(c, g, s.messages[g], t.messages[g])
                            /\ LikesWell(c, g, s.messages[g], t.messages[g])
    PROVE  ServerOf(n)'
<1>0. /\ s = store[n] /\ k = applied[n] /\ k \in Nat /\ k < Len(log) /\ Len(log) \in Nat
      /\ c = log[k + 1] /\ c.user \in User /\ applied'[n] = k + 1
    BY CommandParts DEF Applying
<1>1. Applies(n, k, c)
    BY <1>0 DEF Applies
<1>2. HalfOf(n)'
    BY DEF HalfOf
<1>3. CreatedOf(n)'
    <2>1. \A i : i \in 1..(k + 1) <=> i \in 1..k \/ i = k + 1
        BY <1>0
    <2>2. \A g : Made(g, Len(log))' <=> Made(g, Len(log))
        BY DEF Made
    <2>3. \A g : Made(g, k + 1)' <=> Made(g, k) \/ TakesTo(c, c.user, g)
        BY <1>0, <2>1 DEF Made, TakesTo
    <2>4. \A g : TakesTo(c, c.user, g) => Made(g, Len(log))
        BY <1>0 DEF Made, TakesTo
    <2>5. /\ \A g \in s.created : Made(g, Len(log))
          /\ \A g \in Group : Made(g, k) => g \in s.created
        BY <1>0 DEF ServerOf, CreatedOf
    <2>6. \A g \in t.created : Made(g, Len(log))'
        BY <2>2, <2>4, <2>5
    <2>7. \A g \in Group : Made(g, k + 1)' => g \in t.created
        BY <2>3, <2>5
    <2>8. applied'[n] <= Len(log)' /\ t = store'[n] /\ Sound(t)'
        BY <1>0 DEF Sound
    <2> QED BY <1>0, <2>6, <2>7, <2>8 DEF CreatedOf
<1>4. MembersOf(n)'
    BY <1>0, <1>1, MembersApplied DEF ServerOf
<1>5. MessagesOf(n)'
    BY <1>0, <1>1, MessagesApplied DEF ServerOf
<1>6. LikesOf(n)'
    BY <1>0, <1>1, LikesApplied DEF ServerOf
<1> QED BY <1>2, <1>3, <1>4, <1>5, <1>6 DEF ServerOf

(* A command that is one write is applied. *)
LEMMA AtOnceKeeps ==
    ASSUME ServerTypes, NamedInv, NEW n \in Server, ServerOf(n), PersistAtOnce(n)
    PROVE  ServerOf(n)' /\ store'[n] \in StoreType
<1> DEFINE s == store[n]
           k == applied[n]
           c == Next1(n)
           t == OneWrite(s, c)
<1>1. /\ applied[n] < Len(log) /\ c.event \notin {"j", "q"} /\ t = store'[n]
      /\ applied' = [applied EXCEPT ![n] = @ + 1] /\ log' = log /\ crashes' = crashes
      /\ half' = half /\ store \in [Server -> StoreType] /\ applied \in [Server -> Nat]
      /\ half \in [Server -> BOOLEAN]
    BY DEF PersistAtOnce, ServerTypes
<1>2. half'[n] = FALSE
    BY <1>1 DEF ServerOf, HalfOf
<1>3. Applying(n, s, k, c)
    BY <1>1, NextEntry
<1>4. t = OneWrite(s, c)
    OBVIOUS
<1> HIDE DEF s, k, c, t
<1>5. /\ Sound(s) /\ s \in StoreType /\ c \in CommandType
      /\ \A g \in Group : Made(g, k) => g \in s.created
    BY <1>3 DEF ServerOf, CreatedOf, Applying
<1>6. c.event = "a" => c.group \in s.created
    BY <1>3, <1>5 DEF Applying
<1>7. /\ t \in StoreType /\ t.created = s.created /\ t.members = s.members /\ Sound(t)
      /\ \A g \in Group : /\ AppendsWell(c, g, s.messages[g], t.messages[g])
                          /\ LikesWell(c, g, s.messages[g], t.messages[g])
    BY <1>1, <1>4, <1>5, <1>6, OneWriteDone
<1>8. \A u, g : ~Concerns(c, u, g) /\ ~TakesTo(c, u, g)
    BY <1>1 DEF Concerns, TakesTo
<1>9. ServerOf(n)'
    BY <1>1, <1>2, <1>3, <1>7, <1>8, EntryApplied
<1> QED BY <1>1, <1>7, <1>9

(* The second write of a join or of a logout finishes it. *)
LEMMA SecondWriteDone ==
    ASSUME NEW s \in StoreType, NEW c \in CommandType, c.event \in {"j", "q"},
           c.event = "j" => c.new \in Group, Sound(s),
           c.event = "j" /\ c.group \in Group => c.user \notin s.members[c.group],
           NEW t, t = SecondWrite(s, c)
    PROVE  /\ t \in StoreType /\ t.messages = s.messages /\ Sound(t)
           /\ \A g \in t.created : g \in s.created \/ TakesTo(c, c.user, g)
           /\ \A g \in Group : g \in s.created \/ TakesTo(c, c.user, g) => g \in t.created
           /\ \A u \in User, g \in Group :
                  u \in t.members[g] <=>
                      IF Concerns(c, u, g) THEN TakesTo(c, u, g) ELSE u \in s.members[g]
<1>0. c.user \in User /\ c.group \in GroupName
    BY CommandParts
<1>1. CASE c.event = "j"
    <2>1. t = JoinGroup(s, c.user, c.new)
        BY <1>1 DEF SecondWrite
    <2>2. /\ t \in StoreType /\ t.created = s.created \cup {c.new}
          /\ t.messages = s.messages
          /\ \A h \in Group : t.members[h] =
                 IF h = c.new THEN s.members[h] \cup {c.user} ELSE s.members[h]
        <3>1. Joined(s, t, c.user, c.new)
            BY <1>0, <1>1, <2>1, JoinGroupWrites, Zenon
        <3> QED BY <3>1 DEF Joined
    <2>3. Sound(t)
        BY <2>2 DEF Sound
    <2>4. \A g : TakesTo(c, c.user, g) <=> g = c.new
        BY <1>1 DEF TakesTo
    <2>5. ASSUME NEW u \in User, NEW g \in Group
          PROVE  /\ Concerns(c, u, g) => (u \in t.members[g] <=> TakesTo(c, u, g))
                 /\ ~Concerns(c, u, g) => (u \in t.members[g] <=> u \in s.members[g])
        <3>1. /\ Concerns(c, u, g) <=> c.user = u /\ (g = c.group \/ g = c.new)
              /\ TakesTo(c, u, g) <=> c.user = u /\ g = c.new
            BY <1>1 DEF Concerns, TakesTo
        <3>2. g # c.new => t.members[g] = s.members[g]
            BY <2>2
        <3>3. g = c.new => t.members[g] = s.members[g] \cup {c.user}
            BY <2>2
        <3>4. c.user = u /\ g = c.group => u \notin s.members[g]
            BY <1>1
        <3> QED BY <3>1, <3>2, <3>3, <3>4
    <2> QED BY <1>1, <2>2, <2>3, <2>4, <2>5
<1>2. CASE c.event = "q"
    <2>1. t = RemoveUserInGroup(s, c.user, c.group)
        BY <1>2 DEF SecondWrite
    <2>2. /\ t \in StoreType /\ t.created = s.created /\ t.messages = s.messages
          /\ \A h \in Group : t.members[h] =
                 IF h = c.group /\ c.group \in s.created THEN s.members[h] \ {c.user}
                 ELSE s.members[h]
        <3>1. Removed(s, t, c.user, c.group)
            BY <1>0, <2>1, RemoveWrites, Zenon
        <3> QED BY <3>1 DEF Removed
    <2>3. Sound(t)
        BY <2>2 DEF Sound
    <2>4. ASSUME NEW u \in User, NEW g \in Group
          PROVE  /\ Concerns(c, u, g) => (u \in t.members[g] <=> TakesTo(c, u, g))
                 /\ ~Concerns(c, u, g) => (u \in t.members[g] <=> u \in s.members[g])
        <3>1. /\ Concerns(c, u, g) <=> c.user = u /\ g = c.group
              /\ ~TakesTo(c, u, g)
            BY <1>2 DEF Concerns, TakesTo
        <3>2. g \notin s.created => s.members[g] = {}
            BY DEF Sound
        <3> QED BY <2>2, <3>1, <3>2
    <2>5. \A g : ~TakesTo(c, c.user, g)
        BY <1>2 DEF TakesTo
    <2> QED BY <2>2, <2>3, <2>4, <2>5
<1> QED BY <1>1, <1>2

(* The first write of a logout leaves the groups alone; that of a join     *)
(* takes the user out of the group before.                                 *)
LEMMA FirstWriteDone ==
    ASSUME NEW s \in StoreType, NEW c \in CommandType, c.event \in {"j", "q"}, Sound(s),
           NEW t, t = FirstWrite(s, c)
    PROVE  /\ t \in StoreType /\ t.created = s.created /\ t.messages = s.messages /\ Sound(t)
           /\ c.event = "j" /\ c.group \in Group => c.user \notin t.members[c.group]
           /\ \A u \in User, g \in Group :
                  u \in t.members[g] <=>
                      /\ u \in s.members[g]
                      /\ ~(c.event = "j" /\ u = c.user /\ g = c.group)
<1>0. c.user \in User /\ c.group \in GroupName
    BY CommandParts
<1>1. CASE c.event = "j"
    <2>1. t = RemoveUserInGroup(s, c.user, c.group)
        BY <1>1 DEF FirstWrite
    <2>2. /\ t \in StoreType /\ t.created = s.created /\ t.messages = s.messages
          /\ \A h \in Group : t.members[h] =
                 IF h = c.group /\ c.group \in s.created THEN s.members[h] \ {c.user}
                 ELSE s.members[h]
        <3>1. Removed(s, t, c.user, c.group)
            BY <1>0, <2>1, RemoveWrites, Zenon
        <3> QED BY <3>1 DEF Removed
    <2>3. Sound(t)
        BY <2>2 DEF Sound
    <2>4. ASSUME NEW g \in Group, g \notin s.created PROVE s.members[g] = {}
        BY <2>4 DEF Sound
    <2>5. ASSUME c.group \in Group PROVE c.user \notin t.members[c.group]
        <3>1. c.group \in s.created \/ s.members[c.group] = {}
            BY <2>4, <2>5
        <3>2. \/ t.members[c.group] = s.members[c.group] \ {c.user}
              \/ s.members[c.group] = {} /\ t.members[c.group] = s.members[c.group]
            BY <2>2, <2>5, <3>1
        <3> QED BY <3>2
    <2>6. ASSUME NEW u \in User, NEW g \in Group
          PROVE  u \in t.members[g] <=> u \in s.members[g] /\ ~(u = c.user /\ g = c.group)
        BY <2>2, <2>4
    <2> QED BY <1>1, <2>2, <2>3, <2>5, <2>6
<1>2. CASE c.event = "q"
    <2>1. t = DeleteUser(s, c.user)
        BY <1>2 DEF FirstWrite
    <2>2. /\ t \in StoreType /\ t.created = s.created /\ t.members = s.members
          /\ t.messages = s.messages
        BY <1>0, <2>1, UserWrites
    <2> QED BY <1>2, <2>2 DEF Sound
<1> QED BY <1>1, <1>2

(* Half of a join or of a logout is applied. *)
LEMMA FirstKeeps ==
    ASSUME ServerTypes, NamedInv, NEW n \in Server, ServerOf(n), PersistFirst(n)
    PROVE  ServerOf(n)' /\ store'[n] \in StoreType
<1> DEFINE s == store[n]
           k == applied[n]
           c == Next1(n)
           t == FirstWrite(s, c)
<1>1. /\ applied[n] < Len(log) /\ c.event \in {"j", "q"} /\ t = store'[n] /\ ~half[n]
      /\ applied' = applied /\ log' = log /\ crashes' = crashes /\ half'[n] = TRUE
      /\ Next1(n)' = Next1(n)
    BY DEF PersistFirst, ServerTypes, Next1
<1>2. Applying(n, s, k, c)
    BY <1>1, NextEntry
<1>3. t = FirstWrite(s, c) /\ s = store[n] /\ k = applied[n] /\ c = Next1(n)
    OBVIOUS
<1> HIDE DEF s, k, c, t
<1>4. Sound(s) /\ s \in StoreType /\ c \in CommandType
    BY <1>2, <1>3 DEF ServerOf, CreatedOf, Applying
<1>5. /\ t \in StoreType /\ t.created = s.created /\ t.messages = s.messages /\ Sound(t)
      /\ c.event = "j" /\ c.group \in Group => c.user \notin t.members[c.group]
      /\ \A u \in User, g \in Group :
             u \in t.members[g] <=>
                 u \in s.members[g] /\ ~(c.event = "j" /\ u = c.user /\ g = c.group)
    BY <1>1, <1>3, <1>4, FirstWriteDone
<1>6. HalfOf(n)'
    BY <1>1, <1>3, <1>5 DEF HalfOf
<1>7. CreatedOf(n)'
    BY <1>1, <1>3, <1>5 DEF CreatedOf, ServerOf, Made, Sound
<1>8. MembersOf(n)'
    <2>1. ASSUME NEW u \in User, NEW g \in Group PROVE TakenThere(n, u, g)'
        BY <1>1, <1>3, <1>5 DEF ServerOf, MembersOf, TakenThere, TakesTo
    <2>2. ASSUME NEW u \in User, NEW g \in Group PROVE Decided(n, u, g)'
        <3>1. CASE c.event = "j" /\ u = c.user /\ g = c.group
            BY <1>1, <1>3, <3>1 DEF Decided, Leaving
        <3>2. CASE ~(c.event = "j" /\ u = c.user /\ g = c.group)
            <4>1. u \in store'[n].members[g] <=> u \in store[n].members[g]
                BY <1>1, <1>3, <1>5, <3>2
            <4>2. Decided(n, u, g) /\ ~Leaving(n, u, g)
                BY <1>1 DEF ServerOf, MembersOf, Leaving
            <4>3. \A i, j : LastWord(u, g, i, j)' <=> LastWord(u, g, i, j)
                BY <1>1 DEF LastWord, Concerns
            <4> QED BY <1>1, <4>1, <4>2, <4>3 DEF Decided, TakesTo, Concerns
        <3> QED BY <3>1, <3>2
    <2> QED BY <2>1, <2>2 DEF MembersOf
<1>9. \A g, i, j : Appends(g, i, j)' = Appends(g, i, j)
    BY <1>1 DEF Appends
<1>10. MessagesOf(n)'
    BY <1>1, <1>3, <1>5, <1>9 DEF ServerOf, MessagesOf, MessageAt
<1>11. LikesOf(n)'
    <2>1. \A g, a, p, i : LikedBy(a, g, p, i)' = LikedBy(a, g, p, i)
        BY <1>1, <1>9 DEF LikedBy, Opinions
    <2> QED BY <1>1, <1>3, <1>5, <1>9, <2>1 DEF ServerOf, LikesOf, LikedAt
<1> QED BY <1>1, <1>5, <1>6, <1>7, <1>8, <1>10, <1>11 DEF ServerOf

(* The other half is. *)
LEMMA SecondKeeps ==
    ASSUME ServerTypes, NamedInv, NEW n \in Server, ServerOf(n), PersistSecond(n)
    PROVE  ServerOf(n)' /\ store'[n] \in StoreType
<1> DEFINE s == store[n]
           k == applied[n]
           c == Next1(n)
           t == SecondWrite(s, c)
<1>1. /\ t = store'[n] /\ half[n]
      /\ applied' = [applied EXCEPT ![n] = @ + 1] /\ log' = log /\ crashes' = crashes
      /\ half'[n] = FALSE /\ store \in [Server -> StoreType] /\ applied \in [Server -> Nat]
    BY DEF PersistSecond, ServerTypes
<1>2. /\ applied[n] < Len(log) /\ c.event \in {"j", "q"}
      /\ c.event = "j" /\ c.group \in Group => c.user \notin s.members[c.group]
    BY <1>1 DEF ServerOf, HalfOf
<1>3. Applying(n, s, k, c)
    BY <1>2, NextEntry
<1>4. t = SecondWrite(s, c)
    OBVIOUS
<1> HIDE DEF s, k, c, t
<1>5. Sound(s) /\ s \in StoreType /\ c \in CommandType /\ (c.event = "j" => c.new \in Group)
    BY <1>3 DEF ServerOf, CreatedOf, Applying
<1>6. /\ t \in StoreType /\ t.messages = s.messages /\ Sound(t)
      /\ \A g \in t.created : g \in s.created \/ TakesTo(c, c.user, g)
      /\ \A g \in Group : g \in s.created \/ TakesTo(c, c.user, g) => g \in t.created
      /\ \A u \in User, g \in Group :
             u \in t.members[g] <=>
                 IF Concerns(c, u, g) THEN TakesTo(c, u, g) ELSE u \in s.members[g]
    BY <1>2, <1>4, <1>5, SecondWriteDone
<1>7. ASSUME NEW g \in Group
      PROVE  /\ AppendsWell(c, g, s.messages[g], t.messages[g])
             /\ LikesWell(c, g, s.messages[g], t.messages[g])
    BY <1>2, <1>5, <1>6, GroupMessages
       DEF AppendsWell, LikesWell, LikesAfter, SpeaksOf, Adds
<1>8. ServerOf(n)'
    BY <1>1, <1>3, <1>6, <1>7, EntryApplied
<1> QED BY <1>1, <1>6, <1>8

(* After a crash nothing has been applied, and the groups are as they were. *)
LEMMA CrashKeeps ==
    ASSUME ServerTypes, crashes \in Nat, NEW n \in Server, ServerOf(n), Crash(n)
    PROVE  ServerOf(n)' /\ crashes' # 0
<1>1. /\ log' = log /\ store' = store /\ applied'[n] = 0 /\ half'[n] = FALSE /\ crashes' # 0
      /\ Len(log) \in Nat
    BY LenProperties DEF Crash, ServerTypes
<1>2. \A i : i \notin 1..0
    OBVIOUS
<1>3. HalfOf(n)' /\ LikesOf(n)'
    BY <1>1 DEF HalfOf, LikesOf
<1>4. CreatedOf(n)'
    BY <1>1, <1>2 DEF CreatedOf, ServerOf, Made, Sound
<1>5. MembersOf(n)'
    BY <1>1, <1>2 DEF ServerOf, MembersOf, Decided, TakenThere, TakesTo
<1>6. MessagesOf(n)'
    BY <1>1, <1>2 DEF MessagesOf, Appends
<1> QED BY <1>1, <1>3, <1>4, <1>5, <1>6 DEF ServerOf

(* While no server does anything, every server keeps its invariant. *)
LEMMA ServersQuiet ==
    ASSUME ServerTypes, \A n \in Server : ServerOf(n), log' = log, store' = store,
           applied' = applied, half' = half, crashes' = crashes
    PROVE  ServerTypes' /\ \A n \in Server : ServerOf(n)'
<1>1. ServerTypes'
    BY DEF ServerTypes
<1>2. LogGrows
    BY LenProperties DEF LogGrows, ServerTypes
<1>3. ASSUME NEW n \in Server PROVE ServerOf(n)'
    <2>1. applied[n] \in Nat
        BY DEF ServerTypes
    <2> QED BY <1>2, <2>1, ServerKept
<1> QED BY <1>1, <1>3

(* A step of one server leaves the others and the clients alone. *)
LEMMA OneServer ==
    ASSUME StoreInv, NEW n \in Server, log' = log, UNCHANGED clientVars,
           crashes' \in Nat, crashes' = 0 => crashes = 0, ServerTypes',
           \A m \in Server \ {n} : /\ store'[m] = store[m] /\ applied'[m] = applied[m]
                                   /\ half'[m] = half[m],
           ServerOf(n)'
    PROVE  StoreInv'
<1>1. LogGrows
    BY LenProperties DEF LogGrows, ServerTypes, StoreInv
<1>2. ASSUME NEW m \in Server \ {n} PROVE ServerOf(m)'
    <2>1. /\ applied[m] \in Nat /\ ServerOf(m) /\ store'[m] = store[m]
          /\ applied'[m] = applied[m] /\ half'[m] = half[m] /\ m \in Server
        BY <1>2 DEF ServerTypes, StoreInv
    <2> QED BY <1>1, <2>1, ServerKept
<1>3. ClientTypes'
    BY DEF ClientTypes, StoreInv, clientVars
<1>4. NamedInv'
    <2>1. \A g, i : Made(g, i)' <=> Made(g, i)
        BY DEF Made
    <2> QED BY <2>1 DEF NamedInv, StoreInv, clientVars
<1> QED BY <1>2, <1>3, <1>4 DEF StoreInv

(* A command a client sends names a group that is made, if it appends. *)
LEMMA SendKeeps ==
    ASSUME ClientTypes, NamedInv, NEW u \in User,
           NEW event \in {"u", "j", "a", "l", "r", "q"}, NEW to \in GroupName,
           NEW k, k \in Nat, Send(u, Command(event, u, to, k)),
           event = "j" => to \in Group, event = "a" => group[u] # None,
           group' = group, log' = log, crashes' = crashes, asked' \in [User -> Seq(Group)]
    PROVE  NamedInv' /\ ClientTypes'
<1> DEFINE c == Command(event, u, to, k)
<1>1. /\ pending' = pending \cup {c} /\ count' = count + 1 /\ count \in Nat
      /\ pending \in SUBSET CommandType /\ group[u] \in GroupName
    BY DEF Send, ClientTypes
<1>2. c \in CommandType /\ c.event = event /\ c.new = to /\ c.group = group[u]
    BY <1>1 DEF Command, CommandType
<1> HIDE DEF c
<1>3. ClientTypes'
    BY <1>1, <1>2 DEF ClientTypes
<1>4. \A g, i : Made(g, i)' <=> Made(g, i)
    BY DEF Made
<1>5. c.event = "a" => c.group \in Group /\ Made(c.group, Len(log))
    BY <1>1, <1>2 DEF GroupName, NamedInv
<1>6. NamedInv'
    BY <1>1, <1>2, <1>4, <1>5 DEF NamedInv
<1> QED BY <1>3, <1>6

(* The group a client is told is made: some server has it. *)
LEMMA AnswerKeeps ==
    ASSUME StoreInv, NEW u \in User, JoinAnswered(u)
    PROVE  NamedInv' /\ ClientTypes'
<1>1. /\ asked \in [User -> Seq(Group)] /\ asked[u] # <<>>
      /\ group' = [group EXCEPT ![u] = Head(asked[u])] /\ group \in [User -> GroupName]
      /\ asked' = [asked EXCEPT ![u] = Tail(asked[u])]
      /\ log' = log /\ pending' = pending /\ count' = count /\ crashes' = crashes
    BY DEF JoinAnswered, StoreInv, ClientTypes
<1>2. Head(asked[u]) \in Group /\ Tail(asked[u]) \in Seq(Group)
    BY <1>1, HeadTailProperties
<1>3. ClientTypes'
    BY <1>1, <1>2 DEF ClientTypes, GroupName, StoreInv
<1>4. Made(Head(asked[u]), Len(log))
    BY <1>2 DEF JoinAnswered, StoreInv, ServerOf, CreatedOf
<1>5. \A g, i : Made(g, i)' <=> Made(g, i)
    BY <1>1 DEF Made
<1>6. \A v \in User : group'[v] = group[v] \/ group'[v] = Head(asked[u])
    BY <1>1
<1>7. NamedInv'
    BY <1>1, <1>4, <1>5, <1>6 DEF NamedInv, StoreInv
<1> QED BY <1>3, <1>7

(* A committed command is at the end of the log. *)
LEMMA CommitKeeps ==
    ASSUME StoreInv, NEW c \in pending, Commit(c)
    PROVE  StoreInv'
<1>1. /\ log' = Append(log, c) /\ pending' \in SUBSET pending /\ count' = count
      /\ group' = group /\ asked' = asked /\ store' = store /\ applied' = applied
      /\ half' = half /\ crashes' = crashes /\ pending \in SUBSET CommandType
      /\ log \in Seq(CommandType) /\ c \in CommandType
    BY DEF Commit, serverVars, StoreInv, ClientTypes, ServerTypes
<1>2. /\ Len(log) \in Nat /\ Len(log') = Len(log) + 1 /\ log' \in Seq(CommandType)
      /\ log'[Len(log) + 1] = c /\ \A i \in 1..Len(log) : log'[i] = log[i]
    BY <1>1, AppendProperties, LenProperties
<1>3. LogGrows
    BY <1>2 DEF LogGrows
<1>4. ClientTypes' /\ ServerTypes'
    BY <1>1, <1>2 DEF ClientTypes, ServerTypes, StoreInv
<1>5. ASSUME NEW n \in Server PROVE ServerOf(n)'
    <2>1. applied[n] \in Nat /\ ServerOf(n)
        BY DEF StoreInv, ServerTypes
    <2> QED BY <1>1, <1>3, <2>1, ServerKept
<1>6. \A i \in 1..Len(log') : i \in 1..Len(log) \/ i = Len(log) + 1
    BY <1>2
<1>7. ASSUME NEW i \in Nat, i <= Len(log), NEW g PROVE Made(g, i)' <=> Made(g, i)
    BY <1>3, <1>7, LogPrefix
<1>8. \A g : Made(g, Len(log)) => Made(g, Len(log))'
    BY <1>2 DEF Made
<1>9. NamedInv'
    <2>1. \A u \in User : group'[u] \in Group => Made(group[u], Len(log))'
        BY <1>1, <1>8 DEF StoreInv, NamedInv
    <2>2. ASSUME NEW d \in pending'
          PROVE  /\ d.event = "j" => d.new \in Group
                 /\ d.event = "a" => d.group \in Group /\ Made(d.group, Len(log))'
        BY <1>1, <1>8, <2>2 DEF StoreInv, NamedInv
    <2>3. ASSUME NEW i \in 1..Len(log')
          PROVE  /\ log'[i].event = "j" => log'[i].new \in Group
                 /\ log'[i].event = "a" =>
                        log'[i].group \in Group /\ Made(log[i].group, i - 1)'
        <3>1. CASE i \in 1..Len(log)
            <4>1. i - 1 \in Nat /\ i - 1 <= Len(log) /\ log'[i] = log[i]
                BY <1>2, <3>1
            <4> QED BY <1>7, <3>1, <4>1 DEF StoreInv, NamedInv
        <3>2. CASE i = Len(log) + 1
            <4>1. i - 1 = Len(log) /\ log'[i] = c
                BY <1>2, <3>2
            <4> QED BY <1>2, <1>7, <4>1 DEF StoreInv, NamedInv
        <3> QED BY <1>6, <3>1, <3>2
    <2> QED BY <2>1, <2>2, <2>3 DEF NamedInv
<1> QED BY <1>4, <1>5, <1>9 DEF StoreInv

(* The servers start with nothing. *)
LEMMA InitHolds == Init => StoreInv
<1> SUFFICES ASSUME Init PROVE StoreInv
    OBVIOUS
<1>0. \A i : i \notin 1..0
    OBVIOUS
<1>1. /\ log = <<>> /\ Len(log) = 0 /\ log \in Seq(CommandType) /\ <<>> \in Seq(Group)
      /\ Len(<<>>) = 0
    BY EmptySeq DEF Init
<1>2. ClientTypes
    BY <1>1 DEF Init, ClientTypes, GroupName
<1>3. EmptyStore \in StoreType
    <2>1. <<>> \in Seq(MessageType)
        BY EmptySeq
    <2> QED BY <2>1 DEF EmptyStore, StoreType
<1>4. ServerTypes
    BY <1>1, <1>3 DEF Init, ServerTypes
<1>5. NamedInv
    BY <1>0, <1>1 DEF Init, NamedInv
<1>6. ASSUME NEW n \in Server PROVE ServerOf(n)
    <2>1. /\ applied[n] = 0 /\ half[n] = FALSE /\ store[n].created = {}
          /\ \A g \in Group : store[n].members[g] = {} /\ store[n].messages[g] = <<>>
        BY DEF Init, EmptyStore
    <2>2. \A g : Appends(g, 0, 0) = {} /\ Cardinality(Appends(g, 0, 0)) = 0
        <3>1. \A g : Appends(g, 0, 0) = {}
            BY DEF Appends
        <3> QED BY <3>1, FS_EmptySet
    <2>3. HalfOf(n)
        BY <2>1 DEF HalfOf
    <2>4. CreatedOf(n)
        BY <1>0, <1>1, <2>1 DEF CreatedOf, Made, Sound
    <2>5. MembersOf(n)
        BY <1>0, <2>1 DEF MembersOf, Decided, TakenThere
    <2>6. MessagesOf(n)
        BY <2>1, <2>2 DEF MessagesOf
    <2>7. LikesOf(n)
        BY <1>1, <2>1, <2>2 DEF LikesOf
    <2> QED BY <2>3, <2>4, <2>5, <2>6, <2>7 DEF ServerOf
<1> QED BY <1>2, <1>4, <1>5, <1>6 DEF StoreInv

(* Every step keeps the invariant. *)
LEMMA StoreInductive == StoreInv /\ [Next]_vars => StoreInv'
<1> SUFFICES ASSUME StoreInv, [Next]_vars PROVE StoreInv'
    OBVIOUS
<1>0. /\ ClientTypes /\ ServerTypes /\ NamedInv /\ \A n \in Server : ServerOf(n)
      /\ asked \in [User -> Seq(Group)] /\ None \in GroupName
    BY DEF StoreInv, ClientTypes, GroupName
<1>1. ASSUME NEW u \in User, Login(u) PROVE StoreInv'
    <2>1. Send(u, Command("u", u, None, 0)) /\ UNCHANGED <<log, group, asked, serverVars, crashes>>
        BY <1>1 DEF Login
    <2>2. NamedInv' /\ ClientTypes'
        BY <1>0, <2>1, SendKeeps
    <2> QED BY <1>0, <2>1, <2>2, ServersQuiet DEF StoreInv, serverVars
<1>2. ASSUME NEW u \in User, NEW g \in Group, Join(u, g) PROVE StoreInv'
    <2>1. /\ Send(u, Command("j", u, g, 0)) /\ UNCHANGED <<log, group, serverVars, crashes>>
          /\ asked' = [asked EXCEPT ![u] = Append(asked[u], g)]
        BY <1>2 DEF Join
    <2>2. Append(asked[u], g) \in Seq(Group)
        BY <1>0, AppendProperties
    <2>3. asked' \in [User -> Seq(Group)] /\ g \in GroupName
        BY <1>0, <2>1, <2>2 DEF GroupName
    <2>4. NamedInv' /\ ClientTypes'
        BY <1>0, <2>1, <2>3, SendKeeps
    <2> QED BY <1>0, <2>1, <2>4, ServersQuiet DEF StoreInv, serverVars
<1>3. ASSUME NEW u \in User, JoinAnswered(u) PROVE StoreInv'
    <2>1. NamedInv' /\ ClientTypes' /\ UNCHANGED <<log, serverVars, crashes>>
        BY <1>3, AnswerKeeps DEF JoinAnswered
    <2> QED BY <1>0, <2>1, ServersQuiet DEF StoreInv, serverVars
<1>4. ASSUME NEW u \in User, NEW event \in {"a", "l", "r"}, NEW k, k \in Nat,
             Chat(u, event, k)
      PROVE  StoreInv'
    <2>1. /\ Send(u, Command(event, u, None, k)) /\ (event = "a" => group[u] # None)
          /\ UNCHANGED <<log, group, asked, serverVars, crashes>>
        BY <1>4 DEF Chat
    <2>2. NamedInv' /\ ClientTypes'
        <3>1. /\ event \in {"u", "j", "a", "l", "r", "q"}
              /\ event = "j" => None \in Group
              /\ log' = log /\ group' = group /\ crashes' = crashes
              /\ asked' \in [User -> Seq(Group)]
            BY <1>0, <2>1
        <3> QED BY <1>0, <1>4, <2>1, <3>1, SendKeeps, Zenon
    <2> QED BY <1>0, <2>1, <2>2, ServersQuiet DEF StoreInv, serverVars
<1>5. ASSUME NEW u \in User, Logout(u) PROVE StoreInv'
    <2>1. /\ Send(u, Command("q", u, None, 0)) /\ UNCHANGED <<log, group, serverVars, crashes>>
          /\ asked' = [asked EXCEPT ![u] = <<>>]
        BY <1>5 DEF Logout
    <2>2. <<>> \in Seq(Group)
        BY EmptySeq
    <2>3. asked' \in [User -> Seq(Group)]
        BY <1>0, <2>1, <2>2
    <2>4. NamedInv' /\ ClientTypes'
        BY <1>0, <2>1, <2>3, SendKeeps
    <2> QED BY <1>0, <2>1, <2>4, ServersQuiet DEF StoreInv, serverVars
<1>6. ASSUME NEW c \in pending, Commit(c) PROVE StoreInv'
    BY <1>6, CommitKeeps
<1>7. ASSUME NEW n \in Server, PersistAtOnce(n) PROVE StoreInv'
    <2>1. ServerOf(n)' /\ store'[n] \in StoreType
        BY <1>0, <1>7, AtOnceKeeps
    <2>2. /\ log' = log /\ UNCHANGED clientVars /\ crashes' = crashes /\ half' = half
          /\ \E t : store' = [store EXCEPT ![n] = t]
          /\ applied' = [applied EXCEPT ![n] = applied[n] + 1]
        BY <1>7 DEF PersistAtOnce
    <2>3. /\ store \in [Server -> StoreType] /\ applied \in [Server -> Nat]
          /\ half \in [Server -> BOOLEAN]
        BY <1>0 DEF ServerTypes
    <2>4. ServerTypes'
        BY ONLY <1>0, <2>1, <2>2, <2>3 DEF ServerTypes
    <2>5. \A m \in Server \ {n} : store'[m] = store[m] /\ applied'[m] = applied[m]
                                  /\ half'[m] = half[m]
        BY ONLY <2>2, <2>3
    <2>6. crashes' \in Nat /\ (crashes' = 0 => crashes = 0)
        BY <1>0, <2>2 DEF ClientTypes
    <2> QED BY ONLY StoreInv, n \in Server, <2>1, <2>2, <2>4, <2>5, <2>6, OneServer
<1>8. ASSUME NEW n \in Server, PersistFirst(n) PROVE StoreInv'
    <2>1. ServerOf(n)' /\ store'[n] \in StoreType
        BY <1>0, <1>8, FirstKeeps
    <2>2. /\ log' = log /\ UNCHANGED clientVars /\ crashes' = crashes /\ applied' = applied
          /\ \E t : store' = [store EXCEPT ![n] = t] /\ half' = [half EXCEPT ![n] = TRUE]
        BY <1>8 DEF PersistFirst
    <2> QED BY <1>0, <2>1, <2>2, OneServer DEF ServerTypes, StoreInv, ClientTypes
<1>9. ASSUME NEW n \in Server, PersistSecond(n) PROVE StoreInv'
    <2>1. ServerOf(n)' /\ store'[n] \in StoreType
        BY <1>0, <1>9, SecondKeeps
    <2>2. /\ log' = log /\ UNCHANGED clientVars /\ crashes' = crashes
          /\ \E t : store' = [store EXCEPT ![n] = t]
          /\ half' = [half EXCEPT ![n] = FALSE]
          /\ applied' = [applied EXCEPT ![n] = applied[n] + 1]
        BY <1>9 DEF PersistSecond
    <2>3. /\ store \in [Server -> StoreType] /\ applied \in [Server -> Nat]
          /\ half \in [Server -> BOOLEAN]
        BY <1>0 DEF ServerTypes
    <2>4. ServerTypes'
        BY ONLY <1>0, <2>1, <2>2, <2>3 DEF ServerTypes
    <2>5. \A m \in Server \ {n} : store'[m] = store[m] /\ applied'[m] = applied[m]
                                  /\ half'[m] = half[m]
        BY ONLY <2>2, <2>3
    <2>6. crashes' \in Nat /\ (crashes' = 0 => crashes = 0)
        BY <1>0, <2>2 DEF ClientTypes
    <2> QED BY ONLY StoreInv, n \in Server, <2>1, <2>2, <2>4, <2>5, <2>6, OneServer
<1>10. ASSUME NEW n \in Server, Crash(n) PROVE StoreInv'
    <2>1. ServerOf(n)' /\ crashes' # 0
        BY <1>0, <1>10, CrashKeeps DEF ClientTypes
    <2>2. /\ log' = log /\ UNCHANGED clientVars /\ crashes' \in Nat /\ store' = store
          /\ half' = [half EXCEPT ![n] = FALSE] /\ applied' = [applied EXCEPT ![n] = 0]
        BY <1>0, <1>10 DEF Crash, ClientTypes
    <2> QED BY <1>0, <2>1, <2>2, OneServer DEF ServerTypes, StoreInv
<1>11. ASSUME UNCHANGED vars PROVE StoreInv'
    <2>1. /\ log' = log /\ UNCHANGED clientVars /\ UNCHANGED serverVars /\ crashes' = crashes
        BY <1>11 DEF vars
    <2>2. ClientTypes'
        BY <1>0, <2>1 DEF ClientTypes, clientVars
    <2>3. \A g, i : Made(g, i)' <=> Made(g, i)
        BY <2>1 DEF Made
    <2>4. NamedInv'
        BY <1>0, <2>1, <2>3 DEF NamedInv, clientVars
    <2> QED BY <1>0, <2>1, <2>2, <2>4, ServersQuiet DEF StoreInv, serverVars
<1>12. \A k \in 1..MaxNumber : k \in Nat
    OBVIOUS
<1> QED BY <1>1, <1>2, <1>3, <1>4, <1>5, <1>6, <1>7, <1>8, <1>9, <1>10, <1>11, <1>12 DEF Next
-----------------------------------------------------------------------------
(***************************************************************************)
(* The theorems.                                                           *)
(***************************************************************************)
(* The parts of StoreInv hold in every state (persistData and its clients). *)
THEOREM StoreInvariant == Spec => []StoreInv
<1> QED BY InitHolds, StoreInductive, PTL DEF Spec

(* The entry that decides is the last one: what Decided says is what the    *)
(* log says, once all of it is applied.                                    *)
LEMMA DecidedByLog ==
    ASSUME NEW n, NEW u \in User, NEW g \in Group, Decided(n, u, g), TakenThere(n, u, g),
           ~half[n], CaughtUp(n), log \in Seq(CommandType)
    PROVE  u \in store[n].members[g] <=> u \in MembersByLog(g)
<1>1. DOMAIN log = 1..Len(log) /\ Len(log) \in Nat /\ applied[n] = Len(log)
    BY LenProperties DEF CaughtUp
<1>2. \A c : TakesTo(c, u, g) => Concerns(c, u, g)
    BY DEF TakesTo, Concerns
<1>3. CASE \E i \in 1..Len(log) : /\ LastWord(u, g, i, Len(log))
                                  /\ u \in store[n].members[g] <=> TakesTo(log[i], u, g)
    <2>1. PICK i \in 1..Len(log) : /\ LastWord(u, g, i, Len(log))
                                   /\ u \in store[n].members[g] <=> TakesTo(log[i], u, g)
        BY <1>3
    <2>2. /\ Concerns(log[i], u, g)
          /\ \A j \in 1..Len(log) : j > i => ~Concerns(log[j], u, g)
        BY <1>1, <2>1 DEF LastWord
    <2>3. TakesTo(log[i], u, g) => u \in MembersByLog(g)
        BY <1>1, <2>1, <2>2 DEF MembersByLog, TakesTo
    <2>4. ASSUME u \in MembersByLog(g) PROVE TakesTo(log[i], u, g)
        <3>1. PICK h \in 1..Len(log) :
                  /\ TakesTo(log[h], u, g)
                  /\ \A j \in 1..Len(log) : j > h => ~Concerns(log[j], u, g)
            BY <1>1, <2>4 DEF MembersByLog, TakesTo
        <3>2. h = i
            BY <1>1, <1>2, <2>1, <2>2, <3>1
        <3> QED BY <3>1, <3>2
    <2> QED BY <2>1, <2>3, <2>4
<1>4. CASE \A i \in 1..Len(log) : ~Concerns(log[i], u, g)
    <2>1. u \notin store[n].members[g]
        BY <1>2, <1>4 DEF TakenThere
    <2>2. u \notin MembersByLog(g)
        BY <1>1, <1>4 DEF MembersByLog, Concerns
    <2> QED BY <2>1, <2>2
<1> QED BY <1>1, <1>3, <1>4 DEF Decided, Leaving

(* Membership converges: a server that has applied all of the log has in    *)
(* every group the members the log gives it (persistData, RemoveUserInGroup *)
(* and JoinGroup), however often it crashed, between the two writes of a   *)
(* join or a logout too.                                                   *)
THEOREM MembersConverge == Spec => []MembershipConverges
<1>1. StoreInv => MembershipConverges
    <2> SUFFICES ASSUME StoreInv, NEW n \in Server, CaughtUp(n), NEW g \in Group
                 PROVE  store[n].members[g] = MembersByLog(g)
        BY DEF MembershipConverges
    <2>1. ServerOf(n) /\ log \in Seq(CommandType) /\ store[n] \in StoreType
        BY DEF StoreInv, ServerTypes
    <2>2. ~half[n]
        <3>1. half[n] => applied[n] < Len(log)
            BY <2>1 DEF ServerOf, HalfOf
        <3> QED BY <2>1, <3>1, LenProperties DEF CaughtUp
    <2>3. \A u \in User : u \in store[n].members[g] <=> u \in MembersByLog(g)
        BY <2>1, <2>2, DecidedByLog DEF ServerOf, MembersOf
    <2>4. store[n].members[g] \in SUBSET User
        BY <2>1, StoreParts
    <2>5. MembersByLog(g) \in SUBSET User
        BY DEF MembersByLog
    <2> QED BY <2>3, <2>4, <2>5
<1> QED BY <1>1, StoreInvariant, PTL

(* No message is lost (AppendMessage): once all of the log is applied, a    *)
(* group ends with its messages, in the order of the log, though old ones  *)
(* may stand above them a second time after a crash.                       *)
THEOREM EveryMessageKept == Spec => []NoMessageLost
<1>1. StoreInv => NoMessageLost
    BY DEF StoreInv, ServerOf, MessagesOf, MessageAt, NoMessageLost, CaughtUp
<1> QED BY <1>1, StoreInvariant, PTL

(* On a server that has applied all of the log once, the likes of every     *)
(* message (LikeMessage, UnLikeMessage) are the last word of each name.    *)
THEOREM LikesAsSaid == Spec => []LikesByLog
<1>1. StoreInv => LikesByLog
    BY DEF StoreInv, ServerOf, LikesOf, LikedAt, LikesByLog, CaughtUp
<1> QED BY <1>1, StoreInvariant, PTL
=============================================================================
