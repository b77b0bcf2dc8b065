----------------------------- MODULE ChatStore ------------------------------
(***************************************************************************)
(* What a server does with committed commands: persistData of              *)
(* server/raft_server.go on the users and groups of server/storage.go.     *)
(*                                                                         *)
(* Raft is reduced to the log it commits.  A server applies it entry by    *)
(* entry; its users and groups are on disk, how far it got is not:         *)
(* lastApplied is -1 after a restart, and every entry is applied again.    *)
(* Joining and logging out are two writes each, and a crash may come       *)
(* between them.                                                           *)
(*                                                                         *)
(* A chat client names the group it believes to be in.  It learns of it    *)
(* from the answer to its join; what it sends before that answer carries   *)
(* the group before.  Commands may be committed in another order than they *)
(* were sent in, or never.                                                 *)
(*                                                                         *)
(* Message number k of the code is the element k + 1 of a sequence.        *)
(***************************************************************************)
EXTENDS Integers, Sequences, FiniteSets

CONSTANTS
    Server, User, Group,
    None,          \* the group of a client that has joined none
    NameOf,        \* the name of each user; several users may share one
    Event,         \* bound: the commands clients use
    Recent,        \* messages shown after a change, 10 in the code
    Word,          \* 2^32 in the code: how many numbers a message may have
    MaxNumber,     \* bound: message numbers users type
    MaxCommands,   \* bound: commands sent
    MaxCrashes     \* bound: crashes

ASSUME ChatStoreAssumption ==
    /\ None \notin Group
    /\ DOMAIN NameOf = User
    /\ Event \subseteq {"a", "l", "r", "j", "q"}
    /\ Recent \in Nat \ {0}
    /\ Word \in Nat /\ Word > Recent + MaxCommands * (MaxCrashes + 1)
    /\ MaxNumber \in Nat /\ MaxCommands \in Nat /\ MaxCrashes \in Nat

VARIABLES
    log,       \* the commands committed so far
    pending,   \* the commands submitted and not yet committed
    count,     \* the number of commands sent
    session,   \* "out", "in" or "gone"; a login makes a new user id, so a
               \* user logs in and out once
    group,     \* the group each client believes to be in
    asked,     \* the joins of each client that have not been answered
    store,     \* the users and groups on the disk of each server
    applied,   \* entries a server has applied since it started
    half,      \* persistData is between two writes
    crashes

clientVars == <<pending, count, session, group, asked>>
serverVars == <<store, applied, half>>
vars == <<log, clientVars, serverVars, crashes>>

EmptyStore ==
    [users |-> {}, created |-> {}, members |-> [g \in Group |-> {}],
     messages |-> [g \in Group |-> <<>>]]

Init ==
    /\ log = <<>> /\ pending = {} /\ count = 0
    /\ session = [u \in User |-> "out"]
    /\ group = [u \in User |-> None]
    /\ asked = [u \in User |-> <<>>]
    /\ store = [n \in Server |-> EmptyStore]
    /\ applied = [n \in Server |-> 0]
    /\ half = [n \in Server |-> FALSE]
    /\ crashes = 0
-----------------------------------------------------------------------------
(***************************************************************************)
(* The operations of DiskStore on a store s.                               *)
(***************************************************************************)
SaveUser(s, u) == [s EXCEPT !.users = @ \cup {u}]

DeleteUser(s, u) == [s EXCEPT !.users = @ \ {u}]

(* Mistaken variant: the group is not updated. *)
RemoveNobody(s, u, g) == s

RemoveUserInGroup(s, u, g) ==
    IF g \in s.created THEN [s EXCEPT !.members[g] = @ \ {u}] ELSE s

(* Joining a group creates it if need be. *)
JoinGroup(s, u, g) ==
    [s EXCEPT !.created = @ \cup {g}, !.members[g] = @ \cup {u}]

(* Mistaken variant: the number of the last message is used again. *)
AppendOverLast(s, id, u, g) ==
    LET m == s.messages[g]
        k == IF m = <<>> THEN 1 ELSE Len(m)
    IN [s EXCEPT !.messages[g] = [i \in 1..k |->
           IF i = k THEN [id |-> id, by |-> u, likedBy |-> {}] ELSE m[i]]]

(* The number of the new message is the number of messages there are.      *)
AppendMessage(s, id, u, g) ==
    IF g \in s.created
    THEN [s EXCEPT !.messages[g] = Append(@, [id |-> id, by |-> u, likedBy |-> {}])]
    ELSE s

HasMessage(s, g, k) == g \in s.created /\ k \in DOMAIN s.messages[g]

(* Mistaken variant: a message of one's own will do. *)
AnyMessage(s, u, g, k) == HasMessage(s, g, k)

(* A message of somebody else, by name. *)
Others(s, u, g, k) ==
    HasMessage(s, g, k) /\ NameOf[s.messages[g][k].by] # NameOf[u]

LikeMessage(s, u, g, k) ==
    IF Others(s, u, g, k)
    THEN [s EXCEPT !.messages[g][k].likedBy = @ \cup {NameOf[u]}] ELSE s

UnLikeMessage(s, u, g, k) ==
    IF Others(s, u, g, k)
    THEN [s EXCEPT !.messages[g][k].likedBy = @ \ {NameOf[u]}] ELSE s
-----------------------------------------------------------------------------
(***************************************************************************)
(* What a client prints of the messages m of a group.                      *)
(***************************************************************************)
Shown(m, numbers) == SelectSeq(numbers, LAMBDA i : i + 1 \in DOMAIN m)

(* Mistaken variant: a short group is counted from 1. *)
PrintFromFirst(m) ==
    Shown(m, [k \in 1..Recent |->
        IF Len(m) < Recent THEN k ELSE Len(m) - Recent + k - 1])

(* The numbers from ten before the end, as uint32, as far as there are     *)
(* such messages.                                                          *)
PrintRecent(m) == Shown(m, [k \in 1..Recent |-> (Len(m) - (Recent - k + 1)) % Word])

PrintAll(m) == Shown(m, [k \in 1..Len(m) |-> (k - 1) % Word])
-----------------------------------------------------------------------------
(***************************************************************************)
(* Clients.                                                                *)
(***************************************************************************)

(* A command of user u reaches a server, which submits it. *)
Send(u, command) ==
    /\ count < MaxCommands
    /\ count' = count + 1
    /\ pending' = pending \cup {command}

Command(event, u, to, k) ==
    [id |-> count + 1, event |-> event, user |-> u, group |-> group[u],
     new |-> to, number |-> k]

Login(u) ==
    /\ session[u] = "out"
    /\ session' = [session EXCEPT ![u] = "in"]
    /\ Send(u, Command("u", u, None, 0))
    /\ UNCHANGED <<log, group, asked, serverVars, crashes>>

Join(u, g) ==
    /\ "j" \in Event
    /\ session[u] = "in"
    /\ Send(u, Command("j", u, g, 0))
    /\ asked' = [asked EXCEPT ![u] = Append(@, g)]
    /\ UNCHANGED <<log, session, group, serverVars, crashes>>

(* The answer carries the group as the store of the server has it by then. *)
(* It may come before that, with no group in it (ChatService).             *)
JoinAnswered(u) ==
    /\ asked[u] # <<>>
    /\ \E n \in Server : Head(asked[u]) \in store[n].created
    /\ group' = [group EXCEPT ![u] = Head(asked[u])]
    /\ asked' = [asked EXCEPT ![u] = Tail(@)]
    /\ UNCHANGED <<log, pending, count, session, serverVars, crashes>>

(* Append and like are sent from within a group; unlike does not ask. *)
Chat(u, event, k) ==
    /\ event \in Event
    /\ session[u] = "in"
    /\ event = "r" \/ group[u] # None
    /\ Send(u, Command(event, u, None, k))
    /\ UNCHANGED <<log, session, group, asked, serverVars, crashes>>

Logout(u) ==
    /\ "q" \in Event
    /\ session[u] = "in"
    /\ session' = [session EXCEPT ![u] = "gone"]
    /\ Send(u, Command("q", u, None, 0))
    /\ asked' = [asked EXCEPT ![u] = <<>>]
    /\ UNCHANGED <<log, group, serverVars, crashes>>

(* Raft commits a command. *)
Commit(c) ==
    /\ c \in pending
    /\ pending' = pending \ {c}
    /\ log' = Append(log, c)
    /\ UNCHANGED <<count, session, group, asked, serverVars, crashes>>
-----------------------------------------------------------------------------
(***************************************************************************)
(* persistData.                                                            *)
(***************************************************************************)
Next1(n) == log[applied[n] + 1]

(* A command that is one write. *)
OneWrite(s, c) ==
    CASE c.event = "u" -> SaveUser(s, c.user)
      [] c.event = "a" -> AppendMessage(s, c.id, c.user, c.group)
      [] c.event = "l" -> LikeMessage(s, c.user, c.group, c.number)
      [] c.event = "r" -> UnLikeMessage(s, c.user, c.group, c.number)

FirstWrite(s, c) ==
    CASE c.event = "j" -> RemoveUserInGroup(s, c.user, c.group)
      [] c.event = "q" -> DeleteUser(s, c.user)

SecondWrite(s, c) ==
    CASE c.event = "j" -> JoinGroup(s, c.user, c.new)
      [] c.event = "q" -> RemoveUserInGroup(s, c.user, c.group)

PersistAtOnce(n) ==
    /\ applied[n] < Len(log)
    /\ Next1(n).event \notin {"j", "q"}
    /\ store' = [store EXCEPT ![n] = OneWrite(@, Next1(n))]
    /\ applied' = [applied EXCEPT ![n] = @ + 1]
    /\ UNCHANGED <<log, clientVars, half, crashes>>

PersistFirst(n) ==
    /\ applied[n] < Len(log) /\ ~half[n]
    /\ Next1(n).event \in {"j", "q"}
    /\ store' = [store EXCEPT ![n] = FirstWrite(@, Next1(n))]
    /\ half' = [half EXCEPT ![n] = TRUE]
    /\ UNCHANGED <<log, clientVars, applied, crashes>>

PersistSecond(n) ==
    /\ half[n]
    /\ store' = [store EXCEPT ![n] = SecondWrite(@, Next1(n))]
    /\ half' = [half EXCEPT ![n] = FALSE]
    /\ applied' = [applied EXCEPT ![n] = @ + 1]
    /\ UNCHANGED <<log, clientVars, crashes>>

(* The process dies and starts again; the log will be applied from its     *)
(* first entry.                                                            *)
Crash(n) ==
    /\ crashes < MaxCrashes
    /\ crashes' = crashes + 1
    /\ applied' = [applied EXCEPT ![n] = 0]
    /\ half' = [half EXCEPT ![n] = FALSE]
    /\ UNCHANGED <<log, clientVars, store>>

Next ==
    \/ \E u \in User : Login(u)
    \/ \E u \in User, g \in Group : Join(u, g)
    \/ \E u \in User : JoinAnswered(u)
    \/ \E u \in User : Chat(u, "a", 0)
    \/ \E u \in User, event \in {"l", "r"}, k \in 1..MaxNumber : Chat(u, event, k)
    \/ \E u \in User : Logout(u)
    \/ \E c \in pending : Commit(c)
    \/ \E n \in Server : PersistAtOnce(n)
    \/ \E n \in Server : PersistFirst(n)
    \/ \E n \in Server : PersistSecond(n)
    \/ \E n \in Server : Crash(n)

Spec == Init /\ [][Next]_vars
-----------------------------------------------------------------------------
(***************************************************************************)
(* Properties.                                                             *)
(***************************************************************************)
CaughtUp(n) == applied[n] = Len(log)

(* The last command of the log that adds u to g or removes u from g decides. *)
Concerns(c, u, g) ==
    \/ c.event = "j" /\ c.user = u /\ g \in {c.group, c.new}
    \/ c.event = "q" /\ c.user = u /\ g = c.group

MembersByLog(g) ==
    {u \in User : \E i \in DOMAIN log :
        /\ log[i].event = "j" /\ log[i].user = u /\ log[i].new = g
        /\ \A j \in DOMAIN log : j > i => ~Concerns(log[j], u, g)}

(* Membership converges: a server that has applied the whole log has in    *)
(* every group the members the log gives it, however often it crashed,     *)
(* between the two writes of a join or a logout too, and applied the log   *)
(* again from the start (persistData, RemoveUserInGroup, JoinGroup).       *)
MembershipConverges ==
    \A n \in Server : CaughtUp(n) =>
        \A g \in Group : store[n].members[g] = MembersByLog(g)

(* The entries up to k, after entry j, that append to group g. *)
Appends(g, j, k) ==
    {i \in (j + 1)..k : log[i].event = "a" /\ log[i].group = g}

(* No message is lost: the messages a group ends with, on a server that    *)
(* has applied the whole log, are those of the log, in its order, however  *)
(* often the server crashed and started over (AppendMessage): an entry     *)
(* that n others follow is the message that n others follow.               *)
NoMessageLost ==
    \A n \in Server, g \in Group : CaughtUp(n) =>
        LET m == store[n].messages[g]
        IN \A i \in Appends(g, 0, Len(log)) :
               LET later == Cardinality(Appends(g, i, Len(log)))
               IN later < Len(m) /\ m[Len(m) - later].id = log[i].id

(* The commands of the log up to b that like or unlike message k of g in   *)
(* the name of x and come after that message.                              *)
Opinions(x, g, k, b) ==
    {i \in 1..b :
        /\ log[i].event \in {"l", "r"} /\ NameOf[log[i].user] = x
        /\ log[i].group = g /\ log[i].number = k
        /\ Cardinality(Appends(g, 0, i)) >= k}

(* Those other than the author of entry a whose last word, up to b, on the *)
(* message k that a made is a like.                                        *)
LikedBy(a, g, k, b) ==
    {x \in {NameOf[u] : u \in User} \ {NameOf[log[a].user]} :
        \E i \in Opinions(x, g, k, b) :
            /\ log[i].event = "l"
            /\ \A j \in Opinions(x, g, k, b) : j <= i}

(* Likes: on servers that applied the log once, a message is liked in the  *)
(* names of those whose last word on it, after it was there, is a like,    *)
(* and never in the name of its author (LikeMessage, UnLikeMessage).       *)
LikesByLog ==
    \A n \in Server, g \in Group : CaughtUp(n) /\ crashes = 0 =>
        \A a \in Appends(g, 0, Len(log)) :
            LET k == Cardinality(Appends(g, 0, a))
            IN store[n].messages[g][k].likedBy = LikedBy(a, g, k, Len(log))

AppendsTo(g) ==
    SelectSeq(log, LAMBDA c : c.event = "a" /\ c.group = g)

(* The last n elements of s, or all of them. *)
Latest(s, n) == SubSeq(s, IF Len(s) < n THEN 1 ELSE Len(s) - n + 1, Len(s))

(* The latest messages are on the screen: of a group on a server that has  *)
(* applied the whole log, PrintRecent shows as many as there are and fit,  *)
(* PrintAll all, and the last ones are the last appends, in their order,   *)
(* with fewer messages than lines, too, where the numbers wrap around, and *)
(* after a restart, when old messages stand above them a second time.      *)
LatestOnScreen ==
    \A n \in Server, g \in Group : CaughtUp(n) =>
        LET m == store[n].messages[g]
            shown == PrintRecent(m)
            latest == Latest(AppendsTo(g), Recent)
            tail == Latest(shown, Len(latest))
        IN /\ Len(shown) = Len(Latest(m, Recent)) /\ Len(PrintAll(m)) = Len(m)
           /\ \A k \in DOMAIN latest : m[tail[k] + 1].id = latest[k].id
=============================================================================
