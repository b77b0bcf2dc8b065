---------------------------- MODULE ChatService -----------------------------
(***************************************************************************)
(* One server's chat service and the clients connected to it               *)
(* (server/chat_service.go, server/server_store.go, and the half of        *)
(* chat_client/client_service.go that talks to it).                        *)
(*                                                                         *)
(*   client --requests--> handler of its stream --Submit--> log            *)
(*   log --persistData--> groups on disk, broadcast channel                *)
(*   BroadCast --connection store--> streams --> clients                   *)
(*                                                                         *)
(* A group on disk is determined by how much of the log has been applied   *)
(* (ChatStore), so a response carries that number in place of a group.     *)
(* Raft is the log it commits: a submitted command is committed after any  *)
(* delay, in any order, or never.                                          *)
(*                                                                         *)
(* A response reaches its client in the step that sends it.  What a client *)
(* does before it has read a response it could also have done before the   *)
(* response was sent.                                                      *)
(***************************************************************************)
EXTENDS Naturals, Sequences, FiniteSets

CONSTANTS
    User, Group,
    NoGroup,       \* "" in a fresh client and "None" in its first join: the
                   \* name of no group
    Nil,           \* what GetGroup returns for a group that is not on disk
    NameOf,        \* the name of each user; several users may share one
    ChatEvent,     \* bound: the commands used within a group
    MaxRequests,   \* bound: requests of clients
    MaxDeaths      \* bound: clients that vanish

ASSUME ChatServiceAssumption ==
    /\ NoGroup \notin Group /\ Nil \notin Group \cup {NoGroup}
    /\ DOMAIN NameOf = User
    /\ ChatEvent \subseteq {"a", "l", "r"}
    /\ MaxRequests \in Nat /\ MaxDeaths \in Nat

VARIABLES
    \* Raft
    log, pending, applied,
    \* the server: is it up; the groups persistData has still to hand to
    \* BroadCast; the group being broadcast and the streams still to visit
    up, casts, caster,
    \* the stores: the group each stream is filed under (a stream is known by
    \* its user); the users listed as active and the group noted for each
    clients, activeusers, activeusergroup,
    \* each stream and the goroutine of JoinGroupChat that serves it
    context, inbox, handler,
    \* each client: its life, and the group it was told it is in
    session, group,
    count, deaths,
    \* history: how much of the log a client has been shown of the group its
    \* stream is filed under; who did not wait for a join to take effect; how
    \* the server was interrupted
    seen, hasty, interrupted

raftVars == <<log, pending, applied>>
castVars == <<casts, caster>>
storeVars == <<clients, activeusers, activeusergroup>>
streamVars == <<context, inbox, handler>>
clientVars == <<session, group>>
boundVars == <<count, deaths>>
historyVars == <<seen, hasty, interrupted>>
vars == <<raftVars, up, castVars, storeVars, streamVars, clientVars, boundVars,
          historyVars>>

Idle == [pc |-> "recv", event |-> "", group |-> NoGroup, at |-> 0]
NotCasting == [group |-> NoGroup, todo |-> {}]

Init ==
    /\ log = <<>> /\ pending = {} /\ applied = 0
    /\ up = TRUE /\ casts = <<>> /\ caster = NotCasting
    /\ clients = [u \in User |-> NoGroup]
    /\ activeusers = {} /\ activeusergroup = [u \in User |-> NoGroup]
    /\ context = [u \in User |-> "none"]
    /\ inbox = [u \in User |-> <<>>]
    /\ handler = [u \in User |-> Idle]
    /\ session = [u \in User |-> "out"]
    /\ group = [u \in User |-> NoGroup]
    /\ count = 0 /\ deaths = 0
    /\ seen = [u \in User |-> 0] /\ hasty = {} /\ interrupted = "no"
-----------------------------------------------------------------------------
(***************************************************************************)
(* The log and the groups it makes.                                        *)
(***************************************************************************)
Command(id, event, u, from, to) ==
    [id |-> id, event |-> event, user |-> u, group |-> from, new |-> to]

Submit(command) == pending' = pending \cup {command}

(* Is the group on disk once k entries have been applied? *)
Exists(g, k) == \E i \in 1..k : log[i].event = "j" /\ log[i].new = g

(* GetGroup, by a goroutine that looks now. *)
GetGroup(g) == IF Exists(g, applied) THEN g ELSE Nil

(* The groups persistData sends to BroadCast. *)
Broadcasts(c) ==
    CASE c.event = "u" -> <<>>
      [] c.event = "j" -> <<c.group, c.new>>
      [] OTHER -> <<c.group>>

(* Has u a join that is not answered, or a login or a join that is not     *)
(* applied?                                                                *)
Unsettled(u) ==
    \/ handler[u].event = "j"
    \/ \E i \in DOMAIN inbox[u] : inbox[u][i].event = "j"
    \/ \E c \in pending \cup {log[i] : i \in (applied + 1)..Len(log)} :
           c.user = u /\ c.event \in {"u", "j"}
-----------------------------------------------------------------------------
(***************************************************************************)
(* Clients.                                                                *)
(***************************************************************************)
Request(event, from, to) ==
    [id |-> count, event |-> event, group |-> from, new |-> to]

(* Mistaken variant: every join looks like the first. *)
NeverJoined(u) == NoGroup

(* The group the client names in a request. *)
CurrentGroup(u) == group[u]

(* The client has something to send, and room for it within the bound. *)
Asks(u) ==
    /\ up /\ session[u] = "in" /\ count < MaxRequests
    /\ count' = count + 1

Sends(u, request) ==
    /\ inbox' = [inbox EXCEPT ![u] = Append(@, request)]
    /\ UNCHANGED <<raftVars, up, castVars, storeVars, handler, session, group, deaths,
                   seen, interrupted>>

(* Another goroutine may be writing the stores just now. *)
Writing(u) == \E v \in User \ {u} : handler[v].pc = "sleep"

(* Mistaken variant: the group is noted as the disk has it. *)
AddUserFound(u, g) ==
    /\ activeusers' = activeusers \cup {u}
    /\ activeusergroup' = [activeusergroup EXCEPT ![u] = GetGroup(g)]

(* Mistaken variant: a user who is listed already is left alone. *)
AddUserOnce(u, g) ==
    /\ activeusers' = activeusers \cup {u}
    /\ activeusergroup' = [activeusergroup EXCEPT ![u] = IF u \in activeusers THEN @ ELSE g]

(* The list is appended to without a lock: one of two appends may be lost, *)
(* to a handler that is about to append.  (That two logins do the same to  *)
(* each other is left out: the one that loses is in no group yet, and its  *)
(* join adds it again.)                                                    *)
AddUser(u, g) ==
    /\ \/ activeusers' = activeusers \cup {u}
       \/ Writing(u) /\ activeusers' = activeusers
    /\ activeusergroup' = [activeusergroup EXCEPT ![u] = g]

(* UserLogin and its RPC. *)
Login(u) ==
    /\ up /\ session[u] = "out" /\ count < MaxRequests
    /\ count' = count + 1
    /\ session' = [session EXCEPT ![u] = "in"]
    /\ AddUser(u, NoGroup)
    /\ Submit(Command(count, "u", u, NoGroup, NoGroup))
    /\ UNCHANGED <<log, applied, up, castVars, clients, streamVars, group, deaths,
                   historyVars>>

(* The first join opens the stream. *)
Join(u, g) ==
    /\ group[u] # Nil
    /\ Asks(u)
    /\ context' = [context EXCEPT ![u] = "open"]
    /\ hasty' = hasty \cup {v \in {u} : Unsettled(u)}
    /\ Sends(u, Request("j", CurrentGroup(u), g))

(* ProcessMessage: append and like want a group, unlike does not ask.      *)
(* Without a group the request is sent all the same, empty.                *)
Chat(u, event) ==
    /\ context[u] = "open"
    /\ event = "r" \/ group[u] # Nil
    /\ Asks(u)
    /\ Sends(u, IF event = "r" \/ group[u] # NoGroup
                THEN Request(event, CurrentGroup(u), NoGroup)
                ELSE Request("", NoGroup, NoGroup))
    /\ UNCHANGED <<context, hasty>>

PrintChat(u) ==
    /\ context[u] = "open" /\ group[u] # Nil
    /\ Asks(u)
    /\ Sends(u, Request("p", CurrentGroup(u), NoGroup))
    /\ UNCHANGED <<context, hasty>>

(* UserLogout, which overtakes what is in the stream, and CloseSend. *)
Quit(u) ==
    /\ group[u] # Nil
    /\ Asks(u)
    /\ session' = [session EXCEPT ![u] = "gone"]
    /\ context' = [context EXCEPT ![u] = IF @ = "open" THEN "closed" ELSE @]
    /\ Submit(Command(count, "q", u, CurrentGroup(u), NoGroup))
    /\ hasty' = hasty \cup {v \in {u} : Unsettled(u)}
    /\ UNCHANGED <<log, applied, up, castVars, storeVars, inbox, handler, group, deaths,
                   seen, interrupted>>

Vanishes(u) ==
    /\ session' = [session EXCEPT ![u] = "dead"]
    /\ context' = [context EXCEPT ![u] = IF @ = "none" THEN @ ELSE "canceled"]
    /\ UNCHANGED <<raftVars, up, castVars, storeVars, inbox, handler, group, count,
                   historyVars>>

Die(u) ==
    /\ session[u] = "in" /\ deaths < MaxDeaths
    /\ deaths' = deaths + 1
    /\ Vanishes(u)

(* Whatever else the user types, the client asks the nil group for its     *)
(* name, and panics.                                                       *)
NilGroupPanic(u) ==
    /\ session[u] = "in" /\ group[u] = Nil
    /\ Vanishes(u)
    /\ UNCHANGED deaths
-----------------------------------------------------------------------------
(***************************************************************************)
(* JoinGroupChat, the goroutine of a stream.                               *)
(***************************************************************************)
Receives(u, event) ==
    /\ up /\ context[u] \in {"open", "closed"} /\ handler[u].pc = "recv"
    /\ inbox[u] # <<>> /\ Head(inbox[u]).event = event
    /\ inbox' = [inbox EXCEPT ![u] = Tail(@)]

(* What ProcessRequest returned, taken to the step after.  Every request   *)
(* is followed by 200 ms of sleep; where nothing but the next request      *)
(* comes after it, it is left out, as a request may be received at any     *)
(* time.                                                                   *)
GoesOn(u, pc, event, g) ==
    handler' = [handler EXCEPT ![u] =
                   [pc |-> pc, event |-> event, group |-> g, at |-> 0]]

(* The first stream found under the group and the name goes. *)
RemoveConn(u, g) ==
    LET found == {v \in User : clients[v] = g /\ NameOf[v] = NameOf[u]}
    IN IF g = NoGroup \/ found = {}
       THEN UNCHANGED clients
       ELSE \E v \in found : clients' = [clients EXCEPT ![v] = NoGroup]

ReceiveJoin(u) ==
    LET request == Head(inbox[u])
    IN /\ Receives(u, "j")
       /\ RemoveConn(u, request.group)
       /\ Submit(Command(request.id, "j", u, request.group, request.new))
       /\ GoesOn(u, "sleep", "j", request.new)
       /\ UNCHANGED <<log, applied, up, castVars, activeusers, activeusergroup, context,
                      clientVars, boundVars, historyVars>>

(* An unlike without a group: the handler reads the name of the nil group  *)
(* and panics, and gRPC lets the process die.  The command is submitted by *)
(* then; this server does not live to apply it.                            *)
ReceiveChat(u) ==
    LET request == Head(inbox[u])
    IN /\ \E event \in ChatEvent : Receives(u, event)
       /\ Submit(Command(request.id, request.event, u, request.group, NoGroup))
       /\ up' = (request.group # Nil)
       /\ UNCHANGED <<log, applied, castVars, storeVars, context, handler, clientVars,
                      boundVars, historyVars>>

ReceivePrint(u) ==
    /\ Receives(u, "p")
    /\ GoesOn(u, "get", "p", Head(inbox[u]).group)
    /\ UNCHANGED <<raftVars, up, castVars, storeVars, context, clientVars, boundVars,
                   historyVars>>

(* A request without an action. *)
ReceiveOther(u) ==
    /\ Receives(u, "")
    /\ UNCHANGED <<raftVars, up, castVars, storeVars, context, handler, clientVars,
                   boundVars, historyVars>>

(* AddConn and AddUser.  A broadcast under way to that group may or may    *)
(* not come across the new entry.                                          *)
WakeJoined(u) ==
    LET g == handler[u].group
    IN /\ up /\ handler[u].pc = "sleep"
       /\ handler' = [handler EXCEPT ![u].pc = "get"]
       /\ clients' = [clients EXCEPT ![u] = g]
       /\ seen' = [seen EXCEPT ![u] = 0]
       /\ \/ UNCHANGED caster
          \/ /\ caster.todo # {} /\ caster.group = g
             /\ caster' = [caster EXCEPT !.todo = @ \cup {u}]
       /\ AddUser(u, g)
       /\ UNCHANGED <<raftVars, up, casts, context, inbox, clientVars, boundVars, hasty,
                      interrupted>>

(* Client u is sent group g as it is after k entries.  What counts is the  *)
(* latest it has ever been sent: an older one may follow, when the answer  *)
(* to a join has read the group before a broadcast and is sent after it.   *)
Show(u, g, k) ==
    seen' = [seen EXCEPT ![u] =
        IF g = clients[u] /\ k > @ /\ context[u] # "canceled" THEN k ELSE @]

AnswerReads(u) ==
    /\ up /\ handler[u].pc = "get"
    /\ handler' = [handler EXCEPT ![u].pc = "send", ![u].at = applied,
                                  ![u].group = GetGroup(@)]
    /\ UNCHANGED <<raftVars, up, castVars, storeVars, context, inbox, clientVars,
                   boundVars, historyVars>>

(* The client takes the group of the answer to a join for the one it is    *)
(* in.                                                                     *)
AnswerSent(u) ==
    /\ up /\ handler[u].pc = "send"
    /\ handler' = [handler EXCEPT ![u] = Idle]
    /\ Show(u, handler[u].group, handler[u].at)
    /\ group' = [group EXCEPT ![u] =
           IF handler[u].event = "j" /\ session[u] = "in" THEN handler[u].group ELSE @]
    /\ UNCHANGED <<raftVars, up, castVars, storeVars, context, inbox, session,
                   boundVars, hasty, interrupted>>

(* The stream is over: its client is gone, or has closed it and every      *)
(* request in it has been served.                                          *)
StreamEnds(u) ==
    /\ up /\ handler[u].pc = "recv"
    /\ \/ context[u] = "canceled"
       \/ context[u] = "closed" /\ inbox[u] = <<>>
    /\ handler' = [handler EXCEPT ![u].pc = "returned"]
    /\ context' = [context EXCEPT ![u] = "canceled"]
    /\ inbox' = [inbox EXCEPT ![u] = <<>>]
    /\ UNCHANGED <<raftVars, up, castVars, storeVars, clientVars, boundVars,
                   historyVars>>
-----------------------------------------------------------------------------
(***************************************************************************)
(* Commit, application and broadcast.                                      *)
(***************************************************************************)
(* As long as this server looks on. *)
Commit(c) ==
    /\ up /\ c \in pending
    /\ pending' = pending \ {c}
    /\ log' = Append(log, c)
    /\ UNCHANGED <<applied, up, castVars, storeVars, streamVars, clientVars, boundVars,
                   historyVars>>

(* persistData waits until its groups have been taken. *)
PersistData ==
    /\ up /\ applied < Len(log) /\ casts = <<>>
    /\ applied' = applied + 1
    /\ casts' = Broadcasts(log[applied + 1])
    /\ UNCHANGED <<log, pending, up, caster, storeVars, streamVars, clientVars,
                   boundVars, historyVars>>

(* BroadCast takes a group and goes through the connection store. *)
BroadCast ==
    /\ up /\ casts # <<>> /\ caster.todo = {}
    /\ casts' = Tail(casts)
    /\ caster' = [group |-> Head(casts),
                  todo |-> {u \in User : clients[u] = Head(casts) /\ clients[u] # NoGroup}]
    /\ UNCHANGED <<raftVars, up, storeVars, streamVars, clientVars, boundVars,
                   historyVars>>

(* Mistaken variant: the rest of the streams is skipped after a dead one. *)
CastStops(u) ==
    /\ up /\ u \in caster.todo
    /\ caster' = [caster EXCEPT !.todo = IF context[u] = "canceled" THEN {} ELSE @ \ {u}]
    /\ Show(u, caster.group, applied)
    /\ UNCHANGED <<raftVars, up, casts, storeVars, streamVars, clientVars, boundVars,
                   hasty, interrupted>>

(* One stream; by now it may have been removed or filed under another      *)
(* group.                                                                  *)
CastTo(u) ==
    /\ up /\ u \in caster.todo
    /\ caster' = [caster EXCEPT !.todo = @ \ {u}]
    /\ clients' = [clients EXCEPT ![u] =
           IF @ = caster.group /\ context[u] = "canceled" THEN NoGroup ELSE @]
    /\ Show(u, caster.group, applied)
    /\ UNCHANGED <<raftVars, up, casts, activeusers, activeusergroup, streamVars,
                   clientVars, boundVars, hasty, interrupted>>

(* A goroutine writes a map that another one writes or iterates over, and  *)
(* the Go runtime ends the process.                                        *)
ConcurrentMapFault ==
    /\ up
    /\ \E u \in User :
        \/ /\ caster.todo # {}
           /\ \/ handler[u].pc = "sleep"
              \/ /\ handler[u].pc = "recv" /\ context[u] \in {"open", "closed"}
                 /\ inbox[u] # <<>> /\ Head(inbox[u]).event = "j"
        \/ /\ handler[u].pc = "sleep"
           /\ Writing(u)
    /\ up' = FALSE
    /\ UNCHANGED <<raftVars, castVars, storeVars, streamVars, clientVars, boundVars,
                   historyVars>>

(* SIGINT: RemoveActiveUsers submits a logout for everybody on the list,   *)
(* with the group noted for them, and the process exits.                   *)
Interrupt ==
    /\ up
    /\ up' = FALSE
    /\ interrupted' = IF \E u \in User : Unsettled(u) THEN "hasty" ELSE "calm"
    /\ pending' = pending \cup
           {Command(count, "q", u, activeusergroup[u], NoGroup) : u \in activeusers}
    /\ UNCHANGED <<log, applied, castVars, storeVars, streamVars, clientVars, boundVars,
                   seen, hasty>>

ClientStep ==
    \/ \E u \in User : Login(u)
    \/ \E u \in User, g \in Group : Join(u, g)
    \/ \E u \in User, event \in ChatEvent : Chat(u, event)
    \/ \E u \in User : PrintChat(u)
    \/ \E u \in User : Quit(u)
    \/ \E u \in User : Die(u)
    \/ \E u \in User : NilGroupPanic(u)

HandlerStep ==
    \/ \E u \in User : ReceiveJoin(u)
    \/ \E u \in User : ReceiveChat(u)
    \/ \E u \in User : ReceivePrint(u)
    \/ \E u \in User : ReceiveOther(u)
    \/ \E u \in User : WakeJoined(u)
    \/ \E u \in User : AnswerReads(u)
    \/ \E u \in User : AnswerSent(u)
    \/ \E u \in User : StreamEnds(u)

ServerStep ==
    \/ \E c \in pending : Commit(c)
    \/ PersistData
    \/ BroadCast
    \/ \E u \in User : CastTo(u)
    \/ ConcurrentMapFault
    \/ Interrupt

Next == ClientStep \/ HandlerStep \/ ServerStep

Spec == Init /\ [][Next]_vars
-----------------------------------------------------------------------------
(***************************************************************************)
(* Properties.                                                             *)
(***************************************************************************)
GroupName == Group \cup {NoGroup}
Event == {"u", "j", "a", "l", "r", "q"}
RequestType ==
    [id : 0..MaxRequests, event : {"j", "a", "l", "r", "p", ""},
     group : GroupName \cup {Nil}, new : GroupName]
CommandType ==
    [id : 0..MaxRequests, event : Event, user : User,
     group : GroupName \cup {Nil}, new : GroupName]
HandlerType ==
    [pc : {"recv", "sleep", "get", "send", "returned"}, event : {"j", "p", ""},
     group : GroupName \cup {Nil}, at : 0..Len(log)]

(* Type invariant: what is under way from persistData to BroadCast, what   *)
(* streams are filed under and what is noted for the active users are      *)
(* names of groups, never the nil group clients may be told they are in.   *)
ServiceTypeOK ==
    /\ log \in Seq(CommandType) /\ pending \in SUBSET CommandType
    /\ applied \in 0..Len(log) /\ up \in BOOLEAN
    /\ casts \in Seq(GroupName)
    /\ caster \in [group : GroupName, todo : SUBSET User]
    /\ clients \in [User -> GroupName]
    /\ activeusers \in SUBSET User
    /\ activeusergroup \in [User -> GroupName]
    /\ context \in [User -> {"none", "open", "closed", "canceled"}]
    /\ inbox \in [User -> Seq(RequestType)]
    /\ handler \in [User -> HandlerType]
    /\ session \in [User -> {"out", "in", "gone", "dead"}]
    /\ group \in [User -> GroupName \cup {Nil}]
    /\ count \in 0..MaxRequests /\ deaths \in 0..MaxDeaths
    /\ seen \in [User -> 0..Len(log)]
    /\ hasty \in SUBSET User /\ interrupted \in {"no", "calm", "hasty"}

Touches(c, g) == c.event # "u" /\ g \in {c.group, c.new}

(* A client that has been told it is in a group, and is not joining.       *)
InGroup(u) ==
    /\ session[u] = "in" /\ context[u] = "open"
    /\ group[u] \in Group /\ handler[u].event # "j"

CastingDone == casts = <<>> /\ caster.todo = {}

(* Client u has been shown its group as of its last change, or a later one. *)
UpToDate(u) ==
    \A i \in 1..applied :
        Touches(log[i], group[u]) /\ Exists(group[u], i) => seen[u] >= i

(* No change goes unseen: when everything applied has been broadcast, a    *)
(* client who shares its name with nobody has been shown every change of   *)
(* its group, whatever it joined meanwhile and whoever died: between the   *)
(* change and the next entry of the connection store no stream gets lost   *)
(* (BroadCast, AddConn, RemoveConn, and GetGroup after AddConn).           *)
NoChangeUnseen ==
    \A u \in User :
        /\ up /\ CastingDone /\ InGroup(u)
        /\ \A v \in User \ {u} : NameOf[v] # NameOf[u]
        => UpToDate(u)

(* The same for everybody: "For every action performed by the user, all    *)
(* other active participants are broadcasted with the change" (README.md). *)
EverybodySeesChanges ==
    \A u \in User : up /\ CastingDone /\ InGroup(u) => UpToDate(u)

Concerns(c, u) == c.user = u /\ c.event \in {"j", "q"}

(* The groups the log, as far as it is applied, leaves user u in.          *)
Memberships(u) ==
    {g \in Group : \E i \in 1..applied :
        /\ Concerns(log[i], u) /\ log[i].new = g
        /\ \A j \in (i + 1)..applied :
               Concerns(log[j], u) => ~Touches(log[j], g)}

(* Nothing that concerns the membership of u is still to be applied.       *)
Done(u) ==
    /\ ~Unsettled(u)
    /\ \A c \in pending \cup {log[i] : i \in (applied + 1)..Len(log)} :
           ~Concerns(c, u)

(* Where a client believes to be is where it is: one that let every join   *)
(* take effect before the next, or before it quit, is a member of the      *)
(* group it was told, and of no other, and of none once it has quit; the   *)
(* logout may overtake all else in the stream, and commands be committed   *)
(* in any order (JoinGroupChat's answer after 200 ms, UserLogout).         *)
MemberWhereTold ==
    \A u \in User \ hasty :
        up /\ Done(u) /\ group[u] # Nil =>
            /\ session[u] = "in" => Memberships(u) = {group[u]} \ {NoGroup}
            /\ session[u] = "gone" => Memberships(u) = {}

(* An interrupt leaves nobody behind: RemoveActiveUsers has submitted, for  *)
(* each active user, the logout from every group it is in, dead and gone   *)
(* clients included, unless somebody was joining at the time.              *)
NobodyLeftBehind ==
    interrupted = "calm" =>
        \A u \in activeusers \ hasty :
            \A g \in Memberships(u) :
                \E c \in pending : c.user = u /\ c.event = "q" /\ c.group = g
=============================================================================
