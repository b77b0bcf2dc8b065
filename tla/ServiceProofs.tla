---------------------------- MODULE ServiceProofs ---------------------------
(***************************************************************************)
(* Theorems about ChatService, for any users, names and groups, and any    *)
(* number of requests and deaths.                                          *)
(***************************************************************************)
EXTENDS ChatService, SequenceTheorems, TLAPS

-----------------------------------------------------------------------------
(***************************************************************************)
(* The inductive invariant, in parts.                                      *)
(***************************************************************************)

(* What was submitted: only a join names a new group, and as long as the   *)
(* server is up no command names the nil group.                            *)
Proper(c) ==
    /\ c.event # "j" => c.new = NoGroup
    /\ up => c.group # Nil

CommandInv ==
    /\ \A c \in pending : Proper(c)
    /\ \A i \in 1..Len(log) : Proper(log[i])

(* Only an unlike may be sent without a group. *)
RequestInv ==
    \A u \in User : \A i \in 1..Len(inbox[u]) :
        inbox[u][i].event # "r" => inbox[u][i].group # Nil

(* A handler sleeps only in a join. *)
HandlerInv ==
    \A u \in User :
        /\ handler[u].pc = "sleep" => handler[u].event = "j" /\ handler[u].group # Nil
        /\ handler[u].pc \in {"recv", "returned"} => handler[u].event = ""

(* A client has a stream once it has joined, and nothing is known of it    *)
(* before it logs in.                                                      *)
SessionInv ==
    \A u \in User :
        /\ session[u] = "out" => context[u] = "none" /\ activeusergroup[u] = NoGroup
        /\ session[u] = "in" => context[u] \in {"none", "open"}
        /\ context[u] = "none" => /\ handler[u].pc = "recv" /\ inbox[u] = <<>>
                                  /\ group[u] = NoGroup

ShapeInv == ServiceTypeOK /\ CommandInv /\ RequestInv /\ HandlerInv /\ SessionInv

(* Entry i of the log has been shown to u, or will be: the group it        *)
(* changed waits for BroadCast, or u's stream is still to be visited, or   *)
(* the answer to a join will be read from the disk, or has been.           *)
WillSee(u, i) ==
    \/ seen[u] >= i
    \/ \E k \in 1..Len(casts) : casts[k] = clients[u]
    \/ caster.group = clients[u] /\ u \in caster.todo
    \/ handler[u].event = "j" /\ handler[u].pc = "get"
    \/ /\ handler[u].event = "j" /\ handler[u].pc = "send"
       /\ handler[u].at >= i /\ handler[u].group = clients[u]

Filed(u) == clients[u] \in Group /\ context[u] # "canceled"

SeenOf(u) ==
    Filed(u) =>
        /\ \A i \in 1..applied :
               Touches(log[i], clients[u]) /\ Exists(clients[u], i) => WillSee(u, i)
        /\ handler[u].event = "j" /\ handler[u].pc = "get"
               => handler[u].group = clients[u]

SeenInv == \A u \in User : SeenOf(u)

(* A user with a name of its own is filed under the group it was told, or  *)
(* will be told.                                                           *)
OwnName(u) == \A v \in User \ {u} : NameOf[v] # NameOf[u]

FiledOf(u) ==
    OwnName(u) /\ context[u] # "canceled" =>
        /\ handler[u].event = "j" =>
               /\ handler[u].pc = "get" => handler[u].group = clients[u]
               /\ handler[u].pc = "send" => handler[u].group \in {clients[u], Nil}
        /\ session[u] = "in" /\ group[u] \in Group /\ handler[u].event # "j"
               => clients[u] = group[u]

FiledInv == \A u \in User : FiledOf(u)

(* The commands of u that are submitted and not applied: not committed,    *)
(* and where in the log.                                                   *)
PendingOf(u, event) == {c \in pending : c.user = u /\ c.event = event}
LogOf(u, event) ==
    {i \in (applied + 1)..Len(log) : log[i].user = u /\ log[i].event = event}
Waits(u, event) == PendingOf(u, event) \cup {log[i] : i \in LogOf(u, event)}

OneJoin(u) ==
    /\ \A c, d \in PendingOf(u, "j") : c = d
    /\ \A i, k \in LogOf(u, "j") : i = k
    /\ PendingOf(u, "j") = {} \/ LogOf(u, "j") = {}

(* Where the last join that the server has received takes u. *)
Target(u) == IF handler[u].pc = "sleep" THEN handler[u].group ELSE activeusergroup[u]

(* What the client was told, or is about to be, is what is noted for it. *)
ToldInv(u) ==
    /\ session[u] = "in" /\ (handler[u].event = "j" => handler[u].pc = "sleep")
           => group[u] \in {activeusergroup[u], Nil}
    /\ handler[u].event = "j" =>
           /\ handler[u].pc = "get" => handler[u].group = activeusergroup[u]
           /\ handler[u].pc = "send" => handler[u].group \in {activeusergroup[u], Nil}

(* A join that waits in the stream is the only one under way. *)
JoinAt(u, i) == i \in 1..Len(inbox[u]) /\ inbox[u][i].event = "j"

StreamJoinInv(u) ==
    \A i \in 1..Len(inbox[u]) : JoinAt(u, i) =>
        /\ inbox[u][i].group = activeusergroup[u]
        /\ handler[u].event # "j"
        /\ Waits(u, "j") = {}
        /\ \A k \in 1..Len(inbox[u]) : JoinAt(u, k) => i = k

(* A join that is under way leads from where u is to its target; without   *)
(* one u is in its target, or nowhere.                                     *)
JoinInv(u) ==
    /\ OneJoin(u)
    /\ \A c \in Waits(u, "j") : c.new = Target(u) /\ Memberships(u) \subseteq {c.group}
    /\ Waits(u, "j") = {} => Memberships(u) \subseteq {Target(u)}
    /\ up /\ session[u] = "in" /\ Waits(u, "j") = {} /\ Target(u) \in Group
           => Target(u) \in Memberships(u)

(* A user who quits has nothing under way but that. *)
QuitInv(u) ==
    /\ up /\ session[u] \in {"out", "in"} => Waits(u, "q") = {}
    /\ session[u] = "gone" =>
           /\ handler[u].event # "j" /\ Waits(u, "j") = {}
           /\ \A i \in 1..Len(inbox[u]) : ~JoinAt(u, i)
           /\ \/ Memberships(u) = {}
              \/ \E c \in Waits(u, "q") : c.group = activeusergroup[u]

MemberOf(u) == ToldInv(u) /\ StreamJoinInv(u) /\ JoinInv(u) /\ QuitInv(u)

MemberInv == \A u \in User \ hasty : MemberOf(u)

InterruptInv ==
    /\ interrupted # "no" => ~up
    /\ NobodyLeftBehind

-----------------------------------------------------------------------------
(***************************************************************************)
(* Types.                                                                  *)
(***************************************************************************)
USE ChatServiceAssumption

(* A command of the right parts is a command. *)
LEMMA CommandIn ==
    ASSUME NEW id \in 0..MaxRequests, NEW event \in Event, NEW u \in User,
           NEW from \in GroupName \cup {Nil}, NEW to \in GroupName
    PROVE  /\ Command(id, event, u, from, to) \in CommandType
           /\ Command(id, event, u, from, to).event = event
           /\ Command(id, event, u, from, to).user = u
           /\ Command(id, event, u, from, to).group = from
           /\ Command(id, event, u, from, to).new = to
BY DEF Command, CommandType

(* The parts of a command. *)
LEMMA CommandParts ==
    ASSUME NEW c \in CommandType
    PROVE  /\ c.event \in Event /\ c.user \in User
           /\ c.group \in GroupName \cup {Nil} /\ c.new \in GroupName
BY DEF CommandType

(* The parts of a request. *)
LEMMA RequestParts ==
    ASSUME NEW r \in RequestType
    PROVE  /\ r.id \in 0..MaxRequests /\ r.event \in {"j", "a", "l", "r", "p", ""}
           /\ r.group \in GroupName \cup {Nil} /\ r.new \in GroupName
BY DEF RequestType

(* The request at the head of a stream. *)
LEMMA HeadRequest ==
    ASSUME ShapeInv, NEW u \in User, NEW event, Receives(u, event)
    PROVE  /\ Head(inbox[u]) \in RequestType /\ Head(inbox[u]).event = event
           /\ event # "r" => Head(inbox[u]).group # Nil
           /\ Head(inbox[u]) = inbox[u][1] /\ Len(inbox[u]) \in Nat \ {0}
           /\ inbox' = [inbox EXCEPT ![u] = Tail(@)]
           /\ Tail(inbox[u]) \in Seq(RequestType)
           /\ Len(Tail(inbox[u])) = Len(inbox[u]) - 1
           /\ \A i \in 1..(Len(inbox[u]) - 1) : Tail(inbox[u])[i] = inbox[u][i + 1]
           /\ up /\ handler[u].pc = "recv" /\ handler[u].event = ""
           /\ context[u] \in {"open", "closed"}
<1>1. inbox[u] \in Seq(RequestType) /\ inbox[u] # <<>>
    BY Zenon DEF ShapeInv, ServiceTypeOK, Receives
<1>2. /\ Len(inbox[u]) \in Nat \ {0} /\ Head(inbox[u]) = inbox[u][1]
      /\ Head(inbox[u]) \in RequestType
      /\ Tail(inbox[u]) \in Seq(RequestType)
      /\ Len(Tail(inbox[u])) = Len(inbox[u]) - 1
      /\ \A i \in 1..(Len(inbox[u]) - 1) : Tail(inbox[u])[i] = inbox[u][i + 1]
    BY <1>1, EmptySeq, HeadTailProperties
<1>3. Head(inbox[u]).event = event
    BY DEF Receives
<1>4. event # "r" => Head(inbox[u]).group # Nil
    BY <1>2, <1>3 DEF ShapeInv, RequestInv
<1>5. up /\ handler[u].pc = "recv" /\ context[u] \in {"open", "closed"}
      /\ inbox' = [inbox EXCEPT ![u] = Tail(@)]
    BY DEF Receives
<1>6. handler[u].event = ""
    BY <1>5 DEF ShapeInv, HandlerInv
<1> QED BY ONLY <1>2, <1>3, <1>4, <1>5, <1>6, Zenon

(* Only an unlike is received without a group. *)
LEMMA HeadNamed ==
    ASSUME ShapeInv, NEW u \in User, NEW event, Receives(u, event), event # "r"
    PROVE  Head(inbox[u]).group # Nil
<1>1. event # "r" => Head(inbox[u]).group # Nil
    BY HeadRequest, Zenon
<1> QED BY <1>1

(* The parts of an idle handler. *)
LEMMA IdleParts ==
    Idle.pc = "recv" /\ Idle.event = "" /\ Idle.group = NoGroup
BY DEF Idle

LogTypes ==
    /\ log \in Seq(CommandType) /\ pending \in SUBSET CommandType
    /\ applied \in 0..Len(log) /\ Len(log) \in Nat
    /\ up \in BOOLEAN /\ interrupted \in {"no", "calm", "hasty"}
CastTypes ==
    /\ casts \in Seq(GroupName) /\ caster \in [group : GroupName, todo : SUBSET User]
StoreTypes ==
    /\ clients \in [User -> GroupName] /\ activeusers \in SUBSET User
    /\ activeusergroup \in [User -> GroupName]
StreamTypes ==
    /\ context \in [User -> {"none", "open", "closed", "canceled"}]
    /\ inbox \in [User -> Seq(RequestType)]
ClientTypes ==
    /\ session \in [User -> {"out", "in", "gone", "dead"}]
    /\ group \in [User -> GroupName \cup {Nil}]
    /\ count \in 0..MaxRequests /\ deaths \in 0..MaxDeaths
    /\ hasty \in SUBSET User
HandlerTypes == handler \in [User -> HandlerType]
SeenTypes == seen \in [User -> 0..Len(log)]

(* The type invariant, by the part of the server it speaks of. *)
LEMMA TypeParts ==
    /\ ServiceTypeOK <=> /\ LogTypes /\ CastTypes /\ StoreTypes /\ StreamTypes
                         /\ ClientTypes /\ HandlerTypes /\ SeenTypes
    /\ ServiceTypeOK' <=> /\ LogTypes' /\ CastTypes' /\ StoreTypes' /\ StreamTypes'
                          /\ ClientTypes' /\ HandlerTypes' /\ SeenTypes'
<1>1. log \in Seq(CommandType) => Len(log) \in Nat
    BY LenProperties
<1>2. log' \in Seq(CommandType) => Len(log)' \in Nat
    BY LenProperties
<1> QED BY <1>1, <1>2, Zenon
        DEF ServiceTypeOK, LogTypes, CastTypes, StoreTypes, StreamTypes, ClientTypes,
            HandlerTypes, SeenTypes

(* The log grows by commands, and applied stays within it. *)
LEMMA LogTypesStep ==
    ASSUME ShapeInv, Next PROVE LogTypes' /\ Len(log) <= Len(log')
<1>0. LogTypes /\ StoreTypes /\ StreamTypes /\ ClientTypes
    BY TypeParts DEF ShapeInv
<1>1. ASSUME NEW u \in User, Login(u) PROVE LogTypes' /\ Len(log) <= Len(log')
    <2>1. Command(count, "u", u, NoGroup, NoGroup) \in CommandType
        BY <1>0, CommandIn DEF ClientTypes, Event, GroupName
    <2>2. UNCHANGED <<log, applied, up, interrupted>>
          /\ pending' = pending \cup {Command(count, "u", u, NoGroup, NoGroup)}
        BY <1>1 DEF Login, Submit, historyVars
    <2> QED BY <2>1, <2>2, <1>0 DEF LogTypes
<1>2. ASSUME NEW u \in User, Quit(u) PROVE LogTypes' /\ Len(log) <= Len(log')
    <2>1. Command(count, "q", u, group[u], NoGroup) \in CommandType
        BY <1>0, CommandIn, SMTT(30) DEF ClientTypes, Event, GroupName
    <2>2. UNCHANGED <<log, applied, up, interrupted>>
          /\ pending' = pending \cup {Command(count, "q", u, group[u], NoGroup)}
        BY <1>2 DEF Quit, Submit, CurrentGroup
    <2> QED BY <2>1, <2>2, <1>0 DEF LogTypes
<1>3. ASSUME NEW u \in User, ReceiveJoin(u) PROVE LogTypes' /\ Len(log) <= Len(log')
    <2> DEFINE request == Head(inbox[u])
    <2>1. request \in RequestType
        BY <1>3, HeadRequest DEF ReceiveJoin
    <2>2. Command(request.id, "j", u, request.group, request.new) \in CommandType
        <3>1. /\ request.id \in 0..MaxRequests /\ request.group \in GroupName \cup {Nil}
              /\ request.new \in GroupName /\ "j" \in Event
            BY <2>1, RequestParts DEF Event
        <3> QED BY <3>1 DEF Command, CommandType
    <2>3. UNCHANGED <<log, applied, up, interrupted>>
          /\ pending' = pending \cup
                 {Command(request.id, "j", u, request.group, request.new)}
        BY <1>3 DEF ReceiveJoin, Receives, Submit, RemoveConn, GoesOn, historyVars
    <2> QED BY <2>2, <2>3, <1>0 DEF LogTypes
<1>4. ASSUME NEW u \in User, ReceiveChat(u) PROVE LogTypes' /\ Len(log) <= Len(log')
    <2> DEFINE request == Head(inbox[u])
    <2>1. request \in RequestType /\ request.event \in Event
        <3>1. PICK event \in ChatEvent : Receives(u, event)
            BY <1>4 DEF ReceiveChat
        <3>2. request \in RequestType /\ request.event = event
            BY <3>1, HeadRequest
        <3> QED BY <3>2 DEF Event
    <2>2. Command(request.id, request.event, u, request.group, NoGroup) \in CommandType
        <3>1. /\ request.id \in 0..MaxRequests /\ request.group \in GroupName \cup {Nil}
              /\ NoGroup \in GroupName
            BY <2>1, RequestParts DEF GroupName
        <3> QED BY <2>1, <3>1 DEF Command, CommandType
    <2>3. UNCHANGED <<log, applied, interrupted>> /\ up' \in BOOLEAN
          /\ pending' = pending \cup
                 {Command(request.id, request.event, u, request.group, NoGroup)}
        BY <1>4 DEF ReceiveChat, Submit, historyVars
    <2> QED BY <2>2, <2>3, <1>0 DEF LogTypes
<1>5. ASSUME NEW c \in pending, Commit(c) PROVE LogTypes' /\ Len(log) <= Len(log')
    <2>1. c \in CommandType /\ log' = Append(log, c) /\ pending' = pending \ {c}
          /\ UNCHANGED <<applied, up, interrupted>>
        BY <1>0, <1>5 DEF Commit, LogTypes, historyVars
    <2>2. log' \in Seq(CommandType) /\ Len(log') = Len(log) + 1
        BY <2>1, <1>0, AppendProperties DEF LogTypes
    <2> QED BY <2>1, <2>2, <1>0 DEF LogTypes
<1>6. CASE PersistData
    BY <1>0, <1>6 DEF PersistData, LogTypes, historyVars
<1>7. CASE Interrupt
    <2>1. \A u \in activeusers :
              Command(count, "q", u, activeusergroup[u], NoGroup) \in CommandType
        BY <1>0, CommandIn DEF ClientTypes, StoreTypes, Event, GroupName
    <2>2. /\ UNCHANGED <<log, applied>> /\ up' = FALSE
          /\ interrupted' \in {"calm", "hasty"}
          /\ pending' = pending \cup
                 {Command(count, "q", u, activeusergroup[u], NoGroup) : u \in activeusers}
        BY <1>7 DEF Interrupt
    <2>3. pending' \subseteq CommandType
        BY <2>1, <2>2, <1>0 DEF LogTypes
    <2>4. pending' \in SUBSET CommandType
        BY <2>3
    <2>5. log' = log /\ applied' = applied /\ up' \in BOOLEAN
          /\ interrupted' \in {"no", "calm", "hasty"}
        BY <2>2
    <2>6. LogTypes'
        BY <2>4, <2>5, <1>0, Zenon DEF LogTypes
    <2> QED BY <2>5, <2>6, <1>0 DEF LogTypes
<1>8. ASSUME UNCHANGED <<raftVars, interrupted>>, up' \in BOOLEAN
      PROVE  LogTypes' /\ Len(log) <= Len(log')
    BY <1>0, <1>8 DEF LogTypes, raftVars
<1>9. ASSUME NEW u \in User,
             \/ \E g \in Group : Join(u, g)
             \/ \E event \in ChatEvent : Chat(u, event)
             \/ PrintChat(u)
      PROVE  LogTypes' /\ Len(log) <= Len(log')
    <2>1. UNCHANGED <<raftVars, interrupted, up>>
        BY <1>9 DEF Join, Chat, PrintChat, Sends
    <2> QED BY <2>1, <1>0, <1>8 DEF LogTypes
<1>10. ASSUME NEW u \in User, Die(u) \/ NilGroupPanic(u)
       PROVE  LogTypes' /\ Len(log) <= Len(log')
    <2>1. UNCHANGED <<raftVars, interrupted, up>>
        BY <1>10 DEF Die, NilGroupPanic, Vanishes, historyVars
    <2> QED BY <2>1, <1>0, <1>8 DEF LogTypes
<1>11. ASSUME NEW u \in User,
              \/ ReceivePrint(u) \/ ReceiveOther(u) \/ WakeJoined(u)
              \/ AnswerReads(u) \/ AnswerSent(u) \/ StreamEnds(u) \/ CastTo(u)
       PROVE  LogTypes' /\ Len(log) <= Len(log')
    <2>1. UNCHANGED <<raftVars, interrupted, up>>
        BY <1>11
        DEF ReceivePrint, ReceiveOther, WakeJoined, AnswerReads, AnswerSent, StreamEnds,
            CastTo, historyVars
    <2> QED BY <2>1, <1>0, <1>8 DEF LogTypes
<1>12. CASE BroadCast \/ ConcurrentMapFault
    <2>1. UNCHANGED <<raftVars, interrupted>> /\ up' \in BOOLEAN
        BY <1>12, <1>0 DEF BroadCast, ConcurrentMapFault, historyVars, LogTypes
    <2> QED BY <2>1, <1>8
<1> QED BY <1>1, <1>2, <1>3, <1>4, <1>5, <1>6, <1>7, <1>9, <1>10, <1>11, <1>12
        DEF Next, ClientStep, HandlerStep, ServerStep
-----------------------------------------------------------------------------
(***************************************************************************)
(* Which action writes which variable.                                     *)
(***************************************************************************)
Speaking(u) == PrintChat(u) \/ \E event \in ChatEvent : Chat(u, event)
Vanishing(u) == Die(u) \/ NilGroupPanic(u)
Asked(u, request) ==
    /\ inbox' = [inbox EXCEPT ![u] = Append(@, request)]
    /\ request \in RequestType

(* Join sends a request that names the group the client was told. *)
LEMMA JoinWrites ==
    ASSUME NEW u \in User, NEW g \in Group, Join(u, g), ClientTypes
    PROVE  /\ UNCHANGED <<log, pending, applied, up, casts, caster, clients, activeusers,
                          activeusergroup, handler, session, group, deaths, seen, interrupted>>
           /\ up /\ session[u] = "in" /\ group[u] # Nil /\ count' \in 0..MaxRequests
           /\ context' = [context EXCEPT ![u] = "open"]
           /\ hasty' = hasty \cup {v \in {u} : Unsettled(u)}
           /\ \E request : Asked(u, request) /\ request.event = "j" /\ request.group = group[u]
<1>1. /\ UNCHANGED <<log, pending, applied, up, casts, caster, clients, activeusers,
                     activeusergroup, handler, session, group, deaths, seen, interrupted>>
      /\ up /\ session[u] = "in" /\ group[u] # Nil /\ count' \in 0..MaxRequests
      /\ context' = [context EXCEPT ![u] = "open"]
      /\ hasty' = hasty \cup {v \in {u} : Unsettled(u)}
      /\ inbox' = [inbox EXCEPT ![u] = Append(@, Request("j", group[u], g))]
    BY DEF Join, Asks, Sends, CurrentGroup, raftVars, castVars, storeVars, ClientTypes
<1>2. Request("j", group[u], g) \in RequestType
      /\ Request("j", group[u], g).event = "j" /\ Request("j", group[u], g).group = group[u]
    BY DEF Request, RequestType, ClientTypes, GroupName
<1> QED BY <1>1, <1>2, Zenon DEF Asked

(* Append, like, unlike and print send a request, and touch nothing else. *)
LEMMA SpeakingWrites ==
    ASSUME NEW u \in User, Speaking(u), ClientTypes
    PROVE  /\ UNCHANGED <<log, pending, applied, up, casts, caster, clients, activeusers,
                          activeusergroup, context, handler, session, group, deaths, seen,
                          hasty, interrupted>>
           /\ up /\ session[u] = "in" /\ context[u] = "open" /\ count' \in 0..MaxRequests
           /\ \E request : /\ Asked(u, request) /\ request.event # "j"
                           /\ request.event # "r" => request.group # Nil
<1>1. /\ UNCHANGED <<log, pending, applied, up, casts, caster, clients, activeusers,
                     activeusergroup, context, handler, session, group, deaths, seen,
                     hasty, interrupted>>
      /\ up /\ session[u] = "in" /\ context[u] = "open" /\ count' \in 0..MaxRequests
    <2>1. CASE PrintChat(u)
        BY <2>1 DEF PrintChat, Asks, Sends, raftVars, castVars, storeVars, ClientTypes
    <2>2. ASSUME NEW event \in ChatEvent, Chat(u, event) PROVE <1>1!:
        <3>1. /\ Asks(u) /\ context[u] = "open" /\ UNCHANGED <<context, hasty>>
              /\ \E request : Sends(u, request)
            BY <2>2, Zenon DEF Chat
        <3> QED BY <3>1 DEF Asks, Sends, raftVars, castVars, storeVars, ClientTypes
    <2> QED BY <2>1, <2>2 DEF Speaking
<1>2. \E event \in ChatEvent \cup {"p", ""} : \E from \in GroupName \cup {Nil} :
          /\ event # "r" => from # Nil
          /\ inbox' = [inbox EXCEPT ![u] = Append(@, Request(event, from, NoGroup))]
    <2>1. CASE PrintChat(u)
        BY <2>1 DEF PrintChat, Sends, CurrentGroup, ClientTypes
    <2>2. ASSUME NEW event \in ChatEvent, Chat(u, event), event = "r" \/ group[u] # NoGroup
          PROVE  <1>2!:
        BY <2>2 DEF Chat, Sends, CurrentGroup, ClientTypes
    <2>3. ASSUME NEW event \in ChatEvent, Chat(u, event), ~(event = "r" \/ group[u] # NoGroup)
          PROVE  <1>2!:
        BY <2>3 DEF Chat, Sends, GroupName
    <2> QED BY <2>1, <2>2, <2>3 DEF Speaking
<1>3. PICK event \in ChatEvent \cup {"p", ""}, from \in GroupName \cup {Nil} :
          /\ event # "r" => from # Nil
          /\ inbox' = [inbox EXCEPT ![u] = Append(@, Request(event, from, NoGroup))]
    BY <1>2
<1>4. /\ Request(event, from, NoGroup) \in RequestType
      /\ Request(event, from, NoGroup).event = event
      /\ Request(event, from, NoGroup).group = from /\ event # "j"
    BY DEF Request, RequestType, ClientTypes, GroupName
<1> QED BY <1>1, <1>3, <1>4, Zenon DEF Asked

(* A client that dies takes its stream with it, and submits nothing. *)
LEMMA VanishingWrites ==
    ASSUME NEW u \in User, Vanishing(u), ClientTypes
    PROVE  /\ UNCHANGED <<log, pending, applied, up, casts, caster, clients, activeusers,
                          activeusergroup, inbox, handler, group, count, seen, hasty,
                          interrupted>>
           /\ session[u] = "in" /\ deaths' \in 0..MaxDeaths
           /\ session' = [session EXCEPT ![u] = "dead"]
           /\ context' = [context EXCEPT ![u] = IF @ = "none" THEN @ ELSE "canceled"]
BY DEF Vanishing, Die, NilGroupPanic, Vanishes, raftVars, castVars, storeVars, historyVars,
       ClientTypes

(* UserLogin submits, lists the user and notes no group for it. *)
LEMMA LoginWrites ==
    ASSUME NEW u \in User, Login(u), ClientTypes
    PROVE  /\ UNCHANGED <<log, applied, up, casts, caster, clients, context, inbox, handler,
                          group, deaths, seen, hasty, interrupted>>
           /\ up /\ session[u] = "out" /\ count' \in 0..MaxRequests
           /\ pending' = pending \cup {Command(count, "u", u, NoGroup, NoGroup)}
           /\ session' = [session EXCEPT ![u] = "in"]
           /\ activeusers' \in {activeusers \cup {u}, activeusers}
           /\ activeusergroup' = [activeusergroup EXCEPT ![u] = NoGroup]
BY DEF Login, AddUser, Submit, castVars, streamVars, historyVars, ClientTypes

(* UserLogout submits at once, and the stream is closed for sending. *)
LEMMA QuitWrites ==
    ASSUME NEW u \in User, Quit(u), ClientTypes
    PROVE  /\ UNCHANGED <<log, applied, up, casts, caster, clients, activeusers,
                          activeusergroup, inbox, handler, group, deaths, seen, interrupted>>
           /\ up /\ session[u] = "in" /\ group[u] # Nil /\ count' \in 0..MaxRequests
           /\ pending' = pending \cup {Command(count, "q", u, group[u], NoGroup)}
           /\ session' = [session EXCEPT ![u] = "gone"]
           /\ context' = [context EXCEPT ![u] = IF @ = "open" THEN "closed" ELSE @]
           /\ hasty' = hasty \cup {v \in {u} : Unsettled(u)}
BY DEF Quit, Asks, Submit, CurrentGroup, castVars, storeVars, ClientTypes

(* A join is taken from the stream: one entry of the connection store may  *)
(* go, the command is submitted, and the handler sleeps.                   *)
LEMMA ReceiveJoinWrites ==
    ASSUME NEW u \in User, ReceiveJoin(u)
    PROVE  /\ UNCHANGED <<log, applied, up, casts, caster, activeusers, activeusergroup,
                          context, session, group, count, deaths, seen, hasty, interrupted>>
           /\ Receives(u, "j")
           /\ \/ UNCHANGED clients
              \/ \E v \in User :
                    /\ clients[v] = Head(inbox[u]).group /\ NameOf[v] = NameOf[u]
                    /\ clients' = [clients EXCEPT ![v] = NoGroup]
           /\ pending' = pending \cup {Command(Head(inbox[u]).id, "j", u,
                                           Head(inbox[u]).group, Head(inbox[u]).new)}
           /\ handler' = [handler EXCEPT ![u] = [pc |-> "sleep", event |-> "j",
                                                 group |-> Head(inbox[u]).new, at |-> 0]]
BY DEF ReceiveJoin, RemoveConn, GoesOn, Submit, castVars, clientVars, boundVars, historyVars

(* Append, like and unlike submit; an unlike without a group ends the      *)
(* server.                                                                 *)
LEMMA ReceiveChatWrites ==
    ASSUME NEW u \in User, ReceiveChat(u)
    PROVE  /\ UNCHANGED <<log, applied, casts, caster, clients, activeusers, activeusergroup,
                          context, handler, session, group, count, deaths, seen, hasty,
                          interrupted>>
           /\ \E event \in ChatEvent : Receives(u, event)
           /\ pending' = pending \cup {Command(Head(inbox[u]).id, Head(inbox[u]).event, u,
                                           Head(inbox[u]).group, NoGroup)}
           /\ up' = (Head(inbox[u]).group # Nil)
BY DEF ReceiveChat, Submit, castVars, storeVars, clientVars, boundVars, historyVars

(* Print and the empty request submit nothing. *)
LEMMA ReceiveReadWrites ==
    ASSUME NEW u \in User, ReceivePrint(u) \/ ReceiveOther(u)
    PROVE  /\ UNCHANGED <<log, pending, applied, up, casts, caster, clients, activeusers,
                          activeusergroup, context, session, group, count, deaths, seen,
                          hasty, interrupted>>
           /\ \E event \in {"p", ""} : Receives(u, event)
           /\ \/ UNCHANGED handler
              \/ /\ Receives(u, "p")
                 /\ handler' = [handler EXCEPT ![u] = [pc |-> "get", event |-> "p",
                                            group |-> Head(inbox[u]).group, at |-> 0]]
BY DEF ReceivePrint, ReceiveOther, GoesOn, raftVars, castVars, storeVars, clientVars, boundVars,
       historyVars

(* After its sleep a join writes the stores, and a broadcast may see       *)
(* that.                                                                   *)
LEMMA WakeJoinedWrites ==
    ASSUME NEW u \in User, WakeJoined(u)
    PROVE  /\ UNCHANGED <<log, pending, applied, up, casts, context, inbox, session, group,
                          count, deaths, hasty, interrupted>>
           /\ up /\ handler[u].pc = "sleep"
           /\ handler' = [handler EXCEPT ![u].pc = "get"]
           /\ clients' = [clients EXCEPT ![u] = handler[u].group]
           /\ seen' = [seen EXCEPT ![u] = 0]
           /\ caster' \in {caster, [caster EXCEPT !.todo = @ \cup {u}]}
           /\ activeusers' \in {activeusers \cup {u}, activeusers}
           /\ activeusergroup' = [activeusergroup EXCEPT ![u] = handler[u].group]
BY DEF WakeJoined, AddUser, raftVars, clientVars, boundVars

(* GetGroup, for the answer. *)
LEMMA AnswerReadsWrites ==
    ASSUME NEW u \in User, AnswerReads(u)
    PROVE  /\ UNCHANGED <<log, pending, applied, up, casts, caster, clients, activeusers,
                          activeusergroup, context, inbox, session, group, count, deaths,
                          seen, hasty, interrupted>>
           /\ up /\ handler[u].pc = "get"
           /\ handler' = [handler EXCEPT ![u].pc = "send", ![u].at = applied,
                                         ![u].group = GetGroup(@)]
BY DEF AnswerReads, raftVars, castVars, storeVars, clientVars, boundVars, historyVars

(* The answer reaches the client, which takes the group of a join for its  *)
(* own.                                                                    *)
LEMMA AnswerSentWrites ==
    ASSUME NEW u \in User, AnswerSent(u)
    PROVE  /\ UNCHANGED <<log, pending, applied, up, casts, caster, clients, activeusers,
                          activeusergroup, context, inbox, session, count, deaths, hasty,
                          interrupted>>
           /\ up /\ handler[u].pc = "send"
           /\ handler' = [handler EXCEPT ![u] = Idle]
           /\ Show(u, handler[u].group, handler[u].at)
           /\ group' = [group EXCEPT ![u] =
                  IF handler[u].event = "j" /\ session[u] = "in" THEN handler[u].group ELSE @]
BY DEF AnswerSent, raftVars, castVars, storeVars, boundVars

(* A stream that is over leaves the stores as they are. *)
LEMMA StreamEndsWrites ==
    ASSUME NEW u \in User, StreamEnds(u)
    PROVE  /\ UNCHANGED <<log, pending, applied, up, casts, caster, clients, activeusers,
                          activeusergroup, session, group, count, deaths, seen, hasty,
                          interrupted>>
           /\ handler[u].pc = "recv" /\ context[u] \in {"canceled", "closed"}
           /\ handler' = [handler EXCEPT ![u].pc = "returned"]
           /\ context' = [context EXCEPT ![u] = "canceled"]
           /\ inbox' = [inbox EXCEPT ![u] = <<>>]
BY DEF StreamEnds, raftVars, castVars, storeVars, clientVars, boundVars, historyVars

(* A command is moved from pending to the end of the log. *)
LEMMA CommitWrites ==
    ASSUME NEW c \in pending, Commit(c)
    PROVE  /\ UNCHANGED <<applied, up, casts, caster, clients, activeusers, activeusergroup,
                          context, inbox, handler, session, group, count, deaths, seen,
                          hasty, interrupted>>
           /\ up /\ pending' = pending \ {c} /\ log' = Append(log, c)
BY DEF Commit, castVars, storeVars, streamVars, clientVars, boundVars, historyVars

(* The next entry is applied, and its groups wait for BroadCast. *)
LEMMA PersistDataWrites ==
    ASSUME PersistData
    PROVE  /\ UNCHANGED <<log, pending, up, caster, clients, activeusers, activeusergroup,
                          context, inbox, handler, session, group, count, deaths, seen,
                          hasty, interrupted>>
           /\ up /\ applied < Len(log) /\ casts = <<>>
           /\ applied' = applied + 1 /\ casts' = Broadcasts(log[applied + 1])
BY DEF PersistData, storeVars, streamVars, clientVars, boundVars, historyVars

(* A group is taken, with the streams filed under it now. *)
LEMMA BroadCastWrites ==
    ASSUME BroadCast
    PROVE  /\ UNCHANGED <<log, pending, applied, up, clients, activeusers, activeusergroup,
                          context, inbox, handler, session, group, count, deaths, seen,
                          hasty, interrupted>>
           /\ up /\ casts # <<>> /\ caster.todo = {} /\ casts' = Tail(casts)
           /\ caster' = [group |-> Head(casts),
                         todo |-> {u \in User : clients[u] = Head(casts)
                                                /\ clients[u] # NoGroup}]
BY DEF BroadCast, raftVars, storeVars, streamVars, clientVars, boundVars, historyVars

(* One stream is served, or dropped when it is dead. *)
LEMMA CastToWrites ==
    ASSUME NEW u \in User, CastTo(u)
    PROVE  /\ UNCHANGED <<log, pending, applied, up, casts, activeusers, activeusergroup,
                          context, inbox, handler, session, group, count, deaths, hasty,
                          interrupted>>
           /\ up /\ u \in caster.todo
           /\ caster' = [caster EXCEPT !.todo = @ \ {u}]
           /\ clients' = [clients EXCEPT ![u] =
                  IF @ = caster.group /\ context[u] = "canceled" THEN NoGroup ELSE @]
           /\ Show(u, caster.group, applied)
BY DEF CastTo, raftVars, streamVars, clientVars, boundVars

(* A fault takes the server down and changes nothing else. *)
LEMMA FaultWrites ==
    ASSUME ConcurrentMapFault
    PROVE  /\ UNCHANGED <<log, pending, applied, casts, caster, clients, activeusers,
                          activeusergroup, context, inbox, handler, session, group, count,
                          deaths, seen, hasty, interrupted>>
           /\ up /\ up' = FALSE
BY DEF ConcurrentMapFault, raftVars, castVars, storeVars, streamVars, clientVars, boundVars,
       historyVars

(* RemoveActiveUsers submits a logout for each user on the list. *)
LEMMA InterruptWrites ==
    ASSUME Interrupt
    PROVE  /\ UNCHANGED <<log, applied, casts, caster, clients, activeusers, activeusergroup,
                          context, inbox, handler, session, group, count, deaths, seen, hasty>>
           /\ up /\ up' = FALSE
           /\ interrupted' = IF \E u \in User : Unsettled(u) THEN "hasty" ELSE "calm"
           /\ pending' = pending \cup
                  {Command(count, "q", u, activeusergroup[u], NoGroup) : u \in activeusers}
BY DEF Interrupt, castVars, storeVars, streamVars, clientVars, boundVars

(* The steps, those of clients who only speak or vanish taken together. *)
LEMMA NextCases ==
    ASSUME Next
    PROVE  \/ \E u \in User :
                 \/ Login(u) \/ Quit(u) \/ Speaking(u) \/ Vanishing(u)
                 \/ \E g \in Group : Join(u, g)
           \/ \E u \in User :
                 \/ ReceiveJoin(u) \/ ReceiveChat(u) \/ ReceivePrint(u) \/ ReceiveOther(u)
                 \/ WakeJoined(u) \/ AnswerReads(u) \/ AnswerSent(u) \/ StreamEnds(u)
                 \/ CastTo(u)
           \/ \E c \in pending : Commit(c)
           \/ PersistData \/ BroadCast \/ ConcurrentMapFault \/ Interrupt
BY Zenon DEF Next, ClientStep, HandlerStep, ServerStep, Speaking, Vanishing
-----------------------------------------------------------------------------
(***************************************************************************)
(* The type invariant.                                                     *)
(***************************************************************************)
OtherTypes ==
    /\ CastTypes /\ StoreTypes /\ StreamTypes /\ ClientTypes
    /\ handler \in [User -> HandlerType] /\ seen \in [User -> 0..Len(log)]

OtherTypesNext ==
    /\ CastTypes' /\ StoreTypes' /\ StreamTypes' /\ ClientTypes'
    /\ handler' \in [User -> HandlerType] /\ seen' \in [User -> 0..Len(log)]

(* The parts of a handler. *)
LEMMA HandlerParts ==
    ASSUME NEW h \in HandlerType
    PROVE  /\ h.pc \in {"recv", "sleep", "get", "send", "returned"}
           /\ h.event \in {"j", "p", ""} /\ h.group \in GroupName \cup {Nil}
           /\ h.at \in 0..Len(log)
BY DEF HandlerType

(* What persistData sends to BroadCast are names of groups. *)
LEMMA BroadcastsParts ==
    ASSUME NEW c \in CommandType, c.group \in GroupName
    PROVE  Broadcasts(c) \in Seq(GroupName)
<1>1. c.new \in GroupName
    BY CommandParts
<1> QED BY <1>1 DEF Broadcasts

(* GetGroup returns a group that was asked for, or nil. *)
LEMMA GetGroupType ==
    ASSUME NEW g \in GroupName \cup {Nil}
    PROVE  GetGroup(g) \in GroupName \cup {Nil}
BY DEF GetGroup

(* All the types but those of the log. *)
LEMMA OtherTypesStep ==
    ASSUME ShapeInv, Next PROVE OtherTypesNext
<1>0. LogTypes /\ OtherTypes
    BY TypeParts, Zenon DEF ShapeInv, OtherTypes, HandlerTypes, SeenTypes
<1>d. ASSUME NEW u \in User, NEW h \in HandlerType, handler' = [handler EXCEPT ![u] = h]
      PROVE  handler' \in [User -> HandlerType]
    BY <1>0, <1>d DEF OtherTypes
<1>1. ASSUME NEW u \in User, Login(u) PROVE OtherTypesNext
    <2>1. StoreTypes'
        <3>1. /\ clients' = clients /\ activeusers' \in {activeusers \cup {u}, activeusers}
              /\ activeusergroup' = [activeusergroup EXCEPT ![u] = NoGroup]
            BY <1>0, <1>1, LoginWrites DEF OtherTypes
        <3> QED BY <1>0, <3>1 DEF OtherTypes, StoreTypes, GroupName
    <2>2. ClientTypes'
        <3>1. /\ UNCHANGED <<group, deaths, hasty>> /\ count' \in 0..MaxRequests
              /\ session' = [session EXCEPT ![u] = "in"]
            BY <1>0, <1>1, LoginWrites DEF OtherTypes
        <3> QED BY <1>0, <3>1 DEF OtherTypes, ClientTypes
    <2> QED
        BY <1>0, <1>1, <2>1, <2>2, LoginWrites DEF OtherTypes, OtherTypesNext, CastTypes, StreamTypes
<1>2. ASSUME NEW u \in User, Quit(u) PROVE OtherTypesNext
    <2>1. StreamTypes'
        <3>1. /\ inbox' = inbox
              /\ context' = [context EXCEPT ![u] = IF @ = "open" THEN "closed" ELSE @]
            BY <1>0, <1>2, QuitWrites DEF OtherTypes
        <3> QED BY <1>0, <3>1 DEF OtherTypes, StreamTypes
    <2>2. ClientTypes'
        <3>1. /\ UNCHANGED <<group, deaths>> /\ count' \in 0..MaxRequests
              /\ session' = [session EXCEPT ![u] = "gone"]
              /\ hasty' = hasty \cup {v \in {u} : Unsettled(u)}
            BY <1>0, <1>2, QuitWrites DEF OtherTypes
        <3> QED BY <1>0, <3>1 DEF OtherTypes, ClientTypes
    <2> QED
        BY <1>0, <1>2, <2>1, <2>2, QuitWrites DEF OtherTypes, OtherTypesNext, CastTypes, StoreTypes
<1>a. ASSUME NEW u \in User, NEW request, Asked(u, request), StreamTypes
      PROVE  inbox' \in [User -> Seq(RequestType)]
    BY <1>a, AppendProperties DEF Asked, StreamTypes
<1>3. ASSUME NEW u \in User, NEW g \in Group, Join(u, g) PROVE OtherTypesNext
    <2>1. inbox' \in [User -> Seq(RequestType)]
        BY <1>0, <1>3, <1>a, JoinWrites DEF OtherTypes
    <2>2. /\ UNCHANGED <<session, group, deaths>> /\ count' \in 0..MaxRequests
          /\ context' = [context EXCEPT ![u] = "open"]
          /\ hasty' = hasty \cup {v \in {u} : Unsettled(u)}
        BY <1>0, <1>3, JoinWrites DEF OtherTypes
    <2>3. StreamTypes' /\ ClientTypes'
        BY <1>0, <2>1, <2>2 DEF OtherTypes, StreamTypes, ClientTypes
    <2> QED
        BY <1>0, <1>3, <2>3, JoinWrites DEF OtherTypes, OtherTypesNext, CastTypes, StoreTypes
<1>4. ASSUME NEW u \in User, Speaking(u) PROVE OtherTypesNext
    <2>1. inbox' \in [User -> Seq(RequestType)]
        BY <1>0, <1>4, <1>a, SpeakingWrites DEF OtherTypes
    <2> QED
        BY <1>0, <1>4, <2>1, SpeakingWrites
        DEF OtherTypes, OtherTypesNext, CastTypes, StoreTypes, StreamTypes, ClientTypes
<1>5. ASSUME NEW u \in User, Vanishing(u) PROVE OtherTypesNext
    BY <1>0, <1>5, VanishingWrites, ZenonT(60)
    DEF OtherTypes, OtherTypesNext, CastTypes, StoreTypes, StreamTypes, ClientTypes
<1>b. ASSUME NEW u \in User, NEW event, Receives(u, event)
      PROVE  inbox' \in [User -> Seq(RequestType)]
    <2>1. inbox' = [inbox EXCEPT ![u] = Tail(@)] /\ Tail(inbox[u]) \in Seq(RequestType)
        BY <1>b, HeadRequest
    <2> QED BY <2>1, <1>0 DEF OtherTypes, StreamTypes
<1>6. ASSUME NEW u \in User, ReceiveJoin(u) PROVE OtherTypesNext
    <2>1. Receives(u, "j")
        BY <1>6, ReceiveJoinWrites
    <2>2. inbox' \in [User -> Seq(RequestType)] /\ Head(inbox[u]).new \in GroupName
        BY <2>1, <1>b, HeadRequest, RequestParts
    <2>3. [pc |-> "sleep", event |-> "j", group |-> Head(inbox[u]).new, at |-> 0] \in HandlerType
        BY <2>2, <1>0 DEF HandlerType, LogTypes
    <2>4. handler' \in [User -> HandlerType] /\ clients' \in [User -> GroupName]
        BY <1>0, <1>6, <2>3, ReceiveJoinWrites DEF OtherTypes, StoreTypes, GroupName
    <2> QED
        BY <1>0, <1>6, <2>2, <2>4, ReceiveJoinWrites
        DEF OtherTypes, OtherTypesNext, CastTypes, StoreTypes, StreamTypes, ClientTypes
<1>7. ASSUME NEW u \in User, ReceiveChat(u) PROVE OtherTypesNext
    <2>1. inbox' \in [User -> Seq(RequestType)]
        BY <1>7, <1>b, ReceiveChatWrites
    <2> QED
        BY <1>0, <1>7, <2>1, ReceiveChatWrites
        DEF OtherTypes, OtherTypesNext, CastTypes, StoreTypes, StreamTypes, ClientTypes
<1>8. ASSUME NEW u \in User, ReceivePrint(u) \/ ReceiveOther(u) PROVE OtherTypesNext
    <2>1. inbox' \in [User -> Seq(RequestType)]
        BY <1>8, <1>b, ReceiveReadWrites
    <2>2. CASE UNCHANGED handler
        BY <1>0, <1>8, <2>1, <2>2, ReceiveReadWrites
        DEF OtherTypes, OtherTypesNext, CastTypes, StoreTypes, StreamTypes, ClientTypes
    <2>3. CASE ~UNCHANGED handler
        <3>1. Head(inbox[u]).group \in GroupName \cup {Nil}
            BY <1>8, <2>3, ReceiveReadWrites, HeadRequest, RequestParts
        <3>2. [pc |-> "get", event |-> "p", group |-> Head(inbox[u]).group, at |-> 0]
                  \in HandlerType
            BY <3>1, <1>0 DEF HandlerType, LogTypes
        <3>3. handler' \in [User -> HandlerType]
            BY <1>0, <1>8, <2>3, <3>2, ReceiveReadWrites DEF OtherTypes
        <3> QED
            BY <1>0, <1>8, <2>1, <3>3, ReceiveReadWrites
            DEF OtherTypes, OtherTypesNext, CastTypes, StoreTypes, StreamTypes, ClientTypes
    <2> QED BY <2>2, <2>3
<1>9. ASSUME NEW u \in User, WakeJoined(u) PROVE OtherTypesNext
    <2>1. handler[u] \in HandlerType /\ handler[u].pc = "sleep" /\ handler[u].group # Nil
        BY <1>0, <1>9, WakeJoinedWrites DEF OtherTypes, ShapeInv, HandlerInv
    <2>2. handler[u].group \in GroupName /\ [handler[u] EXCEPT !.pc = "get"] \in HandlerType
        BY <2>1 DEF HandlerType
    <2>3. StoreTypes'
        <3>1. /\ clients' = [clients EXCEPT ![u] = handler[u].group]
              /\ activeusers' \in {activeusers \cup {u}, activeusers}
              /\ activeusergroup' = [activeusergroup EXCEPT ![u] = handler[u].group]
            BY <1>9, WakeJoinedWrites
        <3> QED BY <1>0, <2>2, <3>1 DEF OtherTypes, StoreTypes
    <2>4. handler' \in [User -> HandlerType]
        BY <1>d, <1>9, <2>2, WakeJoinedWrites
    <2>5. CastTypes'
        <3>1. casts' = casts /\ caster' \in {caster, [caster EXCEPT !.todo = @ \cup {u}]}
            BY <1>9, WakeJoinedWrites
        <3> QED BY <1>0, <3>1 DEF OtherTypes, CastTypes
    <2>6. seen' \in [User -> 0..Len(log)]
        <3>1. seen' = [seen EXCEPT ![u] = 0] /\ 0 \in 0..Len(log)
            BY <1>0, <1>9, WakeJoinedWrites DEF LogTypes
        <3> QED BY <1>0, <3>1 DEF OtherTypes
    <2> QED
        BY <1>0, <1>9, <2>3, <2>4, <2>5, <2>6, WakeJoinedWrites
        DEF OtherTypes, OtherTypesNext, StreamTypes, ClientTypes
<1>10. ASSUME NEW u \in User, AnswerReads(u) PROVE OtherTypesNext
    <2>1. handler[u] \in HandlerType
        BY <1>0 DEF OtherTypes
    <2>2. GetGroup(handler[u].group) \in GroupName \cup {Nil} /\ applied \in 0..Len(log)
        BY <2>1, <1>0, GetGroupType, HandlerParts DEF LogTypes
    <2>4. handler' \in [User -> HandlerType]
        <3> DEFINE g == GetGroup(handler[u].group)
        <3>1. g \in GroupName \cup {Nil}
            BY <2>2
        <3>2. handler' = [handler EXCEPT ![u].pc = "send", ![u].at = applied, ![u].group = g]
            BY <1>10, <1>0, <2>1, AnswerReadsWrites DEF OtherTypes, HandlerType
        <3> HIDE DEF g
        <3> DEFINE h == [handler[u] EXCEPT !.pc = "send", !.at = applied, !.group = g]
        <3>3. handler' = [handler EXCEPT ![u] = h]
            BY ONLY <1>0, <3>2 DEF OtherTypes
        <3>4. h \in HandlerType
            BY <2>1, <2>2, <3>1 DEF HandlerType
        <3> QED BY <3>3, <3>4, <1>d
    <2> QED
        BY <1>0, <1>10, <2>4, AnswerReadsWrites
        DEF OtherTypes, OtherTypesNext, CastTypes, StoreTypes, StreamTypes, ClientTypes
<1>c. ASSUME NEW u \in User, NEW g, NEW k \in 0..Len(log), Show(u, g, k)
      PROVE  seen' \in [User -> 0..Len(log)]
    BY <1>0, <1>c DEF OtherTypes, Show
<1>11. ASSUME NEW u \in User, AnswerSent(u) PROVE OtherTypesNext
    <2>1. handler[u] \in HandlerType
        BY <1>0 DEF OtherTypes
    <2>2. handler[u].at \in 0..Len(log) /\ handler[u].group \in GroupName \cup {Nil}
        BY <2>1, HandlerParts
    <2>3. seen' \in [User -> 0..Len(log)]
        BY <1>11, <1>c, <2>2, AnswerSentWrites
    <2>4. Idle \in HandlerType
        BY <1>0 DEF Idle, HandlerType, LogTypes, GroupName
    <2>5. handler' \in [User -> HandlerType]
        BY <1>d, <1>11, <2>4, AnswerSentWrites
    <2>6. ClientTypes'
        BY <1>0, <1>11, <2>2, AnswerSentWrites, SMTT(30) DEF OtherTypes, ClientTypes
    <2> QED
        BY <1>0, <1>11, <2>3, <2>5, <2>6, AnswerSentWrites
        DEF OtherTypes, OtherTypesNext, CastTypes, StoreTypes, StreamTypes
<1>12. ASSUME NEW u \in User, StreamEnds(u) PROVE OtherTypesNext
    <2>1. handler[u] \in HandlerType
        BY <1>0 DEF OtherTypes
    <2>2. [handler[u] EXCEPT !.pc = "returned"] \in HandlerType
        BY <2>1 DEF HandlerType
    <2>3. handler' \in [User -> HandlerType]
        BY <1>d, <1>12, <2>2, StreamEndsWrites
    <2>4. StreamTypes'
        <3>1. <<>> \in Seq(RequestType)
            BY EmptySeq
        <3>2. /\ context' = [context EXCEPT ![u] = "canceled"]
              /\ inbox' = [inbox EXCEPT ![u] = <<>>]
            BY <1>12, StreamEndsWrites
        <3> QED BY <1>0, <3>1, <3>2 DEF OtherTypes, StreamTypes
    <2> QED
        BY <1>0, <1>12, <2>3, <2>4, StreamEndsWrites
        DEF OtherTypes, OtherTypesNext, CastTypes, StoreTypes, ClientTypes
<1>13. ASSUME NEW c \in pending, Commit(c) PROVE OtherTypesNext
    BY <1>0, <1>13, CommitWrites
    DEF OtherTypes, OtherTypesNext, CastTypes, StoreTypes, StreamTypes, ClientTypes
<1>14. CASE PersistData
    <2>1. log[applied + 1] \in CommandType /\ log[applied + 1].group # Nil
        BY <1>0, <1>14, PersistDataWrites DEF LogTypes, ShapeInv, CommandInv, Proper
    <2>2. casts' \in Seq(GroupName)
        BY <1>14, <2>1, PersistDataWrites, CommandParts, BroadcastsParts
    <2> QED
        BY <1>0, <1>14, <2>2, PersistDataWrites
        DEF OtherTypes, OtherTypesNext, CastTypes, StoreTypes, StreamTypes, ClientTypes
<1>15. CASE BroadCast
    <2>1. casts \in Seq(GroupName) /\ casts # <<>>
        BY <1>0, <1>15, BroadCastWrites DEF OtherTypes, CastTypes
    <2>2. Head(casts) \in GroupName /\ Tail(casts) \in Seq(GroupName)
        BY <2>1, HeadTailProperties
    <2>3. CastTypes'
        BY <1>15, <2>2, BroadCastWrites DEF CastTypes
    <2> QED
        BY <1>0, <1>15, <2>3, BroadCastWrites
        DEF OtherTypes, OtherTypesNext, StoreTypes, StreamTypes, ClientTypes
<1>16. ASSUME NEW u \in User, CastTo(u) PROVE OtherTypesNext
    <2>1. seen' \in [User -> 0..Len(log)]
        BY <1>0, <1>16, <1>c, CastToWrites DEF LogTypes
    <2>2. CastTypes' /\ StoreTypes'
        BY <1>0, <1>16, CastToWrites DEF OtherTypes, CastTypes, StoreTypes, GroupName
    <2> QED
        BY <1>0, <1>16, <2>1, <2>2, CastToWrites
        DEF OtherTypes, OtherTypesNext, StreamTypes, ClientTypes
<1>17. CASE ConcurrentMapFault
    BY <1>0, <1>17, FaultWrites
    DEF OtherTypes, OtherTypesNext, CastTypes, StoreTypes, StreamTypes, ClientTypes
<1>18. CASE Interrupt
    BY <1>0, <1>18, InterruptWrites
    DEF OtherTypes, OtherTypesNext, CastTypes, StoreTypes, StreamTypes, ClientTypes
<1> QED BY <1>1, <1>2, <1>3, <1>4, <1>5, <1>6, <1>7, <1>8, <1>9, <1>10, <1>11, <1>12,
           <1>13, <1>14, <1>15, <1>16, <1>17, <1>18, NextCases

(* Every step keeps the type invariant. *)
LEMMA TypeStep ==
    ASSUME ShapeInv, Next PROVE ServiceTypeOK'
<1>1. LogTypes' /\ Len(log) <= Len(log') /\ OtherTypesNext /\ LogTypes
    BY LogTypesStep, OtherTypesStep, TypeParts DEF ShapeInv
<1>2. 0..Len(log) \subseteq 0..Len(log')
    BY <1>1 DEF LogTypes
<1>3. HandlerType \subseteq HandlerType'
    BY <1>2 DEF HandlerType, GroupName
<1> QED BY <1>1, <1>2, <1>3, TypeParts DEF OtherTypesNext, HandlerTypes, SeenTypes
-----------------------------------------------------------------------------
(***************************************************************************)
(* What the handlers and the clients of the streams are after a step.      *)
(***************************************************************************)
(* f changes at u only. *)
ElsewhereSame(f, g, u) == \A v \in User : v # u => g[v] = f[v]

(* The functions of the type invariant. *)
LEMMA TypesFunctions ==
    ASSUME ServiceTypeOK
    PROVE  /\ clients \in [User -> GroupName] /\ activeusergroup \in [User -> GroupName]
           /\ context \in [User -> {"none", "open", "closed", "canceled"}]
           /\ inbox \in [User -> Seq(RequestType)] /\ handler \in [User -> HandlerType]
           /\ session \in [User -> {"out", "in", "gone", "dead"}]
           /\ group \in [User -> GroupName \cup {Nil}] /\ seen \in [User -> 0..Len(log)]
           /\ hasty \subseteq User
BY Zenon DEF ServiceTypeOK

(* An update at u is one at u only. *)
LEMMA UpdateAt ==
    ASSUME NEW T, NEW f \in [User -> T], NEW u \in User, NEW e
    PROVE  [f EXCEPT ![u] = e][u] = e /\ ElsewhereSame(f, [f EXCEPT ![u] = e], u)
BY DEF ElsewhereSame

(* What ReceiveJoin leaves in the handlers and in the connection store. *)
LEMMA ReceiveJoinAfter ==
    ASSUME ServiceTypeOK, NEW u \in User, ReceiveJoin(u)
    PROVE  /\ handler'[u].pc = "sleep" /\ handler'[u].event = "j"
           /\ handler'[u].group = Head(inbox[u]).new
           /\ ElsewhereSame(handler, handler', u)
           /\ \A v \in User : \/ clients'[v] = clients[v]
                              \/ clients'[v] = NoGroup /\ NameOf[v] = NameOf[u]
<1>1. handler \in [User -> HandlerType] /\ clients \in [User -> GroupName]
    BY TypesFunctions
<1>2. /\ \/ UNCHANGED clients
         \/ \E v \in User :
               /\ clients[v] = Head(inbox[u]).group /\ NameOf[v] = NameOf[u]
               /\ clients' = [clients EXCEPT ![v] = NoGroup]
      /\ handler' = [handler EXCEPT ![u] = [pc |-> "sleep", event |-> "j",
                                            group |-> Head(inbox[u]).new, at |-> 0]]
    BY ReceiveJoinWrites, Zenon
<1>3. \A v \in User : \/ clients'[v] = clients[v]
                      \/ clients'[v] = NoGroup /\ NameOf[v] = NameOf[u]
    BY ONLY <1>1, <1>2
<1>4. /\ handler'[u].pc = "sleep" /\ handler'[u].event = "j"
      /\ handler'[u].group = Head(inbox[u]).new /\ ElsewhereSame(handler, handler', u)
    <2> DEFINE g == Head(inbox[u]).new
    <2>1. handler' = [handler EXCEPT ![u] = [pc |-> "sleep", event |-> "j", group |-> g,
                                             at |-> 0]]
        BY <1>2
    <2> HIDE DEF g
    <2>2. /\ handler'[u].pc = "sleep" /\ handler'[u].event = "j"
          /\ handler'[u].group = g /\ ElsewhereSame(handler, handler', u)
        BY ONLY <1>1, <2>1, u \in User DEF ElsewhereSame
    <2> QED BY <2>2 DEF g
<1> QED BY <1>3, <1>4

(* What ReceivePrint and ReceiveOther leave in the handlers. *)
LEMMA ReceiveReadAfter ==
    ASSUME ServiceTypeOK, NEW u \in User, ReceivePrint(u) \/ ReceiveOther(u)
    PROVE  /\ \/ handler'[u] = handler[u]
              \/ Receives(u, "p") /\ handler'[u].pc = "get" /\ handler'[u].event = "p"
           /\ ElsewhereSame(handler, handler', u)
<1>1. handler \in [User -> HandlerType]
    BY TypesFunctions
<1>2. \/ UNCHANGED handler
      \/ /\ Receives(u, "p")
         /\ handler' = [handler EXCEPT ![u] = [pc |-> "get", event |-> "p",
                                    group |-> Head(inbox[u]).group, at |-> 0]]
    BY ReceiveReadWrites, Zenon
<1> QED BY ONLY <1>1, <1>2, UpdateAt, u \in User DEF ElsewhereSame

(* What WakeJoined leaves in the handlers, the stores and the broadcast. *)
LEMMA WakeJoinedAfter ==
    ASSUME ServiceTypeOK, NEW u \in User, WakeJoined(u)
    PROVE  /\ handler'[u].pc = "get" /\ handler'[u].event = handler[u].event
           /\ handler'[u].group = handler[u].group
           /\ ElsewhereSame(handler, handler', u)
           /\ clients'[u] = handler[u].group /\ ElsewhereSame(clients, clients', u)
           /\ activeusergroup'[u] = handler[u].group
           /\ ElsewhereSame(activeusergroup, activeusergroup', u)
           /\ ElsewhereSame(seen, seen', u)
           /\ caster'.group = caster.group
           /\ caster'.todo = caster.todo \/ caster'.todo = caster.todo \cup {u}
<1>1. /\ handler \in [User -> HandlerType] /\ clients \in [User -> GroupName]
      /\ activeusergroup \in [User -> GroupName] /\ seen \in [User -> 0..Len(log)]
    BY TypesFunctions
<1>2. caster \in [group : GroupName, todo : SUBSET User]
    BY Zenon DEF ServiceTypeOK
<1>3. /\ handler' = [handler EXCEPT ![u].pc = "get"]
      /\ clients' = [clients EXCEPT ![u] = handler[u].group]
      /\ seen' = [seen EXCEPT ![u] = 0]
      /\ caster' \in {caster, [caster EXCEPT !.todo = @ \cup {u}]}
      /\ activeusergroup' = [activeusergroup EXCEPT ![u] = handler[u].group]
    BY WakeJoinedWrites, Zenon
<1>4. caster'.group = caster.group
      /\ (caster'.todo = caster.todo \/ caster'.todo = caster.todo \cup {u})
    BY ONLY <1>2, <1>3
<1>5. /\ handler'[u].pc = "get" /\ handler'[u].event = handler[u].event
      /\ handler'[u].group = handler[u].group /\ ElsewhereSame(handler, handler', u)
    BY ONLY <1>1, <1>3, u \in User DEF HandlerType, ElsewhereSame
<1> QED BY <1>1, <1>3, <1>4, <1>5, UpdateAt

(* What AnswerReads leaves in the handlers. *)
LEMMA AnswerReadsAfter ==
    ASSUME ServiceTypeOK, NEW u \in User, AnswerReads(u)
    PROVE  /\ handler'[u].pc = "send" /\ handler'[u].event = handler[u].event
           /\ handler'[u].at = applied /\ handler'[u].group = GetGroup(handler[u].group)
           /\ ElsewhereSame(handler, handler', u)
<1>1. handler \in [User -> HandlerType]
    BY TypesFunctions
<1> DEFINE g == GetGroup(handler[u].group)
<1>2. handler' = [handler EXCEPT ![u].pc = "send", ![u].at = applied, ![u].group = g]
    BY <1>1, AnswerReadsWrites DEF HandlerType
<1> HIDE DEF g
<1>3. /\ handler'[u].pc = "send" /\ handler'[u].event = handler[u].event
      /\ handler'[u].at = applied /\ handler'[u].group = g
      /\ ElsewhereSame(handler, handler', u)
    BY ONLY <1>1, <1>2, u \in User DEF HandlerType, ElsewhereSame
<1> QED BY <1>3 DEF g

(* What AnswerSent leaves in the handlers, and what the clients were       *)
(* told.                                                                   *)
LEMMA AnswerSentAfter ==
    ASSUME ServiceTypeOK, NEW u \in User, AnswerSent(u)
    PROVE  /\ handler'[u] = Idle /\ ElsewhereSame(handler, handler', u)
           /\ group'[u] = IF handler[u].event = "j" /\ session[u] = "in"
                          THEN handler[u].group ELSE group[u]
           /\ ElsewhereSame(group, group', u)
<1>1. handler \in [User -> HandlerType] /\ group \in [User -> GroupName \cup {Nil}]
    BY TypesFunctions
<1>2. handler' = [handler EXCEPT ![u] = Idle]
      /\ group' = [group EXCEPT ![u] =
             IF handler[u].event = "j" /\ session[u] = "in" THEN handler[u].group ELSE @]
    BY AnswerSentWrites, Zenon
<1> QED BY ONLY <1>1, <1>2, u \in User DEF ElsewhereSame

(* What StreamEnds leaves in the handlers and the streams. *)
LEMMA StreamEndsAfter ==
    ASSUME ServiceTypeOK, NEW u \in User, StreamEnds(u)
    PROVE  /\ handler'[u].pc = "returned" /\ handler'[u].event = handler[u].event
           /\ ElsewhereSame(handler, handler', u)
           /\ context'[u] = "canceled" /\ ElsewhereSame(context, context', u)
           /\ inbox'[u] = <<>> /\ ElsewhereSame(inbox, inbox', u)
<1>1. /\ handler \in [User -> HandlerType] /\ inbox \in [User -> Seq(RequestType)]
      /\ context \in [User -> {"none", "open", "closed", "canceled"}]
    BY TypesFunctions
<1>2. /\ handler' = [handler EXCEPT ![u].pc = "returned"]
      /\ context' = [context EXCEPT ![u] = "canceled"]
      /\ inbox' = [inbox EXCEPT ![u] = <<>>]
    BY StreamEndsWrites, Zenon
<1>3. /\ handler'[u].pc = "returned" /\ handler'[u].event = handler[u].event
      /\ ElsewhereSame(handler, handler', u)
    BY ONLY <1>1, <1>2, u \in User DEF HandlerType, ElsewhereSame
<1>4. /\ context'[u] = "canceled" /\ ElsewhereSame(context, context', u)
      /\ inbox'[u] = <<>> /\ ElsewhereSame(inbox, inbox', u)
    BY ONLY <1>1, <1>2, u \in User DEF ElsewhereSame
<1> QED BY <1>3, <1>4

(* Show never takes back what a client has seen. *)
LEMMA ShowAfter ==
    ASSUME ServiceTypeOK, NEW u \in User, NEW g, NEW k \in 0..Len(log), Show(u, g, k)
    PROVE  /\ ElsewhereSame(seen, seen', u) /\ seen'[u] >= seen[u]
           /\ g = clients[u] /\ context[u] # "canceled" => seen'[u] >= k
<1>1. seen \in [User -> 0..Len(log)]
    BY TypesFunctions
<1>2. k \in Int /\ seen[u] \in Int
    BY <1>1
<1>3. seen' = [seen EXCEPT ![u] =
          IF g = clients[u] /\ k > seen[u] /\ context[u] # "canceled" THEN k ELSE seen[u]]
    BY DEF Show
<1> QED BY ONLY <1>1, <1>2, <1>3, u \in User DEF ElsewhereSame

(* What CastTo leaves in the connection store and the broadcast. *)
LEMMA CastToAfter ==
    ASSUME ServiceTypeOK, NEW u \in User, CastTo(u)
    PROVE  /\ caster'.group = caster.group /\ caster'.todo = caster.todo \ {u}
           /\ ElsewhereSame(clients, clients', u)
           /\ clients'[u] = clients[u] \/ (clients'[u] = NoGroup /\ context[u] = "canceled")
           /\ ElsewhereSame(seen, seen', u) /\ seen'[u] >= seen[u]
           /\ caster.group = clients[u] /\ context[u] # "canceled" => seen'[u] >= applied
<1>1. /\ clients \in [User -> GroupName] /\ caster \in [group : GroupName, todo : SUBSET User]
      /\ applied \in 0..Len(log)
    BY Zenon DEF ServiceTypeOK
<1>2. /\ caster' = [caster EXCEPT !.todo = @ \ {u}]
      /\ clients' = [clients EXCEPT ![u] =
             IF @ = caster.group /\ context[u] = "canceled" THEN NoGroup ELSE @]
      /\ Show(u, caster.group, applied)
    BY CastToWrites, Zenon
<1>3. /\ caster'.group = caster.group /\ caster'.todo = caster.todo \ {u}
      /\ ElsewhereSame(clients, clients', u)
      /\ clients'[u] = clients[u] \/ (clients'[u] = NoGroup /\ context[u] = "canceled")
    BY ONLY <1>1, <1>2, u \in User DEF ElsewhereSame
<1> QED BY <1>1, <1>2, <1>3, ShowAfter

(* What Login leaves in the sessions and in the list. *)
LEMMA LoginAfter ==
    ASSUME ServiceTypeOK, NEW u \in User, Login(u)
    PROVE  /\ session'[u] = "in" /\ ElsewhereSame(session, session', u)
           /\ activeusergroup'[u] = NoGroup
           /\ ElsewhereSame(activeusergroup, activeusergroup', u)
<1>1. /\ activeusergroup \in [User -> GroupName]
      /\ session \in [User -> {"out", "in", "gone", "dead"}]
    BY TypesFunctions
<1>2. /\ session' = [session EXCEPT ![u] = "in"]
      /\ activeusergroup' = [activeusergroup EXCEPT ![u] = NoGroup]
    BY TypeParts, LoginWrites, Zenon
<1> QED BY ONLY <1>1, <1>2, u \in User DEF ElsewhereSame

(* What Quit leaves in the sessions and the streams. *)
LEMMA QuitAfter ==
    ASSUME ServiceTypeOK, NEW u \in User, Quit(u)
    PROVE  /\ session'[u] = "gone" /\ ElsewhereSame(session, session', u)
           /\ context'[u] = IF context[u] = "open" THEN "closed" ELSE context[u]
           /\ ElsewhereSame(context, context', u)
<1>1. /\ context \in [User -> {"none", "open", "closed", "canceled"}]
      /\ session \in [User -> {"out", "in", "gone", "dead"}]
    BY TypesFunctions
<1>2. /\ session' = [session EXCEPT ![u] = "gone"]
      /\ context' = [context EXCEPT ![u] = IF @ = "open" THEN "closed" ELSE @]
    BY TypeParts, QuitWrites, Zenon
<1> QED BY ONLY <1>1, <1>2, u \in User DEF ElsewhereSame

(* What a death leaves in the sessions and the streams. *)
LEMMA VanishingAfter ==
    ASSUME ServiceTypeOK, NEW u \in User, Vanishing(u)
    PROVE  /\ session'[u] = "dead" /\ ElsewhereSame(session, session', u)
           /\ context'[u] = IF context[u] = "none" THEN "none" ELSE "canceled"
           /\ ElsewhereSame(context, context', u)
<1>1. /\ context \in [User -> {"none", "open", "closed", "canceled"}]
      /\ session \in [User -> {"out", "in", "gone", "dead"}]
    BY TypesFunctions
<1>2. /\ session' = [session EXCEPT ![u] = "dead"]
      /\ context' = [context EXCEPT ![u] = IF @ = "none" THEN @ ELSE "canceled"]
    BY TypeParts, VanishingWrites, Zenon
<1> QED BY ONLY <1>1, <1>2, u \in User DEF ElsewhereSame

(* What Join leaves in the streams. *)
LEMMA JoinAfter ==
    ASSUME ServiceTypeOK, NEW u \in User, NEW g \in Group, Join(u, g)
    PROVE  context'[u] = "open" /\ ElsewhereSame(context, context', u)
<1>1. context \in [User -> {"none", "open", "closed", "canceled"}]
    BY TypesFunctions
<1>2. context' = [context EXCEPT ![u] = "open"]
    BY TypeParts, JoinWrites, Zenon
<1> QED BY ONLY <1>1, <1>2, u \in User DEF ElsewhereSame

(* A request goes to the end of its stream. *)
LEMMA AskedAfter ==
    ASSUME ServiceTypeOK, NEW u \in User, NEW request, Asked(u, request)
    PROVE  /\ Len(inbox[u]) \in Nat /\ Len(inbox'[u]) = Len(inbox[u]) + 1
           /\ \A i \in 1..Len(inbox[u]) : inbox'[u][i] = inbox[u][i]
           /\ inbox'[u][Len(inbox[u]) + 1] = request
           /\ ElsewhereSame(inbox, inbox', u)
<1>1. inbox \in [User -> Seq(RequestType)] /\ inbox[u] \in Seq(RequestType)
    BY TypesFunctions
<1>2. inbox' = [inbox EXCEPT ![u] = Append(inbox[u], request)] /\ request \in RequestType
    BY DEF Asked
<1>3. inbox'[u] = Append(inbox[u], request) /\ ElsewhereSame(inbox, inbox', u)
    BY <1>1, <1>2, UpdateAt
<1> QED BY ONLY <1>1, <1>2, <1>3, AppendProperties, LenProperties

(* A request is taken from the head of its stream. *)
LEMMA ReceivesAfter ==
    ASSUME ShapeInv, NEW u \in User, NEW event, Receives(u, event)
    PROVE  /\ Len(inbox[u]) \in Nat \ {0} /\ Len(inbox'[u]) = Len(inbox[u]) - 1
           /\ \A i \in 1..(Len(inbox[u]) - 1) : inbox'[u][i] = inbox[u][i + 1]
           /\ inbox[u][1] = Head(inbox[u])
           /\ ElsewhereSame(inbox, inbox', u)
<1>1. inbox \in [User -> Seq(RequestType)]
    BY TypesFunctions DEF ShapeInv
<1>2. inbox' = [inbox EXCEPT ![u] = Tail(inbox[u])]
    BY HeadRequest
<1>3. inbox'[u] = Tail(inbox[u]) /\ ElsewhereSame(inbox, inbox', u)
    BY <1>1, <1>2, UpdateAt
<1>4. /\ Head(inbox[u]) = inbox[u][1] /\ Len(inbox[u]) \in Nat \ {0}
      /\ Len(Tail(inbox[u])) = Len(inbox[u]) - 1
      /\ \A i \in 1..(Len(inbox[u]) - 1) : Tail(inbox[u])[i] = inbox[u][i + 1]
    BY HeadRequest, Zenon
<1> QED BY ONLY <1>3, <1>4
-----------------------------------------------------------------------------
(***************************************************************************)
(* Commands, requests, handlers and sessions.                              *)
(***************************************************************************)

(* A server that is down stays down. *)
LEMMA ServerStaysDown ==
    ASSUME ShapeInv, Next PROVE up' => up
<1>1. ClientTypes
    BY TypeParts DEF ShapeInv
<1>2. ASSUME NEW u \in User, \/ Login(u) \/ Quit(u) \/ Speaking(u) \/ Vanishing(u)
                             \/ \E g \in Group : Join(u, g)
      PROVE  up' = up
    BY <1>1, <1>2, LoginWrites, QuitWrites, SpeakingWrites, VanishingWrites, JoinWrites
<1>3. ASSUME NEW u \in User, ReceiveJoin(u) \/ ReceivePrint(u) \/ ReceiveOther(u)
      PROVE  up' = up
    BY <1>3, ReceiveJoinWrites, ReceiveReadWrites
<1>4. ASSUME NEW u \in User, \/ WakeJoined(u) \/ AnswerReads(u) \/ AnswerSent(u)
                             \/ StreamEnds(u) \/ CastTo(u)
      PROVE  up' = up
    BY <1>4, WakeJoinedWrites, AnswerReadsWrites, AnswerSentWrites, StreamEndsWrites,
       CastToWrites
<1>5. ASSUME NEW u \in User, ReceiveChat(u) PROVE up
    BY <1>5, ReceiveChatWrites, HeadRequest
<1>6. ASSUME NEW c \in pending, Commit(c) PROVE up' = up
    BY <1>6, CommitWrites
<1>7. CASE PersistData \/ BroadCast
    BY <1>7, PersistDataWrites, BroadCastWrites
<1>8. CASE ConcurrentMapFault \/ Interrupt
    BY <1>8, FaultWrites, InterruptWrites
<1> QED BY <1>2, <1>3, <1>4, <1>5, <1>6, <1>7, <1>8, NextCases

ProperNext(c) ==
    /\ c.event # "j" => c.new = NoGroup
    /\ up' => c.group # Nil

LogAppended ==
    /\ Len(log') = Len(log) + 1 /\ Len(log) \in Nat
    /\ \A i \in 1..Len(log) : log'[i] = log[i]
    /\ log'[Len(log) + 1] \in pending

CommandsAdded ==
    /\ \A c \in pending' : c \in pending \/ ProperNext(c)
    /\ log' = log \/ LogAppended

(* A step submits proper commands, and the log grows by pending ones. *)
LEMMA NewCommands ==
    ASSUME ShapeInv, Next PROVE CommandsAdded
<1>0. LogTypes /\ ClientTypes /\ StoreTypes /\ NoGroup # Nil
    BY TypeParts DEF ShapeInv
<1>a. ASSUME log' = log, pending' = pending PROVE CommandsAdded
    BY <1>a DEF CommandsAdded
<1>b. ASSUME NEW c, log' = log, pending' = pending \cup {c}, ProperNext(c)
      PROVE  CommandsAdded
    BY <1>b DEF CommandsAdded
<1>1. ASSUME NEW u \in User, Login(u) PROVE CommandsAdded
    <2>1. ProperNext(Command(count, "u", u, NoGroup, NoGroup))
        BY <1>0 DEF ProperNext, Command
    <2> QED BY <1>0, <1>1, <1>b, <2>1, LoginWrites
<1>2. ASSUME NEW u \in User, Quit(u) PROVE CommandsAdded
    <2>1. ProperNext(Command(count, "q", u, group[u], NoGroup))
        BY <1>0, <1>2, QuitWrites DEF ProperNext, Command
    <2> QED BY <1>0, <1>2, <1>b, <2>1, QuitWrites
<1>3. ASSUME NEW u \in User, ReceiveJoin(u) PROVE CommandsAdded
    <2>1. Head(inbox[u]).group # Nil
        <3>1. Receives(u, "j") /\ "j" # "r"
            BY <1>3, ReceiveJoinWrites
        <3> QED BY <3>1, HeadNamed
    <2>2. ProperNext(Command(Head(inbox[u]).id, "j", u, Head(inbox[u]).group,
                         Head(inbox[u]).new))
        BY <2>1 DEF ProperNext, Command
    <2> QED BY <1>3, <1>b, <2>2, ReceiveJoinWrites
<1>4. ASSUME NEW u \in User, ReceiveChat(u) PROVE CommandsAdded
    <2>1. up' = (Head(inbox[u]).group # Nil)
        BY <1>4, ReceiveChatWrites
    <2>2. ProperNext(Command(Head(inbox[u]).id, Head(inbox[u]).event, u, Head(inbox[u]).group,
                         NoGroup))
        BY <2>1 DEF ProperNext, Command
    <2> QED BY <1>4, <1>b, <2>2, ReceiveChatWrites
<1>5. ASSUME NEW c \in pending, Commit(c) PROVE CommandsAdded
    <2>1. log' = Append(log, c) /\ pending' = pending \ {c}
        BY <1>5, CommitWrites
    <2>2. log \in Seq(CommandType) /\ c \in CommandType
        BY <1>0 DEF LogTypes
    <2>3. Len(log) \in Nat /\ log' = Append(log, c) /\ Len(log') = Len(log) + 1
          /\ (\A k \in 1..Len(log) : log'[k] = log[k]) /\ log'[Len(log) + 1] = c
        BY ONLY <2>1, <2>2, AppendProperties, LenProperties
    <2> QED BY <2>1, <2>3 DEF CommandsAdded, LogAppended
<1>6. CASE Interrupt
    <2>1. /\ log' = log /\ up' = FALSE
          /\ pending' = pending \cup
                 {Command(count, "q", u, activeusergroup[u], NoGroup) : u \in activeusers}
        BY <1>6, InterruptWrites
    <2>2. \A u \in activeusers : ProperNext(Command(count, "q", u, activeusergroup[u], NoGroup))
        BY <2>1 DEF ProperNext, Command
    <2> QED BY <2>1, <2>2 DEF CommandsAdded
<1>7. ASSUME NEW u \in User, \/ Speaking(u) \/ Vanishing(u) \/ \E g \in Group : Join(u, g)
      PROVE  CommandsAdded
    BY <1>0, <1>a, <1>7, SpeakingWrites, VanishingWrites, JoinWrites
<1>8. ASSUME NEW u \in User,
             \/ ReceivePrint(u) \/ ReceiveOther(u) \/ WakeJoined(u) \/ AnswerReads(u)
             \/ AnswerSent(u) \/ StreamEnds(u) \/ CastTo(u)
      PROVE  CommandsAdded
    BY <1>a, <1>8, ReceiveReadWrites, WakeJoinedWrites, AnswerReadsWrites, AnswerSentWrites,
       StreamEndsWrites, CastToWrites
<1>9. CASE PersistData \/ BroadCast \/ ConcurrentMapFault
    BY <1>a, <1>9, PersistDataWrites, BroadCastWrites, FaultWrites
<1> QED BY <1>1, <1>2, <1>3, <1>4, <1>5, <1>6, <1>7, <1>8, <1>9, NextCases

(* Every step keeps CommandInv. *)
LEMMA CommandStep ==
    ASSUME ShapeInv, Next PROVE CommandInv'
<1>1. CommandInv /\ (up' => up) /\ CommandsAdded
    BY ServerStaysDown, NewCommands DEF ShapeInv
<1>2. \A c : Proper(c) => ProperNext(c)
    BY <1>1 DEF Proper, ProperNext
<1>3. \A c \in pending' : ProperNext(c)
    BY <1>1, <1>2 DEF CommandInv, CommandsAdded
<1>4. CASE log' = log
    <2>1. \A i \in 1..Len(log') : ProperNext(log'[i])
        BY <1>1, <1>2, <1>4 DEF CommandInv
    <2> QED BY <1>3, <2>1 DEF CommandInv, Proper, ProperNext
<1>5. CASE LogAppended
    <2>1. ASSUME NEW i \in 1..Len(log') PROVE ProperNext(log'[i])
        <3>1. i \in 1..Len(log) \/ i = Len(log) + 1
            BY <1>5 DEF LogAppended
        <3> QED BY <1>1, <1>2, <1>5, <3>1 DEF CommandInv, LogAppended
    <2> QED BY <1>3, <2>1 DEF CommandInv, Proper, ProperNext
<1> QED BY <1>1, <1>4, <1>5 DEF CommandsAdded

(* Every step keeps RequestInv. *)
LEMMA RequestStep ==
    ASSUME ShapeInv, Next PROVE RequestInv'
<1>0. ServiceTypeOK /\ ClientTypes /\ RequestInv
    BY TypeParts DEF ShapeInv
<1>a. ASSUME inbox' = inbox PROVE RequestInv'
    BY <1>0, <1>a DEF RequestInv
<1>b. ASSUME NEW u \in User, NEW request, Asked(u, request),
             request.event # "r" => request.group # Nil
      PROVE  RequestInv'
    <2>1. /\ Len(inbox[u]) \in Nat /\ Len(inbox'[u]) = Len(inbox[u]) + 1
          /\ \A i \in 1..Len(inbox[u]) : inbox'[u][i] = inbox[u][i]
          /\ inbox'[u][Len(inbox[u]) + 1] = request
          /\ \A v \in User : v # u => inbox'[v] = inbox[v]
        BY <1>0, <1>b, AskedAfter DEF ElsewhereSame
    <2>2. \A i \in 1..Len(inbox'[u]) : inbox'[u][i].event # "r" => inbox'[u][i].group # Nil
        <3>1. \A i \in 1..Len(inbox'[u]) : i \in 1..Len(inbox[u]) \/ i = Len(inbox[u]) + 1
            BY <2>1
        <3> QED BY <1>0, <1>b, <2>1, <3>1, SMTT(30) DEF RequestInv
    <2> QED BY <1>0, <2>1, <2>2 DEF RequestInv
<1>c. ASSUME NEW u \in User, NEW event, Receives(u, event) PROVE RequestInv'
    BY <1>0, <1>c, ReceivesAfter DEF RequestInv, ElsewhereSame
<1>1. ASSUME NEW u \in User, Login(u) \/ Quit(u) \/ Vanishing(u) PROVE RequestInv'
    BY <1>0, <1>a, <1>1, LoginWrites, QuitWrites, VanishingWrites
<1>2. ASSUME NEW u \in User, NEW g \in Group, Join(u, g) PROVE RequestInv'
    BY <1>0, <1>b, <1>2, JoinWrites
<1>3. ASSUME NEW u \in User, Speaking(u) PROVE RequestInv'
    BY <1>0, <1>b, <1>3, SpeakingWrites
<1>4. ASSUME NEW u \in User, \/ ReceiveJoin(u) \/ ReceiveChat(u) \/ ReceivePrint(u)
                             \/ ReceiveOther(u)
      PROVE  RequestInv'
    BY <1>c, <1>4, ReceiveJoinWrites, ReceiveChatWrites, ReceiveReadWrites
<1>5. ASSUME NEW u \in User, StreamEnds(u) PROVE RequestInv'
    BY <1>0, <1>5, StreamEndsAfter DEF RequestInv, ElsewhereSame
<1>6. ASSUME NEW u \in User, WakeJoined(u) \/ AnswerReads(u) \/ AnswerSent(u) \/ CastTo(u)
      PROVE  RequestInv'
    BY <1>a, <1>6, WakeJoinedWrites, AnswerReadsWrites, AnswerSentWrites, CastToWrites
<1>7. ASSUME NEW c \in pending, Commit(c) PROVE RequestInv'
    BY <1>a, <1>7, CommitWrites
<1>8. CASE PersistData \/ BroadCast \/ ConcurrentMapFault \/ Interrupt
    BY <1>a, <1>8, PersistDataWrites, BroadCastWrites, FaultWrites, InterruptWrites
<1> QED BY <1>1, <1>2, <1>3, <1>4, <1>5, <1>6, <1>7, <1>8, NextCases

(* Every step keeps HandlerInv. *)
LEMMA HandlersStep ==
    ASSUME ShapeInv, Next PROVE HandlerInv'
<1>0. ServiceTypeOK /\ ClientTypes /\ HandlerInv
    BY TypeParts DEF ShapeInv
<1>a. ASSUME handler' = handler PROVE HandlerInv'
    BY <1>0, <1>a DEF HandlerInv
<1>b. ASSUME NEW u \in User, ElsewhereSame(handler, handler', u),
             /\ handler'[u].pc = "sleep" => handler'[u].event = "j" /\ handler'[u].group # Nil
             /\ handler'[u].pc \in {"recv", "returned"} => handler'[u].event = ""
      PROVE  HandlerInv'
    BY <1>0, <1>b, ZenonT(60) DEF HandlerInv, ElsewhereSame
<1>1. ASSUME NEW u \in User, \/ Login(u) \/ Quit(u) \/ Speaking(u) \/ Vanishing(u)
                             \/ \E g \in Group : Join(u, g)
      PROVE  HandlerInv'
    BY <1>0, <1>a, <1>1, LoginWrites, QuitWrites, SpeakingWrites, VanishingWrites, JoinWrites
<1>2. ASSUME NEW u \in User, ReceiveJoin(u) PROVE HandlerInv'
    <2>1. Head(inbox[u]).new \in GroupName
        BY <1>2, ReceiveJoinWrites, HeadRequest, RequestParts
    <2>2. /\ ElsewhereSame(handler, handler', u)
          /\ handler'[u].pc = "sleep" /\ handler'[u].event = "j" /\ handler'[u].group # Nil
        <3>1. /\ ElsewhereSame(handler, handler', u)
              /\ handler'[u].pc = "sleep" /\ handler'[u].event = "j"
              /\ handler'[u].group = Head(inbox[u]).new
            BY <1>0, <1>2, ReceiveJoinAfter
        <3> QED BY ONLY <2>1, <3>1, ChatServiceAssumption
                DEF GroupName, ChatServiceAssumption
    <2> QED BY <1>b, <2>2
<1>3. ASSUME NEW u \in User, ReceivePrint(u) \/ ReceiveOther(u) PROVE HandlerInv'
    <2>1. HandlerInv /\ ElsewhereSame(handler, handler', u)
          /\ (handler'[u] = handler[u] \/ (handler'[u].pc = "get" /\ handler'[u].event = "p"))
        BY <1>0, <1>3, ReceiveReadAfter
    <2>2. CASE handler'[u] = handler[u]
        BY <1>0, <1>b, <2>1, <2>2 DEF HandlerInv
    <2>3. CASE handler'[u].pc = "get" /\ handler'[u].event = "p"
        BY <1>b, <2>1, <2>3
    <2> QED BY <2>1, <2>2, <2>3
<1>4. ASSUME NEW u \in User, WakeJoined(u) PROVE HandlerInv'
    BY <1>0, <1>b, <1>4, WakeJoinedAfter
<1>5. ASSUME NEW u \in User, AnswerReads(u) PROVE HandlerInv'
    BY <1>0, <1>b, <1>5, AnswerReadsAfter
<1>6. ASSUME NEW u \in User, AnswerSent(u) PROVE HandlerInv'
    <2>1. /\ ElsewhereSame(handler, handler', u)
          /\ handler'[u].pc = "recv" /\ handler'[u].event = ""
        <3>1. ElsewhereSame(handler, handler', u) /\ handler'[u] = Idle
            BY <1>0, <1>6, AnswerSentAfter
        <3>2. handler'[u].pc = "recv" /\ handler'[u].event = ""
            BY <3>1, IdleParts, Zenon
        <3> QED BY ONLY <3>1, <3>2, Zenon
    <2> QED BY <1>b, <2>1
<1>7. ASSUME NEW u \in User, StreamEnds(u) PROVE HandlerInv'
    <2>1. handler[u].event = ""
        BY <1>0, <1>7, StreamEndsWrites DEF HandlerInv
    <2> QED BY <1>0, <1>b, <1>7, <2>1, StreamEndsAfter
<1>8. ASSUME NEW u \in User, ReceiveChat(u) \/ CastTo(u) PROVE HandlerInv'
    BY <1>a, <1>8, ReceiveChatWrites, CastToWrites
<1>9. ASSUME NEW c \in pending, Commit(c) PROVE HandlerInv'
    BY <1>a, <1>9, CommitWrites
<1>10. CASE PersistData \/ BroadCast \/ ConcurrentMapFault \/ Interrupt
    BY <1>a, <1>10, PersistDataWrites, BroadCastWrites, FaultWrites, InterruptWrites
<1> QED BY <1>1, <1>2, <1>3, <1>4, <1>5, <1>6, <1>7, <1>8, <1>9, <1>10, NextCases

(* Every step keeps SessionInv. *)
LEMMA SessionStep ==
    ASSUME ShapeInv, Next PROVE SessionInv'
<1>0. ServiceTypeOK /\ ClientTypes /\ SessionInv
    BY TypeParts DEF ShapeInv
<1>a. ASSUME UNCHANGED <<session, context, activeusergroup, inbox, group, handler>>
      PROVE  SessionInv'
    BY <1>0, <1>a DEF SessionInv
<1>b. ASSUME NEW u \in User, context[u] # "none", session[u] # "out",
             UNCHANGED <<session, context>>,
             ElsewhereSame(activeusergroup, activeusergroup', u),
             ElsewhereSame(inbox, inbox', u), ElsewhereSame(group, group', u),
             ElsewhereSame(handler, handler', u)
      PROVE  SessionInv'
    BY <1>0, <1>b DEF SessionInv, ElsewhereSame
<1>c. \A f, u : f' = f => ElsewhereSame(f, f', u)
    BY DEF ElsewhereSame
<1>1. ASSUME NEW u \in User, Login(u) PROVE SessionInv'
    <2>1. UNCHANGED <<context, inbox, group, handler>> /\ session[u] = "out"
          /\ session'[u] = "in" /\ ElsewhereSame(session, session', u)
          /\ ElsewhereSame(activeusergroup, activeusergroup', u)
        BY <1>0, <1>1, LoginWrites, LoginAfter
    <2> QED BY <1>0, <2>1 DEF SessionInv, ElsewhereSame
<1>2. ASSUME NEW u \in User, Quit(u) PROVE SessionInv'
    <2>1. UNCHANGED <<activeusergroup, inbox, group, handler>> /\ session'[u] = "gone"
          /\ ElsewhereSame(session, session', u) /\ ElsewhereSame(context, context', u)
          /\ context'[u] = IF context[u] = "open" THEN "closed" ELSE context[u]
        BY <1>0, <1>2, QuitWrites, QuitAfter
    <2> QED BY <1>0, <2>1 DEF SessionInv, ElsewhereSame
<1>3. ASSUME NEW u \in User, Vanishing(u) PROVE SessionInv'
    <2>1. UNCHANGED <<activeusergroup, inbox, group, handler>> /\ session'[u] = "dead"
          /\ ElsewhereSame(session, session', u) /\ ElsewhereSame(context, context', u)
          /\ context'[u] = IF context[u] = "none" THEN "none" ELSE "canceled"
        BY <1>0, <1>3, VanishingWrites, VanishingAfter
    <2> QED BY <1>0, <2>1 DEF SessionInv, ElsewhereSame
<1>4. ASSUME NEW u \in User, NEW g \in Group, Join(u, g) PROVE SessionInv'
    <2>1. UNCHANGED <<activeusergroup, group, handler, session>> /\ session[u] = "in"
          /\ context'[u] = "open" /\ ElsewhereSame(context, context', u)
        BY <1>0, <1>4, JoinWrites, JoinAfter
    <2>2. ElsewhereSame(inbox, inbox', u)
        BY <1>0, <1>4, JoinWrites, AskedAfter
    <2> QED BY <1>0, <2>1, <2>2 DEF SessionInv, ElsewhereSame
<1>5. ASSUME NEW u \in User, Speaking(u) PROVE SessionInv'
    <2>1. UNCHANGED <<activeusergroup, group, handler, session, context>>
          /\ session[u] = "in" /\ context[u] = "open"
        BY <1>0, <1>5, SpeakingWrites
    <2>2. ElsewhereSame(inbox, inbox', u)
        BY <1>0, <1>5, SpeakingWrites, AskedAfter
    <2> QED BY <1>0, <2>1, <2>2 DEF SessionInv, ElsewhereSame
<1>d. ASSUME NEW u \in User, NEW event, Receives(u, event)
      PROVE  /\ context[u] # "none" /\ session[u] # "out" /\ ElsewhereSame(inbox, inbox', u)
    BY <1>0, <1>d, HeadRequest, ReceivesAfter DEF SessionInv
<1>6. ASSUME NEW u \in User, ReceiveJoin(u) PROVE SessionInv'
    <2>1. /\ UNCHANGED <<session, context, activeusergroup, group>> /\ Receives(u, "j")
          /\ ElsewhereSame(handler, handler', u)
        BY <1>0, <1>6, ReceiveJoinWrites, ReceiveJoinAfter
    <2> QED BY <1>b, <1>d, <2>1 DEF ElsewhereSame
<1>7. ASSUME NEW u \in User, ReceiveChat(u) PROVE SessionInv'
    <2>1. /\ UNCHANGED <<session, context, activeusergroup, group, handler>>
          /\ \E event : Receives(u, event)
        BY <1>7, ReceiveChatWrites
    <2> QED BY <1>b, <1>d, <2>1 DEF ElsewhereSame
<1>8. ASSUME NEW u \in User, ReceivePrint(u) \/ ReceiveOther(u) PROVE SessionInv'
    <2>1. /\ UNCHANGED <<session, context, activeusergroup, group>>
          /\ \E event : Receives(u, event)
          /\ ElsewhereSame(handler, handler', u)
        BY <1>0, <1>8, ReceiveReadWrites, ReceiveReadAfter
    <2> QED BY <1>b, <1>d, <2>1 DEF ElsewhereSame
<1>e. ASSUME NEW u \in User, handler[u].pc # "recv"
      PROVE  context[u] # "none" /\ session[u] # "out"
    BY <1>0, <1>e DEF SessionInv
<1>9. ASSUME NEW u \in User, WakeJoined(u) PROVE SessionInv'
    <2>1. /\ UNCHANGED <<session, context, inbox, group>> /\ handler[u].pc = "sleep"
          /\ ElsewhereSame(handler, handler', u)
          /\ ElsewhereSame(activeusergroup, activeusergroup', u)
        BY <1>0, <1>9, WakeJoinedWrites, WakeJoinedAfter
    <2> QED BY <1>b, <1>e, <2>1 DEF ElsewhereSame
<1>10. ASSUME NEW u \in User, AnswerReads(u) PROVE SessionInv'
    <2>1. /\ UNCHANGED <<session, context, inbox, group, activeusergroup>>
          /\ handler[u].pc = "get" /\ ElsewhereSame(handler, handler', u)
        BY <1>0, <1>10, AnswerReadsWrites, AnswerReadsAfter
    <2> QED BY <1>b, <1>e, <2>1 DEF ElsewhereSame
<1>11. ASSUME NEW u \in User, AnswerSent(u) PROVE SessionInv'
    <2>1. /\ UNCHANGED <<session, context, inbox, activeusergroup>> /\ handler[u].pc = "send"
          /\ ElsewhereSame(handler, handler', u) /\ ElsewhereSame(group, group', u)
        BY <1>0, <1>11, AnswerSentWrites, AnswerSentAfter
    <2> QED BY <1>b, <1>e, <2>1 DEF ElsewhereSame
<1>12. ASSUME NEW u \in User, StreamEnds(u) PROVE SessionInv'
    <2>1. /\ UNCHANGED <<session, activeusergroup, group>>
          /\ context[u] \in {"canceled", "closed"} /\ context'[u] = "canceled"
          /\ ElsewhereSame(context, context', u) /\ ElsewhereSame(inbox, inbox', u)
          /\ ElsewhereSame(handler, handler', u)
        BY <1>0, <1>12, StreamEndsWrites, StreamEndsAfter
    <2> QED BY <1>0, <2>1 DEF SessionInv, ElsewhereSame
<1>13. ASSUME NEW u \in User, CastTo(u) PROVE SessionInv'
    BY <1>a, <1>13, CastToWrites
<1>14. ASSUME NEW c \in pending, Commit(c) PROVE SessionInv'
    BY <1>a, <1>14, CommitWrites
<1>15. CASE PersistData \/ BroadCast \/ ConcurrentMapFault \/ Interrupt
    BY <1>a, <1>15, PersistDataWrites, BroadCastWrites, FaultWrites, InterruptWrites
<1> QED BY <1>1, <1>2, <1>3, <1>4, <1>5, <1>6, <1>7, <1>8, <1>9, <1>10, <1>11, <1>12,
           <1>13, <1>14, <1>15, NextCases

(* The shape holds at first. *)
LEMMA ShapeInit ==
    Init => ShapeInv
<1> SUFFICES ASSUME Init PROVE ShapeInv
    OBVIOUS
<1>1. <<>> \in Seq(CommandType) /\ <<>> \in Seq(GroupName) /\ <<>> \in Seq(RequestType)
      /\ Len(<<>>) = 0
    BY EmptySeq
<1>0. log = <<>> /\ Len(log) = 0
    BY <1>1 DEF Init
<1>2. Idle \in HandlerType
    <2>1. 0 \in 0..Len(log) /\ NoGroup \in GroupName \cup {Nil}
        BY <1>0 DEF GroupName
    <2> QED BY ONLY <2>1 DEF Idle, HandlerType
<1>3. ServiceTypeOK
    BY <1>1, <1>2 DEF Init, ServiceTypeOK, NotCasting, GroupName
<1>4. CommandInv
    BY <1>0 DEF Init, CommandInv
<1>5. RequestInv
    BY <1>1 DEF Init, RequestInv
<1>6. HandlerInv /\ SessionInv
    BY DEF Init, HandlerInv, SessionInv, Idle
<1> QED BY <1>3, <1>4, <1>5, <1>6 DEF ShapeInv

(* The shape survives a stuttering step. *)
LEMMA ShapeUnchanged ==
    ASSUME ShapeInv, UNCHANGED vars PROVE ShapeInv'
<1>1. UNCHANGED <<log, pending, applied, up, casts, caster, clients, activeusers,
                  activeusergroup, context, inbox, handler, session, group, count, deaths,
                  seen, hasty, interrupted>>
    BY DEF vars, raftVars, castVars, storeVars, streamVars, clientVars, boundVars, historyVars
<1>2. ServiceTypeOK'
    BY <1>1 DEF ShapeInv, ServiceTypeOK, HandlerType
<1>3. CommandInv' /\ RequestInv'
    BY <1>1 DEF ShapeInv, CommandInv, Proper, RequestInv
<1>4. HandlerInv' /\ SessionInv'
    BY <1>1 DEF ShapeInv, HandlerInv, SessionInv
<1> QED BY <1>2, <1>3, <1>4 DEF ShapeInv

(* Every step keeps the shape. *)
LEMMA ShapeStep ==
    ASSUME ShapeInv, [Next]_vars PROVE ShapeInv'
<1>1. CASE Next
    BY <1>1, TypeStep, CommandStep, RequestStep, HandlersStep, SessionStep DEF ShapeInv
<1> QED BY <1>1, ShapeUnchanged

(* Type correctness: whatever the clients ask, and whoever dies, the       *)
(* connection store, the list of active users and the broadcasts hold      *)
(* names of groups, never the nil group a client may have been told it is  *)
(* in (GetGroup, AddConn, AddUser).                                        *)
THEOREM ServiceTypeCorrect ==
    Spec => []ServiceTypeOK
<1>1. Spec => []ShapeInv
    BY ShapeInit, ShapeStep, PTL DEF Spec
<1>2. ShapeInv => ServiceTypeOK
    BY DEF ShapeInv
<1> QED BY <1>1, <1>2, PTL
-----------------------------------------------------------------------------
(***************************************************************************)
(* Every change is shown.                                                  *)
(***************************************************************************)

(* A step that does not serve u's join keeps what is owed to u.            *)
LEMMA SeenKept ==
    ASSUME NEW u \in User, SeenOf(u), applied \in Nat, applied' = applied,
           \A i \in 1..applied : log'[i] = log[i],
           clients'[u] = clients[u] \/ clients'[u] = NoGroup,
           context[u] = "canceled" => context'[u] = "canceled",
           seen[u] \in Nat, seen'[u] \in Nat, seen'[u] >= seen[u],
           \/ handler'[u] = handler[u]
           \/ /\ handler[u].event # "j"
              /\ ~(handler'[u].event = "j" /\ handler'[u].pc = "get"),
           casts' = casts, caster'.group = caster.group,
           u \in caster.todo => u \in caster'.todo
    PROVE  SeenOf(u)'
<1> SUFFICES ASSUME Filed(u)' PROVE SeenOf(u)'
    BY DEF SeenOf
<1>1. Filed(u) /\ clients'[u] = clients[u]
    BY DEF Filed
<1>2. ASSUME NEW i \in 1..applied, Touches(log[i], clients[u])', Exists(clients[u], i)'
      PROVE  WillSee(u, i)'
    <2>1. log'[i] = log[i] /\ \A k \in 1..i : log'[k] = log[k]
        OBVIOUS
    <2>2. Touches(log[i], clients[u])
        BY <1>1, <1>2, <2>1 DEF Touches
    <2>3. Exists(clients[u], i)
        BY <1>1, <1>2, <2>1 DEF Exists
    <2>4. WillSee(u, i)
        BY <1>1, <2>2, <2>3 DEF SeenOf
    <2>5. seen[u] >= i => seen'[u] >= i
        OBVIOUS
    <2> QED BY <1>1, <2>4, <2>5 DEF WillSee
<1>3. (handler[u].event = "j" /\ handler[u].pc = "get")'
          => handler'[u].group = clients'[u]
    BY <1>1 DEF SeenOf
<1> QED BY <1>2, <1>3 DEF SeenOf

(* Somebody else's step. *)
LEMMA SeenElsewhere ==
    ASSUME ServiceTypeOK, ServiceTypeOK', SeenInv,
           NEW w \in User, applied' = applied,
           \A i \in 1..applied : log'[i] = log[i],
           casts' = casts, caster'.group = caster.group,
           w \in caster.todo => w \in caster'.todo,
           clients'[w] = clients[w] \/ clients'[w] = NoGroup,
           context[w] = "canceled" => context'[w] = "canceled",
           seen'[w] >= seen[w], handler'[w] = handler[w]
    PROVE  SeenOf(w)'
<1>1. applied \in Nat /\ seen[w] \in Nat /\ seen'[w] \in Nat
    BY DEF ServiceTypeOK
<1>2. SeenOf(w)
    BY DEF SeenInv
<1> QED BY <1>1, <1>2, SeenKept

(* A group that a command touches is broadcast when it is applied. *)
LEMMA BroadcastsHas ==
    ASSUME NEW c \in CommandType, c.event # "j" => c.new = NoGroup,
           NEW g \in Group, Touches(c, g)
    PROVE  \E k \in 1..Len(Broadcasts(c)) : Broadcasts(c)[k] = g
<1>1. c.event # "u" /\ g \in {c.group, c.new} /\ g # NoGroup
    BY DEF Touches
<1>2. CASE c.event = "j"
    <2>1. Broadcasts(c) = <<c.group, c.new>>
        BY <1>2 DEF Broadcasts
    <2> QED BY <1>1, <2>1
<1>3. CASE c.event # "j"
    <2>1. Broadcasts(c) = <<c.group>> /\ g = c.group
        BY <1>1, <1>3 DEF Broadcasts
    <2> QED BY <2>1
<1> QED BY <1>2, <1>3

(* What is applied now waits for BroadCast. *)
LEMMA SeenPersistData ==
    ASSUME ShapeInv, SeenInv, PersistData, NEW w \in User
    PROVE  SeenOf(w)'
<1>1. /\ UNCHANGED <<log, caster, clients, context, handler, seen>>
      /\ casts = <<>> /\ applied' = applied + 1 /\ applied < Len(log)
      /\ casts' = Broadcasts(log[applied + 1])
    BY PersistDataWrites
<1>2. /\ applied \in Nat /\ Len(log) \in Nat /\ log[applied + 1] \in CommandType
      /\ log[applied + 1].event # "j" => log[applied + 1].new = NoGroup
    <2>1. LogTypes
        BY TypeParts DEF ShapeInv
    <2> QED BY <1>1, <2>1 DEF LogTypes, ShapeInv, CommandInv, Proper
<1> SUFFICES ASSUME Filed(w)' PROVE SeenOf(w)'
    BY DEF SeenOf
<1>3. Filed(w)
    BY <1>1 DEF Filed
<1>4. ASSUME NEW i \in 1..(applied + 1), Touches(log[i], clients[w]), Exists(clients[w], i)
      PROVE  WillSee(w, i)'
    <2>1. CASE i = applied + 1
        <3>1. \E k \in 1..Len(casts') : casts'[k] = clients[w]
            BY <1>1, <1>2, <1>3, <1>4, <2>1, BroadcastsHas DEF Filed
        <3> QED BY <1>1, <3>1 DEF WillSee
    <2>2. CASE i \in 1..applied
        <3>1. WillSee(w, i)
            BY <1>3, <1>4, <2>2 DEF SeenInv, SeenOf
        <3>2. 1..Len(casts) = {}
            BY <1>1, EmptySeq
        <3> QED BY <1>1, <3>1, <3>2 DEF WillSee
    <2> QED BY <1>2, <2>1, <2>2
<1>5. (handler[w].event = "j" /\ handler[w].pc = "get") => handler[w].group = clients[w]
    BY <1>3 DEF SeenInv, SeenOf
<1>6. \A i \in 1..(applied + 1) :
          /\ Touches(log[i], clients[w])' <=> Touches(log[i], clients[w])
          /\ Exists(clients[w], i)' <=> Exists(clients[w], i)
    BY <1>1 DEF Touches, Exists
<1> QED BY <1>1, <1>4, <1>5, <1>6 DEF SeenOf

(* A group that BroadCast takes is taken with every stream filed under     *)
(* it.                                                                     *)
LEMMA SeenBroadCast ==
    ASSUME ShapeInv, SeenInv, BroadCast, NEW w \in User
    PROVE  SeenOf(w)'
<1>1. /\ UNCHANGED <<log, applied, clients, context, handler, seen>>
      /\ casts # <<>> /\ caster.todo = {} /\ casts' = Tail(casts)
      /\ caster' = [group |-> Head(casts),
                    todo |-> {u \in User : clients[u] = Head(casts) /\ clients[u] # NoGroup}]
    BY BroadCastWrites
<1>2. casts \in Seq(GroupName)
    BY Zenon DEF ShapeInv, ServiceTypeOK
<1>3. /\ Len(casts) \in Nat \ {0} /\ Len(casts') = Len(casts) - 1
      /\ \A k \in 1..(Len(casts) - 1) : casts'[k] = casts[k + 1]
      /\ casts[1] = Head(casts)
    BY ONLY <1>1, <1>2, EmptySeq, HeadTailProperties
<1> SUFFICES ASSUME Filed(w)' PROVE SeenOf(w)'
    BY DEF SeenOf
<1>4. Filed(w) /\ clients[w] # NoGroup
    BY <1>1 DEF Filed
<1>5. ASSUME NEW k \in 1..Len(casts), casts[k] = clients[w]
      PROVE  \/ \E m \in 1..Len(casts') : casts'[m] = clients[w]
             \/ caster'.group = clients[w] /\ w \in caster'.todo
    <2>1. CASE k = 1
        <3>1. Head(casts) = clients[w]
            BY <1>3, <1>5, <2>1
        <3> QED BY <1>1, <1>4, <3>1
    <2>2. CASE k # 1
        <3>1. k - 1 \in 1..Len(casts') /\ casts'[k - 1] = casts[k]
            BY <1>3, <2>2
        <3> QED BY <1>5, <3>1
    <2> QED BY <2>1, <2>2
<1>6. ASSUME NEW i, WillSee(w, i) PROVE WillSee(w, i)'
    BY <1>1, <1>5, <1>6 DEF WillSee
<1> QED BY <1>1, <1>4, <1>6 DEF SeenInv, SeenOf, Touches, Exists

(* A stream that is visited has seen everything applied. *)
LEMMA SeenCastTo ==
    ASSUME ShapeInv, SeenInv, NEW u \in User, CastTo(u)
    PROVE  SeenOf(u)'
<1>0. ServiceTypeOK
    BY DEF ShapeInv
<1>1. UNCHANGED <<log, applied, casts, context, handler>>
    BY CastToWrites
<1>2. /\ clients'[u] = clients[u] \/ (clients'[u] = NoGroup /\ context[u] = "canceled")
      /\ seen'[u] >= seen[u]
      /\ caster.group = clients[u] /\ context[u] # "canceled" => seen'[u] >= applied
    BY <1>0, CastToAfter
<1>3. applied \in Nat /\ seen[u] \in Nat
    BY <1>0 DEF ServiceTypeOK
<1> SUFFICES ASSUME Filed(u)' PROVE SeenOf(u)'
    BY DEF SeenOf
<1>4. Filed(u) /\ clients'[u] = clients[u]
    BY <1>1, <1>2 DEF Filed
<1>5. seen' \in [User -> Int]
    <2>1. seen \in [User -> 0..Len(log)] /\ Show(u, caster.group, applied)
        BY <1>0, CastToWrites DEF ServiceTypeOK
    <2> QED BY <1>3, <2>1 DEF Show
<1>6. ASSUME NEW i \in 1..applied, WillSee(u, i) PROVE WillSee(u, i)'
    <2>1. CASE caster.group = clients[u]
        <3>1. seen'[u] >= i
            BY <1>2, <1>3, <1>4, <1>5, <2>1 DEF Filed
        <3> QED BY <3>1 DEF WillSee
    <2>2. CASE seen[u] >= i
        <3>1. seen'[u] >= i
            BY <1>2, <1>3, <1>5, <2>2
        <3> QED BY <3>1 DEF WillSee
    <2> QED BY <1>1, <1>4, <1>6, <2>1, <2>2 DEF WillSee
<1> QED BY <1>1, <1>4, <1>6 DEF SeenInv, SeenOf, Touches, Exists

(* The answer to a join is read from the disk as it is now. *)
LEMMA SeenAnswerReads ==
    ASSUME ShapeInv, SeenInv, NEW u \in User, AnswerReads(u), handler[u].event = "j"
    PROVE  SeenOf(u)'
<1>0. ServiceTypeOK
    BY DEF ShapeInv
<1>1. UNCHANGED <<log, applied, casts, caster, clients, context, seen>> /\ handler[u].pc = "get"
    BY AnswerReadsWrites
<1>2. /\ handler'[u].pc = "send" /\ handler'[u].event = handler[u].event
      /\ handler'[u].at = applied /\ handler'[u].group = GetGroup(handler[u].group)
    BY <1>0, AnswerReadsAfter
<1>3. applied \in Nat
    BY <1>0 DEF ServiceTypeOK
<1> SUFFICES ASSUME Filed(u)' PROVE SeenOf(u)'
    BY DEF SeenOf
<1>4. Filed(u) /\ handler[u].group = clients[u]
    BY <1>1 DEF Filed, SeenInv, SeenOf
<1>5. ASSUME NEW i \in 1..applied, Exists(clients[u], i) PROVE WillSee(u, i)'
    <2>1. Exists(clients[u], applied)
        BY <1>3, <1>5 DEF Exists
    <2>2. handler'[u].group = clients[u]
        BY <1>2, <1>4, <2>1 DEF GetGroup
    <2> QED BY <1>1, <1>2, <1>3, <2>2 DEF WillSee
<1> QED BY <1>1, <1>2, <1>5 DEF SeenOf, Exists

(* The answer to a join shows all it was read with. *)
LEMMA SeenAnswerSent ==
    ASSUME ShapeInv, SeenInv, NEW u \in User, AnswerSent(u), handler[u].event = "j"
    PROVE  SeenOf(u)'
<1>0. ServiceTypeOK
    BY DEF ShapeInv
<1>1. /\ UNCHANGED <<log, applied, casts, caster, clients, context>> /\ handler[u].pc = "send"
      /\ Show(u, handler[u].group, handler[u].at)
    BY AnswerSentWrites
<1>2. handler'[u].event = ""
    BY <1>0, AnswerSentAfter, IdleParts
<1>3. applied \in Nat /\ seen[u] \in Nat /\ handler[u] \in HandlerType
    BY <1>0 DEF ServiceTypeOK
<1>4. handler[u].at \in 0..Len(log) /\ Len(log) \in Nat
    BY <1>0, <1>3, HandlerParts, TypeParts DEF LogTypes
<1>5. /\ seen'[u] >= seen[u]
      /\ handler[u].group = clients[u] /\ context[u] # "canceled" => seen'[u] >= handler[u].at
    BY <1>0, <1>1, <1>4, ShowAfter
<1>6. seen'[u] \in Int
    BY <1>0, <1>1, <1>4 DEF Show, ServiceTypeOK
<1> SUFFICES ASSUME Filed(u)' PROVE SeenOf(u)'
    BY DEF SeenOf
<1>7. Filed(u)
    BY <1>1 DEF Filed
<1>8. ASSUME NEW i \in 1..applied, WillSee(u, i) PROVE WillSee(u, i)'
    <2>1. CASE handler[u].at >= i /\ handler[u].group = clients[u]
        <3>1. seen'[u] >= i
            BY <1>4, <1>5, <1>6, <1>7, <2>1 DEF Filed
        <3> QED BY <3>1 DEF WillSee
    <2>2. CASE seen[u] >= i
        <3>1. seen'[u] >= i
            BY <1>3, <1>5, <1>6, <2>2
        <3> QED BY <3>1 DEF WillSee
    <2> QED BY <1>1, <1>8, <2>1, <2>2 DEF WillSee
<1> QED BY <1>1, <1>2, <1>7, <1>8 DEF SeenInv, SeenOf, Touches, Exists

(* A stream just filed will be shown its group in the answer. *)
LEMMA SeenWakeJoined ==
    ASSUME ShapeInv, NEW u \in User, WakeJoined(u)
    PROVE  SeenOf(u)'
<1>1. /\ handler'[u].pc = "get" /\ handler'[u].event = handler[u].event
      /\ handler'[u].group = handler[u].group /\ clients'[u] = handler[u].group
    BY WakeJoinedAfter DEF ShapeInv
<1>2. handler[u].event = "j"
    BY WakeJoinedWrites DEF ShapeInv, HandlerInv
<1> QED BY <1>1, <1>2 DEF SeenOf, WillSee

(* Every step keeps SeenInv. *)
LEMMA SeenStep ==
    ASSUME ShapeInv, ShapeInv', SeenInv, Next PROVE SeenInv'
<1>0. ServiceTypeOK /\ ServiceTypeOK' /\ ClientTypes
    BY TypeParts DEF ShapeInv
<1>t. seen \in [User -> Nat] /\ log \in Seq(CommandType) /\ applied \in Nat
      /\ handler \in [User -> HandlerType]
    BY <1>0 DEF ServiceTypeOK
<1>q. \A u \in User : seen[u] >= seen[u]
    BY <1>t
<1>a. ASSUME UNCHANGED <<log, applied, casts, caster, clients, seen, handler>>,
             \A w \in User : context[w] = "canceled" => context'[w] = "canceled"
      PROVE  SeenInv'
    <2> SUFFICES ASSUME NEW w \in User PROVE SeenOf(w)'
        BY DEF SeenInv
    <2> QED BY <1>0, <1>a, <1>q, SeenElsewhere
<1>b. ASSUME NEW u \in User, SeenOf(u)', ElsewhereSame(handler, handler', u),
             \A w \in User : clients'[w] = clients[w] \/ clients'[w] = NoGroup \/ w = u,
             ElsewhereSame(seen, seen', u), ElsewhereSame(context, context', u),
             UNCHANGED <<log, applied, casts>>, caster'.group = caster.group,
             caster.todo \ {u} \subseteq caster'.todo
      PROVE  SeenInv'
    <2> SUFFICES ASSUME NEW w \in User, w # u PROVE SeenOf(w)'
        BY <1>b DEF SeenInv
    <2> QED BY <1>0, <1>b, <1>q, SeenElsewhere DEF ElsewhereSame
<1>c. ASSUME NEW u \in User, ElsewhereSame(handler, handler', u), handler[u].event # "j",
             ~(handler'[u].event = "j" /\ handler'[u].pc = "get"),
             \A w \in User : clients'[w] = clients[w] \/ clients'[w] = NoGroup,
             UNCHANGED <<log, applied, casts, caster>>,
             ElsewhereSame(seen, seen', u), seen'[u] >= seen[u],
             ElsewhereSame(context, context', u),
             context[u] = "canceled" => context'[u] = "canceled"
      PROVE  SeenInv'
    <2>1. SeenOf(u) /\ seen[u] \in Nat /\ seen'[u] \in Nat
        BY <1>0 DEF SeenInv, ServiceTypeOK
    <2>2. SeenOf(u)'
        BY <1>c, <1>t, <2>1, SeenKept
    <2> QED BY <1>b, <1>c, <2>2
<1>d. \A f, u : f' = f => ElsewhereSame(f, f', u)
    BY DEF ElsewhereSame
<1>1. ASSUME NEW u \in User, Login(u) \/ Speaking(u) PROVE SeenInv'
    BY <1>0, <1>a, <1>1, LoginWrites, SpeakingWrites
<1>2. ASSUME NEW u \in User, Quit(u) PROVE SeenInv'
    <2>1. UNCHANGED <<log, applied, casts, caster, clients, seen, handler>>
        BY <1>0, <1>2, QuitWrites
    <2>2. context'[u] = IF context[u] = "open" THEN "closed" ELSE context[u]
        BY <1>0, <1>2, QuitAfter
    <2>3. ElsewhereSame(context, context', u)
        BY <1>0, <1>2, QuitAfter
    <2> QED BY <1>a, <2>1, <2>2, <2>3 DEF ElsewhereSame
<1>3. ASSUME NEW u \in User, Vanishing(u) PROVE SeenInv'
    <2>1. UNCHANGED <<log, applied, casts, caster, clients, seen, handler>>
        BY <1>0, <1>3, VanishingWrites
    <2>2. context'[u] = IF context[u] = "none" THEN "none" ELSE "canceled"
        BY <1>0, <1>3, VanishingAfter
    <2>3. ElsewhereSame(context, context', u)
        BY <1>0, <1>3, VanishingAfter
    <2> QED BY <1>a, <2>1, <2>2, <2>3 DEF ElsewhereSame
<1>4. ASSUME NEW u \in User, NEW g \in Group, Join(u, g) PROVE SeenInv'
    <2>1. UNCHANGED <<log, applied, casts, caster, clients, seen, handler>>
        BY <1>0, <1>4, JoinWrites
    <2>2. session[u] = "in"
        BY <1>0, <1>4, JoinWrites
    <2>3. context[u] # "canceled"
        BY <2>2 DEF ShapeInv, SessionInv
    <2>4. ElsewhereSame(context, context', u)
        BY <1>0, <1>4, JoinAfter
    <2> QED BY <1>a, <2>1, <2>3, <2>4 DEF ElsewhereSame
<1>e. ASSUME NEW u \in User, NEW event, Receives(u, event) PROVE handler[u].event # "j"
    BY <1>e, HeadRequest
<1>5. ASSUME NEW u \in User, ReceiveJoin(u) PROVE SeenInv'
    <2>1. /\ UNCHANGED <<log, applied, casts, caster, seen, context>>
          /\ handler[u].event # "j"
        BY <1>5, <1>e, ReceiveJoinWrites
    <2>2. /\ ElsewhereSame(handler, handler', u) /\ handler'[u].pc = "sleep"
          /\ \A w \in User : clients'[w] = clients[w] \/ clients'[w] = NoGroup
        BY <1>0, <1>5, ReceiveJoinAfter
    <2> QED BY <1>c, <1>q, <2>1, <2>2 DEF ElsewhereSame
<1>6. ASSUME NEW u \in User, ReceiveChat(u) PROVE SeenInv'
    BY <1>a, <1>6, ReceiveChatWrites
<1>7. ASSUME NEW u \in User, ReceivePrint(u) \/ ReceiveOther(u) PROVE SeenInv'
    <2>1. /\ UNCHANGED <<log, applied, casts, caster, seen, context, clients>>
          /\ handler[u].event # "j"
        BY <1>7, <1>e, ReceiveReadWrites
    <2>2. /\ ElsewhereSame(handler, handler', u)
          /\ handler'[u] = handler[u] \/ handler'[u].event = "p"
        BY <1>0, <1>7, ReceiveReadAfter
    <2> QED BY <1>c, <1>q, <2>1, <2>2 DEF ElsewhereSame
<1>8. ASSUME NEW u \in User, WakeJoined(u) PROVE SeenInv'
    <2>1. UNCHANGED <<log, applied, casts, context>>
        BY <1>8, WakeJoinedWrites
    <2>2. /\ ElsewhereSame(handler, handler', u) /\ ElsewhereSame(clients, clients', u)
          /\ ElsewhereSame(seen, seen', u) /\ caster'.group = caster.group
          /\ caster.todo \ {u} \subseteq caster'.todo
        BY <1>0, <1>8, WakeJoinedAfter
    <2>3. SeenOf(u)'
        BY <1>8, SeenWakeJoined
    <2> QED BY <1>b, <2>1, <2>2, <2>3 DEF ElsewhereSame
<1>9. ASSUME NEW u \in User, AnswerReads(u) PROVE SeenInv'
    <2>1. UNCHANGED <<log, applied, casts, caster, clients, context, seen>>
        BY <1>9, AnswerReadsWrites
    <2>2. /\ ElsewhereSame(handler, handler', u) /\ handler'[u].event = handler[u].event
        BY <1>0, <1>9, AnswerReadsAfter
    <2>3. CASE handler[u].event = "j"
        BY <1>9, <1>b, <2>1, <2>2, <2>3, SeenAnswerReads DEF ElsewhereSame
    <2>4. CASE handler[u].event # "j"
        BY <1>c, <1>q, <2>1, <2>2, <2>4 DEF ElsewhereSame
    <2> QED BY <2>3, <2>4
<1>10. ASSUME NEW u \in User, AnswerSent(u) PROVE SeenInv'
    <2>1. UNCHANGED <<log, applied, casts, caster, clients, context>>
        BY <1>10, AnswerSentWrites
    <2>2. ElsewhereSame(handler, handler', u) /\ handler'[u].event = ""
        BY <1>0, <1>10, AnswerSentAfter, IdleParts
    <2>3. ElsewhereSame(seen, seen', u) /\ seen'[u] >= seen[u]
        <3>1. Show(u, handler[u].group, handler[u].at)
            BY <1>10, AnswerSentWrites
        <3>2. handler[u].at \in 0..Len(log)
            BY <1>t, HandlerParts
        <3> QED BY <1>0, <3>1, <3>2, ShowAfter
    <2>4. CASE handler[u].event = "j"
        BY <1>10, <1>b, <2>1, <2>2, <2>3, <2>4, SeenAnswerSent DEF ElsewhereSame
    <2>5. CASE handler[u].event # "j"
        BY <1>c, <2>1, <2>2, <2>3, <2>5 DEF ElsewhereSame
    <2> QED BY <2>4, <2>5
<1>11. ASSUME NEW u \in User, StreamEnds(u) PROVE SeenInv'
    <2>1. UNCHANGED <<log, applied, casts, caster, clients, seen>> /\ handler[u].pc = "recv"
        BY <1>11, StreamEndsWrites
    <2>2. handler[u].event = ""
        BY <2>1 DEF ShapeInv, HandlerInv
    <2>3. /\ ElsewhereSame(handler, handler', u) /\ handler'[u].event = handler[u].event
          /\ ElsewhereSame(context, context', u) /\ context'[u] = "canceled"
        BY <1>0, <1>11, StreamEndsAfter
    <2> QED BY <1>c, <1>q, <2>1, <2>2, <2>3 DEF ElsewhereSame
<1>12. ASSUME NEW u \in User, CastTo(u) PROVE SeenInv'
    <2>1. UNCHANGED <<log, applied, casts, context, handler>>
        BY <1>12, CastToWrites
    <2>2. /\ ElsewhereSame(clients, clients', u) /\ ElsewhereSame(seen, seen', u)
          /\ caster'.group = caster.group /\ caster.todo \ {u} \subseteq caster'.todo
        BY <1>0, <1>12, CastToAfter
    <2>3. SeenOf(u)'
        BY <1>12, SeenCastTo
    <2> QED BY <1>b, <2>1, <2>2, <2>3 DEF ElsewhereSame
<1>13. ASSUME NEW c \in pending, Commit(c) PROVE SeenInv'
    <2>1. /\ UNCHANGED <<applied, casts, caster, clients, seen, handler, context>>
          /\ log' = Append(log, c)
        BY <1>13, CommitWrites
    <2>2. \A i \in 1..applied : log'[i] = log[i]
        <3>1. c \in CommandType /\ applied \in 0..Len(log)
            BY <1>0 DEF ServiceTypeOK
        <3> QED BY <1>t, <2>1, <3>1, AppendProperties
    <2> SUFFICES ASSUME NEW w \in User PROVE SeenOf(w)'
        BY DEF SeenInv
    <2> QED BY <1>0, <1>q, <2>1, <2>2, SeenElsewhere
<1>14. CASE PersistData
    BY <1>14, SeenPersistData DEF SeenInv
<1>15. CASE BroadCast
    BY <1>15, SeenBroadCast DEF SeenInv
<1>16. CASE ConcurrentMapFault \/ Interrupt
    BY <1>16, <1>a, FaultWrites, InterruptWrites
<1> QED BY <1>1, <1>2, <1>3, <1>4, <1>5, <1>6, <1>7, <1>8, <1>9, <1>10, <1>11, <1>12,
           <1>13, <1>14, <1>15, <1>16, NextCases
-----------------------------------------------------------------------------
(***************************************************************************)
(* A user with a name of its own is filed where it was told to be.         *)
(***************************************************************************)

(* A step that leaves the filing of u and what it is told alone. *)
LEMMA FiledKept ==
    ASSUME NEW u \in User, FiledOf(u),
           context[u] = "canceled" => context'[u] = "canceled",
           OwnName(u) /\ context'[u] # "canceled" => clients'[u] = clients[u],
           handler'[u] = handler[u] \/ (handler[u].event # "j" /\ handler'[u].event # "j"),
           session'[u] = "in" => session[u] = "in" \/ group[u] \notin Group,
           group'[u] = group[u]
    PROVE  FiledOf(u)'
BY DEF FiledOf, OwnName

(* Every step keeps FiledInv. *)
LEMMA FiledStep ==
    ASSUME ShapeInv, FiledInv, Next PROVE FiledInv'
<1>0. ServiceTypeOK /\ ClientTypes
    BY TypeParts DEF ShapeInv
<1>a. ASSUME NEW u \in User,
             FiledOf(u) => FiledOf(u)',
             ElsewhereSame(handler, handler', u), ElsewhereSame(session, session', u),
             ElsewhereSame(group, group', u), ElsewhereSame(context, context', u),
             \A w \in User : w # u /\ OwnName(w) => clients'[w] = clients[w]
      PROVE  FiledInv'
    <2> SUFFICES ASSUME NEW w \in User, w # u PROVE FiledOf(w)'
        BY <1>a DEF FiledInv
    <2> QED BY <1>a, FiledKept DEF FiledInv, ElsewhereSame
<1>b. ASSUME UNCHANGED <<context, clients, handler, session, group>> PROVE FiledInv'
    BY <1>b, FiledKept DEF FiledInv
<1>1. ASSUME NEW u \in User, Login(u) PROVE FiledInv'
    <2>1. UNCHANGED <<context, clients, handler, group>> /\ session[u] = "out"
        BY <1>0, <1>1, LoginWrites
    <2>2. ElsewhereSame(session, session', u)
        BY <1>0, <1>1, LoginAfter
    <2>3. group[u] = NoGroup
        BY <2>1 DEF ShapeInv, SessionInv
    <2> QED BY <1>a, <2>1, <2>2, <2>3, FiledKept DEF ElsewhereSame
<1>2. ASSUME NEW u \in User, Quit(u) PROVE FiledInv'
    <2>1. UNCHANGED <<clients, handler, group>>
        BY <1>0, <1>2, QuitWrites
    <2>2. /\ ElsewhereSame(session, session', u) /\ session'[u] = "gone"
          /\ ElsewhereSame(context, context', u)
          /\ context'[u] = IF context[u] = "open" THEN "closed" ELSE context[u]
        BY <1>0, <1>2, QuitAfter
    <2> QED BY <1>a, <2>1, <2>2, FiledKept DEF ElsewhereSame
<1>3. ASSUME NEW u \in User, Vanishing(u) PROVE FiledInv'
    <2>1. UNCHANGED <<clients, handler, group>>
        BY <1>0, <1>3, VanishingWrites
    <2>2. /\ ElsewhereSame(session, session', u) /\ session'[u] = "dead"
          /\ ElsewhereSame(context, context', u)
          /\ context'[u] = IF context[u] = "none" THEN "none" ELSE "canceled"
        BY <1>0, <1>3, VanishingAfter
    <2> QED BY <1>a, <2>1, <2>2, FiledKept DEF ElsewhereSame
<1>4. ASSUME NEW u \in User, NEW g \in Group, Join(u, g) PROVE FiledInv'
    <2>1. UNCHANGED <<clients, handler, group, session>> /\ session[u] = "in"
        BY <1>0, <1>4, JoinWrites
    <2>2. context[u] # "canceled"
        BY <2>1 DEF ShapeInv, SessionInv
    <2>3. ElsewhereSame(context, context', u)
        BY <1>0, <1>4, JoinAfter
    <2> QED BY <1>a, <2>1, <2>2, <2>3, FiledKept DEF ElsewhereSame
<1>5. ASSUME NEW u \in User, Speaking(u) PROVE FiledInv'
    BY <1>0, <1>b, <1>5, SpeakingWrites
<1>6. ASSUME NEW u \in User, ReceiveJoin(u) PROVE FiledInv'
    <2>1. UNCHANGED <<context, session, group>>
        BY <1>6, ReceiveJoinWrites
    <2>2. /\ ElsewhereSame(handler, handler', u)
          /\ handler'[u].pc = "sleep" /\ handler'[u].event = "j"
          /\ \A w \in User : clients'[w] = clients[w] \/ NameOf[w] = NameOf[u]
        BY <1>0, <1>6, ReceiveJoinAfter
    <2>3. FiledOf(u)'
        BY <2>2 DEF FiledOf
    <2> QED BY <1>a, <2>1, <2>2, <2>3 DEF ElsewhereSame, OwnName
<1>7. ASSUME NEW u \in User, ReceiveChat(u) PROVE FiledInv'
    BY <1>b, <1>7, ReceiveChatWrites
<1>8. ASSUME NEW u \in User, ReceivePrint(u) \/ ReceiveOther(u) PROVE FiledInv'
    <2>1. UNCHANGED <<context, session, group, clients>> /\ handler[u].event # "j"
        BY <1>8, ReceiveReadWrites, HeadRequest
    <2>2. /\ ElsewhereSame(handler, handler', u)
          /\ handler'[u] = handler[u] \/ handler'[u].event = "p"
        BY <1>0, <1>8, ReceiveReadAfter
    <2> QED BY <1>a, <2>1, <2>2, FiledKept DEF ElsewhereSame
<1>9. ASSUME NEW u \in User, WakeJoined(u) PROVE FiledInv'
    <2>1. UNCHANGED <<context, session, group>> /\ handler[u].pc = "sleep"
        BY <1>9, WakeJoinedWrites
    <2>2. handler[u].event = "j"
        BY <2>1 DEF ShapeInv, HandlerInv
    <2>3. /\ ElsewhereSame(handler, handler', u) /\ ElsewhereSame(clients, clients', u)
          /\ handler'[u].pc = "get" /\ handler'[u].event = handler[u].event
          /\ handler'[u].group = handler[u].group /\ clients'[u] = handler[u].group
        BY <1>0, <1>9, WakeJoinedAfter
    <2>4. FiledOf(u)'
        BY <2>2, <2>3 DEF FiledOf
    <2> QED BY <1>a, <2>1, <2>3, <2>4 DEF ElsewhereSame
<1>10. ASSUME NEW u \in User, AnswerReads(u) PROVE FiledInv'
    <2>1. UNCHANGED <<context, session, group, clients>> /\ handler[u].pc = "get"
        BY <1>10, AnswerReadsWrites
    <2>2. /\ ElsewhereSame(handler, handler', u) /\ handler'[u].pc = "send"
          /\ handler'[u].event = handler[u].event
          /\ handler'[u].group = GetGroup(handler[u].group)
        BY <1>0, <1>10, AnswerReadsAfter
    <2>3. GetGroup(handler[u].group) \in {handler[u].group, Nil}
        BY DEF GetGroup
    <2>4. FiledOf(u) => FiledOf(u)'
        BY <2>1, <2>2, <2>3 DEF FiledOf, OwnName
    <2> QED BY <1>a, <2>1, <2>2, <2>4 DEF ElsewhereSame
<1>11. ASSUME NEW u \in User, AnswerSent(u) PROVE FiledInv'
    <2>1. UNCHANGED <<context, session, clients>> /\ handler[u].pc = "send"
        BY <1>11, AnswerSentWrites
    <2>2. /\ ElsewhereSame(handler, handler', u) /\ ElsewhereSame(group, group', u)
          /\ handler'[u].event = ""
          /\ group'[u] = IF handler[u].event = "j" /\ session[u] = "in"
                         THEN handler[u].group ELSE group[u]
        BY <1>0, <1>11, AnswerSentAfter, IdleParts
    <2>3. Nil \notin Group
        BY DEF ChatServiceAssumption
    <2>4. FiledOf(u) => FiledOf(u)'
        BY <2>1, <2>2, <2>3 DEF FiledOf, OwnName
    <2> QED BY <1>a, <2>1, <2>2, <2>4 DEF ElsewhereSame
<1>12. ASSUME NEW u \in User, StreamEnds(u) PROVE FiledInv'
    <2>1. UNCHANGED <<session, clients, group>>
        BY <1>12, StreamEndsWrites
    <2>2. /\ ElsewhereSame(handler, handler', u)
          /\ ElsewhereSame(context, context', u) /\ context'[u] = "canceled"
        BY <1>0, <1>12, StreamEndsAfter
    <2>3. FiledOf(u)'
        BY <2>2 DEF FiledOf
    <2> QED BY <1>a, <2>1, <2>2, <2>3 DEF ElsewhereSame
<1>13. ASSUME NEW u \in User, CastTo(u) PROVE FiledInv'
    <2>1. UNCHANGED <<session, context, group, handler>>
        BY <1>13, CastToWrites
    <2>2. /\ ElsewhereSame(clients, clients', u)
          /\ clients'[u] = clients[u] \/ context[u] = "canceled"
        BY <1>0, <1>13, CastToAfter
    <2> QED BY <1>a, <2>1, <2>2, FiledKept DEF ElsewhereSame
<1>14. ASSUME NEW c \in pending, Commit(c) PROVE FiledInv'
    BY <1>b, <1>14, CommitWrites
<1>15. CASE PersistData \/ BroadCast \/ ConcurrentMapFault \/ Interrupt
    BY <1>b, <1>15, PersistDataWrites, BroadCastWrites, FaultWrites, InterruptWrites
<1> QED BY <1>1, <1>2, <1>3, <1>4, <1>5, <1>6, <1>7, <1>8, <1>9, <1>10, <1>11, <1>12,
           <1>13, <1>14, <1>15, NextCases

BroadcastInv == ShapeInv /\ SeenInv /\ FiledInv

(* The broadcast invariant holds at first. *)
LEMMA BroadcastInit ==
    Init => BroadcastInv
<1> SUFFICES ASSUME Init PROVE SeenInv /\ FiledInv
    BY ShapeInit DEF BroadcastInv
<1>1. \A u \in User : clients[u] = NoGroup /\ group[u] = NoGroup /\ handler[u] = Idle
    BY DEF Init
<1>2. NoGroup \notin Group
    BY DEF ChatServiceAssumption
<1> QED BY <1>1, <1>2, IdleParts DEF SeenInv, SeenOf, Filed, FiledInv, FiledOf

(* Every step keeps the broadcast invariant. *)
LEMMA BroadcastStep ==
    ASSUME BroadcastInv, [Next]_vars PROVE BroadcastInv'
<1>1. ShapeInv /\ ShapeInv'
    BY ShapeStep DEF BroadcastInv
<1>2. CASE Next
    BY <1>1, <1>2, SeenStep, FiledStep DEF BroadcastInv
<1>3. CASE UNCHANGED vars
    <2>1. UNCHANGED <<log, applied, casts, caster, clients, seen, handler, context, session,
                      group>>
        BY <1>3 DEF vars, raftVars, castVars, storeVars, streamVars, clientVars, historyVars
    <2>2. SeenInv'
        BY <2>1 DEF BroadcastInv, SeenInv, SeenOf, Filed, WillSee, Touches, Exists
    <2>3. FiledInv'
        BY <2>1 DEF BroadcastInv, FiledInv, FiledOf, OwnName
    <2> QED BY <1>1, <2>2, <2>3 DEF BroadcastInv
<1> QED BY <1>2, <1>3

(* With nothing left to broadcast, what will be seen has been seen. *)
LEMMA BroadcastInvSeen ==
    BroadcastInv => NoChangeUnseen
<1> SUFFICES ASSUME BroadcastInv, NEW u \in User, CastingDone, InGroup(u), OwnName(u)
             PROVE  UpToDate(u)
    BY DEF NoChangeUnseen, OwnName
<1>1. clients[u] = group[u] /\ Filed(u)
    BY DEF BroadcastInv, FiledInv, FiledOf, InGroup, Filed
<1>2. Len(casts) = 0 /\ u \notin caster.todo /\ handler[u].event # "j"
    BY EmptySeq DEF CastingDone, InGroup
<1>3. ASSUME NEW i \in 1..applied, Touches(log[i], group[u]), Exists(group[u], i)
      PROVE  seen[u] >= i
    <2>1. WillSee(u, i)
        BY <1>1, <1>3 DEF BroadcastInv, SeenInv, SeenOf
    <2> QED BY <1>2, <2>1 DEF WillSee
<1> QED BY <1>3 DEF UpToDate

(* No change goes unseen: once everything applied has been broadcast, a    *)
(* client with a name of its own has been shown every change of its        *)
(* group, whatever removed, filed or visited streams meanwhile             *)
(* (BroadCast, AddConn, RemoveConn, and GetGroup after AddConn in          *)
(* JoinGroupChat).                                                         *)
THEOREM NothingGoesUnseen ==
    Spec => []NoChangeUnseen
<1>1. Spec => []BroadcastInv
    BY BroadcastInit, BroadcastStep, PTL DEF Spec
<1> QED BY <1>1, BroadcastInvSeen, PTL
-----------------------------------------------------------------------------
(***************************************************************************)
(* What a step does to the memberships, and to the commands that wait.     *)
(***************************************************************************)

(* The memberships depend on what is applied only. *)
LEMMA MembershipsKept ==
    ASSUME NEW u, applied' = applied, \A i \in 1..applied : log'[i] = log[i],
           applied \in Nat
    PROVE  Memberships(u)' = Memberships(u)
<1>1. \A g \in Group :
          (\E i \in 1..applied :
              /\ Concerns(log[i], u) /\ log[i].new = g
              /\ \A j \in (i + 1)..applied : Concerns(log[j], u) => ~Touches(log[j], g))
          <=>
          (\E i \in 1..applied :
              /\ Concerns(log'[i], u) /\ log'[i].new = g
              /\ \A j \in (i + 1)..applied : Concerns(log'[j], u) => ~Touches(log'[j], g))
    <2>1. \A i \in 1..applied : \A j \in (i + 1)..applied : j \in 1..applied
        OBVIOUS
    <2> QED BY <2>1
<1> QED BY <1>1 DEF Memberships, Concerns, Touches

(* A command that does not concern u leaves u where it is. *)
LEMMA MembershipsPast ==
    ASSUME NEW u, applied' = applied + 1, log' = log, applied \in Nat,
           ~Concerns(log[applied + 1], u)
    PROVE  Memberships(u)' = Memberships(u)
<1>1. ASSUME NEW g
      PROVE
          (\E i \in 1..applied :
              /\ Concerns(log[i], u) /\ log[i].new = g
              /\ \A j \in (i + 1)..applied : Concerns(log[j], u) => ~Touches(log[j], g))
          <=>
          (\E i \in 1..(applied + 1) :
              /\ Concerns(log[i], u) /\ log[i].new = g
              /\ \A j \in (i + 1)..(applied + 1) : Concerns(log[j], u) => ~Touches(log[j], g))
    <2>1. \A i \in 1..(applied + 1) : i \in 1..applied \/ i = applied + 1
        OBVIOUS
    <2>2. \A i \in 1..applied : \A j :
              j \in (i + 1)..(applied + 1) <=> j \in (i + 1)..applied \/ j = applied + 1
        OBVIOUS
    <2> QED BY <2>1, <2>2
<1> QED BY <1>1 DEF Memberships, Concerns, Touches

(* One that does takes u from the groups it touches to the new one. *)
LEMMA MembershipsMove ==
    ASSUME NEW u, applied' = applied + 1, log' = log, applied \in Nat,
           Concerns(log[applied + 1], u)
    PROVE  Memberships(u)' = {g \in Memberships(u) : ~Touches(log[applied + 1], g)}
                             \cup ({log[applied + 1].new} \cap Group)
<1>1. ASSUME NEW g
      PROVE
          (\/ /\ \E i \in 1..applied :
                   /\ Concerns(log[i], u) /\ log[i].new = g
                   /\ \A j \in (i + 1)..applied : Concerns(log[j], u) => ~Touches(log[j], g)
              /\ ~Touches(log[applied + 1], g)
           \/ log[applied + 1].new = g)
          <=>
          (\E i \in 1..(applied + 1) :
              /\ Concerns(log[i], u) /\ log[i].new = g
              /\ \A j \in (i + 1)..(applied + 1) : Concerns(log[j], u) => ~Touches(log[j], g))
    <2>1. \A i \in 1..(applied + 1) : i \in 1..applied \/ i = applied + 1
        OBVIOUS
    <2>2. \A i \in 1..applied : \A j :
              j \in (i + 1)..(applied + 1) <=> j \in (i + 1)..applied \/ j = applied + 1
        OBVIOUS
    <2>3. (applied + 1 + 1)..(applied + 1) = {} /\ applied + 1 \in 1..(applied + 1)
        OBVIOUS
    <2> QED BY <2>1, <2>2, <2>3
<1> QED BY <1>1 DEF Memberships, Concerns, Touches

(* The step adds no join and takes none, nor a quit while the server is up, *)
(* and leaves u where it is.                                               *)
SameCommands(u) ==
    /\ Waits(u, "j")' = Waits(u, "j")
    /\ OneJoin(u) => OneJoin(u)'
    /\ Waits(u, "q") \subseteq Waits(u, "q")'
    /\ up' => Waits(u, "q")' = Waits(u, "q")
    /\ Memberships(u)' = Memberships(u)

(* A step that submits none of its joins and quits. *)
LEMMA SubmittedOther ==
    ASSUME ShapeInv, NEW u \in User, UNCHANGED <<log, applied>>,
           NEW new, pending' = pending \cup new,
           \A c \in new : c.user = u => c.event # "j",
           up' => \A c \in new : c.user = u => c.event # "q"
    PROVE  SameCommands(u)
<1>1. Memberships(u)' = Memberships(u)
    BY DEF Memberships
<1>2. LogOf(u, "j")' = LogOf(u, "j") /\ LogOf(u, "q")' = LogOf(u, "q")
    BY DEF LogOf
<1>3. PendingOf(u, "j")' = PendingOf(u, "j")
    BY DEF PendingOf
<1>4. PendingOf(u, "q") \subseteq PendingOf(u, "q")'
      /\ (up' => PendingOf(u, "q")' = PendingOf(u, "q"))
    BY DEF PendingOf
<1>5. {log'[i] : i \in LogOf(u, "j")'} = {log[i] : i \in LogOf(u, "j")}
      /\ {log'[i] : i \in LogOf(u, "q")'} = {log[i] : i \in LogOf(u, "q")}
    BY <1>2
<1> QED BY <1>1, <1>2, <1>3, <1>4, <1>5 DEF SameCommands, Waits, OneJoin

(* A step that submits nothing. *)
LEMMA NothingSubmitted ==
    ASSUME ShapeInv, NEW u \in User, UNCHANGED <<log, applied, pending>>
    PROVE  SameCommands(u)
<1> DEFINE new == {}
<1>1. /\ pending' = pending \cup new
      /\ \A c \in new : c.user = u => c.event # "j"
      /\ \A c \in new : c.user = u => c.event # "q"
    OBVIOUS
<1> HIDE DEF new
<1> QED BY <1>1, SubmittedOther

(* A command that is committed waits as before, in the log. *)
LEMMA CommittedSame ==
    ASSUME ShapeInv, NEW u \in User, NEW d \in pending, Commit(d)
    PROVE  SameCommands(u)
<1>1. /\ UNCHANGED <<applied, up>> /\ pending' = pending \ {d} /\ log' = Append(log, d)
    BY CommitWrites
<1>2. log \in Seq(CommandType) /\ d \in CommandType /\ applied \in 0..Len(log)
      /\ Len(log) \in Nat /\ applied \in Nat
    BY TypeParts DEF ShapeInv, LogTypes
<1>3. /\ Len(log') = Len(log) + 1 /\ log'[Len(log) + 1] = d
      /\ \A i \in 1..Len(log) : log'[i] = log[i]
    BY ONLY <1>1, <1>2, AppendProperties
<1>4. Memberships(u)' = Memberships(u)
    BY <1>1, <1>2, <1>3, MembershipsKept
<1>5. ASSUME NEW event
      PROVE  /\ d.user = u /\ d.event = event =>
                    /\ d \in PendingOf(u, event)
                    /\ PendingOf(u, event)' = PendingOf(u, event) \ {d}
                    /\ LogOf(u, event)' = LogOf(u, event) \cup {Len(log) + 1}
             /\ ~(d.user = u /\ d.event = event) =>
                    /\ PendingOf(u, event)' = PendingOf(u, event)
                    /\ LogOf(u, event)' = LogOf(u, event)
             /\ LogOf(u, event) \subseteq 1..Len(log)
    <2>1. LogOf(u, event)' =
              {i \in (applied + 1)..(Len(log) + 1) : log'[i].user = u /\ log'[i].event = event}
        BY <1>1, <1>3 DEF LogOf
    <2>2. \A i : i \in (applied + 1)..(Len(log) + 1) <=>
                     i \in (applied + 1)..Len(log) \/ i = Len(log) + 1
        BY <1>2
    <2>3. \A i \in (applied + 1)..Len(log) : i \in 1..Len(log) /\ log'[i] = log[i]
        BY <1>2, <1>3
    <2>4. \A i : i \in LogOf(u, event)' <=>
                     \/ i \in LogOf(u, event)
                     \/ i = Len(log) + 1 /\ d.user = u /\ d.event = event
        BY <1>3, <2>1, <2>2, <2>3 DEF LogOf
    <2>5. LogOf(u, event) \subseteq 1..Len(log)
        BY <2>3 DEF LogOf
    <2>6. \A c : c \in PendingOf(u, event)' <=> c \in PendingOf(u, event) /\ c # d
        BY <1>1 DEF PendingOf
    <2>7. d \in PendingOf(u, event) <=> d.user = u /\ d.event = event
        BY DEF PendingOf
    <2> QED BY <2>4, <2>5, <2>6, <2>7
<1>6. ASSUME NEW event PROVE Waits(u, event)' = Waits(u, event)
    <2>1. ASSUME NEW i \in LogOf(u, event) PROVE log'[i] = log[i]
        BY <1>3, <1>5
    <2>2. CASE d.user = u /\ d.event = event
        BY <1>3, <1>5, <2>1, <2>2 DEF Waits
    <2>3. CASE ~(d.user = u /\ d.event = event)
        BY <1>5, <2>1, <2>3 DEF Waits
    <2> QED BY <2>2, <2>3
<1>7. OneJoin(u) => OneJoin(u)'
    <2>1. CASE d.user = u /\ d.event = "j"
        BY <1>5, <2>1 DEF OneJoin
    <2>2. CASE ~(d.user = u /\ d.event = "j")
        BY <1>5, <2>2 DEF OneJoin
    <2> QED BY <2>1, <2>2
<1> QED BY <1>4, <1>6, <1>7 DEF SameCommands
-----------------------------------------------------------------------------
(***************************************************************************)
(* Where a user is, when a step leaves its commands alone.                 *)
(***************************************************************************)

(* The joins in the stream are some of those that were there, d places     *)
(* further back.                                                           *)
StreamMoved(u, d) ==
    \A i \in 1..Len(inbox'[u]) : inbox'[u][i].event = "j" =>
        i + d \in 1..Len(inbox[u]) /\ inbox[u][i + d] = inbox'[u][i]

(* A step of somebody else, or one that only moves the stream. *)
LEMMA MemberKept ==
    ASSUME NEW u \in User, MemberOf(u), SameCommands(u), up' => up,
           session'[u] = session[u] \/ session'[u] = "dead",
           activeusergroup'[u] = activeusergroup[u], group'[u] = group[u],
           \/ handler'[u] = handler[u]
           \/ /\ handler[u].event # "j" /\ handler[u].pc # "sleep"
              /\ handler'[u].event # "j" /\ handler'[u].pc # "sleep",
           NEW d \in Nat, StreamMoved(u, d),
           Len(inbox'[u]) \in Nat, Len(inbox[u]) \in Nat
    PROVE  MemberOf(u)'
<1>1. Target(u)' = Target(u)
    BY DEF Target
<1>2. ToldInv(u)'
    BY DEF MemberOf, ToldInv
<1>3. StreamJoinInv(u)'
    <2> SUFFICES ASSUME NEW i \in 1..Len(inbox'[u]), inbox'[u][i].event = "j"
                 PROVE  /\ inbox'[u][i].group = activeusergroup'[u]
                        /\ handler'[u].event # "j"
                        /\ Waits(u, "j")' = {}
                        /\ \A k \in 1..Len(inbox'[u]) : inbox'[u][k].event = "j" => i = k
        BY DEF StreamJoinInv, JoinAt
    <2>1. JoinAt(u, i + d) /\ inbox[u][i + d] = inbox'[u][i]
        BY DEF StreamMoved, JoinAt
    <2>2. /\ inbox[u][i + d].group = activeusergroup[u] /\ handler[u].event # "j"
          /\ Waits(u, "j") = {}
          /\ \A k \in 1..Len(inbox[u]) : JoinAt(u, k) => i + d = k
        BY <2>1 DEF MemberOf, StreamJoinInv, JoinAt
    <2>3. ASSUME NEW k \in 1..Len(inbox'[u]), inbox'[u][k].event = "j" PROVE i = k
        <3>1. k + d \in 1..Len(inbox[u]) /\ JoinAt(u, k + d)
            BY <2>3 DEF StreamMoved, JoinAt
        <3>2. i + d = k + d
            BY <2>2, <3>1
        <3> QED BY <3>2
    <2> QED BY <2>1, <2>2, <2>3 DEF SameCommands
<1>4. JoinInv(u)'
    BY <1>1 DEF MemberOf, JoinInv, SameCommands
<1>5. QuitInv(u)'
    <2>1. \A i \in 1..Len(inbox'[u]) : JoinAt(u, i)' => JoinAt(u, i + d)
        BY DEF StreamMoved, JoinAt
    <2> QED BY <2>1 DEF MemberOf, QuitInv, SameCommands, JoinAt
<1> QED BY <1>2, <1>3, <1>4, <1>5 DEF MemberOf

(* A stream that is not touched. *)
LEMMA StreamKept ==
    ASSUME NEW u \in User, ServiceTypeOK, inbox'[u] = inbox[u]
    PROVE  StreamMoved(u, 0) /\ Len(inbox[u]) \in Nat
<1>1. inbox[u] \in Seq(RequestType)
    BY TypesFunctions
<1> QED BY <1>1, LenProperties DEF StreamMoved
-----------------------------------------------------------------------------
(***************************************************************************)
(* Where a user is, when it is the user that moves.                        *)
(***************************************************************************)

(* A settled user has no join anywhere. *)
LEMMA Settled ==
    ASSUME ServiceTypeOK, NEW u \in User, ~Unsettled(u)
    PROVE  /\ handler[u].event # "j" /\ Waits(u, "j") = {}
           /\ \A i \in 1..Len(inbox[u]) : inbox[u][i].event # "j"
<1>1. DOMAIN inbox[u] = 1..Len(inbox[u])
    <2>1. inbox[u] \in Seq(RequestType)
        BY TypesFunctions
    <2> QED BY <2>1, LenProperties
<1> QED BY <1>1 DEF Unsettled, Waits, PendingOf, LogOf

(* A user who logs in is nowhere. *)
LEMMA LoginMember ==
    ASSUME ShapeInv, NEW u \in User, Login(u), MemberOf(u)
    PROVE  MemberOf(u)'
<1>0. ServiceTypeOK /\ ClientTypes
    BY TypeParts DEF ShapeInv
<1>1. /\ UNCHANGED <<log, applied, up, inbox, handler, group, context>>
      /\ session[u] = "out" /\ up
      /\ pending' = pending \cup {Command(count, "u", u, NoGroup, NoGroup)}
    BY <1>0, LoginWrites
<1>2. /\ session'[u] = "in" /\ activeusergroup'[u] = NoGroup
    BY <1>0, LoginAfter
<1>3. /\ activeusergroup[u] = NoGroup /\ group[u] = NoGroup /\ handler[u].pc = "recv"
      /\ handler[u].event # "j" /\ inbox[u] = <<>>
    BY <1>1 DEF ShapeInv, SessionInv, HandlerInv
<1>4. SameCommands(u)
    <2> DEFINE new == {Command(count, "u", u, NoGroup, NoGroup)}
    <2>1. \A c \in new : c.event # "j" /\ c.event # "q"
        BY DEF Command
    <2>2. pending' = pending \cup new
        BY <1>1
    <2> HIDE DEF new
    <2> QED BY <1>1, <2>1, <2>2, SubmittedOther
<1>5. Target(u) = NoGroup /\ Target(u)' = NoGroup /\ NoGroup \notin Group
    BY <1>1, <1>2, <1>3 DEF Target, ChatServiceAssumption
<1>6. ToldInv(u)'
    BY <1>1, <1>2, <1>3 DEF ToldInv
<1>7. StreamJoinInv(u)'
    BY <1>1, <1>3, EmptySeq DEF StreamJoinInv
<1>8. JoinInv(u)'
    BY <1>4, <1>5 DEF MemberOf, JoinInv, SameCommands
<1>9. QuitInv(u)'
    BY <1>1, <1>2, <1>4 DEF MemberOf, QuitInv, SameCommands
<1> QED BY <1>6, <1>7, <1>8, <1>9 DEF MemberOf

(* A settled user asks for a join, naming the group noted for it. *)
LEMMA JoinMember ==
    ASSUME ShapeInv, NEW u \in User, NEW g \in Group, Join(u, g), MemberOf(u), ~Unsettled(u)
    PROVE  MemberOf(u)'
<1>0. ServiceTypeOK /\ ClientTypes
    BY TypeParts DEF ShapeInv
<1>1. /\ UNCHANGED <<log, pending, applied, up, activeusergroup, handler, session, group>>
      /\ session[u] = "in" /\ group[u] # Nil
    BY <1>0, JoinWrites
<1>2. PICK request : Asked(u, request) /\ request.event = "j" /\ request.group = group[u]
    BY <1>0, JoinWrites
<1>3. /\ Len(inbox[u]) \in Nat /\ Len(inbox'[u]) = Len(inbox[u]) + 1
      /\ \A i \in 1..Len(inbox[u]) : inbox'[u][i] = inbox[u][i]
      /\ inbox'[u][Len(inbox[u]) + 1] = request
    BY <1>0, <1>2, AskedAfter
<1>4. /\ handler[u].event # "j" /\ Waits(u, "j") = {}
      /\ \A i \in 1..Len(inbox[u]) : inbox[u][i].event # "j"
    BY <1>0, Settled
<1>5. SameCommands(u)
    BY <1>1, NothingSubmitted
<1>6. request.group = activeusergroup[u]
    BY <1>1, <1>2, <1>4 DEF MemberOf, ToldInv
<1>7. Target(u)' = Target(u) /\ ToldInv(u)'
    BY <1>1 DEF Target, MemberOf, ToldInv
<1>8. StreamJoinInv(u)'
    <2>1. \A i \in 1..Len(inbox'[u]) : inbox'[u][i].event = "j" => i = Len(inbox[u]) + 1
        BY <1>3, <1>4
    <2> QED BY <1>1, <1>2, <1>3, <1>4, <1>5, <1>6, <2>1
            DEF StreamJoinInv, JoinAt, SameCommands
<1>9. JoinInv(u)'
    BY <1>1, <1>5, <1>7 DEF MemberOf, JoinInv, SameCommands
<1>10. QuitInv(u)'
    BY <1>1, <1>5 DEF MemberOf, QuitInv, SameCommands
<1> QED BY <1>7, <1>8, <1>9, <1>10 DEF MemberOf

(* A settled user logs out of the group noted for it, the one it is in. *)
LEMMA QuitMember ==
    ASSUME ShapeInv, NEW u \in User, Quit(u), MemberOf(u), ~Unsettled(u)
    PROVE  MemberOf(u)'
<1>0. ServiceTypeOK /\ ClientTypes
    BY TypeParts DEF ShapeInv
<1>1. /\ UNCHANGED <<log, applied, up, activeusergroup, inbox, handler, group>>
      /\ session[u] = "in" /\ group[u] # Nil
      /\ pending' = pending \cup {Command(count, "q", u, group[u], NoGroup)}
    BY <1>0, QuitWrites
<1>2. session'[u] = "gone"
    BY <1>0, QuitAfter
<1>3. /\ handler[u].event # "j" /\ Waits(u, "j") = {}
      /\ \A i \in 1..Len(inbox[u]) : inbox[u][i].event # "j"
    BY <1>0, Settled
<1>4. group[u] = activeusergroup[u]
    BY <1>1, <1>3 DEF MemberOf, ToldInv
<1> DEFINE c == Command(count, "q", u, group[u], NoGroup)
<1>5. c.event = "q" /\ c.user = u /\ c.group = group[u]
    BY DEF Command
<1> HIDE DEF c
<1>6. /\ PendingOf(u, "j")' = PendingOf(u, "j") /\ LogOf(u, "j")' = LogOf(u, "j")
      /\ c \in PendingOf(u, "q")'
    <2>1. pending' = pending \cup {c}
        BY <1>1 DEF c
    <2> QED BY <1>1, <1>5, <2>1 DEF PendingOf, LogOf
<1>7. /\ Waits(u, "j")' = {} /\ OneJoin(u)' /\ c \in Waits(u, "q")'
      /\ Memberships(u)' = Memberships(u)
    <2>1. Memberships(u)' = Memberships(u)
        BY <1>1 DEF Memberships
    <2>2. Waits(u, "j")' = {} /\ c \in Waits(u, "q")'
        BY <1>1, <1>3, <1>6 DEF Waits
    <2>3. OneJoin(u)'
        BY <1>6 DEF MemberOf, JoinInv, OneJoin
    <2> QED BY <2>1, <2>2, <2>3
<1>8. Target(u)' = Target(u)
    BY <1>1 DEF Target
<1>9. ToldInv(u)' /\ StreamJoinInv(u)'
    BY <1>1, <1>2, <1>3 DEF MemberOf, ToldInv, StreamJoinInv, JoinAt
<1>10. JoinInv(u)'
    BY <1>2, <1>3, <1>7, <1>8 DEF MemberOf, JoinInv
<1>11. QuitInv(u)'
    BY <1>1, <1>2, <1>3, <1>4, <1>5, <1>7 DEF QuitInv, JoinAt
<1> QED BY <1>9, <1>10, <1>11 DEF MemberOf

(* A join is submitted: it leads from the group noted to the one asked     *)
(* for.                                                                    *)
LEMMA ReceiveJoinMember ==
    ASSUME ShapeInv, NEW u \in User, ReceiveJoin(u), MemberOf(u)
    PROVE  MemberOf(u)'
<1>0. ServiceTypeOK
    BY DEF ShapeInv
<1> DEFINE request == Head(inbox[u])
           c == Command(request.id, "j", u, request.group, request.new)
<1>1. /\ UNCHANGED <<log, applied, up, activeusergroup, session, group>>
      /\ Receives(u, "j") /\ pending' = pending \cup {c}
    BY ReceiveJoinWrites
<1>2. /\ handler'[u].pc = "sleep" /\ handler'[u].event = "j"
      /\ handler'[u].group = request.new
    BY <1>0, ReceiveJoinAfter
<1>3. /\ Len(inbox[u]) \in Nat \ {0} /\ Len(inbox'[u]) = Len(inbox[u]) - 1
      /\ \A i \in 1..(Len(inbox[u]) - 1) : inbox'[u][i] = inbox[u][i + 1]
      /\ inbox[u][1] = request
    BY <1>1, ReceivesAfter
<1>4. handler[u].pc = "recv" /\ request.event = "j"
    BY <1>1, HeadRequest, ZenonT(60)
<1>5. c.event = "j" /\ c.user = u /\ c.group = request.group /\ c.new = request.new
    BY DEF Command
<1> HIDE DEF c
<1>6. JoinAt(u, 1) /\ 1 \in 1..Len(inbox[u])
    BY <1>3, <1>4 DEF JoinAt
<1>7. /\ request.group = activeusergroup[u] /\ handler[u].event # "j" /\ Waits(u, "j") = {}
      /\ \A k \in 1..Len(inbox[u]) : JoinAt(u, k) => k = 1
    BY <1>3, <1>6 DEF MemberOf, StreamJoinInv
<1> HIDE DEF request
<1>8. Target(u) = activeusergroup[u] /\ Target(u)' = c.new
    BY <1>2, <1>4, <1>5 DEF Target
<1>9. /\ PendingOf(u, "j")' = {c} /\ LogOf(u, "j")' = {} /\ Waits(u, "j")' = {c}
      /\ Waits(u, "q")' = Waits(u, "q") /\ Memberships(u)' = Memberships(u)
    <2>1. PendingOf(u, "j") = {} /\ LogOf(u, "j") = {}
        BY <1>7 DEF Waits
    <2>2. PendingOf(u, "j")' = {c} /\ PendingOf(u, "q")' = PendingOf(u, "q")
        BY <1>1, <1>5, <2>1 DEF PendingOf
    <2>3. LogOf(u, "j")' = {} /\ LogOf(u, "q")' = LogOf(u, "q")
        BY <1>1, <2>1 DEF LogOf
    <2>4. Memberships(u)' = Memberships(u)
        BY <1>1 DEF Memberships
    <2> QED BY <1>1, <2>2, <2>3, <2>4 DEF Waits
<1>10. ToldInv(u)'
    BY <1>1, <1>2, <1>7 DEF MemberOf, ToldInv
<1>11. \A i \in 1..Len(inbox'[u]) : inbox'[u][i].event # "j"
    <2> SUFFICES ASSUME NEW i \in 1..Len(inbox'[u]), inbox'[u][i].event = "j" PROVE FALSE
        OBVIOUS
    <2>1. i + 1 \in 1..Len(inbox[u]) /\ JoinAt(u, i + 1) /\ i + 1 # 1
        BY <1>3 DEF JoinAt
    <2> QED BY <1>7, <2>1
<1>12. StreamJoinInv(u)'
    BY <1>11 DEF StreamJoinInv, JoinAt
<1>13. JoinInv(u)'
    <2>1. Memberships(u) \subseteq {c.group}
        BY <1>5, <1>7, <1>8 DEF MemberOf, JoinInv
    <2> QED BY <1>8, <1>9, <2>1 DEF JoinInv, OneJoin
<1>14. QuitInv(u)'
    <2>1. session[u] # "gone"
        BY <1>6 DEF MemberOf, QuitInv
    <2> QED BY <1>1, <1>9, <2>1 DEF MemberOf, QuitInv
<1> QED BY <1>10, <1>12, <1>13, <1>14 DEF MemberOf

(* The rest of a join notes its target, and tells the client. *)
LEMMA JoinAnswerMember ==
    ASSUME ShapeInv, NEW u \in User, WakeJoined(u) \/ AnswerReads(u) \/ AnswerSent(u),
           handler[u].event = "j", MemberOf(u)
    PROVE  MemberOf(u)'
<1>0. ServiceTypeOK
    BY DEF ShapeInv
<1>1. UNCHANGED <<log, pending, applied, up, inbox, session>>
    BY WakeJoinedWrites, AnswerReadsWrites, AnswerSentWrites
<1>2. SameCommands(u)
    BY <1>1, NothingSubmitted
<1>3. session[u] # "gone" /\ \A i \in 1..Len(inbox[u]) : ~JoinAt(u, i)
    BY DEF MemberOf, QuitInv, StreamJoinInv
<1>4. StreamJoinInv(u)'
    BY <1>1, <1>3 DEF StreamJoinInv, JoinAt
<1>5. QuitInv(u)'
    BY <1>1, <1>2, <1>3 DEF MemberOf, QuitInv, SameCommands
<1>6. Target(u)' = Target(u) /\ ToldInv(u)'
    <2>1. CASE WakeJoined(u)
        <3>1. group' = group /\ handler[u].pc = "sleep"
            BY <2>1, WakeJoinedWrites
        <3>2. /\ handler'[u].pc = "get" /\ handler'[u].event = handler[u].event
              /\ handler'[u].group = handler[u].group
              /\ activeusergroup'[u] = handler[u].group
            BY <1>0, <2>1, WakeJoinedAfter
        <3> QED BY <3>1, <3>2 DEF Target, ToldInv
    <2>2. CASE AnswerReads(u)
        <3>1. group' = group /\ activeusergroup' = activeusergroup /\ handler[u].pc = "get"
            BY <2>2, AnswerReadsWrites
        <3>2. /\ handler'[u].pc = "send" /\ handler'[u].event = handler[u].event
              /\ handler'[u].group = GetGroup(handler[u].group)
            BY <1>0, <2>2, AnswerReadsAfter
        <3>3. GetGroup(handler[u].group) \in {handler[u].group, Nil}
            BY DEF GetGroup
        <3> QED BY <3>1, <3>2, <3>3 DEF Target, MemberOf, ToldInv
    <2>3. CASE AnswerSent(u)
        <3>1. activeusergroup' = activeusergroup /\ handler[u].pc = "send"
            BY <2>3, AnswerSentWrites
        <3>2. /\ handler'[u].pc = "recv" /\ handler'[u].event = ""
              /\ session[u] = "in" => group'[u] = handler[u].group
            BY <1>0, <2>3, AnswerSentAfter, IdleParts
        <3> QED BY <1>1, <3>1, <3>2 DEF Target, MemberOf, ToldInv
    <2> QED BY <2>1, <2>2, <2>3
<1>7. JoinInv(u)'
    BY <1>1, <1>2, <1>6 DEF MemberOf, JoinInv, SameCommands
<1> QED BY <1>4, <1>5, <1>6, <1>7 DEF MemberOf

(* What is applied takes the user where it should: out of its group by a   *)
(* quit, to its target by a join.                                          *)
LEMMA PersistDataMember ==
    ASSUME ShapeInv, NEW u \in User, PersistData, MemberOf(u)
    PROVE  MemberOf(u)'
<1> DEFINE d == log[applied + 1]
<1>1. /\ UNCHANGED <<log, pending, up, activeusergroup, inbox, handler, session, group>>
      /\ up /\ applied < Len(log) /\ applied' = applied + 1
    BY PersistDataWrites
<1>2. LogTypes
    BY TypeParts DEF ShapeInv
<1>3. /\ applied \in Nat /\ Len(log) \in Nat /\ d \in CommandType
      /\ d.event # "j" => d.new = NoGroup
    BY <1>1, <1>2 DEF LogTypes, ShapeInv, CommandInv, Proper
<1>4. ASSUME NEW event
      PROVE  /\ applied + 1 \in LogOf(u, event) <=> d.user = u /\ d.event = event
             /\ LogOf(u, event)' = LogOf(u, event) \ {applied + 1}
             /\ PendingOf(u, event)' = PendingOf(u, event)
    <2>1. applied + 1 \in LogOf(u, event) <=> d.user = u /\ d.event = event
        BY <1>1, <1>3 DEF LogOf
    <2>2. \A i : i \in (applied + 1 + 1)..Len(log) <=>
                     i \in (applied + 1)..Len(log) /\ i # applied + 1
        BY <1>1, <1>3
    <2>3. LogOf(u, event)' = LogOf(u, event) \ {applied + 1}
        BY <1>1, <2>2 DEF LogOf
    <2> QED BY <1>1, <2>1, <2>3 DEF PendingOf
<1>5. ASSUME NEW event
      PROVE  /\ Waits(u, event)' \subseteq Waits(u, event)
             /\ \A c \in Waits(u, event) : c # d => c \in Waits(u, event)'
             /\ ~(d.user = u /\ d.event = event) => Waits(u, event)' = Waits(u, event)
             /\ d.user = u /\ d.event = event => d \in Waits(u, event)
    BY <1>1, <1>4 DEF Waits
<1> HIDE DEF d
<1>6. Target(u)' = Target(u) /\ ToldInv(u)'
    BY <1>1 DEF Target, MemberOf, ToldInv
<1>7. StreamJoinInv(u)'
    BY <1>1, <1>5 DEF MemberOf, StreamJoinInv, JoinAt
<1>8. OneJoin(u)'
    BY <1>4 DEF MemberOf, JoinInv, OneJoin
<1>9. CASE ~Concerns(d, u)
    <2>1. Waits(u, "j")' = Waits(u, "j") /\ Waits(u, "q")' = Waits(u, "q")
        BY <1>5, <1>9 DEF Concerns
    <2>2. Memberships(u)' = Memberships(u)
        BY <1>1, <1>3, <1>9, MembershipsPast DEF d
    <2>3. JoinInv(u)'
        BY <1>1, <1>6, <1>8, <2>1, <2>2 DEF MemberOf, JoinInv
    <2>4. QuitInv(u)'
        BY <1>1, <2>1, <2>2 DEF MemberOf, QuitInv, JoinAt
    <2> QED BY <1>6, <1>7, <2>3, <2>4 DEF MemberOf
<1>10. CASE d.user = u /\ d.event = "q"
    <2>1. Memberships(u)' = {g \in Memberships(u) : ~Touches(d, g)}
        <3>1. Concerns(d, u) /\ d.new \notin Group
            BY <1>3, <1>10 DEF Concerns, ChatServiceAssumption
        <3>2. Memberships(u)' = {g \in Memberships(u) : ~Touches(d, g)} \cup ({d.new} \cap Group)
            BY <1>1, <1>3, <3>1, MembershipsMove DEF d
        <3> QED BY <3>1, <3>2
    <2>2. /\ Waits(u, "j")' = Waits(u, "j") /\ d \in Waits(u, "q")
          /\ Waits(u, "q")' \subseteq Waits(u, "q")
        BY <1>5, <1>10
    <2>3. JoinInv(u)'
        <3>1. ~(up /\ session[u] = "in")
            BY <2>2 DEF MemberOf, QuitInv
        <3> QED BY <1>1, <1>6, <1>8, <2>1, <2>2, <3>1 DEF MemberOf, JoinInv
    <2>4. ASSUME session[u] = "gone", Memberships(u)' # {}
          PROVE  \E c \in Waits(u, "q")' : c.group = activeusergroup[u]
        <3>1. /\ handler[u].event # "j" /\ Waits(u, "j") = {} /\ Memberships(u) # {}
            BY <2>1, <2>4 DEF MemberOf, QuitInv
        <3>2. PICK c \in Waits(u, "q") : c.group = activeusergroup[u]
            BY <2>4, <3>1 DEF MemberOf, QuitInv
        <3>3. Memberships(u) \subseteq {activeusergroup[u]}
            BY <3>1 DEF MemberOf, JoinInv, Target, ShapeInv, HandlerInv
        <3>4. c # d
            <4> SUFFICES ASSUME c = d PROVE FALSE
                OBVIOUS
            <4>1. Touches(d, activeusergroup[u])
                BY <1>10, <3>2 DEF Touches
            <4> QED BY <2>1, <2>4, <3>3, <4>1
        <3> QED BY <1>5, <3>2, <3>4
    <2>5. QuitInv(u)'
        BY <1>1, <2>2, <2>4 DEF MemberOf, QuitInv, JoinAt
    <2> QED BY <1>6, <1>7, <2>3, <2>5 DEF MemberOf
<1>11. CASE d.user = u /\ d.event = "j"
    <2>1. Waits(u, "j")' = {} /\ Waits(u, "q")' = Waits(u, "q") /\ d \in Waits(u, "j")
        <3>1. LogOf(u, "j") = {applied + 1} /\ PendingOf(u, "j") = {}
            BY <1>4, <1>11 DEF MemberOf, JoinInv, OneJoin
        <3>2. LogOf(u, "j")' = {} /\ PendingOf(u, "j")' = {}
            BY <1>4, <3>1
        <3>3. Waits(u, "j")' = {}
            BY <3>2 DEF Waits
        <3> QED BY <1>5, <1>11, <3>3
    <2>2. d.new = Target(u) /\ Memberships(u) \subseteq {d.group}
        BY <2>1 DEF MemberOf, JoinInv
    <2>3. Memberships(u)' = {Target(u)} \cap Group
        <3>1. Concerns(d, u) /\ Touches(d, d.group)
            BY <1>11 DEF Concerns, Touches
        <3>2. Memberships(u)' = {g \in Memberships(u) : ~Touches(d, g)} \cup ({d.new} \cap Group)
            BY <1>1, <1>3, <3>1, MembershipsMove DEF d
        <3> QED BY <2>2, <3>1, <3>2
    <2>4. JoinInv(u)'
        BY <1>6, <1>8, <2>1, <2>3 DEF JoinInv
    <2>5. QuitInv(u)'
        BY <1>1, <2>1 DEF MemberOf, QuitInv
    <2> QED BY <1>6, <1>7, <2>4, <2>5 DEF MemberOf
<1> QED BY <1>9, <1>10, <1>11 DEF Concerns

(* Nothing moves in the stream. *)
LEMMA MemberStill ==
    ASSUME ServiceTypeOK, NEW w \in User, MemberOf(w), SameCommands(w), up' => up,
           session'[w] = session[w] \/ session'[w] = "dead",
           activeusergroup'[w] = activeusergroup[w], group'[w] = group[w],
           inbox'[w] = inbox[w],
           \/ handler'[w] = handler[w]
           \/ /\ handler[w].event # "j" /\ handler[w].pc # "sleep"
              /\ handler'[w].event # "j" /\ handler'[w].pc # "sleep"
    PROVE  MemberOf(w)'
<1>1. StreamMoved(w, 0) /\ Len(inbox[w]) \in Nat /\ Len(inbox'[w]) \in Nat /\ 0 \in Nat
    BY StreamKept
<1> QED BY <1>1, MemberKept

(* A client's step, for the client w. *)
LEMMA MemberClient ==
    ASSUME ShapeInv, NEW u \in User, NEW w \in User, MemberOf(w), up' => up, w \notin hasty',
           \/ Login(u) \/ Quit(u) \/ Speaking(u) \/ Vanishing(u) \/ \E g \in Group : Join(u, g)
    PROVE  MemberOf(w)'
<1>0. ServiceTypeOK /\ ClientTypes
    BY TypeParts DEF ShapeInv
<1>1. ASSUME u # w, SameCommands(w), UNCHANGED <<handler, group>>,
             ElsewhereSame(session, session', u), ElsewhereSame(inbox, inbox', u),
             ElsewhereSame(activeusergroup, activeusergroup', u)
      PROVE  MemberOf(w)'
    BY <1>0, <1>1, MemberStill DEF ElsewhereSame
<1>2. \A f : ElsewhereSame(f, f, u)
    BY DEF ElsewhereSame
<1>3. CASE Login(u)
    <2>1. CASE u = w
        BY <1>3, <2>1, LoginMember
    <2>2. CASE u # w
        <3> DEFINE new == {Command(count, "u", u, NoGroup, NoGroup)}
        <3>1. /\ UNCHANGED <<log, applied, inbox, handler, group>>
              /\ pending' = pending \cup new
            BY <1>0, <1>3, LoginWrites
        <3>2. \A c \in new : c.user # w
            BY <2>2 DEF Command
        <3> HIDE DEF new
        <3>3. SameCommands(w)
            BY <3>1, <3>2, SubmittedOther
        <3>4. ElsewhereSame(session, session', u)
              /\ ElsewhereSame(activeusergroup, activeusergroup', u)
            BY <1>0, <1>3, LoginAfter
        <3> QED BY <1>1, <1>2, <2>2, <3>1, <3>3, <3>4
    <2> QED BY <2>1, <2>2
<1>4. CASE Quit(u)
    <2>1. CASE u = w
        <3>1. hasty' = hasty \cup {v \in {u} : Unsettled(u)}
            BY <1>0, <1>4, QuitWrites
        <3>2. ~Unsettled(u)
            BY <2>1, <3>1
        <3> QED BY <1>4, <2>1, <3>2, QuitMember
    <2>2. CASE u # w
        <3> DEFINE new == {Command(count, "q", u, group[u], NoGroup)}
        <3>1. /\ UNCHANGED <<log, applied, inbox, handler, group, activeusergroup>>
              /\ pending' = pending \cup new
            BY <1>0, <1>4, QuitWrites
        <3>2. \A c \in new : c.user # w
            BY <2>2 DEF Command
        <3> HIDE DEF new
        <3>3. SameCommands(w)
            BY <3>1, <3>2, SubmittedOther
        <3>4. ElsewhereSame(session, session', u)
            BY <1>0, <1>4, QuitAfter
        <3> QED BY <1>1, <1>2, <2>2, <3>1, <3>3, <3>4
    <2> QED BY <2>1, <2>2
<1>5. CASE Speaking(u)
    <2>1. UNCHANGED <<log, pending, applied, handler, group, activeusergroup, session>>
        BY <1>0, <1>5, SpeakingWrites
    <2>2. SameCommands(w)
        BY <2>1, NothingSubmitted
    <2>3. PICK request : Asked(u, request) /\ request.event # "j"
        BY <1>0, <1>5, SpeakingWrites
    <2>4. /\ Len(inbox[u]) \in Nat /\ Len(inbox'[u]) = Len(inbox[u]) + 1
          /\ \A i \in 1..Len(inbox[u]) : inbox'[u][i] = inbox[u][i]
          /\ inbox'[u][Len(inbox[u]) + 1] = request
          /\ ElsewhereSame(inbox, inbox', u)
        BY <1>0, <2>3, AskedAfter
    <2>5. CASE u = w
        <3>1. StreamMoved(u, 0)
            BY <2>3, <2>4 DEF StreamMoved
        <3>2. Len(inbox[u]) \in Nat /\ Len(inbox'[u]) \in Nat /\ 0 \in Nat
            BY <2>4
        <3> QED BY <2>1, <2>2, <2>5, <3>1, <3>2, MemberKept
    <2>6. CASE u # w
        BY <1>1, <1>2, <2>1, <2>2, <2>4, <2>6
    <2> QED BY <2>5, <2>6
<1>6. CASE Vanishing(u)
    <2>1. UNCHANGED <<log, pending, applied, handler, group, activeusergroup, inbox>>
        BY <1>0, <1>6, VanishingWrites
    <2>2. SameCommands(w)
        BY <2>1, NothingSubmitted
    <2>3. session'[u] = "dead" /\ ElsewhereSame(session, session', u)
        BY <1>0, <1>6, VanishingAfter
    <2> QED BY <1>0, <2>1, <2>2, <2>3, MemberStill DEF ElsewhereSame
<1>7. ASSUME NEW g \in Group, Join(u, g) PROVE MemberOf(w)'
    <2>1. CASE u = w
        <3>1. hasty' = hasty \cup {v \in {u} : Unsettled(u)}
            BY <1>0, <1>7, JoinWrites
        <3>2. ~Unsettled(u)
            BY <2>1, <3>1
        <3> QED BY <1>7, <2>1, <3>2, JoinMember
    <2>2. CASE u # w
        <3>1. UNCHANGED <<log, pending, applied, handler, group, activeusergroup, session>>
            BY <1>0, <1>7, JoinWrites
        <3>2. PICK request : Asked(u, request)
            BY <1>0, <1>7, JoinWrites
        <3>3. ElsewhereSame(inbox, inbox', u)
            BY <1>0, <3>2, AskedAfter
        <3>4. SameCommands(w)
            BY <3>1, NothingSubmitted
        <3> QED BY <1>1, <1>2, <2>2, <3>1, <3>3, <3>4
    <2> QED BY <2>1, <2>2
<1> QED BY <1>3, <1>4, <1>5, <1>6, <1>7

(* A step of the handler of stream u, for the client w. *)
LEMMA MemberHandler ==
    ASSUME ShapeInv, NEW u \in User, NEW w \in User, MemberOf(w), up' => up,
           \/ ReceiveJoin(u) \/ ReceiveChat(u) \/ ReceivePrint(u) \/ ReceiveOther(u)
           \/ WakeJoined(u) \/ AnswerReads(u) \/ AnswerSent(u) \/ StreamEnds(u) \/ CastTo(u)
    PROVE  MemberOf(w)'
<1>0. ServiceTypeOK
    BY DEF ShapeInv
<1>1. ASSUME u # w, SameCommands(w), session' = session,
             ElsewhereSame(handler, handler', u), ElsewhereSame(group, group', u),
             ElsewhereSame(inbox, inbox', u),
             ElsewhereSame(activeusergroup, activeusergroup', u)
      PROVE  MemberOf(w)'
    BY <1>0, <1>1, MemberStill DEF ElsewhereSame
<1>2. \A f : ElsewhereSame(f, f, u)
    BY DEF ElsewhereSame
<1>a. ASSUME NEW event, Receives(u, event), event # "j"
      PROVE  /\ StreamMoved(u, 1) /\ Len(inbox[u]) \in Nat /\ Len(inbox'[u]) \in Nat
             /\ 1 \in Nat /\ handler[u].event # "j" /\ handler[u].pc # "sleep"
             /\ ElsewhereSame(inbox, inbox', u)
    <2>1. /\ Len(inbox[u]) \in Nat \ {0} /\ Len(inbox'[u]) = Len(inbox[u]) - 1
          /\ \A i \in 1..(Len(inbox[u]) - 1) : inbox'[u][i] = inbox[u][i + 1]
          /\ ElsewhereSame(inbox, inbox', u)
        BY <1>a, ReceivesAfter
    <2>2. handler[u].event # "j" /\ handler[u].pc # "sleep"
        BY <1>a, HeadRequest
    <2>3. StreamMoved(u, 1)
        BY <2>1 DEF StreamMoved
    <2> QED BY <2>1, <2>2, <2>3
<1>3. CASE ReceiveJoin(u)
    <2>1. CASE u = w
        BY <1>3, <2>1, ReceiveJoinMember
    <2>2. CASE u # w
        <3> DEFINE new == {Command(Head(inbox[u]).id, "j", u, Head(inbox[u]).group,
                               Head(inbox[u]).new)}
        <3>1. /\ UNCHANGED <<log, applied, session, group, activeusergroup>>
              /\ Receives(u, "j") /\ pending' = pending \cup new
            BY <1>3, ReceiveJoinWrites
        <3>2. \A c \in new : c.user # w
            BY <2>2 DEF Command
        <3> HIDE DEF new
        <3>3. SameCommands(w)
            BY <3>1, <3>2, SubmittedOther
        <3>4. ElsewhereSame(inbox, inbox', u)
            BY <3>1, ReceivesAfter
        <3>5. ElsewhereSame(handler, handler', u)
            BY <1>0, <1>3, ReceiveJoinAfter
        <3> QED BY <1>1, <1>2, <2>2, <3>1, <3>3, <3>4, <3>5
    <2> QED BY <2>1, <2>2
<1>4. CASE ReceiveChat(u)
    <2> DEFINE new == {Command(Head(inbox[u]).id, Head(inbox[u]).event, u,
                           Head(inbox[u]).group, NoGroup)}
    <2>1. /\ UNCHANGED <<log, applied, session, group, activeusergroup, handler>>
          /\ pending' = pending \cup new
        BY <1>4, ReceiveChatWrites
    <2>2. PICK event \in ChatEvent : Receives(u, event)
        BY <1>4, ReceiveChatWrites
    <2>3. event # "j" /\ event # "q" /\ Head(inbox[u]).event = event
        BY <2>2, HeadRequest
    <2>4. \A c \in new : c.event # "j" /\ c.event # "q"
        BY <2>3 DEF Command
    <2> HIDE DEF new
    <2>5. SameCommands(w)
        BY <2>1, <2>4, SubmittedOther
    <2>6. CASE u = w
        BY <1>a, <2>1, <2>2, <2>3, <2>5, <2>6, MemberKept
    <2>7. CASE u # w
        BY <1>1, <1>2, <1>a, <2>1, <2>2, <2>3, <2>5, <2>7
    <2> QED BY <2>6, <2>7
<1>5. CASE ReceivePrint(u) \/ ReceiveOther(u)
    <2>1. UNCHANGED <<log, applied, pending, session, group, activeusergroup>>
        BY <1>5, ReceiveReadWrites
    <2>2. PICK event \in {"p", ""} : Receives(u, event)
        BY <1>5, ReceiveReadWrites
    <2>3. SameCommands(w)
        BY <2>1, NothingSubmitted
    <2>4. /\ \/ handler'[u] = handler[u]
             \/ handler'[u].pc = "get" /\ handler'[u].event = "p"
          /\ ElsewhereSame(handler, handler', u)
        BY <1>0, <1>5, ReceiveReadAfter
    <2>5. CASE u = w
        BY <1>a, <2>1, <2>2, <2>3, <2>4, <2>5, MemberKept
    <2>6. CASE u # w
        BY <1>1, <1>2, <1>a, <2>1, <2>2, <2>3, <2>4, <2>6
    <2> QED BY <2>5, <2>6
<1>6. CASE WakeJoined(u) \/ AnswerReads(u) \/ AnswerSent(u)
    <2>1. UNCHANGED <<log, applied, pending, session, inbox>>
        BY <1>6, WakeJoinedWrites, AnswerReadsWrites, AnswerSentWrites
    <2>2. SameCommands(w)
        BY <2>1, NothingSubmitted
    <2>3. CASE u = w /\ handler[u].event = "j"
        BY <1>6, <2>3, JoinAnswerMember
    <2>4. CASE u = w /\ handler[u].event # "j"
        <3>1. ~WakeJoined(u)
            BY <2>4, WakeJoinedWrites DEF ShapeInv, HandlerInv
        <3>2. activeusergroup' = activeusergroup /\ handler[u].pc # "sleep"
            BY <1>6, <3>1, AnswerReadsWrites, AnswerSentWrites
        <3>3. CASE AnswerReads(u)
            <4>1. group' = group
                BY <3>3, AnswerReadsWrites
            <4>2. handler'[u].pc = "send" /\ handler'[u].event = handler[u].event
                BY <1>0, <3>3, AnswerReadsAfter
            <4> QED BY <1>0, <2>1, <2>2, <2>4, <3>2, <4>1, <4>2, MemberStill
        <3>4. CASE AnswerSent(u)
            <4>1. /\ handler'[u].pc = "recv" /\ handler'[u].event = ""
                  /\ group'[u] = group[u]
                BY <1>0, <2>4, <3>4, AnswerSentAfter, IdleParts
            <4> QED BY <1>0, <2>1, <2>2, <2>4, <3>2, <4>1, MemberStill
        <3> QED BY <1>6, <3>1, <3>3, <3>4
    <2>5. CASE u # w
        <3>1. ElsewhereSame(handler, handler', u)
            BY <1>0, <1>6, WakeJoinedAfter, AnswerReadsAfter, AnswerSentAfter
        <3>2. ElsewhereSame(group, group', u)
            BY <1>0, <1>2, <1>6, WakeJoinedWrites, AnswerReadsWrites, AnswerSentAfter
        <3>3. ElsewhereSame(activeusergroup, activeusergroup', u)
            BY <1>0, <1>2, <1>6, WakeJoinedAfter, AnswerReadsWrites, AnswerSentWrites, ZenonT(60)
        <3> QED BY <1>1, <1>2, <2>1, <2>2, <2>5, <3>1, <3>2, <3>3
    <2> QED BY <2>3, <2>4, <2>5
<1>7. CASE StreamEnds(u)
    <2>1. /\ UNCHANGED <<log, applied, pending, session, group, activeusergroup>>
          /\ handler[u].pc = "recv"
        BY <1>7, StreamEndsWrites
    <2>2. SameCommands(w)
        BY <2>1, NothingSubmitted
    <2>3. /\ handler'[u].pc = "returned" /\ handler'[u].event = handler[u].event
          /\ ElsewhereSame(handler, handler', u)
          /\ inbox'[u] = <<>> /\ ElsewhereSame(inbox, inbox', u)
        BY <1>0, <1>7, StreamEndsAfter
    <2>4. handler[u].event = ""
        BY <2>1 DEF ShapeInv, HandlerInv
    <2>5. CASE u = w
        <3>1. Len(inbox'[u]) = 0 /\ 0 \in Nat /\ Len(inbox[u]) \in Nat
            <4>1. inbox[u] \in Seq(RequestType)
                BY <1>0, TypesFunctions
            <4> QED BY <2>3, <4>1, EmptySeq, LenProperties
        <3>2. StreamMoved(u, 0)
            BY <3>1 DEF StreamMoved
        <3> QED BY <2>1, <2>2, <2>3, <2>4, <2>5, <3>1, <3>2, MemberKept
    <2>6. CASE u # w
        BY <1>1, <1>2, <2>1, <2>2, <2>3, <2>6
    <2> QED BY <2>5, <2>6
<1>8. CASE CastTo(u)
    <2>1. UNCHANGED <<log, applied, pending, session, group, activeusergroup, handler, inbox>>
        BY <1>8, CastToWrites
    <2>2. SameCommands(w)
        BY <2>1, NothingSubmitted
    <2> QED BY <1>0, <2>1, <2>2, MemberStill
<1> QED BY <1>3, <1>4, <1>5, <1>6, <1>7, <1>8

(* Every step keeps MemberInv. *)
LEMMA MemberStep ==
    ASSUME ShapeInv, MemberInv, Next PROVE MemberInv'
<1>0. ServiceTypeOK /\ ClientTypes
    BY TypeParts DEF ShapeInv
<1>1. up' => up
    BY ServerStaysDown
<1> SUFFICES ASSUME NEW w \in User, w \notin hasty' PROVE MemberOf(w)'
    BY DEF MemberInv
<1>a. ASSUME hasty \subseteq hasty' PROVE MemberOf(w)
    BY <1>a DEF MemberInv
<1>b. ASSUME hasty' = hasty, SameCommands(w),
             UNCHANGED <<handler, inbox, session, group, activeusergroup>>
      PROVE  MemberOf(w)'
    BY <1>0, <1>1, <1>a, <1>b, MemberStill
<1>2. ASSUME NEW u \in User,
             \/ Login(u) \/ Quit(u) \/ Speaking(u) \/ Vanishing(u) \/ \E g \in Group : Join(u, g)
      PROVE  MemberOf(w)'
    <2>1. hasty \subseteq hasty'
        BY <1>0, <1>2, LoginWrites, QuitWrites, SpeakingWrites, VanishingWrites, JoinWrites
    <2> QED BY <1>1, <1>2, <1>a, <2>1, MemberClient
<1>3. ASSUME NEW u \in User,
             \/ ReceiveJoin(u) \/ ReceiveChat(u) \/ ReceivePrint(u) \/ ReceiveOther(u)
             \/ WakeJoined(u) \/ AnswerReads(u) \/ AnswerSent(u) \/ StreamEnds(u) \/ CastTo(u)
      PROVE  MemberOf(w)'
    <2>1. hasty' = hasty
        BY <1>3, ReceiveJoinWrites, ReceiveChatWrites, ReceiveReadWrites, WakeJoinedWrites,
           AnswerReadsWrites, AnswerSentWrites, StreamEndsWrites, CastToWrites
    <2> QED BY <1>1, <1>3, <1>a, <2>1, MemberHandler
<1>4. ASSUME NEW c \in pending, Commit(c) PROVE MemberOf(w)'
    BY <1>4, <1>b, CommitWrites, CommittedSame
<1>5. CASE PersistData
    BY <1>5, <1>a, PersistDataWrites, PersistDataMember
<1>6. CASE BroadCast \/ ConcurrentMapFault
    <2>1. UNCHANGED <<log, applied, pending, hasty, handler, inbox, session, group,
                      activeusergroup>>
        BY <1>6, BroadCastWrites, FaultWrites
    <2> QED BY <1>b, <2>1, NothingSubmitted
<1>7. CASE Interrupt
    <2> DEFINE new == {Command(count, "q", u, activeusergroup[u], NoGroup) : u \in activeusers}
    <2>1. /\ UNCHANGED <<log, applied, hasty, handler, inbox, session, group, activeusergroup>>
          /\ up' = FALSE /\ pending' = pending \cup new
        BY <1>7, InterruptWrites
    <2>2. \A c \in new : c.event # "j"
        BY DEF Command
    <2> HIDE DEF new
    <2>3. SameCommands(w)
        BY <2>1, <2>2, SubmittedOther
    <2> QED BY <1>b, <2>1, <2>3
<1> QED BY <1>2, <1>3, <1>4, <1>5, <1>6, <1>7, NextCases

(* The members' invariant, with the shape it rests on. *)
MembersInv == ShapeInv /\ MemberInv

(* Nobody is anywhere at first. *)
LEMMA MembersInit ==
    Init => MembersInv
<1> SUFFICES ASSUME Init, NEW u \in User PROVE MemberOf(u)
    BY ShapeInit DEF MembersInv, MemberInv
<1>1. /\ log = <<>> /\ pending = {} /\ applied = 0 /\ handler[u] = Idle /\ inbox[u] = <<>>
      /\ session[u] = "out" /\ group[u] = NoGroup /\ activeusergroup[u] = NoGroup
    BY DEF Init
<1>2. Len(log) = 0 /\ Len(inbox[u]) = 0
    BY <1>1, EmptySeq
<1>3. Memberships(u) = {}
    BY <1>1 DEF Memberships
<1>4. \A event : PendingOf(u, event) = {} /\ LogOf(u, event) = {}
    BY <1>1, <1>2 DEF PendingOf, LogOf
<1>5. \A event : Waits(u, event) = {}
    BY <1>4 DEF Waits
<1>6. ToldInv(u) /\ StreamJoinInv(u)
    <2>1. ToldInv(u)
        BY <1>1, IdleParts DEF ToldInv
    <2>2. 1..Len(inbox[u]) = {}
        BY <1>2
    <2> QED BY <2>1, <2>2 DEF StreamJoinInv
<1>7. JoinInv(u)
    BY <1>1, <1>3, <1>4, <1>5 DEF JoinInv, OneJoin
<1>8. QuitInv(u)
    BY <1>1, <1>5 DEF QuitInv
<1> QED BY <1>6, <1>7, <1>8 DEF MemberOf

(* Every step keeps the invariant of the members. *)
LEMMA MembersStep ==
    ASSUME MembersInv, [Next]_vars PROVE MembersInv'
<1>1. ShapeInv /\ ShapeInv'
    BY ShapeStep DEF MembersInv
<1>2. CASE Next
    BY <1>1, <1>2, MemberStep DEF MembersInv
<1>3. CASE UNCHANGED vars
    <2>1. UNCHANGED <<log, pending, applied, up, activeusergroup, inbox, handler, session,
                      group, hasty>>
        BY <1>3 DEF vars, raftVars, storeVars, streamVars, clientVars, historyVars
    <2>2. ASSUME NEW w \in User, w \notin hasty' PROVE MemberOf(w)'
        <3>1. MemberOf(w) /\ ServiceTypeOK
            BY <1>1, <2>1, <2>2 DEF MembersInv, MemberInv, ShapeInv
        <3>2. SameCommands(w)
            BY <1>1, <2>1, NothingSubmitted
        <3> QED BY <2>1, <3>1, <3>2, MemberStill
    <2> QED BY <1>1, <2>2 DEF MembersInv, MemberInv
<1> QED BY <1>2, <1>3

(* With nothing under way a member is where it was told to be. *)
LEMMA MembersInvWhereTold ==
    MembersInv => MemberWhereTold
<1> SUFFICES ASSUME MembersInv, NEW u \in User \ hasty, up, Done(u), group[u] # Nil
             PROVE  /\ session[u] = "in" => Memberships(u) = {group[u]} \ {NoGroup}
                    /\ session[u] = "gone" => Memberships(u) = {}
    BY DEF MemberWhereTold
<1>0. MemberOf(u) /\ ServiceTypeOK /\ group[u] \in GroupName /\ HandlerInv
    BY DEF MembersInv, MemberInv, ShapeInv, ServiceTypeOK
<1>1. handler[u].event # "j" /\ Waits(u, "j") = {}
    BY <1>0, Settled DEF Done
<1>2. Waits(u, "q") = {}
    BY DEF Done, Waits, PendingOf, LogOf, Concerns
<1>3. handler[u].pc # "sleep" /\ Target(u) = activeusergroup[u]
    BY <1>0, <1>1 DEF HandlerInv, Target
<1>4. Memberships(u) \subseteq {activeusergroup[u]} /\ Memberships(u) \subseteq Group
    BY <1>0, <1>1, <1>3 DEF MemberOf, JoinInv, Memberships
<1>5. CASE session[u] = "in"
    <2>1. group[u] = activeusergroup[u]
        BY <1>0, <1>1, <1>5 DEF MemberOf, ToldInv
    <2>2. group[u] \in Group => group[u] \in Memberships(u)
        BY <1>0, <1>1, <1>3, <1>5, <2>1 DEF MemberOf, JoinInv
    <2> QED BY <1>0, <1>4, <1>5, <2>1, <2>2 DEF GroupName, ChatServiceAssumption
<1>6. CASE session[u] = "gone"
    BY <1>0, <1>2, <1>6 DEF MemberOf, QuitInv
<1> QED BY <1>5, <1>6

(* Where a client believes to be is where it is, for everybody who lets    *)
(* each join take effect before the next and before the logout, in         *)
(* whatever order the commands are committed (JoinGroupChat, UserLogout,   *)
(* AddUser).                                                               *)
THEOREM MembersWhereTold ==
    Spec => []MemberWhereTold
<1>1. Spec => []MembersInv
    BY MembersInit, MembersStep, PTL DEF Spec
<1> QED BY <1>1, MembersInvWhereTold, PTL
-----------------------------------------------------------------------------
(***************************************************************************)
(* Who is logged out by an interrupt.                                      *)
(***************************************************************************)

(* Once the server is down, only the clients' lives go on. *)
LEMMA DownOnlyVanish ==
    ASSUME ShapeInv, Next, ~up PROVE \E u \in User : Vanishing(u)
<1>0. ClientTypes
    BY TypeParts DEF ShapeInv
<1>1. ASSUME NEW u \in User,
             \/ Login(u) \/ Quit(u) \/ Speaking(u) \/ \E g \in Group : Join(u, g)
             \/ ReceiveJoin(u) \/ ReceiveChat(u) \/ ReceivePrint(u) \/ ReceiveOther(u)
      PROVE  FALSE
    <2>1. CASE Login(u) \/ Quit(u) \/ Speaking(u) \/ \E g \in Group : Join(u, g)
        BY <1>0, <2>1, LoginWrites, QuitWrites, SpeakingWrites, JoinWrites
    <2>2. CASE ReceiveJoin(u) \/ ReceiveChat(u) \/ ReceivePrint(u) \/ ReceiveOther(u)
        <3>1. \E event : Receives(u, event)
            BY <2>2, ReceiveJoinWrites, ReceiveChatWrites, ReceiveReadWrites
        <3> QED BY <3>1 DEF Receives
    <2> QED BY <1>1, <2>1, <2>2
<1>2. ASSUME NEW u \in User, \/ WakeJoined(u) \/ AnswerReads(u) \/ AnswerSent(u)
                             \/ StreamEnds(u) \/ CastTo(u)
      PROVE  FALSE
    BY <1>2 DEF WakeJoined, AnswerReads, AnswerSent, StreamEnds, CastTo
<1>3. ASSUME NEW c \in pending, Commit(c) PROVE FALSE
    BY <1>3, CommitWrites
<1>4. CASE PersistData \/ BroadCast \/ ConcurrentMapFault \/ Interrupt
    BY <1>4, PersistDataWrites, BroadCastWrites, FaultWrites, InterruptWrites
<1> QED BY <1>1, <1>2, <1>3, <1>4, NextCases

(* Only an interrupt is noted. *)
LEMMA InterruptedKept ==
    ASSUME ShapeInv, Next, ~Interrupt PROVE interrupted' = interrupted
<1>0. ClientTypes
    BY TypeParts DEF ShapeInv
<1>1. ASSUME NEW u \in User,
             \/ Login(u) \/ Quit(u) \/ Speaking(u) \/ Vanishing(u) \/ \E g \in Group : Join(u, g)
      PROVE  interrupted' = interrupted
    BY <1>0, <1>1, LoginWrites, QuitWrites, SpeakingWrites, VanishingWrites, JoinWrites
<1>2. ASSUME NEW u \in User,
             \/ ReceiveJoin(u) \/ ReceiveChat(u) \/ ReceivePrint(u) \/ ReceiveOther(u)
             \/ WakeJoined(u) \/ AnswerReads(u) \/ AnswerSent(u) \/ StreamEnds(u) \/ CastTo(u)
      PROVE  interrupted' = interrupted
    BY <1>2, ReceiveJoinWrites, ReceiveChatWrites, ReceiveReadWrites, WakeJoinedWrites,
       AnswerReadsWrites, AnswerSentWrites, StreamEndsWrites, CastToWrites
<1>3. ASSUME NEW c \in pending, Commit(c) PROVE interrupted' = interrupted
    BY <1>3, CommitWrites
<1>4. CASE PersistData \/ BroadCast \/ ConcurrentMapFault
    BY <1>4, PersistDataWrites, BroadCastWrites, FaultWrites
<1> QED BY <1>1, <1>2, <1>3, <1>4, NextCases

(* Every step keeps InterruptInv. *)
LEMMA InterruptStep ==
    ASSUME ShapeInv, MemberInv, InterruptInv, Next PROVE InterruptInv'
<1>0. ServiceTypeOK /\ ClientTypes /\ HandlerInv
    BY TypeParts DEF ShapeInv
<1>1. CASE Interrupt
    <2>1. /\ UNCHANGED <<log, applied, activeusers, hasty>> /\ up' = FALSE
          /\ interrupted' = IF \E u \in User : Unsettled(u) THEN "hasty" ELSE "calm"
          /\ pending' = pending \cup
                 {Command(count, "q", u, activeusergroup[u], NoGroup) : u \in activeusers}
        BY <1>1, InterruptWrites
    <2>2. ASSUME interrupted' = "calm", NEW u \in activeusers, u \notin hasty,
                 NEW g \in Memberships(u)
          PROVE  \E c \in pending' : c.user = u /\ c.event = "q" /\ c.group = g
        <3>1. ~Unsettled(u) /\ u \in User
            BY <1>0, <2>1, <2>2 DEF ServiceTypeOK
        <3>2. MemberOf(u)
            BY <2>2, <3>1 DEF MemberInv
        <3>3. handler[u].event # "j" /\ Waits(u, "j") = {}
            BY <1>0, <3>1, Settled
        <3>4. Target(u) = activeusergroup[u]
            BY <1>0, <3>1, <3>3 DEF HandlerInv, Target
        <3>5. g = activeusergroup[u]
            BY <2>2, <3>2, <3>3, <3>4 DEF MemberOf, JoinInv
        <3> DEFINE c == Command(count, "q", u, activeusergroup[u], NoGroup)
        <3>6. c.user = u /\ c.event = "q" /\ c.group = g
            BY <3>5 DEF Command
        <3>7. c \in pending'
            BY <2>1
        <3> HIDE DEF c
        <3> QED BY <3>6, <3>7
    <2>3. \A u : Memberships(u)' = Memberships(u)
        BY <2>1 DEF Memberships
    <2>4. NobodyLeftBehind'
        BY <2>1, <2>2, <2>3 DEF NobodyLeftBehind
    <2> QED BY <2>1, <2>4 DEF InterruptInv
<1>2. CASE ~Interrupt
    <2>1. interrupted' = interrupted /\ (up' => up)
        BY <1>2, InterruptedKept, ServerStaysDown
    <2>2. interrupted' # "no" => ~up'
        BY <2>1 DEF InterruptInv
    <2>3. ASSUME interrupted' = "calm" PROVE NobodyLeftBehind'
        <3>1. ~up
            BY <2>1, <2>3 DEF InterruptInv
        <3>2. UNCHANGED <<log, pending, applied, activeusers, hasty, interrupted>>
            BY <1>0, <3>1, DownOnlyVanish, VanishingWrites
        <3>3. \A u : Memberships(u)' = Memberships(u)
            BY <3>2 DEF Memberships
        <3> QED BY <3>2, <3>3 DEF InterruptInv, NobodyLeftBehind
    <2>4. NobodyLeftBehind'
        BY <2>3 DEF NobodyLeftBehind
    <2> QED BY <2>2, <2>4 DEF InterruptInv
<1> QED BY <1>1, <1>2

(* Nobody has interrupted the server at first. *)
LEMMA InterruptInit ==
    Init => InterruptInv
BY DEF Init, InterruptInv, NobodyLeftBehind

(* InterruptInv survives a stuttering step. *)
LEMMA InterruptUnchanged ==
    ASSUME InterruptInv, UNCHANGED vars PROVE InterruptInv'
<1>1. UNCHANGED <<log, pending, applied, up, activeusers, hasty, interrupted>>
    BY DEF vars, raftVars, storeVars, historyVars
<1>2. \A u : Memberships(u)' = Memberships(u)
    BY <1>1 DEF Memberships
<1>3. NobodyLeftBehind'
    BY <1>1, <1>2 DEF InterruptInv, NobodyLeftBehind
<1> QED BY <1>1, <1>3 DEF InterruptInv

(* An interrupt logs everybody out of every group they are in, the dead    *)
(* and the gone included, unless somebody was joining                      *)
(* (RemoveActiveUsers).                                                    *)
THEOREM InterruptLogsEverybodyOut ==
    Spec => []NobodyLeftBehind
<1>1. Init => MembersInv /\ InterruptInv
    BY MembersInit, InterruptInit
<1>2. ASSUME MembersInv /\ InterruptInv, [Next]_vars PROVE (MembersInv /\ InterruptInv)'
    <2>1. MembersInv'
        BY <1>2, MembersStep
    <2>2. InterruptInv'
        BY <1>2, InterruptStep, InterruptUnchanged DEF MembersInv
    <2> QED BY <2>1, <2>2
<1>3. Spec => [](MembersInv /\ InterruptInv)
    BY <1>1, <1>2, PTL DEF Spec
<1>4. MembersInv /\ InterruptInv => NobodyLeftBehind
    BY DEF InterruptInv
<1> QED BY <1>3, <1>4, PTL
=============================================================================
