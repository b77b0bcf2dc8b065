---------------------------- MODULE ClientProofs ----------------------------
(***************************************************************************)
(* Theorems about ChatClient, for any number of connections, lines typed   *)
(* and menus shown.                                                        *)
(***************************************************************************)
EXTENDS ChatClient, FiniteSetTheorems, TLAPS

-----------------------------------------------------------------------------
(***************************************************************************)
(* The inductive invariant, in three parts.                                *)
(***************************************************************************)

(* Where main is with its connections.  A connection has one stream at     *)
(* most, its sender reads lines only while main waits for it, and done is  *)
(* closed by the sender that has ended.                                    *)
StreamInv ==
    /\ main # "address" => conns \in Conn
    /\ \A c \in Conn :
          /\ sender[c] # "none" => c < conns \/ (c = conns /\ main \in {"stream", "address"})
          /\ sender[c] \in {"on", "logout"} => c = conns /\ main = "stream"
          /\ done[c] = 0 \/ (done[c] = 1 /\ sender[c] = "ended")

LoggingIn == main \in {"login", "login served"}

(* Whose names are where: in an account, in a store, in a call of          *)
(* UserLogout and in what was seen at the signal there are only users who  *)
(* have asked for a login on that connection.                              *)
UserNames ==
    \A c \in Conn :
        /\ logins[c] \subseteq 1..inputs
        /\ account[c] \subseteq logins[c]
        /\ user[c] \in logins[c] \cup {NoUser}
        /\ atSignal[c] \in logins[c] \cup {NoUser}
        /\ link[c] \in {"none", "connecting"} => logins[c] = {}
        /\ c > conns => link[c] = "none"

(* Main logs in, and shows menus, only where it has been connected.        *)
PromptNames ==
    /\ LoggingIn => inputs \in logins[conns]
    /\ main \in {"address", "dialing"} \/ link[conns] \notin {"none", "connecting"}

(* When UserLogout is called: by main and by the sender once the user is   *)
(* done with the connection, by the others after the signal.  A call made  *)
(* with nobody logged in returns at once.                                  *)
Leaving == main \in {"logout", "eof", "stream", "address"}

CallName(l) ==
    /\ l.user \in logins[l.conn] \cup {NoUser}
    /\ l.user = NoUser => l.pc = "returned"
    /\ IF l.who[1] = "watcher" THEN signals = 1
       ELSE l.conn < conns \/ (l.conn = conns /\ Leaving)

CallNames == \A l \in logouts : CallName(l)

SignalNames == \A w \in watchers : w.pc # "on" => signals = 1

NamesInv == UserNames /\ PromptNames /\ CallNames /\ SignalNames

AtMostOne(S) == \A x, y \in S : x = y

(* While a connection has seen one login at most: the user is in nobody's  *)
(* hands before the login is answered, an empty store means an empty       *)
(* account (but for the moment between the login and its answer), and a    *)
(* call of UserLogout that has been served leaves an empty account.        *)
OneLogin(c) == AtMostOne(logins[c]) /\ link[c] = "ready"

CallDone(l, c) ==
    /\ l.pc # "sent" /\ l.user # NoUser => account[c] = {}
    /\ l.pc = "returned" /\ l.who[1] # "watcher" => account[c] = {}
    /\ l.pc = "returned" => atSignal[c] \notin account[c]

LogoutDone(c) ==
    /\ c = conns /\ LoggingIn =>
          /\ user[c] = NoUser /\ atSignal[c] = NoUser
          /\ \A l \in logouts : l.conn = c => l.user = NoUser
    /\ c = conns /\ main = "login" => account[c] = {}
    /\ user[c] = NoUser => account[c] = {} \/ (c = conns /\ main = "login served")
    /\ c < conns \/ main = "address" => account[c] = {}
    /\ done[c] > 0 => account[c] = {}
    /\ \A l \in logouts : l.conn = c => CallDone(l, c)
    /\ ended = [how |-> "eof", conn |-> c] => account[c] = {}
    /\ ended = [how |-> "interrupt", conn |-> c] => atSignal[c] \notin account[c]

LogoutInv == \A c \in Conn : OneLogin(c) => LogoutDone(c)

ClientInv == ClientTypeOK /\ StreamInv /\ NamesInv /\ LogoutInv
-----------------------------------------------------------------------------
(***************************************************************************)
(* Types.                                                                  *)
(***************************************************************************)
USE ChatClientAssumption DEF promptVars, connVars, streamVars, historyVars

(* What the server may owe a stream. *)
LEMMA AnswersTyped ==
    <<>> \in Seq({"j", "p"}) /\ <<"j">> \in Seq({"j", "p"}) /\ <<"p">> \in Seq({"j", "p"})
OBVIOUS

(* A goroutine of a health check moves on, and so does a logout. *)
LEMMA MovesTyped ==
    ASSUME NEW w \in Watcher, NEW pc \in {"on", "signalled", "logout"}
    PROVE  [w EXCEPT !.pc = pc] \in Watcher
BY DEF Watcher

(* So does a call of UserLogout. *)
LEMMA CallTyped ==
    ASSUME NEW l \in LogoutCall, NEW pc \in {"sent", "served", "returned"}
    PROVE  [l EXCEPT !.pc = pc] \in LogoutCall
BY DEF LogoutCall

(* The user types one more line. *)
LEMMA TypesTyped ==
    ASSUME ClientTypeOK, Types
    PROVE  /\ Up /\ inputs' = inputs + 1 /\ inputs' \in 0..MaxInputs /\ inputs' \in Login
           /\ signals' = signals /\ signals' \in 0..1
<1>1. Up /\ inputs < MaxInputs /\ inputs' = inputs + 1 /\ signals' = signals
    BY DEF Types
<1>2. inputs \in 0..MaxInputs /\ signals \in 0..1
    BY Zenon DEF ClientTypeOK
<1>3. inputs' \in 0..MaxInputs /\ inputs' \in Login
    BY <1>1, <1>2 DEF Login
<1> QED BY <1>1, <1>2, <1>3

(* However the program ends, the outcome is one of the known ones. *)
LEMMA EndsTyped ==
    ASSUME NEW how \in {"quit", "killed", "interrupt", "disconnected", "eof", "fatal", "panic"},
           NEW c \in Conn \cup {0}, Ends(how, c)
    PROVE  ended' \in Outcome
<1>1. c \in 0..MaxConns
    BY DEF Conn
<1> QED BY <1>1 DEF Ends, Outcome

(* UserLogout makes a call or ends the program. *)
LEMMA UserLogoutTyped ==
    ASSUME ClientTypeOK, NEW who \in Who, NEW c \in Conn, UserLogout(who, c)
    PROVE  logouts' \in SUBSET LogoutCall /\ user' = user /\ ended' \in Outcome
<1>1. Calls(who, c) \in LogoutCall
    BY DEF Calls, LogoutCall, ClientTypeOK
<1>2. [Calls(who, c) EXCEPT !.pc = IF user[c] = NoUser THEN "returned" ELSE "sent"]
          \in LogoutCall
    BY <1>1, CallTyped
<1>3. CASE group[c] = "nil"
    BY <1>3, EndsTyped DEF UserLogout, ClientTypeOK
<1>4. CASE group[c] # "nil"
    BY <1>2, <1>4 DEF UserLogout, GoesOn, ClientTypeOK
<1> QED BY <1>3, <1>4

(* A call that has returned is forgotten. *)
LEMMA ReturnedTyped ==
    ASSUME ClientTypeOK, NEW who, NEW c, Returned(who, c)
    PROVE  logouts' \in SUBSET LogoutCall
BY DEF Returned, ClientTypeOK

(* What main does keeps the types. *)
LEMMA PromptTypeOK ==
    ASSUME ClientInv, PromptStep PROVE ClientTypeOK'
<1> USE DEF ClientInv, ClientTypeOK, Types, GoesOn, Conn, Login
<1>1. CASE Dial
    BY <1>1 DEF Dial
<1>2. CASE LeaveProgram
    BY <1>2, EndsTyped DEF LeaveProgram
<1>3. CASE ShowMenu
    <2>1. conns \in 1..MaxConns /\ inputs \in 0..MaxInputs
        BY <1>3 DEF ShowMenu, StreamInv
    <2>2. [conn |-> conns, number |-> inputs, pc |-> "on"] \in Watcher
        BY <2>1 DEF Watcher
    <2>3. watchers' \in SUBSET Watcher
        BY <1>3, <2>2, Zenon DEF ShowMenu
    <2> QED BY <1>3, <2>3 DEF ShowMenu
<1>4. CASE MenuOther
    BY <1>4 DEF MenuOther
<1>5. CASE MenuView
    <2>1. ended' \in Outcome
        BY <1>5, EndsTyped DEF MenuView, ServerView, StreamInv
    <2>2. main' \in {"again", "menu"} /\ UNCHANGED streamVars
        BY <1>5 DEF MenuView, ServerView
    <2>3. Types /\ UNCHANGED <<conns, connVars, watchers, logouts, historyVars>>
        BY <1>5 DEF MenuView
    <2>4. inputs' \in 0..MaxInputs /\ signals' \in 0..1
        BY <2>3, TypesTyped
    <2>5. main' \in {"address", "dialing", "again", "menu", "login", "login served",
                 "logout", "eof", "stream"}
        BY <2>2
    <2> QED BY <2>1, <2>2, <2>3, <2>4, <2>5, Zenon
<1>6. CASE MenuQuit
    <2>1. <<"main", 0>> \in Who /\ conns \in Conn
        BY <1>6 DEF MenuQuit, Who, StreamInv
    <2> QED BY <1>6, <2>1, UserLogoutTyped DEF MenuQuit
<1>7. CASE MenuQuitDone
    BY <1>7, ReturnedTyped DEF MenuQuitDone
<1>8. CASE MenuEof
    <2>1. <<"main", 0>> \in Who /\ conns \in Conn
        BY <1>8 DEF MenuEof, Who, StreamInv
    <2> QED BY <1>8, <2>1, UserLogoutTyped DEF MenuEof
<1>9. CASE MenuEofDone
    BY <1>9, ReturnedTyped, EndsTyped DEF MenuEofDone, StreamInv
<1>10. CASE UserLogin
    BY <1>10 DEF UserLogin, StreamInv
<1>11. CASE LoginServed
    <2>1. conns \in Conn /\ inputs \in Login
        BY <1>11 DEF LoginServed, StreamInv, NamesInv, UserNames, PromptNames, LoggingIn
    <2>2. account' \in [Conn -> SUBSET Login]
        BY <1>11, <2>1 DEF LoginServed
    <2> QED BY <1>11, <2>2 DEF LoginServed
<1>12. CASE LoginAnswered
    BY <1>12 DEF LoginAnswered, StreamInv, NamesInv, UserNames, PromptNames, LoggingIn
<1>13. CASE LoginFailed
    BY <1>13 DEF LoginFailed
<1>14. CASE JoinGroupChat
    <2>1. ended' \in Outcome
        BY <1>14, EndsTyped DEF JoinGroupChat, StreamInv
    <2>2. \/ owed' = [owed EXCEPT ![conns] = <<"j">>]
          \/ owed' = owed
        BY <1>14 DEF JoinGroupChat
    <2>3. owed' \in [Conn -> Seq({"j", "p"})]
        BY <2>2, AnswersTyped
    <2>4. main' \in {"menu", "stream", "address"} /\ done' = done
        BY <1>14 DEF JoinGroupChat
    <2>5. /\ stream' \in [Conn -> {"none", "open", "half", "error"}]
          /\ receiver' \in [Conn -> {"none", "on", "ended"}]
          /\ sender' \in [Conn -> {"none", "on", "logout", "ended"}]
        BY <1>14, ZenonT(60) DEF JoinGroupChat
    <2>6. Types /\ UNCHANGED <<conns, connVars, watchers, logouts, historyVars>>
        BY <1>14 DEF JoinGroupChat
    <2>7. inputs' \in 0..MaxInputs /\ signals' \in 0..1
        BY <2>6, TypesTyped
    <2>8. main' \in {"address", "dialing", "again", "menu", "login", "login served",
                 "logout", "eof", "stream"}
        BY <2>4
    <2> QED BY <2>1, <2>3, <2>4, <2>5, <2>6, <2>7, <2>8, Zenon
<1>15. CASE StreamingEnded
    BY <1>15 DEF StreamingEnded
<1> QED BY <1>1, <1>2, <1>3, <1>4, <1>5, <1>6, <1>7, <1>8, <1>9, <1>10, <1>11, <1>12, <1>13, <1>14, <1>15 DEF PromptStep

(* A closed channel has been closed by one goroutine. *)
LEMMA CloseDoneTyped ==
    ASSUME ClientInv, NEW c \in Conn, CloseDone(c)
    PROVE  done' \in [Conn -> 0..2] /\ ended' \in Outcome
<1>1. done \in [Conn -> 0..2] /\ ended \in Outcome
    BY Zenon DEF ClientInv, ClientTypeOK
<1>2. done[c] \in 0..1
    BY DEF ClientInv, StreamInv
<1>3. done' \in [Conn -> 0..2]
    BY <1>1, <1>2 DEF CloseDone
<1> QED BY <1>1, <1>3, EndsTyped DEF CloseDone, GoesOn

(* The receiver takes what the server owes. *)
LEMMA AnswersNextTyped ==
    ASSUME ClientTypeOK, NEW c \in Conn, NEW event, AnswersNext(c, event)
    PROVE  owed' \in [Conn -> Seq({"j", "p"})]
<1>1. owed \in [Conn -> Seq({"j", "p"})]
    BY Zenon DEF ClientTypeOK
<1>2. Tail(owed[c]) \in Seq({"j", "p"})
    BY <1>1 DEF AnswersNext
<1> QED BY <1>1, <1>2 DEF AnswersNext

(* The sender sends a request, or ends. *)
LEMMA SendsTyped ==
    ASSUME ClientTypeOK, NEW c \in Conn, NEW answer \in Seq({"j", "p"}), Sends(c, answer)
    PROVE  /\ owed' \in [Conn -> Seq({"j", "p"})]
           /\ sender' \in [Conn -> {"none", "on", "logout", "ended"}]
<1>1. /\ owed \in [Conn -> Seq({"j", "p"})]
      /\ sender \in [Conn -> {"none", "on", "logout", "ended"}]
    BY Zenon DEF ClientTypeOK
<1>2. owed[c] \o answer \in Seq({"j", "p"})
    BY <1>1
<1> QED BY <1>1, <1>2 DEF Sends

(* So does what happens on a stream and to its connection. *)
LEMMA StreamTypeOK ==
    ASSUME ClientInv, NEW c \in Conn, StreamStep(c) PROVE ClientTypeOK'
<1> USE DEF ClientInv, ClientTypeOK, GoesOn
<1>1. CASE \E g \in {"named", "nil"} : JoinAnswered(c, g)
    <2> PICK g \in {"named", "nil"} : JoinAnswered(c, g)
        BY <1>1
    <2>1. owed' \in [Conn -> Seq({"j", "p"})]
        BY AnswersNextTyped DEF JoinAnswered
    <2>2. group' \in [Conn -> {"none", "named", "nil"}]
        BY DEF JoinAnswered
    <2> QED BY <2>1, <2>2 DEF JoinAnswered, Receives
<1>2. CASE PrintAnswered(c)
    BY <1>2, AnswersNextTyped DEF PrintAnswered, Receives
<1>3. CASE ServerReturns(c)
    BY <1>3 DEF ServerReturns, Status
<1>4. CASE ReceiverEnds(c)
    <2>1. done' \in [Conn -> 0..2] /\ ended' \in Outcome
        BY <1>4, CloseDoneTyped DEF ReceiverEnds
    <2>2. receiver' \in [Conn -> {"none", "on", "ended"}]
        BY <1>4 DEF ReceiverEnds
    <2>3. UNCHANGED <<promptVars, main, conns, connVars, watchers, logouts, stream, owed,
                      sender, historyVars>>
        BY <1>4 DEF ReceiverEnds
    <2> QED BY <2>1, <2>2, <2>3, Zenon
<1>5. CASE SenderEof(c)
    BY <1>5 DEF SenderEof
<1>6. CASE \E answer \in {<<"j">>, <<"p">>, <<>>} : SendInGroup(c, answer)
    <2> PICK answer \in {<<"j">>, <<"p">>, <<>>} : SendInGroup(c, answer)
        BY <1>6
    <2>1. answer \in Seq({"j", "p"})
        BY AnswersTyped
    <2>2. ended' \in Outcome
        BY EndsTyped DEF SendInGroup
    <2>3. /\ owed' \in [Conn -> Seq({"j", "p"})]
          /\ sender' \in [Conn -> {"none", "on", "logout", "ended"}]
        BY <2>1, SendsTyped DEF SendInGroup
    <2> QED BY <2>2, <2>3, TypesTyped DEF SendInGroup
<1>7. CASE SendOther(c)
    BY <1>7, AnswersTyped, SendsTyped, TypesTyped DEF SendOther
<1>8. CASE SendView(c)
    <2>1. ended' \in Outcome
        BY <1>8, EndsTyped DEF SendView, ServerView
    <2>2. UNCHANGED <<main, streamVars>>
        BY <1>8 DEF SendView, ServerView
    <2>3. Types /\ UNCHANGED <<conns, connVars, watchers, logouts, historyVars>>
        BY <1>8 DEF SendView
    <2> QED BY <2>1, <2>2, <2>3, TypesTyped
<1>9. CASE SendQuit(c)
    <2>1. <<"sender", 0>> \in Who
        BY DEF Who
    <2> QED BY <1>9, <2>1, UserLogoutTyped, TypesTyped DEF SendQuit
<1>10. CASE SendQuitDone(c)
    BY <1>10, ReturnedTyped, CloseDoneTyped DEF SendQuitDone
<1>11. CASE Connects(c)
    BY <1>11 DEF Connects
<1>12. CASE Loses(c)
    BY <1>12 DEF Loses
<1> QED BY <1>1, <1>2, <1>3, <1>4, <1>5, <1>6, <1>7, <1>8, <1>9, <1>10, <1>11, <1>12 DEF StreamStep

(* So does what the health checks and the calls of UserLogout do. *)
LEMMA WatcherTypeOK ==
    ASSUME ClientInv, WatcherStep PROVE ClientTypeOK'
<1> USE DEF ClientInv, ClientTypeOK, GoesOn
<1>0. /\ \A l \in logouts : l \in LogoutCall /\ l.conn \in Conn
      /\ \A w \in watchers : w \in Watcher /\ w.conn \in Conn
    BY DEF LogoutCall, Watcher
<1>1. CASE \E l \in logouts : LogoutServed(l)
    <2> PICK l \in logouts : LogoutServed(l)
        BY <1>1
    <2>1. [l EXCEPT !.pc = "served"] \in LogoutCall
        BY <1>0, CallTyped
    <2> QED BY <1>0, <2>1 DEF LogoutServed
<1>2. CASE \E l \in logouts : LogoutAnswered(l)
    <2> PICK l \in logouts : LogoutAnswered(l)
        BY <1>2
    <2>1. [l EXCEPT !.pc = "returned"] \in LogoutCall
        BY <1>0, CallTyped
    <2> QED BY <1>0, <2>1 DEF LogoutAnswered
<1>3. CASE \E l \in logouts : LogoutPanic(l)
    BY <1>0, <1>3, EndsTyped, ZenonT(60) DEF LogoutPanic
<1>4. CASE \E w \in watchers : FindsDisconnected(w)
    BY <1>0, <1>4, EndsTyped, ZenonT(60) DEF FindsDisconnected
<1>5. CASE \E w \in watchers : WatcherLogsOut(w)
    <2> PICK w \in watchers : WatcherLogsOut(w)
        BY <1>5
    <2>1. [w EXCEPT !.pc = "logout"] \in Watcher
        BY <1>0, MovesTyped
    <2>2. <<"watcher", w.number>> \in Who
        BY <1>0 DEF Watcher, Who
    <2>3. logouts' \in SUBSET LogoutCall /\ user' = user /\ ended' \in Outcome
        BY <1>0, <2>2, UserLogoutTyped DEF WatcherLogsOut
    <2> QED BY <2>1, <2>3 DEF WatcherLogsOut, Moves
<1>6. CASE \E w \in watchers : WatcherExits(w)
    BY <1>0, <1>6, ReturnedTyped, EndsTyped, ZenonT(60) DEF WatcherExits
<1>7. CASE Interrupt
    <2> DEFINE on == {w \in watchers : w.pc = "on"}
    <2>1. \A w \in on : [w EXCEPT !.pc = "signalled"] \in Watcher
        BY <1>0, MovesTyped
    <2>2. /\ watchers' = (watchers \ on) \cup {[w EXCEPT !.pc = "signalled"] : w \in on}
          /\ signals' = 1 /\ atSignal' = user
          /\ UNCHANGED <<inputs, main, conns, connVars, logouts, streamVars, logins>>
        BY <1>7 DEF Interrupt
    <2>3. watchers' \in SUBSET Watcher
        <3> SUFFICES ASSUME NEW v \in watchers' PROVE v \in Watcher
            OBVIOUS
        <3>1. v \in watchers \/ \E w \in on : v = [w EXCEPT !.pc = "signalled"]
            BY ONLY <2>2, v \in watchers', Zenon
        <3> QED BY ONLY <1>0, <2>1, <3>1, Zenon
    <2>4. ended' \in Outcome
        BY <1>7, EndsTyped DEF Interrupt
    <2>5. signals' \in 0..1
        BY ONLY <2>2
    <2> QED BY <2>2, <2>3, <2>4, <2>5, Zenon
<1> QED BY <1>1, <1>2, <1>3, <1>4, <1>5, <1>6, <1>7 DEF WatcherStep
-----------------------------------------------------------------------------
(***************************************************************************)
(* Connections and streams.                                                *)
(***************************************************************************)

(* The types these proofs need. *)
StreamTypes ==
    /\ conns \in 0..MaxConns
    /\ done \in [Conn -> 0..2]
    /\ sender \in [Conn -> {"none", "on", "logout", "ended"}]
    /\ stream \in [Conn -> {"none", "open", "half", "error"}]

(* The invariant has them. *)
LEMMA ClientStreamTypes == ClientInv => StreamTypes /\ StreamInv
BY Zenon DEF ClientInv, ClientTypeOK, StreamTypes

(* Main opens one stream for a connection. *)
LEMMA PromptStreamInv ==
    ASSUME ClientInv, PromptStep PROVE StreamInv'
<1>0. StreamTypes /\ StreamInv
    BY ClientStreamTypes
<1> USE <1>0 DEF StreamTypes, StreamInv, Conn, Types
<1>1. CASE Dial
    BY <1>1 DEF Dial
<1>2. CASE LeaveProgram
    BY <1>2 DEF LeaveProgram
<1>3. CASE ShowMenu
    BY <1>3 DEF ShowMenu
<1>4. CASE MenuOther
    BY <1>4 DEF MenuOther
<1>5. CASE MenuView
    BY <1>5 DEF MenuView, ServerView
<1>6. CASE MenuQuit
    BY <1>6 DEF MenuQuit
<1>7. CASE MenuQuitDone
    BY <1>7 DEF MenuQuitDone
<1>8. CASE MenuEof
    BY <1>8 DEF MenuEof
<1>9. CASE MenuEofDone
    BY <1>9 DEF MenuEofDone
<1>10. CASE UserLogin
    BY <1>10 DEF UserLogin
<1>11. CASE LoginServed
    BY <1>11 DEF LoginServed
<1>12. CASE LoginAnswered
    BY <1>12 DEF LoginAnswered
<1>13. CASE LoginFailed
    BY <1>13 DEF LoginFailed
<1>14. CASE JoinGroupChat
    BY <1>14 DEF JoinGroupChat
<1>15. CASE StreamingEnded
    BY <1>15 DEF StreamingEnded
<1> QED BY <1>1, <1>2, <1>3, <1>4, <1>5, <1>6, <1>7, <1>8, <1>9, <1>10, <1>11, <1>12, <1>13, <1>14, <1>15 DEF PromptStep

(* Only the sender closes done, when it ends. *)
LEMMA StreamStreamInv ==
    ASSUME ClientInv, NEW c \in Conn, StreamStep(c) PROVE StreamInv'
<1>0. StreamTypes /\ StreamInv
    BY ClientStreamTypes
<1> USE <1>0 DEF StreamTypes, StreamInv, Conn
<1>1. CASE \E g \in {"named", "nil"} : JoinAnswered(c, g)
    BY <1>1 DEF JoinAnswered, Receives
<1>2. CASE PrintAnswered(c)
    BY <1>2 DEF PrintAnswered, Receives
<1>3. CASE ServerReturns(c)
    BY <1>3 DEF ServerReturns
<1>4. CASE ReceiverEnds(c)
    BY <1>4 DEF ReceiverEnds, CloseDone
<1>5. CASE SenderEof(c)
    BY <1>5 DEF SenderEof
<1>6. CASE \E answer \in {<<"j">>, <<"p">>, <<>>} : SendInGroup(c, answer)
    BY <1>6 DEF SendInGroup, Sends
<1>7. CASE SendOther(c)
    BY <1>7 DEF SendOther, Sends
<1>8. CASE SendView(c)
    BY <1>8 DEF SendView, ServerView
<1>9. CASE SendQuit(c)
    BY <1>9 DEF SendQuit
<1>10. CASE SendQuitDone(c)
    BY <1>10 DEF SendQuitDone, CloseDone
<1>11. CASE Connects(c)
    BY <1>11 DEF Connects
<1>12. CASE Loses(c)
    BY <1>12 DEF Loses
<1> QED BY <1>1, <1>2, <1>3, <1>4, <1>5, <1>6, <1>7, <1>8, <1>9, <1>10, <1>11, <1>12 DEF StreamStep

(* The health checks leave the streams alone. *)
LEMMA WatcherStreamInv ==
    ASSUME ClientInv, WatcherStep PROVE StreamInv'
<1>0. StreamInv
    BY ClientStreamTypes
<1>1. UNCHANGED <<main, conns, sender, done>>
    BY DEF WatcherStep, LogoutServed, LogoutAnswered, LogoutPanic, FindsDisconnected,
           WatcherLogsOut, WatcherExits, Interrupt
<1> QED BY <1>0, <1>1 DEF StreamInv
-----------------------------------------------------------------------------
(***************************************************************************)
(* Users and calls of UserLogout.                                          *)
(***************************************************************************)

(* The types these proofs need. *)
NamesTypes ==
    /\ inputs \in Nat /\ conns \in 0..MaxConns
    /\ link \in [Conn -> {"none", "connecting", "ready", "lost", "closed"}]
    /\ user \in [Conn -> Nat] /\ atSignal \in [Conn -> Nat]
    /\ account \in [Conn -> SUBSET Nat] /\ logins \in [Conn -> SUBSET Nat]
    /\ \A l \in logouts : l.conn \in Conn
    /\ \A w \in watchers : w.conn \in Conn

(* The invariant has them, and its parts. *)
LEMMA ClientNamesTypes ==
    ClientInv => NamesTypes /\ StreamTypes /\ StreamInv /\ NamesInv /\ LogoutInv
<1> SUFFICES ASSUME ClientInv PROVE NamesTypes
    BY ClientStreamTypes, Zenon DEF ClientInv
<1>1. /\ inputs \in 0..MaxInputs /\ conns \in 0..MaxConns
      /\ link \in [Conn -> {"none", "connecting", "ready", "lost", "closed"}]
      /\ user \in [Conn -> Login \cup {NoUser}] /\ atSignal \in [Conn -> Login \cup {NoUser}]
      /\ account \in [Conn -> SUBSET Login] /\ logins \in [Conn -> SUBSET Login]
      /\ logouts \in SUBSET LogoutCall /\ watchers \in SUBSET Watcher
    BY Zenon DEF ClientInv, ClientTypeOK
<1>2. Login \subseteq Nat /\ NoUser \in Nat
    BY DEF Login, NoUser
<1>3. /\ \A l \in logouts : l.conn \in Conn
      /\ \A w \in watchers : w.conn \in Conn
    BY <1>1 DEF LogoutCall, Watcher
<1>4. /\ user \in [Conn -> Nat] /\ atSignal \in [Conn -> Nat]
      /\ account \in [Conn -> SUBSET Nat] /\ logins \in [Conn -> SUBSET Nat]
    BY ONLY <1>1, <1>2
<1>5. inputs \in Nat
    BY ONLY <1>1, ChatClientAssumption
<1> QED BY <1>1, <1>3, <1>4, <1>5, Zenon DEF NamesTypes

(* The call UserLogout makes. *)
IsCall(l, who, c) ==
    /\ l.who = who /\ l.conn = c /\ l.user = user[c]
    /\ l.pc = IF user[c] = NoUser THEN "returned" ELSE "sent"

(* UserLogout leaves the store alone and adds the call, if anything. *)
LEMMA UserLogoutCalls ==
    ASSUME NEW who, NEW c, UserLogout(who, c)
    PROVE  user' = user /\ \A l \in logouts' : l \in logouts \/ IsCall(l, who, c)
BY DEF UserLogout, Calls, IsCall

(* A call that moves on is otherwise the same. *)
LEMMA CallMoves ==
    ASSUME NEW l \in LogoutCall, NEW pc,
           logouts' = (logouts \ {l}) \cup {[l EXCEPT !.pc = pc]}
    PROVE  \A m \in logouts' : \/ m \in logouts
                               \/ /\ m.who = l.who /\ m.conn = l.conn /\ m.user = l.user
                                  /\ m.pc = pc
<1> SUFFICES ASSUME NEW m \in logouts', m \notin logouts
             PROVE  m.who = l.who /\ m.conn = l.conn /\ m.user = l.user /\ m.pc = pc
    OBVIOUS
<1>1. m = [l EXCEPT !.pc = pc]
    BY Zenon
<1> QED BY <1>1 DEF LogoutCall

(* The names stay right when nothing but the number of lines changes. *)
LEMMA UserNamesKept ==
    ASSUME UserNames, inputs \in Nat, inputs' = inputs \/ inputs' = inputs + 1,
           UNCHANGED <<conns, link, user, account, logins, atSignal>>
    PROVE  UserNames'
<1> SUFFICES ASSUME NEW c \in Conn
             PROVE  logins'[c] \subseteq 1..inputs'
    BY DEF UserNames
<1>1. logins[c] \subseteq 1..inputs
    BY DEF UserNames
<1> QED BY <1>1

(* A call that has returned, and is forgotten. *)
LEMMA ReturnedCall ==
    ASSUME NEW who, NEW c, Returned(who, c)
    PROVE  /\ logouts' \subseteq logouts
           /\ \E l \in logouts : l.who = who /\ l.conn = c /\ l.pc = "returned"
BY DEF Returned

(* Accounts and stores know the users of the logins only. *)
LEMMA UserNamesStep ==
    ASSUME ClientInv, Next PROVE UserNames'
<1>0. NamesTypes /\ StreamInv /\ UserNames /\ PromptNames /\ CallNames
    BY ClientNamesTypes DEF NamesInv
<1> USE DEF NamesTypes
<1>1. CASE Dial
    BY <1>0, <1>1, SMTT(30) DEF Dial, Types, UserNames, Conn, StreamInv
<1>2. CASE UserLogin
    BY <1>0, <1>2, SMTT(30) DEF UserLogin, Types, UserNames, Conn, StreamInv, PromptNames
<1>3. CASE LoginServed
    BY <1>0, <1>3 DEF LoginServed, UserNames, PromptNames, LoggingIn
<1>4. CASE LoginAnswered
    BY <1>0, <1>4 DEF LoginAnswered, UserNames, PromptNames, LoggingIn
<1>5. CASE MenuQuitDone
    BY <1>0, <1>5 DEF MenuQuitDone, UserNames
<1>6. CASE \E c \in Conn : Connects(c) \/ Loses(c)
    BY <1>0, <1>6 DEF Connects, Loses, UserNames
<1>7. CASE \E l \in logouts : LogoutServed(l) \/ LogoutAnswered(l)
    BY <1>0, <1>7 DEF LogoutServed, LogoutAnswered, UserNames
<1>8. CASE Interrupt
    BY <1>0, <1>8 DEF Interrupt, UserNames
<1> DEFINE Kept == /\ inputs' = inputs \/ inputs' = inputs + 1
                   /\ UNCHANGED <<conns, link, user, account, logins, atSignal>>
<1>9. CASE LeaveProgram \/ ShowMenu \/ MenuOther \/ MenuView \/ MenuQuit
    <2>1. Kept
        BY <1>9, UserLogoutCalls DEF LeaveProgram, ShowMenu, MenuOther, MenuView, MenuQuit, Types
    <2> QED BY <1>0, <2>1, UserNamesKept
<1>10. CASE MenuEof \/ MenuEofDone \/ LoginFailed \/ JoinGroupChat \/ StreamingEnded
    <2>1. Kept
        BY <1>10, UserLogoutCalls
        DEF MenuEof, MenuEofDone, LoginFailed, JoinGroupChat, StreamingEnded, Types
    <2> QED BY <1>0, <2>1, UserNamesKept
<1>11. ASSUME NEW c \in Conn, StreamStep(c), ~Connects(c), ~Loses(c) PROVE UserNames'
    <2>1. Kept
        BY <1>11, UserLogoutCalls
        DEF StreamStep, JoinAnswered, PrintAnswered, Receives, ServerReturns, ReceiverEnds,
            SenderEof, SendInGroup, SendOther, SendView, SendQuit, SendQuitDone, Types
    <2> QED BY <1>0, <2>1, UserNamesKept
<1>12. CASE \E l \in logouts : LogoutPanic(l)
    BY <1>0, <1>12, UserNamesKept DEF LogoutPanic
<1>13. CASE \E w \in watchers : FindsDisconnected(w) \/ WatcherLogsOut(w) \/ WatcherExits(w)
    BY <1>0, <1>13, UserNamesKept, UserLogoutCalls
    DEF FindsDisconnected, WatcherLogsOut, WatcherExits
<1> QED BY <1>1, <1>2, <1>3, <1>4, <1>5, <1>6, <1>7, <1>8, <1>9, <1>10, <1>11, <1>12, <1>13
        DEF Next, PromptStep, WatcherStep

(* Only a connection that is up gets as far as a login. *)
LEMMA PromptNamesStep ==
    ASSUME ClientInv, Next PROVE PromptNames'
<1>0. NamesTypes /\ StreamTypes /\ StreamInv /\ PromptNames
    BY ClientNamesTypes DEF NamesInv
<1> USE DEF PromptNames, LoggingIn, Types
<1>1. CASE PromptStep
    <2>1. CASE Dial \/ UserLogin \/ ShowMenu
        BY <1>0, <2>1 DEF Dial, UserLogin, ShowMenu, NamesTypes, StreamInv
    <2>2. CASE LoginServed \/ LoginAnswered \/ LoginFailed \/ MenuQuitDone
        BY <1>0, <2>2 DEF LoginServed, LoginAnswered, LoginFailed, MenuQuitDone, NamesTypes
    <2>3. CASE LeaveProgram \/ MenuOther \/ MenuView \/ MenuQuit
        BY <1>0, <2>3 DEF LeaveProgram, MenuOther, MenuView, ServerView, MenuQuit
    <2>4. CASE MenuEof \/ MenuEofDone \/ JoinGroupChat \/ StreamingEnded
        BY <1>0, <2>4 DEF MenuEof, MenuEofDone, JoinGroupChat, StreamingEnded
    <2> QED BY <1>1, <2>1, <2>2, <2>3, <2>4 DEF PromptStep
<1>2. ASSUME NEW c \in Conn, StreamStep(c) PROVE PromptNames'
    <2>1. CASE Connects(c) \/ Loses(c)
        BY <1>0, <2>1, ZenonT(60) DEF Connects, Loses, NamesTypes, StreamInv
    <2>2. CASE ~Connects(c) /\ ~Loses(c)
        <3>1. /\ UNCHANGED <<main, conns, logins, link>>
              /\ inputs' = inputs \/ sender[c] = "on"
            BY <1>2, <2>2
            DEF StreamStep, JoinAnswered, PrintAnswered, Receives, ServerReturns,
                ReceiverEnds, SenderEof, SendInGroup, SendOther, SendView, ServerView,
                SendQuit, SendQuitDone
        <3>2. inputs' = inputs \/ main = "stream"
            BY <1>0, <3>1 DEF StreamInv
        <3> QED BY <1>0, <3>1, <3>2
    <2> QED BY <2>1, <2>2
<1>3. CASE WatcherStep
    <2>1. UNCHANGED <<main, inputs, conns, logins, link>>
        BY <1>3
        DEF WatcherStep, LogoutServed, LogoutAnswered, LogoutPanic, FindsDisconnected,
            WatcherLogsOut, WatcherExits, Interrupt
    <2> QED BY <1>0, <2>1
<1> QED BY <1>1, <1>2, <1>3 DEF Next

(* What keeps a call in order. *)
LEMMA CallNameKept ==
    ASSUME NEW l, CallName(l), UNCHANGED conns, signals' = signals \/ signals' = 1,
           logins[l.conn] \subseteq logins'[l.conn], Leaving => Leaving'
    PROVE  CallName(l)'
BY DEF CallName

(* Calls of UserLogout are made at the end, and with known users. *)
LEMMA CallNamesStep ==
    ASSUME ClientInv, Next PROVE CallNames'
<1>0. NamesTypes /\ StreamInv /\ StreamTypes /\ UserNames /\ CallNames /\ SignalNames
    BY ClientNamesTypes DEF NamesInv
<1>c. logouts \in SUBSET LogoutCall
    BY Zenon DEF ClientInv, ClientTypeOK
<1> DEFINE Frame == /\ UNCHANGED <<conns, logins>> /\ (signals' = signals \/ signals' = 1)
                    /\ Leaving => Leaving'
           NewCall(who, c) == \A l \in logouts' : l \in logouts \/ IsCall(l, who, c)
<1>a. ASSUME Frame, logouts' \subseteq logouts PROVE CallNames'
    BY <1>0, <1>a, CallNameKept DEF CallNames
<1>b. ASSUME Frame, NEW c \in Conn, NEW who, NewCall(who, c), user' = user,
             IF who[1] = "watcher" THEN signals' = 1 ELSE c = conns /\ Leaving'
      PROVE  CallNames'
    <2> SUFFICES ASSUME NEW l \in logouts' PROVE CallName(l)'
        BY DEF CallNames
    <2>1. CASE l \in logouts
        BY <1>0, <1>b, <2>1, CallNameKept DEF CallNames
    <2>2. CASE IsCall(l, who, c)
        BY <1>0, <1>b, <2>2 DEF CallName, IsCall, UserNames
    <2> QED BY <1>b, <2>1, <2>2
<1>1. CASE Dial
    <2>1. Leaving /\ conns' = conns + 1 /\ logouts' = logouts /\ logins' = logins
          /\ signals' = signals
        BY <1>1 DEF Dial, Leaving, Types
    <2> SUFFICES ASSUME NEW l \in logouts PROVE CallName(l)'
        BY <2>1 DEF CallNames
    <2>2. l.conn \in Nat /\ conns \in Nat /\ CallName(l)
        BY <1>0 DEF NamesTypes, Conn, CallNames
    <2> QED BY <2>1, <2>2 DEF CallName
<1>2. CASE UserLogin
    <2>1. /\ UNCHANGED <<conns, logouts, signals>> /\ ~Leaving
          /\ logins' = [logins EXCEPT ![conns] = @ \cup {inputs'}]
        BY <1>2 DEF UserLogin, Leaving, Types
    <2>2. \A l \in logouts : logins[l.conn] \subseteq logins'[l.conn]
        BY <1>0, <2>1 DEF NamesTypes
    <2> QED BY <1>0, <2>1, <2>2, CallNameKept DEF CallNames
<1>3. CASE MenuQuit \/ MenuEof
    <2>1. /\ Frame /\ NewCall(<<"main", 0>>, conns) /\ user' = user /\ Leaving'
          /\ conns \in Conn
        BY <1>0, <1>3, UserLogoutCalls DEF MenuQuit, MenuEof, Types, Leaving, StreamInv
    <2> QED BY <1>b, <2>1
<1>4. CASE MenuQuitDone \/ MenuEofDone
    BY <1>4, <1>a, ReturnedCall DEF MenuQuitDone, MenuEofDone, Leaving
<1>5. CASE LeaveProgram \/ ShowMenu \/ MenuOther \/ MenuView
    BY <1>5, <1>a DEF LeaveProgram, ShowMenu, MenuOther, MenuView, ServerView, Types, Leaving
<1>6. CASE LoginServed \/ LoginAnswered \/ LoginFailed \/ JoinGroupChat \/ StreamingEnded
    BY <1>6, <1>a DEF LoginServed, LoginAnswered, LoginFailed, JoinGroupChat, StreamingEnded,
                      Types, Leaving
<1>7. ASSUME NEW c \in Conn, StreamStep(c) PROVE CallNames'
    <2>1. CASE SendQuit(c)
        <3>1. c = conns /\ main = "stream"
            BY <1>0, <2>1 DEF SendQuit, StreamInv
        <3>2. Frame /\ NewCall(<<"sender", 0>>, c) /\ user' = user /\ Leaving'
            BY <2>1, <3>1, UserLogoutCalls DEF SendQuit, Types, Leaving
        <3> QED BY <1>b, <3>1, <3>2
    <2>2. CASE SendQuitDone(c)
        BY <1>a, <2>2, ReturnedCall DEF SendQuitDone, Leaving
    <2>3. CASE ~SendQuit(c) /\ ~SendQuitDone(c)
        <3>1. UNCHANGED <<conns, logins, signals, main, logouts>>
            BY <1>7, <2>3
            DEF StreamStep, JoinAnswered, PrintAnswered, Receives, ServerReturns,
                ReceiverEnds, SenderEof, SendInGroup, SendOther, SendView, ServerView,
                Connects, Loses, Types
        <3> QED BY <1>a, <3>1 DEF Leaving
    <2> QED BY <2>1, <2>2, <2>3
<1>8. ASSUME NEW l \in logouts, LogoutServed(l) \/ LogoutAnswered(l) PROVE CallNames'
    <2>1. /\ UNCHANGED <<conns, logins, signals, main>>
          /\ l.pc # "returned"
          /\ \E pc : logouts' = (logouts \ {l}) \cup {[l EXCEPT !.pc = pc]}
        BY <1>8 DEF LogoutServed, LogoutAnswered
    <2>2. \A m \in logouts' : m \in logouts
                              \/ (m.who = l.who /\ m.conn = l.conn /\ m.user = l.user)
        BY <1>c, <2>1, CallMoves
    <2>3. CallName(l) /\ l.user # NoUser
        BY <1>0, <2>1 DEF CallNames, CallName
    <2>4. \A m \in logouts : CallName(m)'
        BY <1>0, <2>1, CallNameKept DEF CallNames, Leaving
    <2>5. ASSUME NEW m, m.who = l.who, m.conn = l.conn, m.user = l.user
          PROVE  CallName(m)'
        BY <2>1, <2>3, <2>5 DEF CallName, Leaving
    <2> QED BY <2>2, <2>4, <2>5 DEF CallNames
<1>9. CASE \E l \in logouts : LogoutPanic(l)
    BY <1>9, <1>a DEF LogoutPanic, Leaving
<1>10. ASSUME NEW w \in watchers, WatcherLogsOut(w) PROVE CallNames'
    <2>1. /\ Frame /\ NewCall(<<"watcher", w.number>>, w.conn) /\ user' = user
          /\ signals' = signals /\ w.pc = "signalled"
        BY <1>10, UserLogoutCalls DEF WatcherLogsOut, Leaving
    <2>2. w.conn \in Conn /\ signals = 1
        BY <1>0, <2>1 DEF NamesTypes, SignalNames
    <2> QED BY <1>b, <2>1, <2>2
<1>11. CASE \E w \in watchers : FindsDisconnected(w)
    BY <1>11, <1>a DEF FindsDisconnected, Leaving
<1>12. CASE \E w \in watchers : WatcherExits(w)
    BY <1>12, <1>a, ReturnedCall DEF WatcherExits, Leaving
<1>13. CASE Interrupt
    BY <1>13, <1>a DEF Interrupt, Leaving
<1> QED BY <1>1, <1>2, <1>3, <1>4, <1>5, <1>6, <1>7, <1>8, <1>9, <1>10, <1>11, <1>12, <1>13
        DEF Next, PromptStep, WatcherStep

(* No health check logs out before the signal. *)
LEMMA SignalNamesStep ==
    ASSUME ClientInv, Next PROVE SignalNames'
<1>0. SignalNames
    BY DEF ClientInv, NamesInv
<1>c. watchers \in SUBSET Watcher
    BY Zenon DEF ClientInv, ClientTypeOK
<1>1. CASE ShowMenu
    BY <1>0, <1>1 DEF ShowMenu, SignalNames
<1>2. CASE Interrupt
    BY <1>2 DEF Interrupt, SignalNames
<1>3. ASSUME NEW w \in watchers, WatcherLogsOut(w) PROVE SignalNames'
    <2>1. signals = 1 /\ signals' = signals
        BY <1>0, <1>3 DEF WatcherLogsOut, SignalNames
    <2> QED BY <2>1 DEF SignalNames
<1>4. CASE PromptStep /\ ~ShowMenu
    <2>1. UNCHANGED <<signals, watchers>>
        BY <1>4
        DEF PromptStep, Dial, LeaveProgram, MenuOther, MenuView, MenuQuit, MenuQuitDone,
            MenuEof, MenuEofDone, UserLogin, LoginServed, LoginAnswered, LoginFailed,
            JoinGroupChat, StreamingEnded, Types
    <2> QED BY <1>0, <2>1 DEF SignalNames
<1>5. ASSUME NEW c \in Conn, StreamStep(c) PROVE SignalNames'
    <2>1. UNCHANGED <<signals, watchers>>
        BY <1>5
        DEF StreamStep, JoinAnswered, PrintAnswered, Receives, ServerReturns, ReceiverEnds,
            SenderEof, SendInGroup, SendOther, SendView, SendQuit, SendQuitDone, Connects,
            Loses, Types
    <2> QED BY <1>0, <2>1 DEF SignalNames
<1>6. CASE \E l \in logouts : LogoutServed(l) \/ LogoutAnswered(l) \/ LogoutPanic(l)
    BY <1>0, <1>6 DEF LogoutServed, LogoutAnswered, LogoutPanic, SignalNames
<1>7. CASE \E w \in watchers : FindsDisconnected(w) \/ WatcherExits(w)
    BY <1>0, <1>7 DEF FindsDisconnected, WatcherExits, SignalNames
<1> QED BY <1>1, <1>2, <1>3, <1>4, <1>5, <1>6, <1>7 DEF Next, WatcherStep
-----------------------------------------------------------------------------
(***************************************************************************)
(* Logging out.                                                            *)
(***************************************************************************)

(* Nobody is not a user. *)
LEMMA NoUserNoLine ==
    ASSUME NEW n \in Nat PROVE NoUser \notin 1..n
BY DEF NoUser

(* An outcome is known by how the program has ended. *)
LEMMA OutcomeHow ==
    ASSUME NEW how, NEW c, NEW e, e.how # how PROVE e # [how |-> how, conn |-> c]
OBVIOUS

(* With an empty account there is nothing to log out. *)
LEMMA EmptyAccount ==
    ASSUME NEW c \in Conn, account'[c] = {}, ~(c = conns' /\ LoggingIn')
    PROVE  LogoutDone(c)'
BY DEF LogoutDone, CallDone, LoggingIn

(* What does not disturb a connection. *)
LeftAlone(c) ==
    /\ conns' = conns /\ user'[c] = user[c] /\ atSignal'[c] = atSignal[c]
    /\ account'[c] = account[c] /\ done'[c] = done[c]
    /\ ended' = ended \/ ended'.how \notin {"eof", "interrupt"}
    /\ \/ main' = main
       \/ main # "login served" /\ main' \notin {"login", "login served", "address"}

(* The program has ended on a connection before, if it has now. *)
LEMMA EndedBefore ==
    ASSUME NEW c, LeftAlone(c), NEW how \in {"eof", "interrupt"},
           ended' = [how |-> how, conn |-> c]
    PROVE  ended = [how |-> how, conn |-> c]
<1>1. ended'.how = how
    OBVIOUS
<1> QED BY <1>1 DEF LeftAlone

(* A connection that is left alone stays in order. *)
LEMMA LeftAloneKept ==
    ASSUME NEW c \in Conn, LogoutDone(c), LeftAlone(c),
           \A l \in logouts' : l.conn = c => l \in logouts
    PROVE  LogoutDone(c)'
<1>1. \A l \in logouts' : l.conn = c => CallDone(l, c)'
    BY DEF LogoutDone, CallDone, LeftAlone
<1>2. ended' = [how |-> "eof", conn |-> c] => account'[c] = {}
    BY EndedBefore DEF LogoutDone, LeftAlone
<1>3. ended' = [how |-> "interrupt", conn |-> c] => atSignal'[c] \notin account'[c]
    BY EndedBefore DEF LogoutDone, LeftAlone
<1> QED BY <1>1, <1>2, <1>3 DEF LogoutDone, LeftAlone, LoggingIn

(* What does not disturb a connection but for a new call of UserLogout. *)
LEMMA CallKept ==
    ASSUME NEW c \in Conn, LogoutDone(c), LeftAlone(c), NEW who,
           UserNames, inputs \in Nat, LoggingIn' => LoggingIn,
           main \in {"login", "login served"} => who[1] = "watcher",
           \A l \in logouts' : l.conn = c => l \in logouts \/ IsCall(l, who, c)
    PROVE  LogoutDone(c)'
<1>1. \A l \in logouts : l.conn = c => CallDone(l, c)'
    BY DEF LogoutDone, CallDone, LeftAlone
<1>2. ASSUME NEW l, IsCall(l, who, c) PROVE CallDone(l, c)'
    <2>1. CASE user[c] # NoUser
        BY <1>2, <2>1 DEF IsCall, CallDone
    <2>2. CASE user[c] = NoUser /\ account[c] = {}
        BY <1>2, <2>2 DEF IsCall, CallDone, LeftAlone
    <2>3. CASE user[c] = NoUser /\ c = conns /\ main = "login served"
        <3>1. atSignal[c] = NoUser
            BY <2>3 DEF LogoutDone, LoggingIn
        <3>2. NoUser \notin 1..inputs
            BY NoUserNoLine
        <3>3. account[c] \subseteq logins[c] /\ logins[c] \subseteq 1..inputs
            BY DEF UserNames
        <3> QED BY <1>2, <2>3, <3>1, <3>2, <3>3 DEF IsCall, CallDone, LeftAlone
    <2> QED BY <2>1, <2>2, <2>3 DEF LogoutDone
<1>3. \A l \in logouts' : l.conn = c => CallDone(l, c)'
    BY <1>1, <1>2
<1>4. c = conns' /\ LoggingIn' =>
          /\ user'[c] = NoUser /\ atSignal'[c] = NoUser
          /\ \A l \in logouts' : l.conn = c => l.user = NoUser
    BY DEF LogoutDone, LeftAlone, IsCall
<1>5. ended' = [how |-> "eof", conn |-> c] => account'[c] = {}
    BY EndedBefore DEF LogoutDone, LeftAlone
<1>6. ended' = [how |-> "interrupt", conn |-> c] => atSignal'[c] \notin account'[c]
    BY EndedBefore DEF LogoutDone, LeftAlone
<1> QED BY <1>3, <1>4, <1>5, <1>6 DEF LogoutDone, LeftAlone, LoggingIn

(* What main does. *)
LEMMA PromptLogoutDone ==
    ASSUME ClientInv, PromptStep, NEW c \in Conn, OneLogin(c)'
    PROVE  LogoutDone(c)'
<1>0. /\ NamesTypes /\ StreamTypes /\ StreamInv /\ UserNames /\ PromptNames /\ CallNames
      /\ LogoutInv
    BY ClientNamesTypes DEF NamesInv
<1>a. ASSUME UNCHANGED <<link, logins>> PROVE OneLogin(c) /\ LogoutDone(c)
    BY <1>0, <1>a DEF OneLogin, LogoutInv
<1>b. ASSUME OneLogin(c), c # conns PROVE account[c] = {}
    <2>1. c < conns
        BY <1>0, <1>b DEF OneLogin, UserNames, NamesTypes, Conn
    <2> QED BY <1>0, <1>b, <2>1 DEF LogoutInv, LogoutDone
<1>1. CASE Dial
    <2>1. /\ main = "address" /\ main' = "dialing" /\ UNCHANGED <<logins, account>>
          /\ link' = [link EXCEPT ![conns + 1] = "connecting"]
        BY <1>1 DEF Dial
    <2>2. link'[c] = link[c]
        BY <1>0, <2>1 DEF OneLogin, NamesTypes
    <2>3. account[c] = {}
        BY <1>0, <2>1, <2>2 DEF OneLogin, LogoutInv, LogoutDone
    <2> QED BY <2>1, <2>3, EmptyAccount DEF LoggingIn
<1>2. CASE LeaveProgram \/ StreamingEnded
    <2>1. /\ UNCHANGED <<link, logins, account>> /\ main' = "address"
          /\ main = "address" \/ done[conns] > 0
        BY <1>2 DEF LeaveProgram, StreamingEnded
    <2>2. account[c] = {}
        BY <1>a, <1>b, <2>1 DEF LogoutDone
    <2> QED BY <2>1, <2>2, EmptyAccount DEF LoggingIn
<1>3. CASE ShowMenu
    <2>1. UNCHANGED <<conns, link, logins, account, user, atSignal, done, logouts, ended>>
        BY <1>3 DEF ShowMenu
    <2>2. CASE main' = "menu"
        BY <1>3, <1>a, <2>1, <2>2, LeftAloneKept DEF ShowMenu, LeftAlone
    <2>3. CASE main' = "address"
        <3>1. c # conns
            BY <1>3, <2>1, <2>3 DEF ShowMenu, OneLogin
        <3> QED BY <1>a, <1>b, <2>1, <2>3, <3>1, EmptyAccount DEF LoggingIn
    <2> QED BY <1>3, <2>2, <2>3 DEF ShowMenu
<1>4. CASE MenuOther \/ MenuView
    <2>1. /\ UNCHANGED <<conns, link, logins, account, user, atSignal, done, logouts>>
          /\ main = "menu" /\ main' \in {"menu", "again"}
          /\ ended' = ended \/ ended'.how \notin {"eof", "interrupt"}
        BY <1>4 DEF MenuOther, MenuView, ServerView, Ends, GoesOn
    <2> QED BY <1>a, <2>1, LeftAloneKept DEF LeftAlone
<1>5. CASE MenuQuit \/ MenuEof
    <2>1. /\ UNCHANGED <<conns, link, logins, account, user, atSignal, done>>
          /\ main = "menu" /\ main' \in {"logout", "eof"}
          /\ ended' = ended \/ ended'.how \notin {"eof", "interrupt"}
        BY <1>5, UserLogoutCalls DEF MenuQuit, MenuEof, UserLogout, Ends, GoesOn
    <2>2. \A l \in logouts' : l \in logouts \/ IsCall(l, <<"main", 0>>, conns)
        BY <1>5, UserLogoutCalls DEF MenuQuit, MenuEof
    <2>3. \A l \in logouts' : l.conn = c => l \in logouts \/ IsCall(l, <<"main", 0>>, c)
        BY <2>2 DEF IsCall
    <2>4. LeftAlone(c) /\ ~LoggingIn'
        BY <2>1 DEF LeftAlone, LoggingIn
    <2> QED BY <1>0, <1>a, <2>1, <2>3, <2>4, CallKept DEF NamesTypes
<1>6. CASE MenuQuitDone
    <2>1. /\ UNCHANGED <<conns, logins, account>> /\ main' = "address"
          /\ link' = [link EXCEPT ![conns] = "closed"]
        BY <1>6 DEF MenuQuitDone
    <2>2. c # conns /\ link'[c] = link[c]
        BY <1>0, <2>1 DEF OneLogin, NamesTypes
    <2>3. account[c] = {}
        BY <1>b, <2>1, <2>2 DEF OneLogin
    <2> QED BY <2>1, <2>3, EmptyAccount DEF LoggingIn
<1>7. CASE MenuEofDone
    <2>1. UNCHANGED <<link, logins, account, main>> /\ main = "eof"
        BY <1>7 DEF MenuEofDone
    <2>2. \E l \in logouts : l.who = <<"main", 0>> /\ l.conn = conns /\ l.pc = "returned"
        BY <1>7, ReturnedCall DEF MenuEofDone
    <2>3. account[c] = {}
        BY <1>a, <1>b, <2>1, <2>2 DEF LogoutDone, CallDone
    <2> QED BY <2>1, <2>3, EmptyAccount DEF LoggingIn
<1>8. CASE UserLogin
    <2>1. /\ UNCHANGED <<conns, link, account, user, atSignal, done, logouts, ended>>
          /\ main = "menu" /\ main' = "login" /\ inputs' = inputs + 1
          /\ logins' = [logins EXCEPT ![conns] = @ \cup {inputs'}]
        BY <1>8 DEF UserLogin, Types
    <2>2. CASE c # conns
        <3>1. OneLogin(c)
            BY <1>0, <2>1, <2>2 DEF OneLogin, NamesTypes
        <3> QED BY <1>b, <2>1, <2>2, <3>1, EmptyAccount
    <2>3. CASE c = conns
        <3>1. logins[c] \subseteq 1..inputs /\ inputs \in Nat /\ inputs' \notin 1..inputs
            BY <1>0, <2>1 DEF UserNames, NamesTypes
        <3>2. logins'[c] = logins[c] \cup {inputs'}
            BY <1>0, <2>1, <2>3 DEF NamesTypes
        <3>3. logins[c] = {}
            BY <3>1, <3>2 DEF OneLogin, AtMostOne
        <3>4. account[c] = {} /\ user[c] = NoUser /\ atSignal[c] = NoUser
            BY <1>0, <3>3 DEF UserNames
        <3>5. \A l \in logouts : l.conn = c => l.user = NoUser
            BY <1>0, <3>3 DEF CallNames, CallName
        <3> QED BY <2>1, <3>4, <3>5 DEF LogoutDone, CallDone, LoggingIn
    <2> QED BY <2>2, <2>3
<1>9. CASE LoginServed \/ LoginAnswered
    <2>1. /\ UNCHANGED <<inputs, conns, link, logins, atSignal, done, logouts, ended>>
          /\ LoggingIn /\ main' \in {"login served", "again"} /\ ended.how = "no"
          /\ \A d \in Conn \ {conns} : account'[d] = account[d] /\ user'[d] = user[d]
        BY <1>0, <1>9 DEF LoginServed, LoginAnswered, LoggingIn, NamesTypes, Up
    <2>2. CASE c # conns
        BY <1>a, <1>b, <2>1, <2>2, EmptyAccount
    <2>3. CASE c = conns
        <3>1. /\ user[c] = NoUser /\ atSignal[c] = NoUser
              /\ \A l \in logouts : l.conn = c => l.user = NoUser
            BY <1>a, <2>1, <2>3 DEF LogoutDone
        <3>0. ~(conns < conns)
            BY <1>0 DEF NamesTypes
        <3>2. done[c] = 0
            BY <1>0, <2>1, <2>3, <3>0 DEF StreamInv, LoggingIn
        <3>3. \A l \in logouts : l.conn = c => l.who[1] = "watcher"
            BY <1>0, <2>1, <2>3, <3>0 DEF CallNames, CallName, Leaving, LoggingIn
        <3>4. NoUser \notin account'[c] /\ inputs # NoUser
            <4>1. inputs \in logins[c] /\ account[c] \subseteq logins[c]
                  /\ logins[c] \subseteq 1..inputs
                BY <1>0, <2>1, <2>3 DEF UserNames, PromptNames
            <4>2. account'[c] \subseteq account[c] \cup {inputs}
                BY <1>0, <1>9, <2>3 DEF LoginServed, LoginAnswered, NamesTypes
            <4>3. NoUser \notin 1..inputs
                BY <1>0, NoUserNoLine DEF NamesTypes
            <4> QED BY <4>1, <4>2, <4>3
        <3>5. \A l \in logouts' : l.conn = c => CallDone(l, c)'
            BY <2>1, <3>1, <3>3, <3>4 DEF CallDone
        <3>6. /\ ended' # [how |-> "eof", conn |-> c]
              /\ ended' # [how |-> "interrupt", conn |-> c]
            <4>1. ended'.how # "eof" /\ ended'.how # "interrupt"
                BY <2>1
            <4> QED BY <4>1, OutcomeHow, Zenon
        <3>7. \/ main' = "login served" /\ user' = user
              \/ main' = "again" /\ user'[c] = inputs
            BY <1>0, <1>9, <2>3 DEF LoginServed, LoginAnswered, NamesTypes
        <3>8. c = conns' /\ ~(c < conns') /\ done'[c] = 0
            BY <2>1, <2>3, <3>0, <3>2
        <3>9. c = conns' /\ LoggingIn' =>
                 /\ user'[c] = NoUser /\ atSignal'[c] = NoUser
                 /\ \A l \in logouts' : l.conn = c => l.user = NoUser
            BY <2>1, <3>1, <3>7 DEF LoggingIn
        <3>10. user'[c] = NoUser => c = conns' /\ main' = "login served"
            BY <3>4, <3>7, <3>8
        <3>11. main' \notin {"login", "address"} /\ ~(done'[c] > 0)
            <4>1. ~(done'[c] > 0)
                BY <3>8
            <4> QED BY <2>1, <4>1
        <3> QED BY <3>5, <3>6, <3>8, <3>9, <3>10, <3>11 DEF LogoutDone
    <2> QED BY <2>2, <2>3
<1>10. CASE LoginFailed \/ JoinGroupChat
    <2>1. /\ UNCHANGED <<conns, link, logins, account, user, atSignal, done, logouts>>
          /\ main' # main => link[conns] # "ready" \/ (main = "menu" /\ main' = "stream")
          /\ main' \in {main, "stream", "address"} /\ LoggingIn => main' = "address"
          /\ ended' = ended \/ ended'.how \notin {"eof", "interrupt"}
        <3>1. CASE LoginFailed
            BY <3>1 DEF LoginFailed
        <3>2. CASE JoinGroupChat
            BY <3>2 DEF JoinGroupChat, Ends, GoesOn, LoggingIn
        <3> QED BY <1>10, <3>1, <3>2
    <2>2. CASE c # conns
        <3>1. ~LoggingIn' \/ conns' = conns
            BY <2>1
        <3> QED BY <1>a, <1>b, <2>1, <2>2, EmptyAccount
    <2>3. CASE c = conns
        <3>1. main' = main \/ (main = "menu" /\ main' = "stream")
            BY <1>a, <2>1, <2>3 DEF OneLogin
        <3> QED BY <1>a, <2>1, <3>1, LeftAloneKept DEF LeftAlone
    <2> QED BY <2>2, <2>3
<1> QED BY <1>1, <1>2, <1>3, <1>4, <1>5, <1>6, <1>7, <1>8, <1>9, <1>10 DEF PromptStep

(* What the goroutines of a stream, the server and the network do. *)
LEMMA StreamLogoutDone ==
    ASSUME ClientInv, NEW d \in Conn, StreamStep(d), NEW c \in Conn, OneLogin(c)'
    PROVE  LogoutDone(c)'
<1>0. /\ NamesTypes /\ StreamTypes /\ StreamInv /\ UserNames /\ PromptNames /\ CallNames
      /\ LogoutInv
    BY ClientNamesTypes DEF NamesInv
<1>a. ASSUME link'[c] = link[c], UNCHANGED logins PROVE OneLogin(c) /\ LogoutDone(c)
    BY <1>0, <1>a DEF OneLogin, LogoutInv
<1>1. CASE Connects(d) \/ Loses(d)
    <2>1. UNCHANGED <<main, conns, logins, account, user, atSignal, done, logouts, ended>>
        BY <1>1 DEF Connects, Loses
    <2>2. CASE link'[c] = link[c]
        BY <1>a, <2>1, <2>2, LeftAloneKept DEF LeftAlone
    <2>3. CASE link'[c] # link[c]
        <3>1. c = d /\ link[c] = "connecting"
            BY <1>0, <1>1, <2>3 DEF Connects, Loses, OneLogin, NamesTypes
        <3>2. account[c] = {} /\ ~(c = conns /\ LoggingIn)
            BY <1>0, <3>1 DEF UserNames, PromptNames, LoggingIn
        <3> QED BY <2>1, <3>2, EmptyAccount DEF LoggingIn
    <2> QED BY <2>2, <2>3
<1>2. CASE SendQuit(d)
    <2>1. /\ UNCHANGED <<main, conns, link, logins, account, user, atSignal, done>>
          /\ ended' = ended \/ ended'.how \notin {"eof", "interrupt"}
          /\ main = "stream"
        BY <1>0, <1>2, UserLogoutCalls DEF SendQuit, UserLogout, Ends, GoesOn, StreamInv
    <2>2. \A l \in logouts' : l \in logouts \/ IsCall(l, <<"sender", 0>>, d)
        BY <1>2, UserLogoutCalls DEF SendQuit
    <2>3. \A l \in logouts' : l.conn = c => l \in logouts \/ IsCall(l, <<"sender", 0>>, c)
        BY <2>2 DEF IsCall
    <2>4. LeftAlone(c) /\ ~LoggingIn'
        BY <2>1 DEF LeftAlone, LoggingIn
    <2> QED BY <1>0, <1>a, <2>1, <2>3, <2>4, CallKept DEF NamesTypes
<1>3. CASE SendQuitDone(d)
    <2>1. /\ UNCHANGED <<main, conns, link, logins, account, user, atSignal>>
          /\ ended' = ended \/ ended'.how \notin {"eof", "interrupt"}
          /\ done' = [done EXCEPT ![d] = @ + 1]
          /\ logouts' \subseteq logouts
          /\ \E l \in logouts : l.who = <<"sender", 0>> /\ l.conn = d /\ l.pc = "returned"
        BY <1>3, ReturnedCall DEF SendQuitDone, CloseDone, Ends, GoesOn
    <2>2. CASE c # d
        <3>1. done'[c] = done[c]
            BY <1>0, <2>1, <2>2 DEF StreamTypes
        <3> QED BY <1>a, <2>1, <3>1, LeftAloneKept DEF LeftAlone
    <2>3. CASE c = d
        <3> PICK l \in logouts : l.who = <<"sender", 0>> /\ l.conn = d /\ l.pc = "returned"
            BY <2>1
        <3>a. l.who[1] # "watcher" /\ l.conn = c
            BY <2>3
        <3>1. account[c] = {}
            BY <1>a, <2>1, <3>a DEF LogoutDone, CallDone
        <3>2. main = "stream"
            BY <1>0, <1>3 DEF SendQuitDone, StreamInv
        <3> QED BY <2>1, <3>1, <3>2, EmptyAccount DEF LoggingIn
    <2> QED BY <2>2, <2>3
<1>4. CASE ~(Connects(d) \/ Loses(d) \/ SendQuit(d) \/ SendQuitDone(d))
    <2>1. /\ UNCHANGED <<main, conns, link, logins, account, user, atSignal, logouts>>
          /\ ended' = ended \/ ended'.how \notin {"eof", "interrupt"}
          /\ stream[d] # "eof" => done' = done
        BY <1>4
        DEF StreamStep, JoinAnswered, PrintAnswered, Receives, ServerReturns, ReceiverEnds,
            SenderEof, SendInGroup, SendOther, SendView, ServerView, CloseDone, Ends, GoesOn
    <2>2. done' = done
        BY <1>0, <2>1 DEF StreamTypes
    <2> QED BY <1>a, <2>1, <2>2, LeftAloneKept DEF LeftAlone
<1> QED BY <1>1, <1>2, <1>3, <1>4

(* What the calls of UserLogout and the health checks do. *)
LEMMA WatcherLogoutDone ==
    ASSUME ClientInv, WatcherStep, NEW c \in Conn, OneLogin(c)'
    PROVE  LogoutDone(c)'
<1>0. /\ NamesTypes /\ StreamInv /\ UserNames /\ PromptNames /\ CallNames /\ LogoutInv
      /\ SignalNames
    BY ClientNamesTypes DEF NamesInv
<1>c. logouts \in SUBSET LogoutCall
    BY Zenon DEF ClientInv, ClientTypeOK
<1>d. UNCHANGED <<main, conns, link, logins, done>>
    BY DEF WatcherStep, LogoutServed, LogoutAnswered, LogoutPanic, FindsDisconnected,
           WatcherLogsOut, WatcherExits, Interrupt
<1>a. OneLogin(c) /\ LogoutDone(c)
    BY <1>0, <1>d DEF OneLogin, LogoutInv
<1>1. ASSUME NEW l \in logouts, LogoutServed(l) \/ LogoutAnswered(l) PROVE LogoutDone(c)'
    <2>1. /\ UNCHANGED <<atSignal, ended>> /\ l.pc # "returned"
          /\ \E pc : logouts' = (logouts \ {l}) \cup {[l EXCEPT !.pc = pc]}
        BY <1>1 DEF LogoutServed, LogoutAnswered
    <2>2. \A m \in logouts' : m \in logouts \/ m.conn = l.conn
        BY <1>c, <2>1, CallMoves
    <2>3. CASE l.conn # c
        <3>1. account'[c] = account[c] /\ user'[c] = user[c]
            BY <1>0, <1>1, <2>3 DEF LogoutServed, LogoutAnswered, NamesTypes
        <3> QED BY <1>a, <1>d, <2>1, <2>2, <2>3, <3>1, LeftAloneKept DEF LeftAlone
    <2>4. CASE l.conn = c
        <3>1. l.user # NoUser /\ l.user \in logins[c]
            BY <1>0, <2>1, <2>4 DEF CallNames, CallName
        <3>2. ~(c = conns /\ LoggingIn)
            BY <1>a, <2>4, <3>1 DEF LogoutDone
        <3>3. account'[c] = {}
            <4>1. CASE LogoutServed(l)
                <5>1. account'[c] = account[c] \ {l.user}
                    BY <1>0, <2>4, <4>1 DEF LogoutServed, NamesTypes
                <5>2. account[c] \subseteq logins[c] /\ AtMostOne(logins[c])
                    BY <1>0, <1>a DEF UserNames, OneLogin
                <5> QED BY <3>1, <5>1, <5>2 DEF AtMostOne
            <4>2. CASE LogoutAnswered(l)
                BY <1>a, <2>4, <3>1, <4>2 DEF LogoutAnswered, LogoutDone, CallDone
            <4> QED BY <1>1, <4>1, <4>2
        <3> QED BY <1>d, <3>2, <3>3, EmptyAccount DEF LoggingIn
    <2> QED BY <2>3, <2>4
<1>2. CASE \/ \E l \in logouts : LogoutPanic(l)
           \/ \E w \in watchers : FindsDisconnected(w)
    <2>1. /\ UNCHANGED <<user, account, atSignal, logouts>>
          /\ ended'.how \notin {"eof", "interrupt"}
        BY <1>2 DEF LogoutPanic, FindsDisconnected, Ends
    <2> QED BY <1>a, <1>d, <2>1, LeftAloneKept DEF LeftAlone
<1>3. ASSUME NEW w \in watchers, WatcherLogsOut(w) PROVE LogoutDone(c)'
    <2> DEFINE who == <<"watcher", w.number>>
    <2>1. /\ UNCHANGED <<user, account, atSignal>>
          /\ ended' = ended \/ ended'.how \notin {"eof", "interrupt"}
        BY <1>3, UserLogoutCalls DEF WatcherLogsOut, UserLogout, Ends, GoesOn
    <2>2. \A l \in logouts' : l \in logouts \/ IsCall(l, who, w.conn)
        BY <1>3, UserLogoutCalls DEF WatcherLogsOut
    <2>3. \A l \in logouts' : l.conn = c => l \in logouts \/ IsCall(l, who, c)
        BY <2>2 DEF IsCall
    <2>4. LeftAlone(c) /\ (LoggingIn' => LoggingIn) /\ who[1] = "watcher"
        BY <1>d, <2>1 DEF LeftAlone, LoggingIn
    <2> HIDE DEF who
    <2> QED BY <1>0, <1>a, <2>3, <2>4, CallKept DEF NamesTypes
<1>4. ASSUME NEW w \in watchers, WatcherExits(w) PROVE LogoutDone(c)'
    <2>1. /\ UNCHANGED <<user, account, atSignal>> /\ logouts' \subseteq logouts
          /\ ended' = [how |-> "interrupt", conn |-> w.conn]
          /\ \E l \in logouts : l.conn = w.conn /\ l.pc = "returned"
        BY <1>4, ReturnedCall DEF WatcherExits, Ends
    <2>2. ended' = [how |-> "interrupt", conn |-> c] => atSignal[c] \notin account[c]
        <3>1. ended' = [how |-> "interrupt", conn |-> c] => w.conn = c
            BY <2>1
        <3> QED BY <1>a, <2>1, <3>1 DEF LogoutDone, CallDone
    <2>3. ended' # [how |-> "eof", conn |-> c]
        BY <2>1
    <2>4. \A l \in logouts' : l.conn = c => CallDone(l, c)'
        BY <1>a, <2>1 DEF LogoutDone, CallDone
    <2> QED BY <1>a, <1>d, <2>1, <2>2, <2>3, <2>4 DEF LogoutDone, LoggingIn
<1>5. CASE Interrupt
    <2>1. /\ signals = 0 /\ atSignal' = user /\ UNCHANGED <<user, account, logouts>>
          /\ ended.how = "no" /\ ended'.how \in {"no", "killed"}
        BY <1>5 DEF Interrupt, Up, Ends, GoesOn
    <2>2. \A l \in logouts : l.who[1] # "watcher"
        BY <1>0, <2>1 DEF CallNames, CallName
    <2>3. \A l \in logouts' : l.conn = c => CallDone(l, c)'
        BY <1>a, <2>1, <2>2 DEF LogoutDone, CallDone
    <2>4. /\ ended' # [how |-> "eof", conn |-> c]
          /\ ended' # [how |-> "interrupt", conn |-> c]
        BY <2>1
    <2> QED BY <1>a, <1>d, <2>1, <2>3, <2>4 DEF LogoutDone, LoggingIn
<1> QED BY <1>1, <1>2, <1>3, <1>4, <1>5 DEF WatcherStep
-----------------------------------------------------------------------------
(***************************************************************************)
(* The theorems.                                                           *)
(***************************************************************************)

(* The invariant holds when the program starts. *)
LEMMA ClientInit ==
    ASSUME Init PROVE ClientInv
<1>1. ClientTypeOK
    <2>1. Running \in Outcome /\ <<>> \in Seq({"j", "p"})
        BY AnswersTyped DEF Running, Outcome
    <2> QED BY <2>1 DEF Init, ClientTypeOK
<1>2. StreamInv
    BY DEF Init, StreamInv
<1>3. NamesInv
    BY DEF Init, NamesInv, UserNames, PromptNames, CallNames, SignalNames, LoggingIn
<1>4. LogoutInv
    BY DEF Init, LogoutInv, OneLogin
<1> QED BY <1>1, <1>2, <1>3, <1>4 DEF ClientInv

(* The invariant is inductive. *)
LEMMA ClientStep ==
    ASSUME ClientInv, [Next]_vars PROVE ClientInv'
<1>1. CASE Next
    <2>1. ClientTypeOK'
        BY <1>1, PromptTypeOK, StreamTypeOK, WatcherTypeOK DEF Next
    <2>2. StreamInv'
        BY <1>1, PromptStreamInv, StreamStreamInv, WatcherStreamInv DEF Next
    <2>3. NamesInv'
        BY <1>1, UserNamesStep, PromptNamesStep, CallNamesStep, SignalNamesStep DEF NamesInv
    <2>4. LogoutInv'
        BY <1>1, PromptLogoutDone, StreamLogoutDone, WatcherLogoutDone DEF Next, LogoutInv
    <2> QED BY <2>1, <2>2, <2>3, <2>4 DEF ClientInv
<1>2. CASE UNCHANGED vars
    <2>1. ClientTypeOK'
        BY <1>2 DEF ClientInv, ClientTypeOK, vars
    <2>2. StreamInv' /\ NamesInv'
        BY <1>2 DEF ClientInv, StreamInv, NamesInv, UserNames, PromptNames, CallNames,
                    CallName, Leaving, SignalNames, LoggingIn, vars
    <2>3. LogoutInv'
        BY <1>2, ZenonT(60) DEF ClientInv, LogoutInv, OneLogin, AtMostOne, LogoutDone, CallDone,
                    LoggingIn, vars
    <2> QED BY <2>1, <2>2, <2>3 DEF ClientInv
<1> QED BY <1>1, <1>2

(* A set with at most one element. *)
LEMMA SmallSet ==
    ASSUME NEW S, IsFiniteSet(S), Cardinality(S) <= 1 PROVE AtMostOne(S)
<1> SUFFICES ASSUME NEW x \in S, NEW y \in S, x # y PROVE FALSE
    BY DEF AtMostOne
<1>1. IsFiniteSet({x}) /\ Cardinality({x}) = 1
    BY FS_Singleton
<1>2. Cardinality({x} \cup {y}) = 2
    BY <1>1, FS_AddElement, SMTT(30)
<1>3. Cardinality({x} \cup {y}) <= Cardinality(S)
    BY FS_Subset
<1>4. Cardinality(S) \in Nat
    BY FS_CardinalityType
<1> QED BY <1>2, <1>3, <1>4

(* The client's variables keep their types; the receiver of a stream never *)
(* hears of its end as an EOF, since JoinGroupChat of the server returns   *)
(* the EOF as an error.                                                    *)
THEOREM ClientTypeCorrect == Spec => []ClientTypeOK
<1>1. Init => ClientInv
    BY ClientInit
<1>2. ClientInv /\ [Next]_vars => ClientInv'
    BY ClientStep
<1>3. ClientInv => ClientTypeOK
    BY DEF ClientInv
<1> QED BY <1>1, <1>2, <1>3, PTL DEF Spec

(* The channel done of a connection is closed once: "close(done)" of the   *)
(* sender never meets that of the receiver.                                *)
THEOREM DoneNeverClosedTwice == Spec => []DoneClosedOnce
<1>1. Init => ClientInv
    BY ClientInit
<1>2. ClientInv /\ [Next]_vars => ClientInv'
    BY ClientStep
<1>3. ClientInv => DoneClosedOnce
    BY DEF ClientInv, StreamInv, DoneClosedOnce
<1> QED BY <1>1, <1>2, <1>3, PTL DEF Spec

(* Of a connection that has seen one login, the invariant says what it     *)
(* says in terms of the number of logins.                                  *)
LEMMA LogoutInvImplies ==
    ASSUME ClientInv PROVE LogsOutBeforeLeaving
<1> SUFFICES ASSUME NEW c \in Conn, link[c] = "ready", Cardinality(logins[c]) <= 1
             PROVE  LogoutDone(c)
    BY DEF LogsOutBeforeLeaving, LogoutDone
<1>1. NamesTypes /\ UserNames /\ LogoutInv
    BY ClientNamesTypes DEF NamesInv
<1>2. IsFiniteSet(1..inputs)
    <2>1. inputs \in Int /\ 1 \in Int
        BY <1>1 DEF NamesTypes
    <2> QED BY ONLY <2>1, FS_Interval, Zenon
<1>3. IsFiniteSet(logins[c])
    BY <1>1, <1>2, FS_Subset DEF UserNames
<1>4. OneLogin(c)
    BY <1>3, SmallSet DEF OneLogin
<1> QED BY <1>1, <1>4 DEF LogoutInv

(* Nobody stays logged in behind a client that leaves, however many        *)
(* goroutines call UserLogout at once and whenever the signal comes, as    *)
(* long as the server is there and no second login was asked for.          *)
THEOREM NobodyLeftLoggedIn == Spec => []LogsOutBeforeLeaving
<1>1. Init => ClientInv
    BY ClientInit
<1>2. ClientInv /\ [Next]_vars => ClientInv'
    BY ClientStep
<1>3. ClientInv => LogsOutBeforeLeaving
    BY LogoutInvImplies
<1> QED BY <1>1, <1>2, <1>3, PTL DEF Spec
=============================================================================
