----------------------------- MODULE ChatClient -----------------------------
(***************************************************************************)
(* One run of the client program (main/client/client_main.go,              *)
(* chat_client/client_service.go, chat_client/client_store.go): the prompt *)
(* loop, the two goroutines of JoinGroupChat, and the two goroutines that  *)
(* ConnectionHealthCheck starts every time the menu is shown.              *)
(*                                                                         *)
(* Every call of ConnectClient makes a connection with a store of its own, *)
(* known by its number; most of them are never closed.  The server at the  *)
(* other end is what it answers: it may be lost at any time and does not   *)
(* come back to a connection (gRPC would dial again, but the health check  *)
(* asks for the state all the time).                                       *)
(***************************************************************************)
EXTENDS Naturals, Sequences, FiniteSets

CONSTANTS
    MaxConns,      \* bound: calls of ConnectClient
    MaxInputs,     \* bound: lines the user types
    MaxMenus       \* bound: menus shown

ASSUME ChatClientAssumption ==
    /\ MaxConns \in Nat /\ MaxInputs \in Nat /\ MaxMenus \in Nat

VARIABLES
    inputs, signals,
    \* main: what it is doing, always for the latest connection
    main, conns,
    \* each connection, the user and the group in its store, and the users the
    \* server at the other end has logged in
    link, user, group, account,
    \* the goroutines of the health checks and the logouts under way
    watchers, logouts,
    \* the stream of a connection, the answers its server owes it, the
    \* channel done (how often it has been closed) and the two goroutines
    stream, owed, done, receiver, sender,
    \* how the program has ended, and the connection whose goroutine did it
    ended,
    \* history: the logins asked for on each connection, and the user in its
    \* store when the program was interrupted
    logins, atSignal

promptVars == <<inputs, signals>>
connVars == <<link, user, group, account>>
streamVars == <<stream, owed, done, receiver, sender>>
historyVars == <<logins, atSignal>>
vars == <<promptVars, main, conns, connVars, watchers, logouts, streamVars, ended,
          historyVars>>

Conn == 1..MaxConns
Login == 1..MaxInputs
NoUser == 0
Running == [how |-> "no", conn |-> 0]
Up == ended.how = "no"

Init ==
    /\ inputs = 0 /\ signals = 0
    /\ main = "address" /\ conns = 0
    /\ link = [c \in Conn |-> "none"]
    /\ user = [c \in Conn |-> NoUser] /\ group = [c \in Conn |-> "none"]
    /\ account = [c \in Conn |-> {}]
    /\ watchers = {} /\ logouts = {}
    /\ stream = [c \in Conn |-> "none"] /\ owed = [c \in Conn |-> <<>>]
    /\ done = [c \in Conn |-> 0]
    /\ receiver = [c \in Conn |-> "none"] /\ sender = [c \in Conn |-> "none"]
    /\ ended = Running
    /\ logins = [c \in Conn |-> {}] /\ atSignal = [c \in Conn |-> NoUser]

Ends(how, c) == ended' = [how |-> how, conn |-> c]
GoesOn == UNCHANGED ended

(* The user types a line. *)
Types ==
    /\ Up /\ inputs < MaxInputs
    /\ inputs' = inputs + 1
    /\ UNCHANGED signals
-----------------------------------------------------------------------------
(***************************************************************************)
(* UserLogout.  A call is known by the goroutine that makes it; it carries *)
(* the user it read from the store.                                        *)
(***************************************************************************)
Calls(who, c) == [who |-> who, conn |-> c, user |-> user[c], pc |-> "sent"]

(* Mistaken variant: the store forgets the user before the call is made. *)
CallForgets(who, c) ==
    \/ /\ group[c] = "nil"
       /\ Ends("panic", c) /\ UNCHANGED <<logouts, user>>
    \/ /\ group[c] # "nil"
       /\ logouts' = logouts \cup {[Calls(who, c) EXCEPT !.pc = IF user[c] = NoUser
                                                              THEN "returned" ELSE "sent"]}
       /\ user' = [user EXCEPT ![c] = NoUser]
       /\ GoesOn

(* It asks the group for its name first, even if nobody is logged in. *)
UserLogout(who, c) ==
    \/ /\ group[c] = "nil"
       /\ Ends("panic", c) /\ UNCHANGED <<logouts, user>>
    \/ /\ group[c] # "nil"
       /\ logouts' = logouts \cup {[Calls(who, c) EXCEPT !.pc = IF user[c] = NoUser
                                                              THEN "returned" ELSE "sent"]}
       /\ GoesOn /\ UNCHANGED user

LogoutServed(l) ==
    /\ Up /\ l \in logouts /\ l.pc = "sent" /\ link[l.conn] = "ready"
    /\ account' = [account EXCEPT ![l.conn] = @ \ {l.user}]
    /\ logouts' = (logouts \ {l}) \cup {[l EXCEPT !.pc = "served"]}
    /\ UNCHANGED <<promptVars, main, conns, link, user, group, watchers, streamVars, ended, historyVars>>

LogoutAnswered(l) ==
    /\ Up /\ l \in logouts /\ l.pc = "served"
    /\ user' = [user EXCEPT ![l.conn] = NoUser]
    /\ logouts' = (logouts \ {l}) \cup {[l EXCEPT !.pc = "returned"]}
    /\ UNCHANGED <<promptVars, main, conns, link, group, account, watchers, streamVars, ended, historyVars>>

(* The call fails, and UserLogout reads the status of a nil response. *)
LogoutPanic(l) ==
    /\ Up /\ l \in logouts /\ l.pc # "returned" /\ link[l.conn] # "ready"
    /\ Ends("panic", l.conn)
    /\ UNCHANGED <<promptVars, main, conns, connVars, watchers, logouts, streamVars, historyVars>>

Returned(who, c) ==
    \E l \in logouts :
        /\ l.who = who /\ l.conn = c /\ l.pc = "returned"
        /\ logouts' = logouts \ {l}
-----------------------------------------------------------------------------
(***************************************************************************)
(* The prompt for an address, and ConnectClient.                           *)
(***************************************************************************)
(* grpc.Dial returns at once. *)
Dial ==
    /\ main = "address" /\ conns < MaxConns
    /\ Types
    /\ conns' = conns + 1
    /\ link' = [link EXCEPT ![conns + 1] = "connecting"]
    /\ main' = "dialing"
    /\ UNCHANGED <<user, group, account, watchers, logouts, streamVars, ended, historyVars>>

LeaveProgram ==
    /\ main = "address"
    /\ Types
    /\ Ends("quit", 0)
    /\ UNCHANGED <<main, conns, connVars, watchers, logouts, streamVars, historyVars>>

(* Five seconds are over; or the menu is about to be shown again. *)
ShowMenu ==
    /\ Up /\ main \in {"dialing", "again"}
    /\ IF link[conns] = "ready"
       THEN /\ Cardinality(watchers) < MaxMenus
            /\ main' = "menu"
            /\ watchers' = watchers \cup
                   {[conn |-> conns, number |-> inputs, pc |-> "on"]}
       ELSE main' = "address" /\ UNCHANGED watchers
    /\ UNCHANGED <<promptVars, conns, connVars, logouts, streamVars, ended, historyVars>>

(* Anything the menu does not act on. *)
MenuOther ==
    /\ main = "menu"
    /\ Types
    /\ main' = "again"
    /\ UNCHANGED <<conns, connVars, watchers, logouts, streamVars, ended, historyVars>>

UserLogin ==
    /\ main = "menu"
    /\ Types
    /\ main' = "login"
    /\ logins' = [logins EXCEPT ![conns] = @ \cup {inputs'}]
    /\ UNCHANGED <<conns, connVars, watchers, logouts, streamVars, ended, atSignal>>

(* The new user's id is the number of the line. *)
LoginServed ==
    /\ Up /\ main = "login" /\ link[conns] = "ready"
    /\ account' = [account EXCEPT ![conns] = @ \cup {inputs}]
    /\ main' = "login served"
    /\ UNCHANGED <<promptVars, conns, link, user, group, watchers, logouts, streamVars, ended, historyVars>>

LoginAnswered ==
    /\ Up /\ main = "login served"
    /\ user' = [user EXCEPT ![conns] = inputs]
    /\ main' = "again"
    /\ UNCHANGED <<promptVars, conns, link, group, account, watchers, logouts, streamVars, ended, historyVars>>

(* The connection is left as it is. *)
LoginFailed ==
    /\ Up /\ main \in {"login", "login served"} /\ link[conns] # "ready"
    /\ main' = "address"
    /\ UNCHANGED <<promptVars, conns, connVars, watchers, logouts, streamVars, ended, historyVars>>

(* ServerView: without an answer the program reads the peers of a nil      *)
(* response.                                                               *)
ServerView(next) ==
    \/ link[conns] = "ready" /\ next /\ GoesOn
    \/ /\ link[conns] # "ready" /\ Ends("panic", conns)
       /\ UNCHANGED <<main, streamVars>>

MenuView ==
    /\ main = "menu"
    /\ Types
    /\ ServerView(main' = "again" /\ UNCHANGED streamVars)
    /\ UNCHANGED <<conns, connVars, watchers, logouts, historyVars>>

MenuQuit ==
    /\ main = "menu"
    /\ Types
    /\ UserLogout(<<"main", 0>>, conns)
    /\ main' = "logout"
    /\ UNCHANGED <<conns, link, group, account, watchers, streamVars, historyVars>>

MenuQuitDone ==
    /\ Up /\ main = "logout" /\ Returned(<<"main", 0>>, conns)
    /\ link' = [link EXCEPT ![conns] = "closed"]
    /\ main' = "address"
    /\ UNCHANGED <<promptVars, conns, user, group, account, watchers, streamVars,
                   ended, historyVars>>

(* The end of the input.  (At the prompt for an address it changes         *)
(* nothing: the program asks again for ever.)                              *)
MenuEof ==
    /\ Up /\ main = "menu"
    /\ UserLogout(<<"main", 0>>, conns)
    /\ main' = "eof"
    /\ UNCHANGED <<promptVars, conns, link, group, account, watchers, streamVars, historyVars>>

MenuEofDone ==
    /\ Up /\ main = "eof" /\ Returned(<<"main", 0>>, conns)
    /\ Ends("eof", conns)
    /\ UNCHANGED <<promptVars, main, conns, connVars, watchers, streamVars, historyVars>>
-----------------------------------------------------------------------------
(***************************************************************************)
(* JoinGroupChat.                                                          *)
(***************************************************************************)
(* The stream is opened and the join sent; when there is no stream the     *)
(* program ends, when the join cannot be sent ConnectClient returns.       *)
JoinGroupChat ==
    /\ main = "menu" /\ user[conns] # NoUser
    /\ Types
    /\ \/ /\ link[conns] = "ready"
          /\ main' = "stream"
          /\ stream' = [stream EXCEPT ![conns] = "open"]
          /\ owed' = [owed EXCEPT ![conns] = <<"j">>]
          /\ receiver' = [receiver EXCEPT ![conns] = "on"]
          /\ sender' = [sender EXCEPT ![conns] = "on"]
          /\ GoesOn
          /\ UNCHANGED done
       \/ /\ link[conns] # "ready"
          /\ \/ Ends("fatal", conns) /\ UNCHANGED main
             \/ GoesOn /\ main' = "address"
          /\ UNCHANGED streamVars
    /\ UNCHANGED <<conns, connVars, watchers, logouts, historyVars>>

(* To close a closed channel is a panic. *)
CloseDone(c) ==
    /\ done' = [done EXCEPT ![c] = @ + 1]
    /\ IF done[c] = 0 THEN GoesOn ELSE Ends("panic", c)

StreamingEnded ==
    /\ Up /\ main = "stream" /\ done[conns] > 0
    /\ main' = "address"
    /\ UNCHANGED <<promptVars, conns, connVars, watchers, logouts, streamVars, ended, historyVars>>

(* The receiver takes a response, and prints it. *)
Receives(c) ==
    /\ Up /\ receiver[c] = "on" /\ stream[c] \in {"open", "half"} /\ link[c] = "ready"
    /\ UNCHANGED <<promptVars, main, conns, link, user, account, watchers, logouts,
                   stream, done, receiver, sender, ended, historyVars>>

AnswersNext(c, event) ==
    /\ owed[c] # <<>> /\ Head(owed[c]) = event
    /\ owed' = [owed EXCEPT ![c] = Tail(@)]

(* The group it has joined, or nil. *)
JoinAnswered(c, g) ==
    /\ Receives(c) /\ AnswersNext(c, "j")
    /\ group' = [group EXCEPT ![c] = g]

(* A broadcast changes nothing; neither does this. *)
PrintAnswered(c) ==
    /\ Receives(c) /\ AnswersNext(c, "p")
    /\ UNCHANGED group

(* Mistaken variant: the handler returns nil at the end of the requests. *)
ReturnsNil(c) == "eof"

(* What the client hears when JoinGroupChat of the server returns at the   *)
(* end of the requests: it returns the EOF as an error of the call.        *)
Status(c) == "error"

(* The server has served every request of a stream that is half closed.    *)
ServerReturns(c) ==
    /\ Up /\ stream[c] = "half" /\ link[c] = "ready"
    /\ stream' = [stream EXCEPT ![c] = Status(c)]
    /\ UNCHANGED <<promptVars, main, conns, connVars, watchers, logouts, owed, done,
                   receiver, sender, ended, historyVars>>

ReceiverEnds(c) ==
    /\ Up /\ receiver[c] = "on"
    /\ stream[c] \in {"error", "eof"} \/ link[c] # "ready"
    /\ receiver' = [receiver EXCEPT ![c] = "ended"]
    /\ IF stream[c] = "eof" THEN CloseDone(c) ELSE GoesOn /\ UNCHANGED done
    /\ UNCHANGED <<promptVars, main, conns, connVars, watchers, logouts, stream, owed,
                   sender, historyVars>>

SenderEof(c) ==
    /\ Up /\ sender[c] = "on"
    /\ sender' = [sender EXCEPT ![c] = "ended"]
    /\ UNCHANGED <<promptVars, main, conns, connVars, watchers, logouts, stream, owed,
                   done, receiver, ended, historyVars>>

(* The request is sent, or the stream is over and the goroutine with it. *)
Sends(c, answer) ==
    IF link[c] = "ready"
    THEN owed' = [owed EXCEPT ![c] = @ \o answer] /\ UNCHANGED sender
    ELSE sender' = [sender EXCEPT ![c] = "ended"] /\ UNCHANGED owed

(* ProcessMessage of a line that reads the name or the number of the       *)
(* group: a join, a request to print, and, if somebody is logged in, an    *)
(* append or a like.  The server answers the first two.                    *)
SendInGroup(c, answer) ==
    /\ sender[c] = "on"
    /\ Types
    /\ IF group[c] = "nil" /\ (answer # <<>> \/ user[c] # NoUser)
       THEN Ends("panic", c) /\ UNCHANGED <<owed, sender>>
       ELSE GoesOn /\ Sends(c, answer)
    /\ UNCHANGED <<main, conns, connVars, watchers, logouts, stream, done, receiver, historyVars>>

(* An unlike, or a line that is not understood, sent as an empty request. *)
SendOther(c) ==
    /\ sender[c] = "on"
    /\ Types
    /\ Sends(c, <<>>)
    /\ UNCHANGED <<main, conns, connVars, watchers, logouts, stream, done, receiver, ended, historyVars>>

(* The empty request after the view is sent like any other. *)
SendView(c) ==
    /\ sender[c] = "on" /\ c = conns
    /\ Types
    /\ ServerView(UNCHANGED <<main, streamVars>>)
    /\ UNCHANGED <<conns, connVars, watchers, logouts, historyVars>>

SendQuit(c) ==
    /\ sender[c] = "on"
    /\ Types
    /\ UserLogout(<<"sender", 0>>, c)
    /\ sender' = [sender EXCEPT ![c] = "logout"]
    /\ UNCHANGED <<main, conns, link, group, account, watchers, stream, owed, done,
                   receiver, historyVars>>

(* CloseSend and close(done). *)
SendQuitDone(c) ==
    /\ Up /\ sender[c] = "logout" /\ Returned(<<"sender", 0>>, c)
    /\ sender' = [sender EXCEPT ![c] = "ended"]
    /\ stream' = [stream EXCEPT ![c] = IF @ = "open" THEN "half" ELSE @]
    /\ CloseDone(c)
    /\ UNCHANGED <<promptVars, main, conns, connVars, watchers, owed, receiver, historyVars>>
-----------------------------------------------------------------------------
(***************************************************************************)
(* ConnectionHealthCheck, whose goroutines start at once.                  *)
(***************************************************************************)
Watcher == [conn : Conn, number : 0..MaxInputs, pc : {"on", "signalled", "logout"}]

Moves(w, pc) == watchers' = (watchers \ {w}) \cup {[w EXCEPT !.pc = pc]}

(* Mistaken variant: only a connection the program has closed counts. *)
Closed(c) == link[c] = "closed"

Disconnected(c) == link[c] # "ready"

(* Server Disconnected: the program ends, whoever is logged in. *)
FindsDisconnected(w) ==
    /\ Up /\ w \in watchers /\ Disconnected(w.conn)
    /\ Ends("disconnected", w.conn)
    /\ UNCHANGED <<promptVars, main, conns, connVars, watchers, logouts, streamVars, historyVars>>

(* SIGINT goes to everybody who has asked for it; if nobody has, it ends   *)
(* the program.                                                            *)
Interrupt ==
    LET on == {w \in watchers : w.pc = "on"}
    IN /\ Up /\ signals = 0
       /\ signals' = 1
       /\ atSignal' = user
       /\ watchers' = (watchers \ on) \cup {[w EXCEPT !.pc = "signalled"] : w \in on}
       /\ IF on = {} THEN Ends("killed", 0) ELSE GoesOn
       /\ UNCHANGED <<inputs, main, conns, connVars, logouts, streamVars, logins>>

WatcherLogsOut(w) ==
    /\ Up /\ w \in watchers /\ w.pc = "signalled"
    /\ Moves(w, "logout")
    /\ UserLogout(<<"watcher", w.number>>, w.conn)
    /\ UNCHANGED <<promptVars, main, conns, link, group, account, streamVars, historyVars>>

WatcherExits(w) ==
    /\ Up /\ w \in watchers /\ w.pc = "logout" /\ Returned(<<"watcher", w.number>>, w.conn)
    /\ Ends("interrupt", w.conn)
    /\ UNCHANGED <<promptVars, main, conns, connVars, watchers, streamVars, historyVars>>

(* The other end. *)
Connects(c) ==
    /\ Up /\ link[c] = "connecting"
    /\ link' = [link EXCEPT ![c] = "ready"]
    /\ UNCHANGED <<promptVars, main, conns, user, group, account, watchers, logouts,
                   streamVars, ended, historyVars>>

Loses(c) ==
    /\ Up /\ link[c] = "ready"
    /\ link' = [link EXCEPT ![c] = "lost"]
    /\ UNCHANGED <<promptVars, main, conns, user, group, account, watchers, logouts,
                   streamVars, ended, historyVars>>

PromptStep ==
    \/ Dial \/ LeaveProgram
    \/ ShowMenu \/ MenuOther \/ MenuView \/ MenuQuit \/ MenuQuitDone
    \/ MenuEof \/ MenuEofDone
    \/ UserLogin \/ LoginServed \/ LoginAnswered \/ LoginFailed
    \/ JoinGroupChat \/ StreamingEnded

StreamStep(c) ==
    \/ \E g \in {"named", "nil"} : JoinAnswered(c, g)
    \/ PrintAnswered(c)
    \/ ServerReturns(c) \/ ReceiverEnds(c) \/ SenderEof(c)
    \/ \E answer \in {<<"j">>, <<"p">>, <<>>} : SendInGroup(c, answer)
    \/ SendOther(c) \/ SendView(c) \/ SendQuit(c) \/ SendQuitDone(c)
    \/ Connects(c) \/ Loses(c)

WatcherStep ==
    \/ \E l \in logouts : LogoutServed(l)
    \/ \E l \in logouts : LogoutAnswered(l)
    \/ \E l \in logouts : LogoutPanic(l)
    \/ \E w \in watchers : FindsDisconnected(w)
    \/ \E w \in watchers : WatcherLogsOut(w)
    \/ \E w \in watchers : WatcherExits(w)
    \/ Interrupt

Next == PromptStep \/ (\E c \in Conn : StreamStep(c)) \/ WatcherStep

Spec == Init /\ [][Next]_vars

(* The call of a sender that logs out is answered, or it fails, and the    *)
(* sender goes on from there.                                              *)
SenderLogsOut(c) ==
    \/ \E l \in logouts :
           /\ l.who = <<"sender", 0>> /\ l.conn = c
           /\ LogoutServed(l) \/ LogoutAnswered(l) \/ LogoutPanic(l)
    \/ SendQuitDone(c)

(* The goroutines of the program keep being scheduled, and no server       *)
(* leaves a logout without an answer for ever.  The user owes nothing, and *)
(* neither does a server its answers on a stream.                          *)
Fairness ==
    /\ \A c \in Conn : WF_vars(\E w \in watchers : w.conn = c /\ FindsDisconnected(w))
    /\ \A c \in Conn : WF_vars(SenderLogsOut(c))
    /\ WF_vars(StreamingEnded)

FairSpec == Spec /\ Fairness
-----------------------------------------------------------------------------
(***************************************************************************)
(* Properties.                                                             *)
(***************************************************************************)
Who == ({"main", "sender"} \X {0}) \cup ({"watcher"} \X (0..MaxInputs))

LogoutCall == [who : Who, conn : Conn, user : Login \cup {NoUser},
               pc : {"sent", "served", "returned"}]

Outcome == [how : {"no", "quit", "killed", "interrupt", "disconnected", "eof", "fatal",
                   "panic"}, conn : 0..MaxConns]

(* Type invariant; in particular no stream ends with an EOF. *)
ClientTypeOK ==
    /\ inputs \in 0..MaxInputs
    /\ signals \in 0..1
    /\ main \in {"address", "dialing", "again", "menu", "login", "login served",
                 "logout", "eof", "stream"}
    /\ conns \in 0..MaxConns
    /\ link \in [Conn -> {"none", "connecting", "ready", "lost", "closed"}]
    /\ user \in [Conn -> Login \cup {NoUser}]
    /\ group \in [Conn -> {"none", "named", "nil"}]
    /\ account \in [Conn -> SUBSET Login]
    /\ watchers \in SUBSET Watcher
    /\ logouts \in SUBSET LogoutCall
    /\ stream \in [Conn -> {"none", "open", "half", "error"}]
    /\ owed \in [Conn -> Seq({"j", "p"})]
    /\ done \in [Conn -> 0..2]
    /\ receiver \in [Conn -> {"none", "on", "ended"}]
    /\ sender \in [Conn -> {"none", "on", "logout", "ended"}]
    /\ ended \in Outcome
    /\ logins \in [Conn -> SUBSET Login] /\ atSignal \in [Conn -> Login \cup {NoUser}]

(* done is closed once: after the user's q the sender closes it, and the   *)
(* receiver, which would close it at the end of the stream, never hears of *)
(* that end as an EOF.                                                     *)
DoneClosedOnce == \A c \in Conn : done[c] <= 1

(* Nobody stays logged in behind a client that leaves: as long as its      *)
(* server is there, a user who logged in once has been logged out when the *)
(* program asks for the next address, when it ends with its input, and     *)
(* when one of the goroutines waiting for an interrupt ends it, although   *)
(* several goroutines log the user out at once and each of them finds the  *)
(* user in the store or not (UserLogout).                                  *)
LogsOutBeforeLeaving ==
    \A c \in Conn :
        link[c] = "ready" /\ Cardinality(logins[c]) <= 1 =>
            /\ c < conns \/ main = "address" => account[c] = {}
            /\ ended = [how |-> "eof", conn |-> c] => account[c] = {}
            /\ ended = [how |-> "interrupt", conn |-> c] => atSignal[c] \notin account[c]

(* Nobody waits for ever in JoinGroupChat for goroutines that have ended   *)
(* without closing done: once the server is lost, the receiver has         *)
(* returned or the user has typed q, main is back at its prompt or the     *)
(* program has ended, whichever of the sender, the receiver and the health *)
(* checks of the menus gets there first.  (The end of the input is not     *)
(* among the causes: after it the sender has returned and main waits for   *)
(* as long as the server is there.)                                        *)
JoinGroupChatReturns ==
    (/\ main = "stream"
     /\ \/ link[conns] # "ready"
        \/ receiver[conns] = "ended"
        \/ sender[conns] = "logout")
        ~> (main # "stream" \/ ~Up)
=============================================================================
