------------------------------- MODULE MCRaft -------------------------------
(***************************************************************************)
(* Model-checking instances of Raft: the symmetry of the servers, and      *)
(* initial states some way into an execution from Init, from which the     *)
(* interesting behaviour of a leader is a few steps away.                  *)
(***************************************************************************)
EXTENDS RaftRefinement, TLC

CONSTANT Boot   \* the server that leads, or runs, in the states below

ASSUME BootAssumption == Boot \in Server

ServerSymmetry == Permutations(Server)
PeerSymmetry == Permutations(Server \ {Boot})

NoDisk == [term |-> 0, votedFor |-> Nil, log |-> <<>>, written |-> FALSE]
Vote(v, t, c) == [voter |-> v, term |-> t, candidate |-> c]
Votes(vs, t, c) == {Vote(v, t, c) : v \in vs}
Row(f) == [n \in Server |-> f]
(* No goroutine is running. *)
Idle ==
    /\ voteCalls = {} /\ voteRequests = {} /\ voteReplies = {} /\ starting = {}
    /\ appendCalls = {} /\ appendRequests = {} /\ appendReplies = {}
    /\ unsaved = {} /\ saving = {}

LeaderIndexes(l, len) ==
    /\ nextIndex = [n \in Server |-> [p \in Server |->
                        IF n = l /\ p # l THEN len + 1 ELSE 1]]
    /\ matchIndex = [n \in Server |-> [p \in Server |->
                        IF n = l /\ p # l THEN 0 ELSE 1]]

FirstEntry == [term |-> 1, command |-> 1]

(* The state after the first election: Boot asked every peer for its vote  *)
(* in term 1, all granted it, and the responses have been handled.  The    *)
(* last of them found Boot leading already and was not counted.  It has    *)
(* taken and saved entries; of the bounds so much is used up.              *)
Led(entries, electionsUsed, roundsUsed, submitsUsed) ==
    \E last \in Peers(Boot) :
        /\ commitIndex = Row(0) /\ lastApplied = Row(0) /\ newCommitReady = Row(0)
        /\ Idle
        /\ state = [Row(Follower) EXCEPT ![Boot] = Leader]
        /\ currentTerm = Row(1)
        /\ votedFor = Row(Boot)
        /\ log = [Row(<<>>) EXCEPT ![Boot] = entries] /\ applied = Row(<<>>)
        /\ leaderid = [Row(Nil) EXCEPT ![Boot] = Boot]
        /\ LeaderIndexes(Boot, 0)
        /\ elections = electionsUsed /\ rounds = roundsUsed /\ crashes = MaxCrashes
        /\ electionTerm = [e \in Election |-> IF e = 1 THEN 1 ELSE 0]
        /\ votesReceived = [e \in Election |-> IF e = 1 THEN Server \ {last} ELSE {}]
        /\ submitted = submitsUsed
        /\ disk = [Row(Saved(1, Boot, <<>>)) EXCEPT ![Boot] =
               IF entries = <<>> THEN NoDisk ELSE Saved(1, Boot, entries)]
        /\ grants = Votes(Server, 1, Boot)
        /\ leaders = {[server |-> Boot, term |-> 1]}

(* The state of Init; no heartbeats or commands are sent. *)
Fresh ==
    /\ commitIndex = Row(0) /\ lastApplied = Row(0) /\ newCommitReady = Row(0)
    /\ Idle
    /\ state = Row(Follower) /\ currentTerm = Row(0) /\ votedFor = Row(Nil)
    /\ log = Row(<<>>) /\ applied = Row(<<>>) /\ leaderid = Row(Nil)
    /\ nextIndex = Row(Row(1)) /\ matchIndex = Row(Row(1))
    /\ elections = 0 /\ rounds = MaxRounds /\ crashes = MaxCrashes
    /\ electionTerm = [e \in Election |-> 0]
    /\ votesReceived = [e \in Election |-> {}]
    /\ submitted = MaxSubmits
    /\ disk = Row(NoDisk) /\ grants = {} /\ leaders = {}

(* Three elections without heartbeats, or one more in the middle of        *)
(* replication.                                                            *)
ElectionsSpec ==
    /\ Fresh \/ Led(<<>>, MaxElections - 1, 0, 0)
    /\ [][Next]_vars

(* A command has been taken, committed, applied and saved everywhere, so   *)
(* that every server would find its term and vote again after a restart.   *)
(* No more commands are sent.                                              *)
Stored(electionsUsed, roundsUsed) ==
    /\ Idle /\ rounds = roundsUsed /\ crashes = 0
    /\ commitIndex = Row(1) /\ lastApplied = Row(1) /\ newCommitReady = Row(0)
    /\ applied = Row(<<[command |-> 1, index |-> 1, term |-> 1]>>)
    /\ state = [Row(Follower) EXCEPT ![Boot] = Leader]
    /\ currentTerm = Row(1) /\ votedFor = Row(Boot)
    /\ log = Row(<<FirstEntry>>) /\ leaderid = Row(Boot)
    /\ nextIndex = [Row(Row(1)) EXCEPT ![Boot] =
                        [p \in Server |-> IF p = Boot THEN 1 ELSE 2]]
    /\ matchIndex = Row(Row(1))
    /\ elections = electionsUsed
    /\ electionTerm = [e \in Election |-> IF e = 1 THEN 1 ELSE 0]
    /\ votesReceived = [e \in Election |-> IF e = 1 THEN Server ELSE {}]
    /\ submitted = MaxSubmits
    /\ disk = Row(Saved(1, Boot, <<FirstEntry>>))
    /\ grants = Votes(Server, 1, Boot)
    /\ leaders = {[server |-> Boot, term |-> 1]}

(* Boot led term 1, a command was committed, applied and saved everywhere, *)
(* and Boot took two more that it never sent; a peer asked for its vote in *)
(* term 2, was refused, and Boot stepped down; then Boot won term 3 with   *)
(* the votes of all, and has spawned a round of AppendEntries.  Before its *)
(* goroutines run, a rival wins term 4 with the vote of the third server   *)
(* and takes a command.  If the rival is behind with its goroutines it has *)
(* not saved the command yet, nor sent the vote request to Boot; otherwise *)
(* that request has been lost.                                             *)
AheadLog == <<FirstEntry, [term |-> 1, command |-> 2], [term |-> 1, command |-> 3]>>

Deposed(roundsUsed, crashesUsed, behind) ==
    \E rival \in Peers(Boot) : \E third \in Peers(Boot) \ {rival} :
        /\ commitIndex = Row(1) /\ lastApplied = Row(1) /\ newCommitReady = Row(0)
        /\ voteCalls = {c \in {[src |-> rival, dst |-> Boot, eid |-> 4, term |-> 4]} :
                            behind}
        /\ voteRequests = {} /\ voteReplies = {} /\ starting = {}
        /\ rounds = roundsUsed
        /\ appendCalls = {[src |-> Boot, dst |-> p, round |-> 1, term |-> 3] :
                              p \in Peers(Boot)}
        /\ appendRequests = {} /\ appendReplies = {}
        /\ unsaved = {u \in {[server |-> rival, command |-> 4]} : behind}
        /\ saving = {} /\ applied = Row(<<[command |-> 1, index |-> 1, term |-> 1]>>)
        /\ crashes = crashesUsed
        /\ state = [Row(Leader) EXCEPT ![third] = Follower]
        /\ currentTerm = [Row(4) EXCEPT ![Boot] = 3]
        /\ votedFor = [Row(rival) EXCEPT ![Boot] = Boot]
        /\ log = [n \in Server |-> CASE n = Boot -> AheadLog
                                    [] n = rival -> <<FirstEntry, [term |-> 4, command |-> 4]>>
                                    [] OTHER -> <<FirstEntry>>]
        /\ leaderid = [Row(Nil) EXCEPT ![Boot] = Boot, ![rival] = rival]
        /\ nextIndex = [n \in Server |-> [p \in Server |->
                            IF n = third \/ p = n THEN 1
                            ELSE IF n = Boot THEN 4 ELSE 2]]
        /\ matchIndex = [n \in Server |-> [p \in Server |->
                            IF n = third \/ p = n THEN 1 ELSE 0]]
        /\ elections = 4
        /\ electionTerm = [e \in Election |-> IF e <= 4 THEN e ELSE 0]
        /\ votesReceived = [e \in Election |->
               CASE e \in {1, 3} -> {Boot, rival}
                 [] e = 2 -> {rival}
                 [] e = 4 -> {rival, third}
                 [] OTHER -> {}]
        /\ submitted = 4
        /\ disk = [n \in Server |->
               CASE n = Boot -> Saved(2, Nil, AheadLog)
                 [] n = rival -> IF behind THEN Saved(3, Boot, <<FirstEntry>>)
                                           ELSE Saved(4, rival, log[rival])
                 [] OTHER -> Saved(4, rival, <<FirstEntry>>)]
        /\ grants = Votes(Server, 1, Boot) \cup Votes({rival}, 2, rival)
                      \cup Votes(Server, 3, Boot) \cup Votes({rival, third}, 4, rival)
        /\ leaders = {[server |-> Boot, term |-> 1], [server |-> Boot, term |-> 3],
                      [server |-> rival, term |-> 4]}

(* Two rounds and a command of one leader; servers that have all data on   *)
(* disk, with a crash, and two elections or one and a round; a deposed     *)
(* leader, with two more rounds, or with one and a crash.                  *)
ReplicationSpec ==
    /\ \/ Led(<<>>, MaxElections, MaxRounds - 2, MaxSubmits - 1)
       \/ Led(<<FirstEntry>>, MaxElections, MaxRounds - 2, MaxSubmits - 1)
       \/ Stored(MaxElections - 2, MaxRounds)
       \/ Stored(MaxElections - 1, MaxRounds - 1)
       \/ Deposed(1, MaxCrashes, FALSE)
       \/ \E behind \in BOOLEAN : Deposed(2, 0, behind)
    /\ [][Next]_vars

(* Boot stood in term 1 and both peers granted it their vote, but their    *)
(* responses were slow; Boot timed out and stood in term 2, a rival stood  *)
(* in term 2 as well and won with the vote of the third server.  Then the  *)
(* responses of term 1 arrived and made Boot a leader, of term 2.          *)
SplitInit ==
    \E rival \in Peers(Boot) : \E third \in Peers(Boot) \ {rival} :
        /\ Idle
        /\ commitIndex = Row(0) /\ lastApplied = Row(0) /\ newCommitReady = Row(0)
        /\ rounds = 0 /\ crashes = 0 /\ applied = Row(<<>>)
        /\ state = [Row(Leader) EXCEPT ![third] = Follower]
        /\ currentTerm = Row(2)
        /\ votedFor = [Row(rival) EXCEPT ![Boot] = Boot]
        /\ log = Row(<<>>)
        /\ leaderid = [Row(Nil) EXCEPT ![Boot] = Boot, ![rival] = rival]
        /\ nextIndex = Row(Row(1))
        /\ matchIndex = [n \in Server |-> [p \in Server |->
                            IF n = third \/ p = n THEN 1 ELSE 0]]
        /\ elections = 3
        /\ electionTerm = [e \in Election |-> CASE e = 1 -> 1 [] e \in {2, 3} -> 2
                                               [] OTHER -> 0]
        /\ votesReceived = [e \in Election |-> CASE e = 1 -> {Boot, rival}
                                                [] e = 2 -> {Boot}
                                                [] e = 3 -> {rival, third}
                                                [] OTHER -> {}]
        /\ submitted = 0
        /\ disk = [Row(Saved(2, rival, <<>>)) EXCEPT ![Boot] = Saved(2, Boot, <<>>)]
        /\ grants = Votes(Server, 1, Boot) \cup Votes({Boot}, 2, Boot)
                      \cup Votes({rival, third}, 2, rival)
        /\ leaders = {[server |-> Boot, term |-> 2], [server |-> rival, term |-> 2]}

SplitSpec == SplitInit /\ [][Next]_vars

(* Boot led term 1 and took commands 1 and 2, which it sent to nobody; a   *)
(* rival won term 2 with the vote of the third server and took command 3;  *)
(* Boot won term 3 and the third server accepted commands 1 and 2, in a    *)
(* response that is still on its way; the rival won term 4 and replaced    *)
(* what Boot held by command 3; Boot won term 5, with the votes of all,    *)
(* and has just taken command 4.                                           *)
StaleLog == <<[term |-> 1, command |-> 1], [term |-> 1, command |-> 2]>>
RivalLog == <<[term |-> 2, command |-> 3]>>
BootLog == Append(RivalLog, [term |-> 5, command |-> 4])

StaleAnswerInit ==
    \E rival \in Peers(Boot) : \E third \in Peers(Boot) \ {rival} :
        /\ commitIndex = Row(0) /\ lastApplied = Row(0) /\ newCommitReady = Row(0)
        /\ voteCalls = {} /\ voteRequests = {} /\ voteReplies = {} /\ starting = {}
        /\ appendCalls = {} /\ appendRequests = {}
        /\ appendReplies = {[src |-> Boot, dst |-> third, round |-> 2, term |-> 3,
                             ni |-> 1, sent |-> 2, replyTerm |-> 3, success |-> TRUE]}
        /\ unsaved = {} /\ saving = {}
        /\ rounds = 4 /\ crashes = MaxCrashes /\ applied = Row(<<>>)
        /\ state = [Row(Follower) EXCEPT ![Boot] = Leader]
        /\ currentTerm = Row(5) /\ votedFor = Row(Boot)
        /\ log = [Row(StaleLog) EXCEPT ![Boot] = BootLog, ![rival] = RivalLog]
        /\ leaderid = [Row(rival) EXCEPT ![Boot] = Boot]
        /\ nextIndex = [n \in Server |-> [p \in Server |->
                            IF n = third \/ p = n THEN 1 ELSE 2]]
        /\ matchIndex = [n \in Server |-> [p \in Server |->
                            IF n = third \/ p = n \/ (n = rival /\ p = Boot)
                            THEN 1 ELSE 0]]
        /\ elections = 5
        /\ electionTerm = [e \in Election |-> IF e <= 5 THEN e ELSE 0]
        /\ votesReceived = [e \in Election |-> CASE e \in {1, 3, 5} -> {Boot, third}
                                                [] e \in {2, 4} -> {rival, third}
                                                [] OTHER -> {}]
        /\ submitted = 4
        /\ disk = [n \in Server |-> Saved(5, Boot, log[n])]
        /\ grants = Votes(Server, 1, Boot) \cup Votes({rival, third}, 2, rival)
                      \cup Votes({Boot, third}, 3, Boot) \cup Votes(Server, 4, rival)
                      \cup Votes(Server, 5, Boot)
        /\ leaders = {[server |-> Boot, term |-> t] : t \in {1, 3, 5}}
                      \cup {[server |-> rival, term |-> t] : t \in {2, 4}}

StaleAnswerSpec == StaleAnswerInit /\ [][Next]_vars

(* Boot led term 1 and took command 1, which it did not send; a rival won  *)
(* term 2 with the vote of the third server and took command 2; Boot won   *)
(* term 3 and sent the third server command 1, in a request that is still  *)
(* on its way, and has begun another round; the rival won term 4 with      *)
(* Boot's vote, replaced what Boot held by command 2, took command 3, and  *)
(* the two of them have committed and applied both.  Of what the rival has *)
(* to tell the third server nothing has been sent yet, nor has Boot's      *)
(* second round: its goroutine will read what Boot holds by now.           *)
StaleRequestInit ==
    \E rival \in Peers(Boot) : \E third \in Peers(Boot) \ {rival} :
        /\ voteCalls = {[src |-> rival, dst |-> third, eid |-> 4, term |-> 4]}
        /\ voteRequests = {} /\ voteReplies = {} /\ starting = {}
        /\ appendCalls = {[src |-> Boot, dst |-> third, round |-> 3, term |-> 3]}
              \cup {[src |-> rival, dst |-> third, round |-> k, term |-> 4] : k \in 4..6}
        /\ appendRequests = {[src |-> Boot, dst |-> third, round |-> 2, term |-> 3,
                              prevLogIndex |-> 0, prevLogTerm |-> 0,
                              entries |-> <<FirstEntry>>, leaderCommit |-> 0,
                              live |-> TRUE]}
        /\ appendReplies = {} /\ unsaved = {} /\ saving = {}
        /\ commitIndex = [Row(2) EXCEPT ![third] = 0]
        /\ lastApplied = [Row(2) EXCEPT ![third] = 0] /\ newCommitReady = Row(0)
        /\ applied = [Row(<<[command |-> 2, index |-> 1, term |-> 4],
                            [command |-> 3, index |-> 2, term |-> 4]>>)
                         EXCEPT ![third] = <<>>]
        /\ rounds = 6 /\ crashes = MaxCrashes /\ submitted = 3
        /\ state = [Row(Follower) EXCEPT ![rival] = Leader]
        /\ currentTerm = [Row(4) EXCEPT ![third] = 3]
        /\ votedFor = [Row(rival) EXCEPT ![third] = Boot]
        /\ log = [Row(<<[term |-> 2, command |-> 2], [term |-> 4, command |-> 3]>>)
                     EXCEPT ![third] = <<>>]
        /\ leaderid = [Row(Boot) EXCEPT ![Boot] = rival]
        /\ nextIndex = [n \in Server |-> [p \in Server |->
               CASE n = Boot /\ p = rival -> 2
                 [] n = rival /\ p = Boot -> 3
                 [] n = rival /\ p = third -> 2
                 [] OTHER -> 1]]
        /\ matchIndex = [n \in Server |-> [p \in Server |->
               IF n = third \/ p = n THEN 1 ELSE IF n = rival /\ p = Boot THEN 2 ELSE 0]]
        /\ elections = 4
        /\ electionTerm = [e \in Election |-> IF e <= 4 THEN e ELSE 0]
        /\ votesReceived = [e \in Election |-> CASE e = 1 -> {Boot, rival}
                                                [] e = 2 -> {rival, third}
                                                [] e = 3 -> {Boot, third}
                                                [] e = 4 -> {Boot, rival}
                                                [] OTHER -> {}]
        /\ disk = [n \in Server |-> IF n = third THEN Saved(3, Boot, <<>>)
                                                 ELSE Saved(4, rival, log[n])]
        /\ grants = Votes(Server, 1, Boot) \cup Votes({rival, third}, 2, rival)
                      \cup Votes({Boot, third}, 3, Boot) \cup Votes({Boot, rival}, 4, rival)
        /\ leaders = {[server |-> Boot, term |-> t] : t \in {1, 3}}
                      \cup {[server |-> rival, term |-> t] : t \in {2, 4}}

StaleRequestSpec == StaleRequestInit /\ [][Next]_vars
=============================================================================
