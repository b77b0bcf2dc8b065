---------------------------- MODULE MCRaftForward ---------------------------
(* Model-checking instances of RaftForward. *)
EXTENDS RaftForward, TLC

CONSTANTS
    Old,   \* the leader of term 1
    Boot   \* the leader of term 2, if there has been one

ASSUME LeadersAssumption == Old \in Server /\ Boot \in Peers(Old)

Row(f) == [n \in Server |-> f]

Heartbeats(n, k, term) ==
    {[src |-> n, dst |-> p, round |-> k, term |-> term, prevLogIndex |-> 0,
      prevLogTerm |-> 0, entries |-> <<>>, leaderCommit |-> 0, live |-> TRUE] :
        p \in Peers(n)}

(* Terms 1 to t have each had a leader, elected by all of the servers, and *)
(* nothing is in the logs.                                                 *)
LeaderOf(t) == IF t = 1 THEN Old ELSE Boot

Led(t) ==
    /\ NoForward
    /\ commitIndex = Row(0) /\ lastApplied = Row(0) /\ newCommitReady = Row(0)
    /\ voteCalls = {} /\ voteRequests = {} /\ starting = {} /\ voteReplies = {}
    /\ rounds = MaxRounds /\ appendReplies = {} /\ appendCalls = {}
    /\ submitted = 0 /\ unsaved = {} /\ saving = {}
    /\ applied = Row(<<>>) /\ crashes = 0
    /\ state = [Row(Follower) EXCEPT ![LeaderOf(t)] = Leader]
    /\ currentTerm = Row(t) /\ votedFor = Row(LeaderOf(t))
    /\ log = Row(<<>>)
    /\ nextIndex = Row(Row(1))
    /\ matchIndex = [n \in Server |-> [p \in Server |->
                        IF n \in {LeaderOf(k) : k \in 1..t} /\ p # n THEN 0 ELSE 1]]
    /\ elections = t
    /\ electionTerm = [e \in Election |-> IF e <= t THEN e ELSE 0]
    /\ votesReceived = [e \in Election |-> IF e <= t THEN {Old, Boot} ELSE {}]
    /\ grants = {[voter |-> v, term |-> k, candidate |-> LeaderOf(k)] :
                     v \in Server, k \in 1..t}
    /\ leaders = {[server |-> LeaderOf(k), term |-> k] : k \in 1..t}

(* Old leads; the peers of informed have handled its heartbeat.            *)
PartlyKnownInit ==
    \E informed \in SUBSET Peers(Old) :
        /\ Led(1)
        /\ appendRequests = {m \in Heartbeats(Old, 1, 1) : m.dst \notin informed}
        /\ leaderid = [n \in Server |-> IF n \in informed \cup {Old} THEN Old ELSE Nil]
        /\ disk = [Row(Saved(1, Old, <<>>)) EXCEPT ![Old] =
                      [term |-> 0, votedFor |-> Nil, log |-> <<>>, written |-> FALSE]]

(* Boot leads after Old; both have sent a heartbeat, none has been handled *)
(* yet and none need ever be: Old still names itself, who is told of Old   *)
(* by now believes it, and who knows Boot may be told of Old again.        *)
DeposedInit ==
    /\ Led(2)
    /\ appendRequests = Heartbeats(Old, 1, 1) \cup Heartbeats(Boot, 2, 2)
    /\ leaderid = [Row(Nil) EXCEPT ![Old] = Old, ![Boot] = Boot]
    /\ disk = [Row(Saved(2, Boot, <<>>)) EXCEPT ![Boot] = Saved(1, Old, <<>>)]

(* No more rounds are begun; a leader of term 1 may be replaced.           *)
ForwardSpec ==
    /\ PartlyKnownInit \/ DeposedInit
    /\ [][FNext]_<<vars, forwardVars>>
    /\ ForwardFairness
=============================================================================
