-------------------------------- MODULE Raft --------------------------------
(***************************************************************************)
(* The consensus module of the chat server (server/raft.go): elections,    *)
(* log replication, persistence of the Raft state and delivery of          *)
(* committed entries.  RaftForward adds the forwarding of commands.        *)
(*                                                                         *)
(* Everything the code does while it holds cm.mu is one action.  What runs *)
(* in a goroutine of its own is an action of its own, and what a goroutine *)
(* captured earlier travels in the record that stands for it:              *)
(*                                                                         *)
(*   voteCalls / voteRequests / voteReplies   the goroutines of            *)
(*     startElection before they read the log, their RequestVote RPCs in   *)
(*     flight, and the responses not yet handled;                          *)
(*   starting                                 "go cm.startLeader()";       *)
(*   appendCalls / appendRequests / appendReplies   the goroutines of      *)
(*     leaderSendAEs, in the same three stages;                            *)
(*   unsaved / saving                         Submit between releasing the *)
(*     lock and having written the Raft state.                             *)
(*                                                                         *)
(* Each record is handled at most once and in any order.  An RPC that      *)
(* fails does nothing in the code, so a lost request or response is one    *)
(* that is never handled.  Election and heartbeat timers may fire at any   *)
(* time.                                                                   *)
(***************************************************************************)
EXTENDS RaftLog

CONSTANTS
    Server,        \* the servers of the cluster
    Nil,           \* "no server", -1 in the code
    Late,          \* may a vote response be handled, or startLeader run,
                   \* after the server has left the election it belongs to?
    MaxTerm,       \* bound: no election beyond this term
    MaxElections,  \* bound: elections started
    MaxRounds,     \* bound: rounds of AppendEntries sent
    MaxSubmits,    \* bound: commands submitted by chat clients
    MaxCrashes     \* bound: crashes, panics included

ASSUME ServerAssumption == IsFiniteSet(Server) /\ Server # {} /\ Nil \notin Server
ASSUME BoundsAssumption ==
    /\ Late \in BOOLEAN
    /\ MaxTerm \in Nat
    /\ MaxElections \in Nat
    /\ MaxRounds \in Nat
    /\ MaxSubmits \in Nat
    /\ MaxCrashes \in Nat

Follower == "Follower"
Candidate == "Candidate"
Leader == "Leader"

CMState == {Follower, Candidate, Leader}
Term == Nat
Command == 1..MaxSubmits
Election == 1..MaxElections
LogEntry == [term : Term, command : Command]
Peers(n) == Server \ {n}

VARIABLES
    \* ConsensusModule
    state, currentTerm, votedFor, log, leaderid,
    commitIndex, lastApplied, nextIndex, matchIndex,
    newCommitReady,    \* signals waiting in newCommitReadyChan
    \* the closure of each startElection, in the order they began: its term
    \* and the votes counted
    elections, electionTerm, votesReceived,
    \* goroutines and RPCs
    voteCalls, voteRequests, voteReplies, starting,
    rounds, appendCalls, appendRequests, appendReplies,
    submitted, unsaved, saving,
    \* what survives a restart: the Raft keys of the DiskStore, and the
    \* entries handed to the application
    disk, applied,
    crashes,
    \* history: votes granted, leaderships begun
    grants, leaders

raftVars == <<state, currentTerm, votedFor, log, leaderid>>
commitVars == <<commitIndex, lastApplied, newCommitReady>>
leaderVars == <<nextIndex, matchIndex>>
electionVars == <<elections, electionTerm, votesReceived>>
voteVars == <<voteCalls, voteRequests, voteReplies, starting>>
appendVars == <<rounds, appendCalls, appendRequests, appendReplies>>
saveVars == <<unsaved, saving>>
historyVars == <<grants, leaders>>
vars == <<raftVars, commitVars, leaderVars, electionVars, voteVars, appendVars,
          submitted, saveVars, disk, applied, crashes, historyVars>>
-----------------------------------------------------------------------------
VoteCall == [src : Server, dst : Server, eid : Election, term : Term]
VoteRequest == [src : Server, dst : Server, eid : Election, term : Term,
                lastLogIndex : Nat, lastLogTerm : Nat, live : BOOLEAN]
VoteReply == [src : Server, dst : Server, eid : Election, term : Term,
              replyTerm : Term, granted : BOOLEAN]

AppendCall == [src : Server, dst : Server, round : 1..MaxRounds, term : Term]
AppendRequest == [src : Server, dst : Server, round : 1..MaxRounds, term : Term,
                  prevLogIndex : Nat, prevLogTerm : Nat, entries : Seq(LogEntry),
                  leaderCommit : Nat, live : BOOLEAN]
AppendReply == [src : Server, dst : Server, round : 1..MaxRounds, term : Term,
                ni : Nat \ {0}, sent : Nat, replyTerm : Term, success : BOOLEAN]

Snapshot == [term : Term, votedFor : Server \cup {Nil}, log : Seq(LogEntry),
             written : BOOLEAN]
Grant == [voter : Server, term : Term, candidate : Server]
Leadership == [server : Server, term : Term]
CommitEntry == [command : Command, index : Nat, term : Term]

(* The record SetState leaves on disk. *)
Saved(term, vote, entries) ==
    [term |-> term, votedFor |-> vote, log |-> entries, written |-> TRUE]

(* HasData decodes the "log" key and asks whether it holds an entry. *)
HasData(d) == Len(d.log) > 0

(* nextIndex and matchIndex start as empty Go maps, which read as 0; that  *)
(* is index 1 here.                                                        *)
Init ==
    /\ state = [n \in Server |-> Follower]
    /\ currentTerm = [n \in Server |-> 0]
    /\ votedFor = [n \in Server |-> Nil]
    /\ log = [n \in Server |-> <<>>]
    /\ leaderid = [n \in Server |-> Nil]
    /\ commitIndex = [n \in Server |-> 0]
    /\ lastApplied = [n \in Server |-> 0]
    /\ newCommitReady = [n \in Server |-> 0]
    /\ nextIndex = [n \in Server |-> [p \in Server |-> 1]]
    /\ matchIndex = [n \in Server |-> [p \in Server |-> 1]]
    /\ elections = 0
    /\ electionTerm = [e \in Election |-> 0]
    /\ votesReceived = [e \in Election |-> {}]
    /\ voteCalls = {} /\ voteRequests = {} /\ voteReplies = {} /\ starting = {}
    /\ rounds = 0
    /\ appendCalls = {} /\ appendRequests = {} /\ appendReplies = {}
    /\ submitted = 0
    /\ unsaved = {} /\ saving = {}
    /\ disk = [n \in Server |-> [term |-> 0, votedFor |-> Nil, log |-> <<>>,
                                 written |-> FALSE]]
    /\ applied = [n \in Server |-> <<>>]
    /\ crashes = 0
    /\ grants = {} /\ leaders = {}
-----------------------------------------------------------------------------
(***************************************************************************)
(* Elections.                                                              *)
(***************************************************************************)

(* runElectionTimer fires: the server becomes a candidate of the next term *)
(* and spawns one goroutine per peer.  Nothing is saved to disk.           *)
StartElection(n) ==
    LET t == currentTerm[n] + 1
        e == elections + 1
    IN /\ state[n] \in {Follower, Candidate}
       /\ t <= MaxTerm
       /\ e <= MaxElections
       /\ state' = [state EXCEPT ![n] = Candidate]
       /\ currentTerm' = [currentTerm EXCEPT ![n] = t]
       /\ votedFor' = [votedFor EXCEPT ![n] = n]
       /\ elections' = e
       /\ electionTerm' = [electionTerm EXCEPT ![e] = t]
       /\ votesReceived' = [votesReceived EXCEPT ![e] = {n}]
       /\ voteCalls' = voteCalls \cup
              {[src |-> n, dst |-> p, eid |-> e, term |-> t] : p \in Peers(n)}
       /\ grants' = grants \cup {[voter |-> n, term |-> t, candidate |-> n]}
       /\ UNCHANGED <<log, leaderid, commitVars, leaderVars, voteRequests,
                      voteReplies, starting, appendVars, submitted,
                      saveVars, disk, applied, crashes, leaders>>

(* The goroutine takes the lock again, reads the log as it is by now, and  *)
(* sends the request with the term saved when the election began.          *)
SendRequestVote(c) ==
    /\ c \in voteCalls
    /\ voteCalls' = voteCalls \ {c}
    /\ voteRequests' = voteRequests \cup
           {[src |-> c.src, dst |-> c.dst, eid |-> c.eid, term |-> c.term,
             lastLogIndex |-> LastLogIndex(log[c.src]),
             lastLogTerm |-> LastLogTerm(log[c.src]), live |-> TRUE]}
    /\ UNCHANGED <<raftVars, commitVars, leaderVars, electionVars, voteReplies,
                   starting, appendVars, submitted, saveVars, disk,
                   applied, crashes, historyVars>>

(* A request or a response of a later term: becomeFollower. *)
Newer(n, term) == term > currentTerm[n]

(* Mistaken variant: an earlier vote in the same term is not looked at. *)
GrantsAnyone(m, term, vote, entries) ==
    /\ term = m.term
    /\ UpToDate(m.lastLogTerm, m.lastLogIndex, entries)

(* The decision of RequestVoteHelper, once becomeFollower, if it was       *)
(* called, has set the term and cleared the vote.                          *)
GrantsVote(m, term, vote, entries) ==
    /\ term = m.term
    /\ vote \in {Nil, m.src}
    /\ UpToDate(m.lastLogTerm, m.lastLogIndex, entries)

(* The voter; it saves its state whatever it decides. *)
RequestVoteHelper(m) ==
    LET n == m.dst
        newer == Newer(n, m.term)
        term == IF newer THEN m.term ELSE currentTerm[n]
        vote == IF newer THEN Nil ELSE votedFor[n]
        granted == GrantsVote(m, term, vote, log[n])
        newVote == IF granted THEN m.src ELSE vote
    IN /\ m \in voteRequests
       /\ voteRequests' = voteRequests \ {m}
       /\ state' = [state EXCEPT ![n] = IF newer THEN Follower ELSE @]
       /\ currentTerm' = [currentTerm EXCEPT ![n] = term]
       /\ votedFor' = [votedFor EXCEPT ![n] = newVote]
       /\ disk' = [disk EXCEPT ![n] = Saved(term, newVote, log[n])]
       /\ voteReplies' = voteReplies \cup
              {r \in {[src |-> m.src, dst |-> n, eid |-> m.eid, term |-> m.term,
                       replyTerm |-> term, granted |-> granted]} : m.live}
       /\ grants' = grants \cup
              {g \in {[voter |-> n, term |-> m.term, candidate |-> m.src]} : granted}
       /\ UNCHANGED <<log, leaderid, commitVars, leaderVars, electionVars,
                      voteCalls, starting, appendVars, submitted,
                      saveVars, applied, crashes, leaders>>

(* startLeader. *)
BecomeLeader(n) ==
    /\ state' = [state EXCEPT ![n] = Leader]
    /\ leaderid' = [leaderid EXCEPT ![n] = n]
    /\ nextIndex' = [nextIndex EXCEPT ![n] =
                         [p \in Server |-> IF p = n THEN @[p] ELSE Len(log[n]) + 1]]
    /\ matchIndex' = [matchIndex EXCEPT ![n] =
                         [p \in Server |-> IF p = n THEN @[p] ELSE 0]]
    /\ leaders' = leaders \cup {[server |-> n, term |-> currentTerm[n]]}

(* Mistaken variant: the term and the vote are reset, the role is not. *)
KeepsItsRole(n, term) ==
    /\ currentTerm' = [currentTerm EXCEPT ![n] = term]
    /\ votedFor' = [votedFor EXCEPT ![n] = Nil]
    /\ UNCHANGED state

BecomeFollower(n, term) ==
    /\ state' = [state EXCEPT ![n] = Follower]
    /\ currentTerm' = [currentTerm EXCEPT ![n] = term]
    /\ votedFor' = [votedFor EXCEPT ![n] = Nil]

(* Is the server still in the term of the election?                        *)
SameTerm(r) == currentTerm[r.src] = r.term

(* A response that finds the server already leading runs startLeader       *)
(* again, whatever the response says.                                      *)
VoteReplyToLeader(r) ==
    /\ state[r.src] = Leader
    /\ BecomeLeader(r.src)
    /\ UNCHANGED <<currentTerm, votedFor, votesReceived, starting>>

VoteReplyToFollower(r) ==
    /\ state[r.src] = Follower
    /\ UNCHANGED <<state, currentTerm, votedFor, leaderid, leaderVars,
                   votesReceived, starting, leaders>>

(* The term of the response is compared with the term saved when the       *)
(* election began, not with the server's current term.                     *)
VoteReplyNewer(r) ==
    /\ state[r.src] = Candidate
    /\ r.replyTerm > r.term
    /\ BecomeFollower(r.src, r.replyTerm)
    /\ UNCHANGED <<leaderid, leaderVars, votesReceived, starting, leaders>>

(* Mistaken variant: every answer of the right term is a vote. *)
CountsAnyAnswer(r) == r.replyTerm = r.term

(* A vote for the election the goroutine belongs to. *)
CountsAsVote(r) == r.replyTerm = r.term /\ r.granted

VoteReplyGranted(r) ==
    LET votes == votesReceived[r.eid] \cup {r.dst}
    IN /\ state[r.src] = Candidate
       /\ CountsAsVote(r)
       /\ votesReceived' = [votesReceived EXCEPT ![r.eid] = votes]
       /\ starting' = starting \cup
              {s \in {[src |-> r.src, dst |-> r.dst, eid |-> r.eid,
                       term |-> r.term]} : Majority(votes, Server)}
       /\ UNCHANGED <<state, currentTerm, votedFor, leaderid, leaderVars, leaders>>

VoteReplyRefused(r) ==
    /\ state[r.src] = Candidate
    /\ r.replyTerm <= r.term
    /\ ~CountsAsVote(r)
    /\ UNCHANGED <<state, currentTerm, votedFor, leaderid, leaderVars,
                   votesReceived, starting, leaders>>

(* The response arrives in the goroutine of startElection. *)
RequestVoteReply(r) ==
    /\ r \in voteReplies
    /\ Late \/ SameTerm(r)
    /\ voteReplies' = voteReplies \ {r}
    /\ \/ VoteReplyToLeader(r)
       \/ VoteReplyToFollower(r)
       \/ VoteReplyNewer(r)
       \/ VoteReplyGranted(r)
       \/ VoteReplyRefused(r)
    /\ UNCHANGED <<log, commitVars, elections, electionTerm, voteCalls,
                   voteRequests, appendVars, submitted, saveVars,
                   disk, applied, crashes, grants>>

(* "go cm.startLeader()": a goroutine that takes no lock, and checks       *)
(* neither the state nor the term it finds.                                *)
StartLeader(s) ==
    /\ s \in starting
    /\ Late \/ (SameTerm(s) /\ state[s.src] # Follower)
    /\ starting' = starting \ {s}
    /\ BecomeLeader(s.src)
    /\ UNCHANGED <<currentTerm, votedFor, log, commitVars, electionVars,
                   voteCalls, voteRequests, voteReplies, appendVars, submitted,
                   saveVars, disk, applied, crashes, grants>>
-----------------------------------------------------------------------------
(***************************************************************************)
(* Log replication.                                                        *)
(***************************************************************************)

(* The heartbeat loop of a leader (its timer, or a send on triggerAEChan)  *)
(* calls leaderSendAEs, which spawns one goroutine per peer.               *)
LeaderSendAEs(n) ==
    LET k == rounds + 1
    IN /\ state[n] = Leader
       /\ k <= MaxRounds
       /\ rounds' = k
       /\ appendCalls' = appendCalls \cup
              {[src |-> n, dst |-> p, round |-> k, term |-> currentTerm[n]] :
                  p \in Peers(n)}
       /\ UNCHANGED <<raftVars, commitVars, leaderVars, electionVars, voteVars,
                      appendRequests, appendReplies, submitted,
                      saveVars, disk, applied, crashes, historyVars>>

(* The goroutine reads nextIndex and the log under the lock, without       *)
(* asking whether the server still leads.                                  *)
SendAppendEntries(c) ==
    LET n == c.src
        ni == nextIndex[n][c.dst]
        prev == ni - 1
    IN /\ c \in appendCalls
       /\ prev <= Len(log[n])
       /\ appendCalls' = appendCalls \ {c}
       /\ appendRequests' = appendRequests \cup
              {[src |-> n, dst |-> c.dst, round |-> c.round, term |-> c.term,
                prevLogIndex |-> prev,
                prevLogTerm |-> IF prev > 0 THEN log[n][prev].term ELSE 0,
                entries |-> SubSeq(log[n], ni, Len(log[n])),
                leaderCommit |-> commitIndex[n], live |-> TRUE]}
       /\ UNCHANGED <<raftVars, commitVars, leaderVars, electionVars, voteVars,
                      rounds, appendReplies, submitted, saveVars,
                      disk, applied, crashes, historyVars>>

(* An AppendEntries counts only in the term it was sent in. *)
InTerm(m, term) == m.term = term

(* Mistaken variant: commitChanSender is not told. *)
NotifyNobody(n, moved) == newCommitReady' = newCommitReady

(* commitIndex has moved: wake up commitChanSender. *)
Notify(n, moved) ==
    newCommitReady' = [newCommitReady EXCEPT ![n] = IF moved THEN @ + 1 ELSE @]

(* The follower.  leaderid is taken from any request, however stale.       *)
AppendEntriesHelper(m) ==
    LET n == m.dst
        newer == Newer(n, m.term)
        term == IF newer THEN m.term ELSE currentTerm[n]
        current == InTerm(m, term)
        stepDown == newer \/ (current /\ state[n] # Follower)
        vote == IF stepDown THEN Nil ELSE votedFor[n]
        success == current /\ PrevMatches(log[n], m.prevLogIndex, m.prevLogTerm)
        newLog == IF success THEN MergeEntries(log[n], m.prevLogIndex, m.entries)
                             ELSE log[n]
        commit == success /\ m.leaderCommit > commitIndex[n]
    IN /\ m \in appendRequests
       /\ appendRequests' = appendRequests \ {m}
       /\ leaderid' = [leaderid EXCEPT ![n] = m.src]
       /\ state' = [state EXCEPT ![n] = IF stepDown THEN Follower ELSE @]
       /\ currentTerm' = [currentTerm EXCEPT ![n] = term]
       /\ votedFor' = [votedFor EXCEPT ![n] = vote]
       /\ log' = [log EXCEPT ![n] = newLog]
       /\ commitIndex' = [commitIndex EXCEPT ![n] =
                              IF commit THEN intMin(m.leaderCommit, Len(newLog))
                                        ELSE @]
       /\ Notify(n, commit)
       /\ disk' = [disk EXCEPT ![n] = Saved(term, vote, newLog)]
       /\ appendReplies' = appendReplies \cup
              {r \in {[src |-> m.src, dst |-> n, round |-> m.round,
                       term |-> m.term, ni |-> m.prevLogIndex + 1,
                       sent |-> Len(m.entries), replyTerm |-> term,
                       success |-> success]} : m.live}
       /\ UNCHANGED <<lastApplied, leaderVars, electionVars, voteVars, rounds,
                      appendCalls, submitted, saveVars, applied,
                      crashes, historyVars>>

AppendReplyNewer(r) ==
    /\ Newer(r.src, r.replyTerm)
    /\ BecomeFollower(r.src, r.replyTerm)
    /\ UNCHANGED <<leaderVars, commitIndex, newCommitReady>>

(* A response counts for a leader if the peer answered in the term of the  *)
(* request, even if the leader itself has moved to another term.           *)
Counts(r) ==
    /\ ~Newer(r.src, r.replyTerm)
    /\ state[r.src] = Leader
    /\ r.term = r.replyTerm

(* Mistaken variant: off by one. *)
LastSentPlusOne(r) == r.ni + r.sent

(* The last index the peer holds after accepting the request. *)
LastSent(r) == r.ni + r.sent - 1

AppendReplySuccess(r) ==
    LET n == r.src
        match == [matchIndex[n] EXCEPT ![r.dst] = LastSent(r)]
        commit == AdvanceCommit(log[n], commitIndex[n], currentTerm[n], match,
                                n, Server)
    IN /\ Counts(r) /\ r.success
       /\ nextIndex' = [nextIndex EXCEPT ![n][r.dst] = LastSent(r) + 1]
       /\ matchIndex' = [matchIndex EXCEPT ![n] = match]
       /\ commitIndex' = [commitIndex EXCEPT ![n] = commit]
       /\ Notify(n, commit # commitIndex[n])
       /\ UNCHANGED <<state, currentTerm, votedFor>>

AppendReplyConflict(r) ==
    /\ Counts(r) /\ ~r.success
    /\ nextIndex' = [nextIndex EXCEPT ![r.src][r.dst] =
                         NextIndexAfterReject(log[r.src])]
    /\ UNCHANGED <<state, currentTerm, votedFor, matchIndex, commitIndex,
                   newCommitReady>>

AppendReplyIgnored(r) ==
    /\ ~Newer(r.src, r.replyTerm)
    /\ ~Counts(r)
    /\ UNCHANGED <<state, currentTerm, votedFor, leaderVars, commitIndex,
                   newCommitReady>>

(* The response arrives in the goroutine of leaderSendAEs. *)
AppendEntriesReply(r) ==
    /\ r \in appendReplies
    /\ appendReplies' = appendReplies \ {r}
    /\ \/ AppendReplyNewer(r)
       \/ AppendReplySuccess(r)
       \/ AppendReplyConflict(r)
       \/ AppendReplyIgnored(r)
    /\ UNCHANGED <<log, leaderid, lastApplied, electionVars, voteVars, rounds,
                   appendCalls, appendRequests, submitted, saveVars,
                   disk, applied, crashes, historyVars>>
-----------------------------------------------------------------------------
(***************************************************************************)
(* Commands, and the write of the Raft state that Submit does after it     *)
(* has released the lock.                                                  *)
(***************************************************************************)

(* The leader's branch of Submit; the other one is in RaftForward. *)
SubmitToLeader(n, command) ==
    /\ state[n] = Leader
    /\ log' = [log EXCEPT ![n] = Append(@, [term |-> currentTerm[n],
                                            command |-> command])]
    /\ unsaved' = unsaved \cup {[server |-> n, command |-> command]}
    /\ UNCHANGED <<state, currentTerm, votedFor, leaderid, commitVars, leaderVars,
                   electionVars, voteVars, appendVars, saving, disk, applied,
                   crashes, historyVars>>

(* A chat request reaches the leader; commands are numbered as they come.  *)
Submit(n) ==
    /\ submitted < MaxSubmits
    /\ submitted' = submitted + 1
    /\ SubmitToLeader(n, submitted + 1)

(* persistToStorage evaluates its arguments without the lock ...           *)
SaveCapture(u) ==
    LET n == u.server
    IN /\ u \in unsaved
       /\ unsaved' = unsaved \ {u}
       /\ saving' = saving \cup
              {[server |-> n, command |-> u.command,
                data |-> Saved(currentTerm[n], votedFor[n], log[n])]}
       /\ UNCHANGED <<raftVars, commitVars, leaderVars, electionVars, voteVars,
                      appendVars, submitted, disk, applied, crashes,
                      historyVars>>

(* ... and SetState writes them once it has the lock of the store.         *)
SaveWrite(w) ==
    /\ w \in saving
    /\ saving' = saving \ {w}
    /\ disk' = [disk EXCEPT ![w.server] = w.data]
    /\ UNCHANGED <<raftVars, commitVars, leaderVars, electionVars, voteVars,
                   appendVars, submitted, unsaved, applied, crashes,
                   historyVars>>

-----------------------------------------------------------------------------
(***************************************************************************)
(* Delivery to the application, crash and restart.                         *)
(***************************************************************************)

(* commitChanSender takes a signal and hands over what is committed and    *)
(* not yet applied, stamped with the current term.  An index beyond the    *)
(* end of the log reads what a cut log has left in its backing array: some *)
(* earlier command.                                                        *)
CommitChanSender(n) ==
    /\ newCommitReady[n] > 0
    /\ newCommitReady' = [newCommitReady EXCEPT ![n] = @ - 1]
    /\ \/ /\ commitIndex[n] > lastApplied[n]
          /\ \E stale \in 1..submitted :
                applied' = [applied EXCEPT ![n] = @ \o
                    [k \in 1..(commitIndex[n] - lastApplied[n]) |->
                        [command |-> IF lastApplied[n] + k <= Len(log[n])
                                     THEN log[n][lastApplied[n] + k].command
                                     ELSE stale,
                         index |-> lastApplied[n] + k,
                         term |-> currentTerm[n]]]]
          /\ lastApplied' = [lastApplied EXCEPT ![n] = commitIndex[n]]
       \/ /\ commitIndex[n] <= lastApplied[n]
          /\ UNCHANGED <<applied, lastApplied>>
    /\ UNCHANGED <<raftVars, commitIndex, leaderVars, electionVars, voteVars,
                   appendVars, submitted, saveVars, disk, crashes,
                   historyVars>>

Not(n, calls) == {c \in calls : c.src # n}

(* The caller of these requests is gone; they may still be handled.        *)
Orphan(n, requests) ==
    {IF m.src = n THEN [m EXCEPT !.live = FALSE] ELSE m : m \in requests}

(* The process dies and NewConsensusModule runs again, on what the disk    *)
(* holds by then; the requests it was handling are lost.  The term and the *)
(* vote are restored only together with a log that is not empty.           *)
Restart(n, d, handled) ==
    /\ crashes < MaxCrashes
    /\ crashes' = crashes + 1
    /\ disk' = [disk EXCEPT ![n] = d]
    /\ state' = [state EXCEPT ![n] = Follower]
    /\ leaderid' = [leaderid EXCEPT ![n] = Nil]
    /\ currentTerm' = [currentTerm EXCEPT ![n] = IF HasData(d) THEN d.term ELSE 0]
    /\ votedFor' = [votedFor EXCEPT ![n] = IF HasData(d) THEN d.votedFor ELSE Nil]
    /\ log' = [log EXCEPT ![n] = IF HasData(d) THEN d.log ELSE <<>>]
    /\ commitIndex' = [commitIndex EXCEPT ![n] = 0]
    /\ lastApplied' = [lastApplied EXCEPT ![n] = 0]
    /\ newCommitReady' = [newCommitReady EXCEPT ![n] = 0]
    /\ nextIndex' = [nextIndex EXCEPT ![n] = [p \in Server |-> 1]]
    /\ matchIndex' = [matchIndex EXCEPT ![n] = [p \in Server |-> 1]]
    /\ voteCalls' = Not(n, voteCalls)
    /\ voteRequests' = Orphan(n, voteRequests \ handled)
    /\ voteReplies' = Not(n, voteReplies)
    /\ starting' = Not(n, starting)
    /\ appendCalls' = Not(n, appendCalls)
    /\ appendRequests' = Orphan(n, appendRequests \ handled)
    /\ appendReplies' = Not(n, appendReplies)
    /\ unsaved' = {u \in unsaved : u.server # n}
    /\ saving' = {w \in saving : w.server # n}
    /\ UNCHANGED <<electionVars, rounds, submitted, applied, historyVars>>

Crash(n) == Restart(n, disk[n], {})

(* nextIndex is beyond the end of a log that has been cut since: indexing  *)
(* cm.log panics.                                                          *)
AppendPanic(c) ==
    /\ c \in appendCalls
    /\ nextIndex[c.src][c.dst] - 1 > Len(log[c.src])
    /\ Crash(c.src)

(* The term and the vote RequestVoteHelper is about to save for m ...      *)
VoteSaving(m) ==
    LET n == m.dst
        term == IF Newer(n, m.term) THEN m.term ELSE currentTerm[n]
        vote == IF Newer(n, m.term) THEN Nil ELSE votedFor[n]
    IN [term |-> term,
        votedFor |-> IF GrantsVote(m, term, vote, log[n]) THEN m.src ELSE vote]

(* ... and AppendEntriesHelper. *)
AppendSaving(m) ==
    LET n == m.dst
        newer == Newer(n, m.term)
        term == IF newer THEN m.term ELSE currentTerm[n]
        stepDown == newer \/ (InTerm(m, term) /\ state[n] # Follower)
    IN [term |-> term, votedFor |-> IF stepDown THEN Nil ELSE votedFor[n]]

(* Mistaken variant: the vote is written before the term. *)
TornVoteFirst(d, s) ==
    {[d EXCEPT !.votedFor = s.votedFor, !.written = TRUE],
     [d EXCEPT !.votedFor = s.votedFor, !.term = s.term, !.written = TRUE]}

(* SetState writes the term, then the vote, then the log: what a crash     *)
(* after the first or the second of these writes leaves of disk d.         *)
Torn(d, s) ==
    {[d EXCEPT !.term = s.term, !.written = TRUE],
     [d EXCEPT !.term = s.term, !.votedFor = s.votedFor, !.written = TRUE]}

CrashVoting(m) ==
    /\ m \in voteRequests
    /\ \E d \in Torn(disk[m.dst], VoteSaving(m)) : Restart(m.dst, d, {m})

CrashAppending(m) ==
    /\ m \in appendRequests
    /\ \E d \in Torn(disk[m.dst], AppendSaving(m)) : Restart(m.dst, d, {m})

CrashSaving(w) ==
    /\ w \in saving
    /\ \E d \in Torn(disk[w.server], w.data) : Restart(w.server, d, {})

Step ==
    \/ \E n \in Server : StartElection(n)
    \/ \E c \in voteCalls : SendRequestVote(c)
    \/ \E m \in voteRequests : RequestVoteHelper(m)
    \/ \E r \in voteReplies : RequestVoteReply(r)
    \/ \E s \in starting : StartLeader(s)
    \/ \E n \in Server : LeaderSendAEs(n)
    \/ \E c \in appendCalls : SendAppendEntries(c)
    \/ \E m \in appendRequests : AppendEntriesHelper(m)
    \/ \E r \in appendReplies : AppendEntriesReply(r)
    \/ \E u \in unsaved : SaveCapture(u)
    \/ \E w \in saving : SaveWrite(w)
    \/ \E n \in Server : CommitChanSender(n)

CrashStep ==
    \/ \E n \in Server : Crash(n)
    \/ \E c \in appendCalls : AppendPanic(c)
    \/ \E m \in voteRequests : CrashVoting(m)
    \/ \E m \in appendRequests : CrashAppending(m)
    \/ \E w \in saving : CrashSaving(w)

Next ==
    \/ Step
    \/ \E n \in Server : Submit(n)
    \/ CrashStep

Spec == Init /\ [][Next]_vars
-----------------------------------------------------------------------------
(***************************************************************************)
(* Properties.                                                             *)
(***************************************************************************)

(* Type invariant: every variable holds a value of its Go type, indices    *)
(* and terms are natural numbers, nextIndex is never below the first entry.*)
CMTypeOK ==
    /\ state \in [Server -> CMState]
    /\ currentTerm \in [Server -> Term]
    /\ votedFor \in [Server -> Server \cup {Nil}]
    /\ log \in [Server -> Seq(LogEntry)]
    /\ leaderid \in [Server -> Server \cup {Nil}]
    /\ commitIndex \in [Server -> Nat]
    /\ lastApplied \in [Server -> Nat]
    /\ newCommitReady \in [Server -> Nat]
    /\ nextIndex \in [Server -> [Server -> Nat \ {0}]]
    /\ matchIndex \in [Server -> [Server -> Nat]]

ElectionTypeOK ==
    /\ elections \in 0..MaxElections
    /\ electionTerm \in [Election -> Term]
    /\ votesReceived \in [Election -> SUBSET Server]
    /\ grants \in SUBSET Grant
    /\ leaders \in SUBSET Leadership

VoteTypeOK ==
    /\ voteCalls \in SUBSET VoteCall
    /\ voteRequests \in SUBSET VoteRequest
    /\ voteReplies \in SUBSET VoteReply
    /\ starting \in SUBSET VoteCall

AppendTypeOK ==
    /\ rounds \in 0..MaxRounds
    /\ appendCalls \in SUBSET AppendCall
    /\ appendRequests \in SUBSET AppendRequest
    /\ appendReplies \in SUBSET AppendReply

StoreTypeOK ==
    /\ submitted \in 0..MaxSubmits
    /\ unsaved \in SUBSET [server : Server, command : Command]
    /\ saving \in SUBSET [server : Server, command : Command, data : Snapshot]
    /\ disk \in [Server -> Snapshot]
    /\ applied \in [Server -> Seq(CommitEntry)]
    /\ crashes \in 0..MaxCrashes

TypeOK == CMTypeOK /\ ElectionTypeOK /\ VoteTypeOK /\ AppendTypeOK /\ StoreTypeOK

(* Election safety: two servers never begin to lead in the same term       *)
(* (startElection, RequestVoteHelper, startLeader).                        *)
ElectionSafety ==
    \A l1, l2 \in leaders : l1.term = l2.term => l1.server = l2.server

(* A server leads only with the votes of a majority of distinct servers,   *)
(* all granted to it in one and the same term: however late, reordered or  *)
(* repeated the responses are, startElection counts none that is not a     *)
(* vote in its own election.                                               *)
LeaderHasMandate ==
    \A n \in Server : state[n] = Leader =>
        \E t \in 1..MaxTerm :
            Majority({v \in Server : [voter |-> v, term |-> t, candidate |-> n]
                                         \in grants}, Server)

(* A leader was elected in the very term it leads, in which its rounds are *)
(* sent and its entries stamped, by a majority of distinct servers: no     *)
(* vote of another term counts for it, however the responses, the calls of *)
(* startLeader and the later terms it hears of overtake one another.  (The *)
(* code ensures it only where responses are handled in their term:         *)
(* startElection compares them with the term it has saved, and startLeader *)
(* compares nothing.)                                                      *)
LeadsTermItWon ==
    \A n \in Server : state[n] = Leader =>
        Majority({v \in Server : [voter |-> v, term |-> currentTerm[n], candidate |-> n]
                                     \in grants}, Server)

(* Log matching: logs that agree on the term at an index agree on          *)
(* everything up to it (the merge in AppendEntriesHelper).                 *)
LogMatching ==
    \A m, n \in Server : \A i \in 1..intMin(Len(log[m]), Len(log[n])) :
        log[m][i].term = log[n][i].term =>
            \A j \in 1..i : log[m][j] = log[n][j]

(* Leader completeness: what any server considers committed is in the log  *)
(* of every leader of the same or a later term.                            *)
LeaderCompleteness ==
    \A n, l \in Server :
        state[l] = Leader /\ currentTerm[l] >= currentTerm[n] =>
            \A i \in 1..commitIndex[n] :
                i <= Len(log[l]) /\ log[l][i] = log[n][i]

(* matchIndex tells the truth: as long as no later leader has cut it, the  *)
(* peer holds the leader's log up to there (the success branch of          *)
(* leaderSendAEs).                                                         *)
MatchIndexIsHeld ==
    \A n \in Server : \A p \in Peers(n) :
        state[n] = Leader /\ currentTerm[p] <= currentTerm[n] =>
            \A i \in 1..matchIndex[n][p] :
                i <= Len(log[n]) /\ i <= Len(log[p]) /\ log[n][i] = log[p][i]

(* State machine safety: no two servers hand different commands to the     *)
(* application for the same index (commitChanSender).                      *)
StateMachineSafety ==
    \A m, n \in Server :
        \A i \in DOMAIN applied[m], j \in DOMAIN applied[n] :
            applied[m][i].index = applied[n][j].index =>
                applied[m][i].command = applied[n][j].command

(* No lost wakeup: an entry that is committed and not applied has a signal *)
(* waiting for commitChanSender, whoever moved commitIndex.                *)
NoLostWakeup ==
    \A n \in Server : commitIndex[n] > lastApplied[n] => newCommitReady[n] > 0

(* While a server runs, what it considers committed stays committed and    *)
(* stays in its log as it is: no AppendEntries cuts or overwrites it, and  *)
(* no commitIndex goes back.                                               *)
CommittedIsStable ==
    [][\A n \in Server : crashes' = crashes =>
          /\ commitIndex'[n] >= commitIndex[n]
          /\ \A i \in 1..commitIndex[n] :
                 i <= Len(log'[n]) /\ log'[n][i] = log[n][i]]_vars

(* A vote for another server, by one that had not led before.  Who has led *)
(* may have a save of that time under way, which would undo the vote.      *)
Lasting(g) ==
    /\ g.candidate # g.voter
    /\ \A l \in leaders : l.server = g.voter => l.term > g.term

(* Such a vote stays on disk until the term on disk has passed it,         *)
(* whatever the voter saved since and wherever in saving it crashed, so    *)
(* that a voter that restarts from a later state of the disk does not vote *)
(* twice (the save at the end of RequestVoteHelper, the saves of Submit    *)
(* outside the lock, and the order of the writes in SetState).             *)
VoteIsDurable ==
    \A g \in grants : Lasting(g) =>
        LET d == disk[g.voter]
        IN d.term > g.term \/ (d.term = g.term /\ d.votedFor = g.candidate)

(* A restart resumes in the term the server saved last: HasData "returns   *)
(* true if any sets were made on this storage".                            *)
RestartKeepsTerm ==
    [][\A n \in Server : crashes' # crashes /\ disk[n].written =>
          currentTerm'[n] >= disk[n].term]_vars
=============================================================================
