------------------------- MODULE RaftElectionProofs --------------------------
(***************************************************************************)
(* Elections, for every cluster: whoever leads was elected, with late      *)
(* responses and with crashes; without them there is one leader per term.  *)
(***************************************************************************)
EXTENDS RaftProofs

(* What is under way for some election: goroutines, requests, responses    *)
(* and calls of startLeader.                                               *)
Ballots == voteCalls \cup voteRequests \cup voteReplies \cup starting

Granted(v, term, candidate) ==
    [voter |-> v, term |-> term, candidate |-> candidate] \in grants

SameBallot(q, r) == q.src = r.src /\ q.eid = r.eid /\ q.term = r.term

(* The votes counted in an election were granted to the server that holds  *)
(* it, in its term.                                                        *)
CountedWereGranted ==
    \A r \in Ballots :
        /\ r.eid \in 1..elections
        /\ r.term \in 1..MaxTerm
        /\ \A v \in votesReceived[r.eid] : Granted(v, r.term, r.src)

(* An election has one candidate and one term. *)
ElectionsAreDistinct ==
    \A q, r \in Ballots : q.eid = r.eid => q.src = r.src /\ q.term = r.term

(* A response that counts as a vote reports one. *)
RepliesAreTrue ==
    \A r \in voteReplies : CountsAsVote(r) => Granted(r.dst, r.term, r.src)

(* startLeader was called on a majority. *)
StartingWasElected ==
    \A s \in starting : Majority(votesReceived[s.eid], Server)

(* The inductive invariant. *)
VoteInv ==
    /\ CountedWereGranted
    /\ ElectionsAreDistinct
    /\ RepliesAreTrue
    /\ StartingWasElected
    /\ LeaderHasMandate
-----------------------------------------------------------------------------
(* A larger set of voters is a majority too. *)
LEMMA MajorityGrows ==
    ASSUME NEW A \in SUBSET Server, NEW B \in SUBSET Server, A \subseteq B,
           Majority(A, Server)
    PROVE  Majority(B, Server)
<1>1. Cardinality(A) \in Nat /\ Cardinality(B) \in Nat /\ Cardinality(Server) \in Nat
    BY ServerAssumption, FS_Subset, FS_CardinalityType
<1>2. Cardinality(A) <= Cardinality(B)
    BY ServerAssumption, FS_Subset
<1> QED BY <1>1, <1>2 DEF Majority

(* What every ballot under way has in common, for the provers. *)
LEMMA BallotFields ==
    ASSUME TypeOK, NEW r \in Ballots
    PROVE  r.src \in Server /\ r.eid \in Election /\ r.term \in Nat
BY DEF TypeOK, VoteTypeOK, Ballots, VoteCall, VoteRequest, VoteReply, Term

(* A step that starts no election and counts no vote keeps what is known   *)
(* of the ballots, if it makes them from ballots.                          *)
LEMMA BallotsKept ==
    ASSUME CountedWereGranted, ElectionsAreDistinct,
           \A r \in Ballots' : \E q \in Ballots : SameBallot(q, r),
           grants \subseteq grants', UNCHANGED <<elections, votesReceived>>
    PROVE  CountedWereGranted' /\ ElectionsAreDistinct'
<1>1. CountedWereGranted'
    <2> SUFFICES ASSUME NEW r \in Ballots'
                 PROVE  /\ r.eid \in 1..elections
                        /\ r.term \in 1..MaxTerm
                        /\ \A v \in votesReceived[r.eid] : Granted(v, r.term, r.src)'
        BY DEF CountedWereGranted
    <2>1. PICK q \in Ballots : SameBallot(q, r)
        OBVIOUS
    <2> QED BY <2>1 DEF CountedWereGranted, SameBallot, Granted
<1>2. ElectionsAreDistinct'
    BY DEF ElectionsAreDistinct, SameBallot
<1> QED BY <1>1, <1>2

(* A mandate is never withdrawn: who led before a step that adds votes and *)
(* makes no leader has one after it.                                       *)
LEMMA MandateKept ==
    ASSUME LeaderHasMandate, grants \subseteq grants',
           \A n \in Server : state'[n] = Leader => state[n] = Leader
    PROVE  LeaderHasMandate'
<1> DEFINE voters(n, t) == {v \in Server : Granted(v, t, n)}
           votersAfter(n, t) == {v \in Server : Granted(v, t, n)'}
<1>1. ASSUME NEW n \in Server, NEW t, Majority(voters(n, t), Server)
      PROVE  Majority(votersAfter(n, t), Server)
    <2>1. voters(n, t) \subseteq votersAfter(n, t)
        BY DEF Granted
    <2> QED BY <1>1, <2>1, MajorityGrows
<1>2. \A n \in Server : state[n] = Leader =>
          \E t \in 1..MaxTerm : Majority(voters(n, t), Server)
    BY DEF LeaderHasMandate, Granted
<1>3. \A n \in Server : state'[n] = Leader =>
          \E t \in 1..MaxTerm : Majority(votersAfter(n, t), Server)
    <2> HIDE DEF voters, votersAfter
    <2> QED BY <1>1, <1>2
<1> QED BY <1>3 DEF LeaderHasMandate, Granted

-----------------------------------------------------------------------------
(***************************************************************************)
(* The invariant, action by action.                                        *)
(***************************************************************************)

(* startElection: the ballots of the new election are the only ones with   *)
(* its number.                                                             *)
LEMMA StartElectionVoteInv ==
    ASSUME TypeOK, VoteInv, NEW n \in Server, StartElection(n) PROVE VoteInv'
<1> USE DEF VoteInv
<1> DEFINE t == currentTerm[n] + 1
           e == elections + 1
           new == {[src |-> n, dst |-> p, eid |-> e, term |-> t] : p \in Peers(n)}
<1>1. /\ elections \in Nat /\ e \in Election /\ elections' = e
      /\ t \in 1..MaxTerm
      /\ votesReceived' = [votesReceived EXCEPT ![e] = {n}]
      /\ votesReceived \in [Election -> SUBSET Server]
      /\ UNCHANGED <<voteRequests, voteReplies, starting>>
    <2>1. /\ elections \in Nat /\ currentTerm[n] \in Nat
          /\ votesReceived \in [Election -> SUBSET Server]
        BY BoundsAssumption DEF TypeOK, CMTypeOK, ElectionTypeOK, Term
    <2>2. /\ elections' = e /\ e <= MaxElections /\ t <= MaxTerm
          /\ votesReceived' = [votesReceived EXCEPT ![e] = {n}]
          /\ UNCHANGED <<voteRequests, voteReplies, starting>>
        BY DEF StartElection
    <2>3. e \in Election /\ t \in 1..MaxTerm
        BY <2>1, <2>2, BoundsAssumption DEF Election
    <2> QED BY <2>1, <2>2, <2>3
<1>2. /\ grants \subseteq grants'
      /\ [voter |-> n, term |-> t, candidate |-> n] \in grants'
    BY DEF StartElection
<1>3. Ballots' = Ballots \cup new
    BY <1>1 DEF StartElection, Ballots
<1>4. \A r \in new : r.src = n /\ r.eid = e /\ r.term = t
    OBVIOUS
<1>5. \A r \in Ballots : r.eid \in 1..elections /\ r.eid # e
    BY <1>1 DEF CountedWereGranted
<1> HIDE DEF new, t, e
<1>6. CountedWereGranted'
    <2> SUFFICES ASSUME NEW r \in Ballots'
                 PROVE  /\ r.eid \in 1..elections'
                        /\ r.term \in 1..MaxTerm
                        /\ \A v \in votesReceived'[r.eid] : Granted(v, r.term, r.src)'
        BY DEF CountedWereGranted
    <2>1. CASE r \in new
        BY <1>1, <1>2, <1>4, <2>1 DEF e, Granted
    <2>2. CASE r \in Ballots
        <3>1. votesReceived'[r.eid] = votesReceived[r.eid] /\ r.eid \in 1..elections'
            BY <1>1, <1>5, <2>2, BallotFields DEF e
        <3> QED BY <1>2, <2>2, <3>1 DEF CountedWereGranted, Granted
    <2> QED BY <1>3, <2>1, <2>2
<1>7. ElectionsAreDistinct'
    BY <1>3, <1>4, <1>5 DEF ElectionsAreDistinct
<1>8. RepliesAreTrue'
    BY <1>1, <1>2 DEF RepliesAreTrue, Granted, CountsAsVote
<1>9. StartingWasElected'
    <2> SUFFICES ASSUME NEW s \in starting PROVE Majority(votesReceived'[s.eid], Server)
        BY <1>1 DEF StartingWasElected
    <2>1. s \in Ballots
        BY DEF Ballots
    <2>2. votesReceived'[s.eid] = votesReceived[s.eid]
        BY <1>1, <1>5, <2>1, BallotFields
    <2> QED BY <2>2 DEF StartingWasElected
<1>10. LeaderHasMandate'
    <2>1. \A p \in Server : state'[p] = Leader => state[p] = Leader
        BY DEF StartElection, TypeOK, CMTypeOK, Candidate, Leader
    <2> QED BY <1>2, <2>1, MandateKept
<1> QED BY <1>6, <1>7, <1>8, <1>9, <1>10

(* The goroutine of startElection sends its request. *)
LEMMA SendRequestVoteVoteInv ==
    ASSUME TypeOK, VoteInv, NEW c \in voteCalls, SendRequestVote(c) PROVE VoteInv'
<1> USE DEF VoteInv
<1>1. UNCHANGED <<elections, votesReceived, voteReplies, starting, grants, state>>
    BY DEF SendRequestVote, electionVars, historyVars, raftVars
<1>2. \A r \in Ballots' : \E q \in Ballots : SameBallot(q, r)
    <2>1. c \in Ballots /\ \A r \in voteRequests' : r \in voteRequests \/ SameBallot(c, r)
        BY DEF SendRequestVote, Ballots, SameBallot
    <2>2. \A r \in Ballots' : r \in Ballots \/ SameBallot(c, r)
        BY <1>1, <2>1 DEF SendRequestVote, Ballots
    <2> QED BY <2>1, <2>2 DEF SameBallot
<1>3. CountedWereGranted' /\ ElectionsAreDistinct'
    BY <1>1, <1>2, BallotsKept
<1>4. RepliesAreTrue' /\ StartingWasElected'
    BY <1>1 DEF RepliesAreTrue, StartingWasElected, Granted, CountsAsVote
<1>5. LeaderHasMandate'
    BY <1>1, MandateKept
<1> QED BY <1>3, <1>4, <1>5

(* RequestVoteHelper: a response says "granted" only of a vote that is     *)
(* granted in the same step.                                               *)
LEMMA RequestVoteHelperVoteInv ==
    ASSUME TypeOK, VoteInv, NEW m \in voteRequests, RequestVoteHelper(m)
    PROVE  VoteInv'
<1> USE DEF VoteInv
<1>1. UNCHANGED <<elections, votesReceived, voteCalls, starting>>
    BY DEF RequestVoteHelper, electionVars
<1>2. grants \subseteq grants'
    BY DEF RequestVoteHelper
<1>3. \A r \in voteReplies' : \/ r \in voteReplies
                              \/ SameBallot(m, r) /\ (r.granted => Granted(r.dst, r.term, r.src)')
    <2> DEFINE term == IF Newer(m.dst, m.term) THEN m.term ELSE currentTerm[m.dst]
               vote == IF Newer(m.dst, m.term) THEN Nil ELSE votedFor[m.dst]
               granted == GrantsVote(m, term, vote, log[m.dst])
               reply == [src |-> m.src, dst |-> m.dst, eid |-> m.eid, term |-> m.term,
                         replyTerm |-> term, granted |-> granted]
    <2>1. /\ voteReplies' = voteReplies \cup {r \in {reply} : m.live}
          /\ grants' = grants \cup
                 {g \in {[voter |-> m.dst, term |-> m.term, candidate |-> m.src]} : granted}
        BY DEF RequestVoteHelper
    <2> HIDE DEF term, granted
    <2> QED BY <2>1 DEF SameBallot, Granted
<1>4. \A r \in Ballots' : \E q \in Ballots : SameBallot(q, r)
    <2>1. m \in Ballots /\ voteRequests' \subseteq voteRequests
        BY DEF RequestVoteHelper, Ballots
    <2>2. \A r \in Ballots' : r \in Ballots \/ SameBallot(m, r)
        BY <1>1, <1>3, <2>1 DEF Ballots
    <2> QED BY <2>1, <2>2 DEF SameBallot
<1>5. CountedWereGranted' /\ ElectionsAreDistinct'
    BY <1>1, <1>2, <1>4, BallotsKept
<1>6. RepliesAreTrue'
    BY <1>2, <1>3 DEF RepliesAreTrue, Granted, CountsAsVote
<1>7. StartingWasElected'
    BY <1>1 DEF StartingWasElected
<1>8. LeaderHasMandate'
    <2>1. \A p \in Server : state'[p] = Leader => state[p] = Leader
        BY DEF RequestVoteHelper, TypeOK, CMTypeOK, Follower, Leader
    <2> QED BY <1>2, <2>1, MandateKept
<1> QED BY <1>5, <1>6, <1>7, <1>8

(* A vote is counted: it was granted to the server that holds the election *)
(* and in its term, whatever term the server is in by now.                 *)
LEMMA VoteReplyGrantedVoteInv ==
    ASSUME TypeOK, VoteInv, NEW r \in voteReplies, RequestVoteReply(r),
           VoteReplyGranted(r)
    PROVE  VoteInv'
<1> USE DEF VoteInv
<1> DEFINE votes == votesReceived[r.eid] \cup {r.dst}
<1>1. /\ r \in Ballots /\ r.eid \in Election /\ r.dst \in Server
      /\ votesReceived \in [Election -> SUBSET Server]
      /\ votesReceived' = [votesReceived EXCEPT ![r.eid] = votes]
    BY BallotFields
    DEF VoteReplyGranted, TypeOK, VoteTypeOK, ElectionTypeOK, VoteReply, Ballots
<1>2. /\ UNCHANGED <<elections, voteCalls, voteRequests, grants, state>>
      /\ voteReplies' \subseteq voteReplies
    BY DEF RequestVoteReply, VoteReplyGranted
<1>3. Granted(r.dst, r.term, r.src)
    BY DEF RepliesAreTrue, VoteReplyGranted
<1>4. \A s \in starting' :
          \/ s \in starting
          \/ SameBallot(r, s) /\ Majority(votes, Server)
    BY DEF VoteReplyGranted, SameBallot
<1>5. \A q \in Ballots' : q \in Ballots \/ SameBallot(r, q)
    BY <1>2, <1>4 DEF Ballots
<1>6. \A q \in Ballots' : \E b \in Ballots : SameBallot(b, q)
    BY <1>1, <1>5 DEF SameBallot
<1> HIDE DEF votes
<1>7. CountedWereGranted'
    <2> SUFFICES ASSUME NEW q \in Ballots'
                 PROVE  /\ q.eid \in 1..elections
                        /\ q.term \in 1..MaxTerm
                        /\ \A v \in votesReceived'[q.eid] : Granted(v, q.term, q.src)
        BY <1>2 DEF CountedWereGranted, Granted
    <2>1. PICK b \in Ballots : SameBallot(b, q)
        BY <1>6
    <2>2. /\ q.eid \in 1..elections /\ q.term \in 1..MaxTerm
          /\ \A v \in votesReceived[q.eid] : Granted(v, q.term, q.src)
        BY <2>1 DEF CountedWereGranted, SameBallot
    <2>3. CASE q.eid = r.eid
        <3>1. q.src = r.src /\ q.term = r.term
            BY <1>1, <2>1, <2>3 DEF ElectionsAreDistinct, SameBallot
        <3>2. votesReceived'[q.eid] = votesReceived[q.eid] \cup {r.dst}
            BY <1>1, <2>3 DEF votes
        <3> QED BY <1>3, <2>2, <3>1, <3>2
    <2>4. CASE q.eid # r.eid
        <3>1. votesReceived'[q.eid] = votesReceived[q.eid]
            BY <1>1, <2>1, <2>4, BallotFields DEF SameBallot
        <3> QED BY <2>2, <3>1
    <2> QED BY <2>3, <2>4
<1>8. ElectionsAreDistinct'
    BY <1>6 DEF ElectionsAreDistinct, SameBallot
<1>9. RepliesAreTrue'
    BY <1>2 DEF RepliesAreTrue, Granted, CountsAsVote
<1>10. StartingWasElected'
    <2> SUFFICES ASSUME NEW s \in starting' PROVE Majority(votesReceived'[s.eid], Server)
        BY DEF StartingWasElected
    <2>1. CASE s \in starting
        <3>1. s.eid \in Election /\ Majority(votesReceived[s.eid], Server)
            BY <2>1, BallotFields DEF StartingWasElected, Ballots
        <3>2. /\ votesReceived[s.eid] \in SUBSET Server
              /\ votesReceived'[s.eid] \in SUBSET Server
              /\ votesReceived[s.eid] \subseteq votesReceived'[s.eid]
            BY <1>1, <3>1 DEF votes
        <3> QED BY <3>1, <3>2, MajorityGrows
    <2>2. CASE SameBallot(r, s) /\ Majority(votes, Server)
        <3>1. votesReceived'[s.eid] = votes
            BY <1>1, <2>2 DEF SameBallot
        <3> QED BY <2>2, <3>1
    <2> QED BY <1>4, <2>1, <2>2
<1>11. LeaderHasMandate'
    BY <1>2, MandateKept
<1> QED BY <1>7, <1>8, <1>9, <1>10, <1>11

(* A step that leaves the elections and the votes alone, but for records   *)
(* that are handled or lose their caller, and makes nobody leader.         *)
LEMMA ElsewhereVoteInv ==
    ASSUME VoteInv,
           UNCHANGED <<elections, votesReceived, grants>>,
           voteReplies' \subseteq voteReplies, starting' \subseteq starting,
           \A r \in Ballots' : \E q \in Ballots : SameBallot(q, r),
           \A n \in Server : state'[n] = Leader => state[n] = Leader
    PROVE  VoteInv'
<1> USE DEF VoteInv
<1>1. CountedWereGranted' /\ ElectionsAreDistinct'
    BY BallotsKept
<1>2. RepliesAreTrue' /\ StartingWasElected'
    BY DEF RepliesAreTrue, StartingWasElected, Granted, CountsAsVote
<1>3. LeaderHasMandate'
    BY MandateKept
<1> QED BY <1>1, <1>2, <1>3

(* The five ways a response to a vote request is handled. *)
LEMMA RequestVoteReplyVoteInv ==
    ASSUME TypeOK, VoteInv, NEW r \in voteReplies, RequestVoteReply(r) PROVE VoteInv'
<1>1. CASE VoteReplyGranted(r)
    BY <1>1, VoteReplyGrantedVoteInv
<1>2. CASE \/ VoteReplyToLeader(r) \/ VoteReplyToFollower(r)
           \/ VoteReplyNewer(r) \/ VoteReplyRefused(r)
    <2>1. /\ UNCHANGED <<elections, votesReceived, grants, voteCalls, voteRequests, starting>>
          /\ voteReplies' \subseteq voteReplies
        BY <1>2 DEF RequestVoteReply, VoteReplyToLeader, VoteReplyToFollower,
                    VoteReplyNewer, VoteReplyRefused
    <2>2. \A q \in Ballots' : \E b \in Ballots : SameBallot(b, q)
        BY <2>1 DEF Ballots, SameBallot
    <2>3. \A n \in Server : state'[n] = Leader => state[n] = Leader
        BY <1>2 DEF VoteReplyToLeader, VoteReplyToFollower, VoteReplyNewer,
                    VoteReplyRefused, BecomeLeader, BecomeFollower, TypeOK, CMTypeOK,
                    Follower, Leader
    <2> QED BY <2>1, <2>2, <2>3, ElsewhereVoteInv
<1> QED BY <1>1, <1>2 DEF RequestVoteReply

(* startLeader: the majority it was called on is the mandate, even if the  *)
(* server has left the term since.                                         *)
LEMMA StartLeaderVoteInv ==
    ASSUME TypeOK, VoteInv, NEW s \in starting, StartLeader(s) PROVE VoteInv'
<1> USE DEF VoteInv
<1>1. /\ UNCHANGED <<elections, votesReceived, grants, voteCalls, voteRequests, voteReplies>>
      /\ starting' \subseteq starting
    BY DEF StartLeader, electionVars
<1>2. \A q \in Ballots' : \E b \in Ballots : SameBallot(b, q)
    BY <1>1 DEF Ballots, SameBallot
<1>3. CountedWereGranted' /\ ElectionsAreDistinct'
    BY <1>1, <1>2, BallotsKept
<1>4. RepliesAreTrue' /\ StartingWasElected'
    BY <1>1 DEF RepliesAreTrue, StartingWasElected, Granted, CountsAsVote
<1>5. LeaderHasMandate'
    <2> DEFINE voters(n, t) == {v \in Server : Granted(v, t, n)}
    <2>1. s \in Ballots /\ s.src \in Server /\ s.eid \in Election
        BY BallotFields DEF Ballots
    <2>2. s.term \in 1..MaxTerm /\ Majority(voters(s.src, s.term), Server)
        <3>1. /\ s.term \in 1..MaxTerm
              /\ \A v \in votesReceived[s.eid] : Granted(v, s.term, s.src)
            BY <2>1 DEF CountedWereGranted
        <3>2. /\ votesReceived[s.eid] \in SUBSET Server
              /\ Majority(votesReceived[s.eid], Server)
            BY <2>1 DEF StartingWasElected, TypeOK, ElectionTypeOK
        <3>3. votesReceived[s.eid] \subseteq voters(s.src, s.term)
            BY <3>1, <3>2
        <3> QED BY <3>1, <3>2, <3>3, MajorityGrows
    <2>3. \A n \in Server : state'[n] = Leader => n = s.src \/ state[n] = Leader
        BY DEF StartLeader, BecomeLeader, TypeOK, CMTypeOK
    <2>4. \A n \in Server : state[n] = Leader =>
              \E t \in 1..MaxTerm : Majority(voters(n, t), Server)
        BY DEF LeaderHasMandate, Granted
    <2>5. \A n \in Server : state'[n] = Leader =>
              \E t \in 1..MaxTerm : Majority(voters(n, t), Server)
        <3> HIDE DEF voters
        <3> QED BY <2>2, <2>3, <2>4
    <2> QED BY <1>1, <2>5 DEF LeaderHasMandate, Granted
<1> QED BY <1>3, <1>4, <1>5

(* A crash: the goroutines of the server are gone, its requests have lost  *)
(* their caller.                                                           *)
LEMMA RestartVoteInv ==
    ASSUME TypeOK, VoteInv, NEW n \in Server, NEW d \in Snapshot, NEW handled,
           Restart(n, d, handled)
    PROVE  VoteInv'
<1>1. /\ UNCHANGED <<elections, votesReceived, grants>>
      /\ voteCalls' \subseteq voteCalls /\ voteReplies' \subseteq voteReplies
      /\ starting' \subseteq starting
    BY DEF Restart, Not, electionVars, historyVars
<1>2. \A r \in voteRequests' : \E q \in voteRequests : SameBallot(q, r)
    <2> SUFFICES ASSUME NEW r \in voteRequests'
                 PROVE  \E q \in voteRequests : SameBallot(q, r)
        OBVIOUS
    <2>1. PICK q \in voteRequests :
              r = IF q.src = n THEN [q EXCEPT !.live = FALSE] ELSE q
        BY DEF Restart, Orphan
    <2>2. q \in VoteRequest
        BY DEF TypeOK, VoteTypeOK
    <2> QED BY <2>1, <2>2 DEF SameBallot, VoteRequest
<1>3. \A r \in Ballots' : \E q \in Ballots : SameBallot(q, r)
    BY <1>1, <1>2 DEF Ballots, SameBallot
<1>4. \A p \in Server : state'[p] = Leader => state[p] = Leader
    BY DEF Restart, TypeOK, CMTypeOK, Follower, Leader
<1> QED BY <1>1, <1>3, <1>4, ElsewhereVoteInv

(* Every step preserves the invariant. *)
LEMMA NextVoteInv ==
    ASSUME TypeOK, VoteInv, [Next]_vars PROVE VoteInv'
<1>1. ASSUME UNCHANGED <<electionVars, voteVars, grants>>,
             \A n \in Server : state'[n] = Leader => state[n] = Leader
      PROVE  VoteInv'
    <2>1. UNCHANGED <<elections, votesReceived, voteReplies, starting, Ballots>>
        BY <1>1 DEF electionVars, voteVars, Ballots
    <2> QED BY <1>1, <2>1, ElsewhereVoteInv DEF SameBallot
<1>2. CASE Step
    <2>1. CASE \E n \in Server : LeaderSendAEs(n) \/ CommitChanSender(n)
        BY <1>1, <2>1 DEF LeaderSendAEs, CommitChanSender, raftVars, historyVars
    <2>2. CASE \/ \E c \in appendCalls : SendAppendEntries(c)
               \/ \E u \in unsaved : SaveCapture(u)
               \/ \E w \in saving : SaveWrite(w)
        BY <1>1, <2>2 DEF SendAppendEntries, SaveCapture, SaveWrite, raftVars, historyVars
    <2>3. ASSUME NEW m \in appendRequests, AppendEntriesHelper(m) PROVE VoteInv'
        <3>1. UNCHANGED <<electionVars, voteVars, grants>>
            BY <2>3 DEF AppendEntriesHelper, historyVars
        <3>2. \A n \in Server : state'[n] = Leader => state[n] = Leader
            BY <2>3 DEF AppendEntriesHelper, TypeOK, CMTypeOK, Follower, Leader
        <3> QED BY <1>1, <3>1, <3>2
    <2>4. ASSUME NEW r \in appendReplies, AppendEntriesReply(r) PROVE VoteInv'
        <3>1. UNCHANGED <<electionVars, voteVars, grants>>
            BY <2>4 DEF AppendEntriesReply, historyVars
        <3>2. \A n \in Server : state'[n] = Leader => state[n] = Leader
            BY <2>4 DEF AppendEntriesReply, AppendReplyNewer, AppendReplySuccess,
                        AppendReplyConflict, AppendReplyIgnored, BecomeFollower,
                        TypeOK, CMTypeOK, Follower, Leader
        <3> QED BY <1>1, <3>1, <3>2
    <2> QED BY <1>2, <2>1, <2>2, <2>3, <2>4, StartElectionVoteInv, SendRequestVoteVoteInv,
               RequestVoteHelperVoteInv, RequestVoteReplyVoteInv, StartLeaderVoteInv
            DEF Step
<1>3. CASE \E n \in Server : Submit(n)
    BY <1>1, <1>3 DEF Submit, SubmitToLeader, historyVars
<1>4. CASE CrashStep
    BY <1>4, RestartVoteInv, CrashRestarts
<1>5. CASE UNCHANGED vars
    BY <1>1, <1>5 DEF vars, raftVars, historyVars
<1> QED BY <1>2, <1>3, <1>4, <1>5 DEF Next

(* At the start there are no votes, no leaders and nothing under way.      *)
LEMMA InitVoteInv == Init => VoteInv
BY DEF Init, VoteInv, CountedWereGranted, ElectionsAreDistinct, RepliesAreTrue,
       StartingWasElected, LeaderHasMandate, Ballots, Follower, Leader

(* Whoever leads was elected: in every reachable state a leader has the    *)
(* votes of a majority of the servers, all granted to it in one and the    *)
(* same term, however late its responses came and whoever crashed.         *)
(* Elections go wrong, where they do, because such a mandate is used in    *)
(* another term than it was given for, or because a voter forgot it.       *)
THEOREM LeadersAreElected == Spec => []LeaderHasMandate
<1>1. Init => VoteInv
    BY InitVoteInv
<1>2. TypeOK /\ VoteInv /\ [Next]_vars => VoteInv'
    BY NextVoteInv
<1>3. VoteInv => LeaderHasMandate
    BY DEF VoteInv
<1> QED BY <1>1, <1>2, <1>3, TypeCorrect, PTL DEF Spec
-----------------------------------------------------------------------------
(***************************************************************************)
(* The mandate is of the term the leader is in, if no response is late.    *)
(***************************************************************************)

(* A leader that goes on in its term keeps its mandate. *)
LEMMA TermItWonKept ==
    ASSUME LeadsTermItWon, grants \subseteq grants',
           \A n \in Server : state'[n] = Leader =>
               state[n] = Leader /\ currentTerm'[n] = currentTerm[n]
    PROVE  LeadsTermItWon'
<1> SUFFICES ASSUME NEW n \in Server, state'[n] = Leader
             PROVE  Majority({v \in Server : Granted(v, currentTerm[n], n)'}, Server)
    BY DEF LeadsTermItWon, Granted
<1> DEFINE A == {v \in Server : Granted(v, currentTerm[n], n)}
           B == {v \in Server : Granted(v, currentTerm[n], n)'}
<1>1. A \subseteq B
    BY DEF Granted
<1>2. Majority(A, Server)
    BY DEF LeadsTermItWon, Granted
<1> QED BY <1>1, <1>2, MajorityGrows

(* startLeader runs in the term of the election whose votes it is called   *)
(* on.                                                                     *)
LEMMA StartLeaderTermItWon ==
    ASSUME ~Late, TypeOK, VoteInv, LeadsTermItWon, NEW s \in starting, StartLeader(s)
    PROVE  LeadsTermItWon'
<1> DEFINE voters(n) == {v \in Server : Granted(v, currentTerm[n], n)}
<1>1. s \in Ballots /\ s.src \in Server /\ s.eid \in Election
    BY BallotFields DEF Ballots
<1>2. /\ currentTerm[s.src] = s.term
      /\ UNCHANGED <<currentTerm, grants>> /\ state' = [state EXCEPT ![s.src] = Leader]
    BY DEF StartLeader, SameTerm, BecomeLeader
<1>3. Majority(voters(s.src), Server)
    <2>1. \A v \in votesReceived[s.eid] : Granted(v, s.term, s.src)
        BY <1>1 DEF VoteInv, CountedWereGranted
    <2>2. /\ votesReceived[s.eid] \in SUBSET Server
          /\ Majority(votesReceived[s.eid], Server)
        BY <1>1 DEF VoteInv, StartingWasElected, TypeOK, ElectionTypeOK
    <2>3. votesReceived[s.eid] \subseteq voters(s.src)
        BY <1>2, <2>1, <2>2
    <2> QED BY <2>2, <2>3, MajorityGrows
<1>4. \A n \in Server : state[n] = Leader => Majority(voters(n), Server)
    BY DEF LeadsTermItWon, Granted
<1>5. \A n \in Server : state'[n] = Leader => Majority(voters(n), Server)
    <2>1. \A n \in Server : state'[n] = Leader => n = s.src \/ state[n] = Leader
        BY <1>2 DEF TypeOK, CMTypeOK
    <2> HIDE DEF voters
    <2> QED BY <1>3, <1>4, <2>1
<1> QED BY <1>2, <1>5 DEF LeadsTermItWon, Granted

(* Every step, crashes included: a leader changes its term only when it    *)
(* stops leading.                                                          *)
LEMMA NextTermItWon ==
    ASSUME ~Late, TypeOK, VoteInv, LeadsTermItWon, [Next]_vars PROVE LeadsTermItWon'
<1>1. /\ currentTerm \in [Server -> Nat] /\ state \in [Server -> CMState]
      /\ Follower # Leader /\ Candidate # Leader
    BY DEF TypeOK, CMTypeOK, Term, Follower, Leader, Candidate
<1>2. CASE UNCHANGED <<state, currentTerm, grants>>
    BY <1>2, TermItWonKept
<1>3. ASSUME NEW n \in Server, NEW term, BecomeFollower(n, term), grants' = grants
      PROVE  LeadsTermItWon'
    BY <1>1, <1>3, TermItWonKept DEF BecomeFollower
<1>4. ASSUME NEW n \in Server, StartElection(n) PROVE LeadsTermItWon'
    BY <1>1, <1>4, TermItWonKept DEF StartElection
<1>5. ASSUME NEW m \in voteRequests, RequestVoteHelper(m) PROVE LeadsTermItWon'
    BY <1>1, <1>5, TermItWonKept DEF RequestVoteHelper
<1>6. ASSUME NEW r \in voteReplies, RequestVoteReply(r) PROVE LeadsTermItWon'
    <2>1. r.src \in Server /\ grants' = grants
        BY <1>6 DEF TypeOK, VoteTypeOK, VoteReply, RequestVoteReply
    <2>2. CASE VoteReplyToLeader(r)
        BY <1>1, <2>1, <2>2, TermItWonKept DEF VoteReplyToLeader, BecomeLeader
    <2>3. CASE VoteReplyNewer(r)
        BY <1>3, <2>1, <2>3 DEF VoteReplyNewer
    <2>4. CASE VoteReplyToFollower(r) \/ VoteReplyGranted(r) \/ VoteReplyRefused(r)
        BY <1>2, <2>1, <2>4 DEF VoteReplyToFollower, VoteReplyGranted, VoteReplyRefused
    <2> QED BY <1>6, <2>2, <2>3, <2>4 DEF RequestVoteReply
<1>7. ASSUME NEW m \in appendRequests, AppendEntriesHelper(m) PROVE LeadsTermItWon'
    <2>1. m.dst \in Server /\ grants' = grants
        BY <1>7 DEF TypeOK, AppendTypeOK, AppendRequest, AppendEntriesHelper, historyVars
    <2>2. CASE Newer(m.dst, m.term)
        BY <1>1, <1>7, <2>1, <2>2, TermItWonKept DEF AppendEntriesHelper
    <2>3. CASE ~Newer(m.dst, m.term)
        <3>1. UNCHANGED currentTerm
            BY <1>1, <1>7, <2>3 DEF AppendEntriesHelper
        <3>2. \A n \in Server : state'[n] = Leader => state[n] = Leader
            BY <1>1, <1>7 DEF AppendEntriesHelper
        <3> QED BY <2>1, <3>1, <3>2, TermItWonKept
    <2> QED BY <2>2, <2>3
<1>8. ASSUME NEW r \in appendReplies, AppendEntriesReply(r) PROVE LeadsTermItWon'
    <2>1. r.src \in Server /\ grants' = grants
        BY <1>8 DEF TypeOK, AppendTypeOK, AppendReply, AppendEntriesReply, historyVars
    <2>2. CASE AppendReplyNewer(r)
        BY <1>3, <2>1, <2>2 DEF AppendReplyNewer
    <2>3. CASE AppendReplySuccess(r) \/ AppendReplyConflict(r) \/ AppendReplyIgnored(r)
        BY <1>2, <2>1, <2>3 DEF AppendReplySuccess, AppendReplyConflict, AppendReplyIgnored
    <2> QED BY <1>8, <2>2, <2>3 DEF AppendEntriesReply
<1>9. CASE \/ \E c \in voteCalls : SendRequestVote(c)
           \/ \E p \in Server : LeaderSendAEs(p) \/ CommitChanSender(p) \/ Submit(p)
           \/ \E c \in appendCalls : SendAppendEntries(c)
           \/ \E u \in unsaved : SaveCapture(u)
           \/ \E w \in saving : SaveWrite(w)
           \/ UNCHANGED vars
    BY <1>2, <1>9 DEF SendRequestVote, LeaderSendAEs, CommitChanSender, Submit,
                      SubmitToLeader, SendAppendEntries, SaveCapture, SaveWrite,
                      vars, raftVars, historyVars
<1>10. CASE CrashStep
    <2>1. PICK q \in Server, d \in Snapshot : \E handled : Restart(q, d, handled)
        BY <1>10, CrashRestarts
    <2>2. /\ state' = [state EXCEPT ![q] = Follower] /\ grants' = grants
          /\ currentTerm' = [currentTerm EXCEPT ![q] = IF HasData(d) THEN d.term ELSE 0]
        BY <2>1 DEF Restart, historyVars
    <2> QED BY <1>1, <2>2, TermItWonKept
<1> QED BY <1>4, <1>5, <1>6, <1>7, <1>8, <1>9, <1>10, StartLeaderTermItWon DEF Next, Step

(* If no response is handled late, a leader always leads the term it was   *)
(* elected in, with the votes of a majority in that very term, whoever     *)
(* crashes and whatever RPCs are lost, delayed or reordered.  It is not    *)
(* inductive alone: that startLeader was called on a majority of this term *)
(* is what VoteInv knows of the goroutine that calls it.                   *)
THEOREM LeadersLeadTheirTerm ==
    ASSUME ~Late PROVE Spec => []LeadsTermItWon
<1>1. Init => VoteInv /\ LeadsTermItWon
    BY InitVoteInv DEF Init, LeadsTermItWon, Follower, Leader
<1>2. TypeOK /\ VoteInv /\ [Next]_vars => VoteInv'
    BY NextVoteInv
<1>3. TypeOK /\ VoteInv /\ LeadsTermItWon /\ [Next]_vars => LeadsTermItWon'
    BY NextTermItWon
<1> QED BY <1>1, <1>2, <1>3, TypeCorrect, PTL DEF Spec
-----------------------------------------------------------------------------
(***************************************************************************)
(* One leader per term, if no response is late and nobody crashes.         *)
(***************************************************************************)

(* Every leader had the votes of a majority in the term it began to lead. *)
LeadersHadMajority ==
    \A l \in leaders : Majority({v \in Server : Granted(v, l.term, l.server)}, Server)

(* As long as it is in that term its vote is its own. *)
LeadersKeepTheirVote ==
    \A l \in leaders :
        /\ l.term <= currentTerm[l.server]
        /\ currentTerm[l.server] = l.term => votedFor[l.server] = l.server

(* It voted for nobody else in that term. *)
LeadersVotedForThemselves ==
    \A l \in leaders, g \in grants :
        g.voter = l.server /\ g.term = l.term => g.candidate = l.server

GrantsAreOfThePast == \A g \in grants : g.term <= currentTerm[g.voter]

(* Who has voted for another server in its term is a follower and stands   *)
(* by the vote.                                                            *)
VotersStandByIt ==
    \A g \in grants :
        g.candidate # g.voter /\ g.term = currentTerm[g.voter] =>
            state[g.voter] = Follower /\ votedFor[g.voter] = g.candidate

(* A server votes for one other server in a term.  It may vote for itself  *)
(* too: becomeFollower clears the vote of a candidate that hears from a    *)
(* leader of its own term.                                                 *)
OneOtherPerTerm ==
    \A g, h \in grants :
        /\ g.voter = h.voter /\ g.term = h.term
        /\ g.candidate # g.voter /\ h.candidate # h.voter
        => g.candidate = h.candidate

CandidatesVoteForThemselves ==
    \A n \in Server : state[n] # Follower => votedFor[n] = n

LeadersAreOnRecord ==
    \A n \in Server : state[n] = Leader =>
        [server |-> n, term |-> currentTerm[n]] \in leaders

(* AppendEntries comes from a leader of its term, which is another server. *)
AppendsAreFromLeaders ==
    \A m \in appendCalls \cup appendRequests :
        m.src # m.dst /\ [server |-> m.src, term |-> m.term] \in leaders

(* The inductive invariant. *)
ElectionInv ==
    /\ LeadersHadMajority
    /\ LeadersKeepTheirVote
    /\ LeadersVotedForThemselves
    /\ GrantsAreOfThePast
    /\ VotersStandByIt
    /\ OneOtherPerTerm
    /\ CandidatesVoteForThemselves
    /\ LeadersAreOnRecord
    /\ AppendsAreFromLeaders

(* The conditions under which a mandate is used in the term it was given   *)
(* for and no voter forgets: without either of them the code can elect two *)
(* leaders of one term.                                                    *)
Calm == ~Late /\ MaxCrashes = 0

(* No server crashes then. *)
LEMMA CalmNeverCrashes ==
    ASSUME Calm, TypeOK PROVE ~CrashStep
<1> SUFFICES ASSUME CrashStep PROVE FALSE
    OBVIOUS
<1>1. \E n \in Server, d \in Snapshot : \E handled : Restart(n, d, handled)
    BY CrashRestarts
<1>2. crashes < MaxCrashes
    BY <1>1 DEF Restart
<1>3. crashes \in Nat
    BY DEF TypeOK, StoreTypeOK
<1> QED BY <1>2, <1>3 DEF Calm

(* Two majorities of one term have a voter in common, and it voted for one *)
(* of the two servers only.                                                *)
LEMMA OneLeaderPerTerm ==
    ASSUME TypeOK, ElectionInv PROVE ElectionSafety
<1> USE DEF ElectionInv
<1> SUFFICES ASSUME NEW k \in leaders, NEW l \in leaders, k.term = l.term
             PROVE  k.server = l.server
    BY DEF ElectionSafety
<1> DEFINE A == {v \in Server : Granted(v, k.term, k.server)}
           B == {v \in Server : Granted(v, l.term, l.server)}
<1>1. Majority(A, Server) /\ Majority(B, Server)
    BY DEF LeadersHadMajority
<1>2. PICK v \in Server : v \in A /\ v \in B
    <2>1. A \in SUBSET Server /\ B \in SUBSET Server
        OBVIOUS
    <2> HIDE DEF A, B
    <2>2. A \cap B # {}
        BY <1>1, <2>1, MajoritiesIntersect, ServerAssumption
    <2> QED BY <2>1, <2>2
<1>3. PICK g \in grants : g.voter = v /\ g.term = k.term /\ g.candidate = k.server
    BY <1>2 DEF Granted
<1>4. PICK h \in grants : h.voter = v /\ h.term = k.term /\ h.candidate = l.server
    BY <1>2 DEF Granted
<1>5. CASE v = k.server
    BY <1>4, <1>5 DEF LeadersVotedForThemselves
<1>6. CASE v = l.server
    BY <1>3, <1>6 DEF LeadersVotedForThemselves
<1>7. CASE v # k.server /\ v # l.server
    BY <1>3, <1>4, <1>7 DEF OneOtherPerTerm
<1> QED BY <1>5, <1>6, <1>7

(* A majority is not lost when votes are added. *)
LEMMA MajorityOfMoreGrants ==
    ASSUME LeadersHadMajority, grants \subseteq grants', leaders' = leaders
    PROVE  LeadersHadMajority'
<1> SUFFICES ASSUME NEW l \in leaders
             PROVE  Majority({v \in Server : Granted(v, l.term, l.server)'}, Server)
    BY DEF LeadersHadMajority
<1> DEFINE A == {v \in Server : Granted(v, l.term, l.server)}
           B == {v \in Server : Granted(v, l.term, l.server)'}
<1>1. A \subseteq B
    BY DEF Granted
<1>2. Majority(A, Server)
    BY DEF LeadersHadMajority
<1> QED BY <1>1, <1>2, MajorityGrows

(* The fields of the history are servers and terms. *)
LEMMA HistoryFields ==
    ASSUME TypeOK
    PROVE  /\ \A g \in grants : g.voter \in Server /\ g.candidate \in Server /\ g.term \in Nat
           /\ \A l \in leaders : l.server \in Server /\ l.term \in Nat
BY DEF TypeOK, ElectionTypeOK, Grant, Leadership, Term

(* startElection. *)
LEMMA StartElectionElectionInv ==
    ASSUME TypeOK, ElectionInv, NEW n \in Server, StartElection(n) PROVE ElectionInv'
<1> USE DEF ElectionInv
<1> DEFINE t == currentTerm[n] + 1
           own == [voter |-> n, term |-> t, candidate |-> n]
<1>1. /\ currentTerm \in [Server -> Nat] /\ votedFor \in [Server -> Server \cup {Nil}]
      /\ state \in [Server -> CMState]
      /\ currentTerm' = [currentTerm EXCEPT ![n] = t]
      /\ votedFor' = [votedFor EXCEPT ![n] = n]
      /\ state' = [state EXCEPT ![n] = Candidate]
      /\ grants' = grants \cup {own}
      /\ UNCHANGED <<leaders, appendCalls, appendRequests>>
    BY DEF StartElection, TypeOK, CMTypeOK, Term, appendVars
<1>2. currentTerm[n] \in Nat /\ t \in Nat /\ t > currentTerm[n]
    BY <1>1
<1>3. own.voter = n /\ own.candidate = n /\ own.term = t
    OBVIOUS
<1> HIDE DEF t, own
<1>4. LeadersHadMajority'
    BY <1>1, MajorityOfMoreGrants
<1>5. LeadersKeepTheirVote'
    BY <1>1, <1>2, HistoryFields DEF LeadersKeepTheirVote
<1>6. LeadersVotedForThemselves'
    BY <1>1, <1>2, <1>3, HistoryFields DEF LeadersVotedForThemselves, LeadersKeepTheirVote
<1>7. GrantsAreOfThePast'
    BY <1>1, <1>2, <1>3, HistoryFields DEF GrantsAreOfThePast
<1>8. VotersStandByIt'
    BY <1>1, <1>2, <1>3, HistoryFields DEF VotersStandByIt, GrantsAreOfThePast
<1>9. OneOtherPerTerm'
    BY <1>1, <1>3 DEF OneOtherPerTerm
<1>10. CandidatesVoteForThemselves'
    BY <1>1 DEF CandidatesVoteForThemselves
<1>11. LeadersAreOnRecord'
    BY <1>1 DEF LeadersAreOnRecord, Candidate, Leader
<1>12. AppendsAreFromLeaders'
    BY <1>1 DEF AppendsAreFromLeaders
<1> QED BY <1>4, <1>5, <1>6, <1>7, <1>8, <1>9, <1>10, <1>11, <1>12

(* RequestVoteHelper: a server that is or was a leader of the term, or has *)
(* voted in it for another server, grants no further vote.                 *)
LEMMA RequestVoteHelperElectionInv ==
    ASSUME TypeOK, ElectionInv, NEW m \in voteRequests, RequestVoteHelper(m)
    PROVE  ElectionInv'
<1> USE DEF ElectionInv
<1> DEFINE n == m.dst
           newer == Newer(n, m.term)
           term == IF newer THEN m.term ELSE currentTerm[n]
           vote == IF newer THEN Nil ELSE votedFor[n]
           granted == GrantsVote(m, term, vote, log[n])
           newVote == IF granted THEN m.src ELSE vote
           new == [voter |-> n, term |-> m.term, candidate |-> m.src]
<1>1. /\ currentTerm \in [Server -> Nat] /\ votedFor \in [Server -> Server \cup {Nil}]
      /\ state \in [Server -> CMState]
      /\ n \in Server /\ m.src \in Server /\ m.term \in Nat
    BY DEF TypeOK, CMTypeOK, VoteTypeOK, VoteRequest, Term
<1>2. /\ currentTerm' = [currentTerm EXCEPT ![n] = term]
      /\ votedFor' = [votedFor EXCEPT ![n] = newVote]
      /\ state' = [state EXCEPT ![n] = IF newer THEN Follower ELSE @]
      /\ grants' = grants \cup {g \in {new} : granted}
      /\ UNCHANGED <<leaders, appendCalls, appendRequests>>
    BY DEF RequestVoteHelper, appendVars
<1>3. /\ newer <=> m.term > currentTerm[n]
      /\ granted => term = m.term /\ vote \in {Nil, m.src}
      /\ new.voter = n /\ new.term = m.term /\ new.candidate = m.src
    BY DEF Newer, GrantsVote
<1>4. /\ newer => term = m.term /\ vote = Nil
      /\ ~newer => term = currentTerm[n] /\ vote = votedFor[n]
      /\ newVote = IF granted THEN m.src ELSE vote
    OBVIOUS
<1>5. Nil \notin Server
    BY ServerAssumption
<1> HIDE DEF n, newer, term, vote, granted, newVote, new
<1>6. LeadersHadMajority'
    BY <1>2, MajorityOfMoreGrants
<1>7. LeadersKeepTheirVote'
    BY <1>1, <1>2, <1>3, <1>4, <1>5, HistoryFields DEF LeadersKeepTheirVote
<1>8. LeadersVotedForThemselves'
    <2>1. ASSUME NEW l \in leaders, granted, l.server = n, l.term = m.term
          PROVE  m.src = n
        BY <1>1, <1>3, <1>4, <1>5, <2>1, HistoryFields DEF LeadersKeepTheirVote
    <2> QED BY <1>2, <1>3, <2>1 DEF LeadersVotedForThemselves
<1>9. GrantsAreOfThePast'
    BY <1>1, <1>2, <1>3, <1>4, HistoryFields DEF GrantsAreOfThePast
<1>10. VotersStandByIt'
    <2> SUFFICES ASSUME NEW g \in grants', g.candidate # g.voter,
                        g.term = currentTerm'[g.voter]
                 PROVE  state'[g.voter] = Follower /\ votedFor'[g.voter] = g.candidate
        BY DEF VotersStandByIt
    <2>1. CASE g \in grants /\ g.voter # n
        BY <1>1, <1>2, <2>1, HistoryFields DEF VotersStandByIt
    <2>2. CASE g \in grants /\ g.voter = n
        <3>1. ~newer /\ g.term = currentTerm[n]
            BY <1>1, <1>2, <1>3, <1>4, <2>2, HistoryFields DEF GrantsAreOfThePast
        <3>2. state[n] = Follower /\ votedFor[n] = g.candidate
            BY <2>2, <3>1 DEF VotersStandByIt
        <3> QED BY <1>1, <1>2, <1>3, <1>4, <1>5, <2>2, <3>1, <3>2, HistoryFields
    <2>3. CASE granted /\ g = new
        <3>1. g.voter = n /\ g.candidate = m.src /\ newVote = m.src /\ m.src # n
            BY <1>3, <1>4, <2>3
        <3>2. ~newer => state[n] = Follower
            BY <1>1, <1>3, <1>4, <1>5, <2>3, <3>1 DEF CandidatesVoteForThemselves
        <3> QED BY <1>1, <1>2, <3>1, <3>2
    <2> QED BY <1>2, <2>1, <2>2, <2>3
<1>11. OneOtherPerTerm'
    <2>1. ASSUME NEW g \in grants, granted, g.voter = n, g.term = m.term,
                 g.candidate # g.voter
          PROVE  g.candidate = m.src
        <3>1. ~newer /\ g.term = currentTerm[n]
            BY <1>1, <1>3, <1>4, <2>1, HistoryFields DEF GrantsAreOfThePast
        <3>2. votedFor[n] = g.candidate
            BY <2>1, <3>1 DEF VotersStandByIt
        <3> QED BY <1>3, <1>4, <1>5, <2>1, <3>1, <3>2, HistoryFields
    <2> QED BY <1>2, <1>3, <2>1 DEF OneOtherPerTerm
<1>12. CandidatesVoteForThemselves'
    BY <1>1, <1>2, <1>3, <1>4, <1>5 DEF CandidatesVoteForThemselves
<1>13. LeadersAreOnRecord'
    BY <1>1, <1>2, <1>4 DEF LeadersAreOnRecord, Follower, Leader
<1>14. AppendsAreFromLeaders'
    BY <1>2 DEF AppendsAreFromLeaders
<1> QED BY <1>6, <1>7, <1>8, <1>9, <1>10, <1>11, <1>12, <1>13, <1>14

(* becomeFollower in a later term: nothing has happened in that term yet.  *)
LEMMA FollowerElectionInv ==
    ASSUME TypeOK, ElectionInv, NEW n \in Server, NEW term \in Nat,
           term > currentTerm[n], BecomeFollower(n, term),
           UNCHANGED <<grants, leaders, appendCalls, appendRequests>>
    PROVE  ElectionInv'
<1> USE DEF ElectionInv
<1>1. /\ currentTerm \in [Server -> Nat] /\ votedFor \in [Server -> Server \cup {Nil}]
      /\ state \in [Server -> CMState]
      /\ currentTerm' = [currentTerm EXCEPT ![n] = term]
      /\ votedFor' = [votedFor EXCEPT ![n] = Nil]
      /\ state' = [state EXCEPT ![n] = Follower]
    BY DEF BecomeFollower, TypeOK, CMTypeOK, Term
<1>2. LeadersHadMajority' /\ LeadersVotedForThemselves' /\ OneOtherPerTerm'
    BY DEF LeadersHadMajority, LeadersVotedForThemselves, OneOtherPerTerm, Granted
<1>3. LeadersKeepTheirVote'
    BY <1>1, HistoryFields DEF LeadersKeepTheirVote
<1>4. GrantsAreOfThePast'
    BY <1>1, HistoryFields DEF GrantsAreOfThePast
<1>5. VotersStandByIt'
    BY <1>1, HistoryFields DEF VotersStandByIt, GrantsAreOfThePast
<1>6. CandidatesVoteForThemselves'
    BY <1>1 DEF CandidatesVoteForThemselves
<1>7. LeadersAreOnRecord'
    BY <1>1 DEF LeadersAreOnRecord, Follower, Leader
<1>8. AppendsAreFromLeaders'
    BY DEF AppendsAreFromLeaders
<1> QED BY <1>2, <1>3, <1>4, <1>5, <1>6, <1>7, <1>8

(* A step that leaves terms, votes, states and history alone. *)
LEMMA ElsewhereElectionInv ==
    ASSUME ElectionInv, UNCHANGED <<state, currentTerm, votedFor, grants, leaders>>,
           AppendsAreFromLeaders'
    PROVE  ElectionInv'
BY DEF ElectionInv, LeadersHadMajority, LeadersKeepTheirVote, LeadersVotedForThemselves,
       GrantsAreOfThePast, VotersStandByIt, OneOtherPerTerm, CandidatesVoteForThemselves,
       LeadersAreOnRecord, Granted

(* A response that is not late: a server that leads already begins no new  *)
(* leadership, one that steps down does so in a later term.                *)
LEMMA RequestVoteReplyElectionInv ==
    ASSUME Calm, TypeOK, ElectionInv, NEW r \in voteReplies, RequestVoteReply(r)
    PROVE  ElectionInv'
<1>1. UNCHANGED <<grants, appendCalls, appendRequests>> /\ AppendsAreFromLeaders
    BY DEF RequestVoteReply, appendVars, ElectionInv
<1>2. /\ r.src \in Server /\ r.replyTerm \in Nat /\ state \in [Server -> CMState]
      /\ currentTerm[r.src] = r.term
    BY DEF TypeOK, CMTypeOK, VoteTypeOK, VoteReply, Term, RequestVoteReply, Calm, SameTerm
<1>3. CASE VoteReplyToLeader(r)
    <2>1. state' = state
        BY <1>2, <1>3 DEF VoteReplyToLeader, BecomeLeader
    <2>2. leaders' = leaders
        <3>1. [server |-> r.src, term |-> currentTerm[r.src]] \in leaders
            BY <1>2, <1>3 DEF VoteReplyToLeader, ElectionInv, LeadersAreOnRecord
        <3> QED BY <1>3, <3>1 DEF VoteReplyToLeader, BecomeLeader
    <2> QED BY <1>1, <1>3, <2>1, <2>2, ElsewhereElectionInv
            DEF VoteReplyToLeader, AppendsAreFromLeaders
<1>4. CASE VoteReplyNewer(r)
    <2>1. BecomeFollower(r.src, r.replyTerm) /\ r.replyTerm > currentTerm[r.src]
        BY <1>2, <1>4 DEF VoteReplyNewer
    <2> QED BY <1>1, <1>2, <1>4, <2>1, FollowerElectionInv DEF VoteReplyNewer
<1>5. CASE VoteReplyToFollower(r) \/ VoteReplyGranted(r) \/ VoteReplyRefused(r)
    BY <1>1, <1>5, ElsewhereElectionInv
    DEF VoteReplyToFollower, VoteReplyGranted, VoteReplyRefused, AppendsAreFromLeaders
<1> QED BY <1>3, <1>4, <1>5 DEF RequestVoteReply

(* startLeader in the term of its election, on a server that has not       *)
(* stepped down: it has voted for nobody else in this term.                *)
LEMMA StartLeaderElectionInv ==
    ASSUME Calm, TypeOK, VoteInv, ElectionInv, NEW s \in starting, StartLeader(s)
    PROVE  ElectionInv'
<1> USE DEF ElectionInv
<1> DEFINE n == s.src
           new == [server |-> n, term |-> currentTerm[n]]
<1>1. /\ n \in Server /\ s.eid \in Election /\ s \in Ballots
      /\ currentTerm[n] = s.term /\ state[n] # Follower
      /\ currentTerm \in [Server -> Nat] /\ state \in [Server -> CMState]
    BY BallotFields DEF StartLeader, Calm, SameTerm, Ballots, TypeOK, CMTypeOK, Term
<1>2. /\ state' = [state EXCEPT ![n] = Leader]
      /\ leaders' = leaders \cup {new}
      /\ UNCHANGED <<currentTerm, votedFor, grants, appendCalls, appendRequests>>
    BY DEF StartLeader, BecomeLeader, appendVars
<1>3. new.server = n /\ new.term = currentTerm[n]
    OBVIOUS
<1>4. votedFor[n] = n
    BY <1>1 DEF CandidatesVoteForThemselves
<1>5. \A g \in grants : g.voter = n /\ g.term = currentTerm[n] => g.candidate = n
    BY <1>1 DEF VotersStandByIt
<1>6. Majority({v \in Server : Granted(v, s.term, n)}, Server)
    <2> DEFINE voters == {v \in Server : Granted(v, s.term, n)}
    <2>1. /\ votesReceived[s.eid] \in SUBSET Server
          /\ Majority(votesReceived[s.eid], Server)
        BY <1>1 DEF VoteInv, StartingWasElected, TypeOK, ElectionTypeOK
    <2>2. votesReceived[s.eid] \subseteq voters
        BY <1>1, <2>1 DEF VoteInv, CountedWereGranted
    <2> QED BY <2>1, <2>2, MajorityGrows
<1>7. LeadersHadMajority'
    <2> SUFFICES ASSUME NEW l \in leaders'
                 PROVE  Majority({v \in Server : Granted(v, l.term, l.server)}, Server)
        BY <1>2 DEF LeadersHadMajority, Granted
    <2>1. CASE l \in leaders
        BY <2>1 DEF LeadersHadMajority
    <2>2. CASE l = new
        <3>1. l.term = s.term /\ l.server = n
            BY <1>1, <1>3, <2>2
        <3> QED BY <1>6, <3>1
    <2> QED BY <1>2, <2>1, <2>2
<1> HIDE DEF n, new
<1>8. LeadersKeepTheirVote'
    BY <1>1, <1>2, <1>3, <1>4 DEF LeadersKeepTheirVote
<1>9. LeadersVotedForThemselves'
    BY <1>2, <1>3, <1>5 DEF LeadersVotedForThemselves
<1>10. GrantsAreOfThePast' /\ OneOtherPerTerm'
    BY <1>2 DEF GrantsAreOfThePast, OneOtherPerTerm
<1>11. VotersStandByIt'
    BY <1>1, <1>2, <1>5, HistoryFields DEF VotersStandByIt
<1>12. CandidatesVoteForThemselves'
    BY <1>1, <1>2, <1>4 DEF CandidatesVoteForThemselves
<1>13. LeadersAreOnRecord'
    BY <1>1, <1>2 DEF LeadersAreOnRecord, new
<1>14. AppendsAreFromLeaders'
    BY <1>2 DEF AppendsAreFromLeaders
<1> QED BY <1>7, <1>8, <1>9, <1>10, <1>11, <1>12, <1>13, <1>14

(* A round of AppendEntries starts at a leader on record. *)
LEMMA LeaderSendAEsElectionInv ==
    ASSUME TypeOK, ElectionInv, NEW n \in Server, LeaderSendAEs(n) PROVE ElectionInv'
<1>1. UNCHANGED <<state, currentTerm, votedFor, grants, leaders, appendRequests>>
    BY DEF LeaderSendAEs, raftVars, historyVars
<1>2. \A c \in appendCalls' :
          c \in appendCalls \/ (c.src = n /\ c.dst # n /\ c.term = currentTerm[n])
    BY DEF LeaderSendAEs, Peers
<1>3. AppendsAreFromLeaders'
    BY <1>1, <1>2 DEF LeaderSendAEs, ElectionInv, LeadersAreOnRecord, AppendsAreFromLeaders
<1> QED BY <1>1, <1>3, ElsewhereElectionInv

(* Its goroutines send what they were started with. *)
LEMMA SendAppendEntriesElectionInv ==
    ASSUME TypeOK, ElectionInv, NEW c \in appendCalls, SendAppendEntries(c)
    PROVE  ElectionInv'
<1>1. /\ UNCHANGED <<state, currentTerm, votedFor, grants, leaders>>
      /\ appendCalls' \subseteq appendCalls
    BY DEF SendAppendEntries, raftVars, historyVars
<1>2. ASSUME NEW m \in appendRequests'
      PROVE  m \in appendRequests \/ (m.src = c.src /\ m.dst = c.dst /\ m.term = c.term)
    <2> DEFINE call(prev, prevTerm, entries, commit) ==
                   [src |-> c.src, dst |-> c.dst, round |-> c.round, term |-> c.term,
                    prevLogIndex |-> prev, prevLogTerm |-> prevTerm,
                    entries |-> entries, leaderCommit |-> commit, live |-> TRUE]
    <2>1. \E prev, prevTerm, entries, commit :
              appendRequests' = appendRequests \cup {call(prev, prevTerm, entries, commit)}
        BY DEF SendAppendEntries
    <2> QED BY <2>1
<1>3. AppendsAreFromLeaders'
    BY <1>1, <1>2 DEF ElectionInv, AppendsAreFromLeaders
<1> QED BY <1>1, <1>3, ElsewhereElectionInv

(* AppendEntriesHelper clears the vote of a candidate of its own term, but *)
(* never of a leader: the request is from another leader of the term, and  *)
(* there is none.                                                          *)
LEMMA AppendEntriesHelperElectionInv ==
    ASSUME TypeOK, ElectionInv, NEW m \in appendRequests, AppendEntriesHelper(m)
    PROVE  ElectionInv'
<1> USE DEF ElectionInv
<1> DEFINE n == m.dst
           newer == Newer(n, m.term)
           term == IF newer THEN m.term ELSE currentTerm[n]
           stepDown == newer \/ (InTerm(m, term) /\ state[n] # Follower)
           vote == IF stepDown THEN Nil ELSE votedFor[n]
<1>1. /\ currentTerm \in [Server -> Nat] /\ votedFor \in [Server -> Server \cup {Nil}]
      /\ state \in [Server -> CMState]
      /\ n \in Server /\ m.src \in Server /\ m.term \in Nat
    BY DEF TypeOK, CMTypeOK, AppendTypeOK, AppendRequest, Term
<1>2. /\ currentTerm' = [currentTerm EXCEPT ![n] = term]
      /\ votedFor' = [votedFor EXCEPT ![n] = vote]
      /\ state' = [state EXCEPT ![n] = IF stepDown THEN Follower ELSE @]
      /\ UNCHANGED <<grants, leaders, appendCalls>>
      /\ appendRequests' \subseteq appendRequests
    BY DEF AppendEntriesHelper, historyVars
<1>3. /\ newer <=> m.term > currentTerm[n]
      /\ newer => stepDown /\ term = m.term
      /\ ~newer => /\ term = currentTerm[n]
                   /\ stepDown => m.term = currentTerm[n] /\ state[n] # Follower
      /\ vote = IF stepDown THEN Nil ELSE votedFor[n]
    BY DEF Newer, InTerm
<1> HIDE DEF n, newer, term, stepDown, vote
<1>4. m.src # n /\ \E k \in leaders : k.server = m.src /\ k.term = m.term
    BY DEF AppendsAreFromLeaders, n
<1>5. \A l \in leaders : l.server = n => l.term # m.term
    BY <1>4, OneLeaderPerTerm DEF ElectionSafety
<1>6. LeadersHadMajority' /\ LeadersVotedForThemselves' /\ OneOtherPerTerm'
    BY <1>2 DEF LeadersHadMajority, LeadersVotedForThemselves, OneOtherPerTerm, Granted
<1>7. LeadersKeepTheirVote'
    <2> SUFFICES ASSUME NEW l \in leaders
                 PROVE  /\ l.term <= currentTerm'[l.server]
                        /\ currentTerm'[l.server] = l.term => votedFor'[l.server] = l.server
        BY <1>2 DEF LeadersKeepTheirVote
    <2>1. CASE l.server # n
        BY <1>1, <1>2, <2>1, HistoryFields DEF LeadersKeepTheirVote
    <2>2. CASE l.server = n
        <3>1. l.term \in Nat /\ l.term <= currentTerm[n] /\ l.term # m.term
            BY <1>5, <2>2, HistoryFields DEF LeadersKeepTheirVote
        <3>2. CASE newer
            BY <1>1, <1>2, <1>3, <2>2, <3>1, <3>2
        <3>3. CASE ~newer
            <4>1. currentTerm' = [currentTerm EXCEPT ![n] = currentTerm[n]]
                BY <1>2, <1>3, <3>3
            <4>2. stepDown => currentTerm[n] # l.term
                BY <1>3, <3>1, <3>3
            <4> QED BY <1>1, <1>2, <1>3, <2>2, <3>1, <4>1, <4>2 DEF LeadersKeepTheirVote
        <3> QED BY <3>2, <3>3
    <2> QED BY <2>1, <2>2
<1>8. GrantsAreOfThePast'
    BY <1>1, <1>2, <1>3, HistoryFields DEF GrantsAreOfThePast
<1>9. VotersStandByIt'
    <2> SUFFICES ASSUME NEW g \in grants, g.candidate # g.voter,
                        g.term = currentTerm'[g.voter]
                 PROVE  state'[g.voter] = Follower /\ votedFor'[g.voter] = g.candidate
        BY <1>2 DEF VotersStandByIt
    <2>1. CASE g.voter # n
        BY <1>1, <1>2, <2>1, HistoryFields DEF VotersStandByIt
    <2>2. CASE g.voter = n
        <3>1. ~newer /\ g.term = currentTerm[n]
            BY <1>1, <1>2, <1>3, <2>2, HistoryFields DEF GrantsAreOfThePast
        <3>2. state[n] = Follower /\ votedFor[n] = g.candidate
            BY <2>2, <3>1 DEF VotersStandByIt
        <3> QED BY <1>1, <1>2, <1>3, <2>2, <3>1, <3>2
    <2> QED BY <2>1, <2>2
<1>10. CandidatesVoteForThemselves'
    BY <1>1, <1>2, <1>3 DEF CandidatesVoteForThemselves
<1>11. LeadersAreOnRecord'
    BY <1>1, <1>2, <1>3 DEF LeadersAreOnRecord, Follower, Leader
<1>12. AppendsAreFromLeaders'
    BY <1>2 DEF AppendsAreFromLeaders
<1> QED BY <1>6, <1>7, <1>8, <1>9, <1>10, <1>11, <1>12

(* The response to an AppendEntries makes a server follow only in a later  *)
(* term.                                                                   *)
LEMMA AppendEntriesReplyElectionInv ==
    ASSUME TypeOK, ElectionInv, NEW r \in appendReplies, AppendEntriesReply(r)
    PROVE  ElectionInv'
<1>1. UNCHANGED <<grants, leaders, appendCalls, appendRequests>> /\ AppendsAreFromLeaders
    BY DEF AppendEntriesReply, historyVars, ElectionInv
<1>2. CASE AppendReplyNewer(r)
    <2>1. /\ r.src \in Server /\ r.replyTerm \in Nat
          /\ BecomeFollower(r.src, r.replyTerm) /\ r.replyTerm > currentTerm[r.src]
        BY <1>2 DEF AppendReplyNewer, Newer, TypeOK, AppendTypeOK, AppendReply, Term
    <2> QED BY <1>1, <2>1, FollowerElectionInv
<1>3. CASE AppendReplySuccess(r) \/ AppendReplyConflict(r) \/ AppendReplyIgnored(r)
    BY <1>1, <1>3, ElsewhereElectionInv
    DEF AppendReplySuccess, AppendReplyConflict, AppendReplyIgnored, AppendsAreFromLeaders
<1> QED BY <1>2, <1>3 DEF AppendEntriesReply

(* Every step preserves the invariant; nobody crashes. *)
LEMMA NextElectionInv ==
    ASSUME Calm, TypeOK, VoteInv, ElectionInv, [Next]_vars PROVE ElectionInv'
<1>1. ASSUME UNCHANGED <<state, currentTerm, votedFor, appendCalls, appendRequests, historyVars>>
      PROVE  ElectionInv'
    BY <1>1, ElsewhereElectionInv DEF ElectionInv, AppendsAreFromLeaders, historyVars
<1>2. CASE Step
    <2>1. CASE \/ \E c \in voteCalls : SendRequestVote(c)
               \/ \E u \in unsaved : SaveCapture(u)
               \/ \E w \in saving : SaveWrite(w)
               \/ \E n \in Server : CommitChanSender(n)
        BY <1>1, <2>1 DEF SendRequestVote, SaveCapture, SaveWrite, CommitChanSender,
                          raftVars, appendVars
    <2> QED BY <1>2, <2>1, StartElectionElectionInv, RequestVoteHelperElectionInv,
               RequestVoteReplyElectionInv, StartLeaderElectionInv,
               LeaderSendAEsElectionInv, SendAppendEntriesElectionInv,
               AppendEntriesHelperElectionInv, AppendEntriesReplyElectionInv
            DEF Step
<1>3. CASE \E n \in Server : Submit(n)
    BY <1>1, <1>3 DEF Submit, SubmitToLeader, appendVars
<1>4. CASE CrashStep
    BY <1>4, CalmNeverCrashes
<1>5. CASE UNCHANGED vars
    BY <1>1, <1>5 DEF vars, raftVars, appendVars
<1> QED BY <1>2, <1>3, <1>4, <1>5 DEF Next

(* The same of what is known besides.                                      *)
LEMMA InitElectionInv ==
    Init => VoteInv /\ ElectionInv
<1>1. Init => VoteInv
    BY InitVoteInv
<1>2. Init => ElectionInv
    BY DEF Init, ElectionInv, LeadersHadMajority, LeadersKeepTheirVote,
           LeadersVotedForThemselves, GrantsAreOfThePast, VotersStandByIt,
           OneOtherPerTerm, CandidatesVoteForThemselves, LeadersAreOnRecord,
           AppendsAreFromLeaders, Follower, Leader
<1> QED BY <1>1, <1>2

(* Election safety: if responses are handled in the term of their election *)
(* and nobody crashes, no two servers ever begin to lead in the same term, *)
(* whatever the size of the cluster.  The clearing of a candidate's vote   *)
(* in its own term (becomeFollower called by AppendEntriesHelper) does no  *)
(* harm then.                                                              *)
THEOREM CalmElectionsAreSafe ==
    ASSUME Calm PROVE Spec => []ElectionSafety
<1>1. Init => VoteInv /\ ElectionInv
    BY InitElectionInv
<1>2. TypeOK /\ VoteInv /\ [Next]_vars => VoteInv'
    BY NextVoteInv
<1>3. TypeOK /\ VoteInv /\ ElectionInv /\ [Next]_vars => ElectionInv'
    BY NextElectionInv
<1>4. TypeOK /\ ElectionInv => ElectionSafety
    BY OneLeaderPerTerm
<1> QED BY <1>1, <1>2, <1>3, <1>4, TypeCorrect, PTL DEF Spec
-----------------------------------------------------------------------------
(* A response that is handled in its term, or a message, never sets a term *)
(* back.                                                                   *)
LEMMA StepTermsGrow ==
    ASSUME ~Late, TypeOK, [Next]_vars, crashes' = crashes, NEW n \in Server
    PROVE  currentTerm'[n] >= currentTerm[n]
<1>1. currentTerm \in [Server -> Nat] /\ crashes \in Nat
    BY BoundsAssumption DEF TypeOK, CMTypeOK, StoreTypeOK, Term
<1>2. CASE UNCHANGED currentTerm
    BY <1>1, <1>2
<1>3. ASSUME NEW p \in Server, StartElection(p) PROVE currentTerm'[n] >= currentTerm[n]
    BY <1>1, <1>3 DEF StartElection
<1>4. ASSUME NEW m \in voteRequests, RequestVoteHelper(m)
      PROVE  currentTerm'[n] >= currentTerm[n]
    <2>1. m.term \in Nat
        BY DEF TypeOK, VoteTypeOK, VoteRequest, Term
    <2> QED BY <1>1, <1>4, <2>1 DEF RequestVoteHelper, Newer
<1>5. ASSUME NEW r \in voteReplies, RequestVoteReply(r)
      PROVE  currentTerm'[n] >= currentTerm[n]
    <2>1. r.replyTerm \in Nat /\ currentTerm[r.src] = r.term
        BY <1>5 DEF TypeOK, VoteTypeOK, VoteReply, Term, RequestVoteReply, SameTerm
    <2>2. CASE VoteReplyNewer(r)
        BY <1>1, <2>1, <2>2 DEF VoteReplyNewer, BecomeFollower
    <2>3. CASE ~VoteReplyNewer(r)
        BY <1>2, <1>5, <2>3 DEF RequestVoteReply, VoteReplyToLeader,
            VoteReplyToFollower, VoteReplyGranted, VoteReplyRefused
    <2> QED BY <2>2, <2>3
<1>6. ASSUME NEW m \in appendRequests, AppendEntriesHelper(m)
      PROVE  currentTerm'[n] >= currentTerm[n]
    <2>1. m.term \in Nat
        BY DEF TypeOK, AppendTypeOK, AppendRequest, Term
    <2>2. currentTerm' = [currentTerm EXCEPT ![m.dst] =
              IF Newer(m.dst, m.term) THEN m.term ELSE currentTerm[m.dst]]
        BY <1>6 DEF AppendEntriesHelper
    <2> QED BY <1>1, <2>1, <2>2 DEF Newer
<1>7. ASSUME NEW r \in appendReplies, AppendEntriesReply(r)
      PROVE  currentTerm'[n] >= currentTerm[n]
    <2>1. r.replyTerm \in Nat
        BY DEF TypeOK, AppendTypeOK, AppendReply, Term
    <2>2. CASE AppendReplyNewer(r)
        BY <1>1, <2>1, <2>2 DEF AppendReplyNewer, BecomeFollower, Newer
    <2>3. CASE ~AppendReplyNewer(r)
        BY <1>2, <1>7, <2>3 DEF AppendEntriesReply, AppendReplySuccess,
            AppendReplyConflict, AppendReplyIgnored
    <2> QED BY <2>2, <2>3
<1>8. CASE \/ \E c \in voteCalls : SendRequestVote(c)
           \/ \E s \in starting : StartLeader(s)
           \/ \E p \in Server : LeaderSendAEs(p) \/ CommitChanSender(p) \/ Submit(p)
           \/ \E c \in appendCalls : SendAppendEntries(c)
           \/ \E u \in unsaved : SaveCapture(u)
           \/ \E w \in saving : SaveWrite(w)
    BY <1>2, <1>8 DEF SendRequestVote, StartLeader, LeaderSendAEs, CommitChanSender,
                      Submit, SubmitToLeader, SendAppendEntries, SaveCapture,
                      SaveWrite, raftVars
<1>9. ~CrashStep
    <2>1. SUFFICES ASSUME CrashStep PROVE FALSE
        OBVIOUS
    <2>2. PICK q \in Server, d \in Snapshot : \E handled : Restart(q, d, handled)
        BY <2>1, CrashRestarts
    <2>3. crashes' = crashes + 1
        BY <2>2 DEF Restart
    <2> QED BY <1>1, <2>3
<1>10. CASE UNCHANGED vars
    BY <1>2, <1>10 DEF vars, raftVars
<1> QED BY <1>3, <1>4, <1>5, <1>6, <1>7, <1>8, <1>9, <1>10
        DEF Next, Step
-----------------------------------------------------------------------------
(***************************************************************************)
(* Votes on disk.  VoteIsDurable alone says nothing of what the voter      *)
(* will save next, nor of what a save under way will write.                *)
(***************************************************************************)

(* What VoteIsDurable says of a vote, the same of the voter that runs, and *)
(* that the disk is not ahead of it.                                       *)
Kept(g) ==
    LET d == disk[g.voter]
        term == currentTerm[g.voter]
    IN /\ 0 < g.term /\ g.term <= term
       /\ g.term = term => state[g.voter] = Follower /\ votedFor[g.voter] = g.candidate
       /\ d.written /\ d.term <= term
       /\ d.term > g.term \/ (d.term = g.term /\ d.votedFor = g.candidate)

VotesAreKept == \A g \in grants : Lasting(g) => Kept(g)

(* Votes are asked for in a term after the first. *)
RequestsHaveTerms == \A c \in voteCalls \cup voteRequests : 0 < c.term

(* The saves of Submit are of a server that has led, in terms since then.  *)
SavesAreOfLeaders ==
    /\ \A u \in unsaved : \E l \in leaders :
           l.server = u.server /\ l.term <= currentTerm[u.server]
    /\ \A w \in saving :
           /\ w.data.written /\ w.data.term <= currentTerm[w.server]
           /\ \E l \in leaders : l.server = w.server /\ l.term <= w.data.term

(* The inductive invariant. *)
DurableInv ==
    /\ CandidatesVoteForThemselves
    /\ LeadersAreOnRecord
    /\ RequestsHaveTerms
    /\ SavesAreOfLeaders
    /\ VotesAreKept

(* Who stands for election votes for itself, and who leads is on record,   *)
(* whoever crashes.                                                        *)
LEMMA NextRoles ==
    ASSUME ~Late, TypeOK, CandidatesVoteForThemselves, LeadersAreOnRecord, [Next]_vars
    PROVE  CandidatesVoteForThemselves' /\ LeadersAreOnRecord'
<1> USE DEF CandidatesVoteForThemselves, LeadersAreOnRecord
<1>1. /\ currentTerm \in [Server -> Nat] /\ votedFor \in [Server -> Server \cup {Nil}]
      /\ state \in [Server -> CMState] /\ Follower # Leader
    BY DEF TypeOK, CMTypeOK, Term, Follower, Leader
<1>2. CASE UNCHANGED <<state, currentTerm, votedFor, leaders>>
    BY <1>2
<1>3. ASSUME NEW n \in Server, NEW term, BecomeFollower(n, term), leaders' = leaders
      PROVE  CandidatesVoteForThemselves' /\ LeadersAreOnRecord'
    BY <1>1, <1>3 DEF BecomeFollower
<1>4. ASSUME NEW n \in Server, state[n] # Follower, BecomeLeader(n),
             UNCHANGED <<currentTerm, votedFor>>
      PROVE  CandidatesVoteForThemselves' /\ LeadersAreOnRecord'
    BY <1>1, <1>4 DEF BecomeLeader
<1>5. ASSUME NEW n \in Server, StartElection(n)
      PROVE  CandidatesVoteForThemselves' /\ LeadersAreOnRecord'
    BY <1>1, <1>5 DEF StartElection, Candidate, Leader
<1>6. ASSUME NEW m \in voteRequests, RequestVoteHelper(m)
      PROVE  CandidatesVoteForThemselves' /\ LeadersAreOnRecord'
    <2>1. m.dst \in Server /\ Nil \notin Server
        BY ServerAssumption DEF TypeOK, VoteTypeOK, VoteRequest
    <2> QED BY <1>1, <1>6, <2>1 DEF RequestVoteHelper, GrantsVote, Newer
<1>7. ASSUME NEW r \in voteReplies, RequestVoteReply(r)
      PROVE  CandidatesVoteForThemselves' /\ LeadersAreOnRecord'
    <2>1. r.src \in Server
        BY DEF TypeOK, VoteTypeOK, VoteReply
    <2>2. CASE VoteReplyToLeader(r)
        BY <1>1, <1>4, <2>1, <2>2 DEF VoteReplyToLeader
    <2>3. CASE VoteReplyNewer(r)
        BY <1>3, <2>1, <2>3 DEF VoteReplyNewer
    <2>4. CASE VoteReplyToFollower(r) \/ VoteReplyGranted(r) \/ VoteReplyRefused(r)
        BY <1>2, <2>4 DEF VoteReplyToFollower, VoteReplyGranted, VoteReplyRefused
    <2> QED BY <1>7, <2>2, <2>3, <2>4 DEF RequestVoteReply
<1>8. ASSUME NEW s \in starting, StartLeader(s)
      PROVE  CandidatesVoteForThemselves' /\ LeadersAreOnRecord'
    <2>1. s.src \in Server
        BY DEF TypeOK, VoteTypeOK, VoteCall
    <2> QED BY <1>4, <1>8, <2>1 DEF StartLeader
<1>9. ASSUME NEW m \in appendRequests, AppendEntriesHelper(m)
      PROVE  CandidatesVoteForThemselves' /\ LeadersAreOnRecord'
    <2>1. m.dst \in Server
        BY DEF TypeOK, AppendTypeOK, AppendRequest
    <2> QED BY <1>1, <1>9, <2>1 DEF AppendEntriesHelper, Newer, historyVars
<1>10. ASSUME NEW r \in appendReplies, AppendEntriesReply(r)
       PROVE  CandidatesVoteForThemselves' /\ LeadersAreOnRecord'
    <2>1. r.src \in Server /\ leaders' = leaders
        BY <1>10 DEF TypeOK, AppendTypeOK, AppendReply, AppendEntriesReply, historyVars
    <2>2. CASE AppendReplyNewer(r)
        BY <1>3, <2>1, <2>2 DEF AppendReplyNewer
    <2>3. CASE AppendReplySuccess(r) \/ AppendReplyConflict(r) \/ AppendReplyIgnored(r)
        BY <1>2, <2>1, <2>3 DEF AppendReplySuccess, AppendReplyConflict, AppendReplyIgnored
    <2> QED BY <1>10, <2>2, <2>3 DEF AppendEntriesReply
<1>11. CASE \/ \E c \in voteCalls : SendRequestVote(c)
            \/ \E p \in Server : LeaderSendAEs(p) \/ CommitChanSender(p) \/ Submit(p)
            \/ \E c \in appendCalls : SendAppendEntries(c)
            \/ \E u \in unsaved : SaveCapture(u)
            \/ \E w \in saving : SaveWrite(w)
            \/ UNCHANGED vars
    BY <1>2, <1>11 DEF SendRequestVote, LeaderSendAEs, CommitChanSender, Submit,
                       SubmitToLeader, SendAppendEntries, SaveCapture, SaveWrite,
                       vars, raftVars, historyVars
<1>12. CASE CrashStep
    <2>1. PICK q \in Server, d \in Snapshot : \E handled : Restart(q, d, handled)
        BY <1>12, CrashRestarts
    <2>2. /\ state' = [state EXCEPT ![q] = Follower] /\ leaders' = leaders
          /\ currentTerm' = [currentTerm EXCEPT ![q] = IF HasData(d) THEN d.term ELSE 0]
          /\ votedFor' = [votedFor EXCEPT ![q] = IF HasData(d) THEN d.votedFor ELSE Nil]
        BY <2>1 DEF Restart, historyVars
    <2> QED BY <1>1, <2>2
<1> QED BY <1>5, <1>6, <1>7, <1>8, <1>9, <1>10, <1>11, <1>12 DEF Next, Step

(* Requests carry the term of a candidate, however late they are sent.     *)
LEMMA NextRequestsHaveTerms ==
    ASSUME TypeOK, RequestsHaveTerms, [Next]_vars PROVE RequestsHaveTerms'
<1> USE DEF RequestsHaveTerms
<1>1. CASE voteCalls' \subseteq voteCalls /\ voteRequests' \subseteq voteRequests
    BY <1>1
<1>2. ASSUME NEW n \in Server, StartElection(n) PROVE RequestsHaveTerms'
    <2>1. currentTerm[n] \in Nat
        BY DEF TypeOK, CMTypeOK, Term
    <2> QED BY <1>2, <2>1 DEF StartElection
<1>3. ASSUME NEW c \in voteCalls, SendRequestVote(c) PROVE RequestsHaveTerms'
    BY <1>3 DEF SendRequestVote
<1>4. CASE CrashStep
    <2>1. PICK q \in Server, d \in Snapshot : \E handled : Restart(q, d, handled)
        BY <1>4, CrashRestarts
    <2>2. \E handled : /\ voteCalls' \subseteq voteCalls
                       /\ voteRequests' = Orphan(q, voteRequests \ handled)
        BY <2>1 DEF Restart, Not
    <2>3. \A m \in voteRequests : [m EXCEPT !.live = FALSE].term = m.term
        BY DEF TypeOK, VoteTypeOK, VoteRequest
    <2> QED BY <2>2, <2>3 DEF Orphan
<1> QED BY <1>1, <1>2, <1>3, <1>4
        DEF Next, Step, vars, voteVars, RequestVoteHelper, RequestVoteReply, StartLeader,
            LeaderSendAEs, SendAppendEntries, AppendEntriesHelper, AppendEntriesReply,
            SaveCapture, SaveWrite, CommitChanSender, Submit, SubmitToLeader

(* The saves under way stay those of leaders: terms grow as long as a      *)
(* server runs, and a restart forgets its saves.                           *)
LEMMA NextSavesAreOfLeaders ==
    ASSUME ~Late, TypeOK, LeadersAreOnRecord, SavesAreOfLeaders, [Next]_vars
    PROVE  SavesAreOfLeaders'
<1> USE DEF SavesAreOfLeaders
<1>1. /\ currentTerm \in [Server -> Nat] /\ TypeOK' /\ currentTerm' \in [Server -> Nat]
      /\ \A l \in leaders : l.server \in Server /\ l.term \in Nat
    BY NextTypeOK, HistoryFields DEF TypeOK, CMTypeOK, Term
<1>2. /\ \A u \in unsaved : u.server \in Server
      /\ \A w \in saving : w.server \in Server /\ w.data.term \in Nat
    BY DEF TypeOK, StoreTypeOK, Snapshot, Term
<1>3. ASSUME crashes' = crashes, leaders \subseteq leaders',
             unsaved' \subseteq unsaved, saving' \subseteq saving
      PROVE  SavesAreOfLeaders'
    <2>1. \A n \in Server : currentTerm'[n] >= currentTerm[n]
        BY <1>3, StepTermsGrow
    <2>2. ASSUME NEW u \in unsaved'
          PROVE  \E l \in leaders' : l.server = u.server /\ l.term <= currentTerm'[u.server]
        BY <1>1, <1>2, <1>3, <2>1, <2>2
    <2>3. ASSUME NEW w \in saving'
          PROVE  /\ w.data.written /\ w.data.term <= currentTerm'[w.server]
                 /\ \E l \in leaders' : l.server = w.server /\ l.term <= w.data.term
        BY <1>1, <1>2, <1>3, <2>1, <2>3
    <2> QED BY <2>2, <2>3
<1>4. ASSUME NEW n \in Server, Submit(n) PROVE SavesAreOfLeaders'
    <2> DEFINE new == [server |-> n, command |-> submitted + 1]
    <2>1. /\ state[n] = Leader /\ unsaved' = unsaved \cup {new} /\ new.server = n
          /\ UNCHANGED <<currentTerm, leaders, saving>>
        BY <1>4 DEF Submit, SubmitToLeader, historyVars
    <2>2. \E l \in leaders : l.server = n /\ l.term <= currentTerm[n]
        <3>1. [server |-> n, term |-> currentTerm[n]] \in leaders
            BY <2>1 DEF LeadersAreOnRecord
        <3> QED BY <1>1, <3>1
    <2> QED BY <2>1, <2>2
<1>5. ASSUME NEW u \in unsaved, SaveCapture(u) PROVE SavesAreOfLeaders'
    <2> DEFINE n == u.server
               new == [server |-> n, command |-> u.command,
                       data |-> Saved(currentTerm[n], votedFor[n], log[n])]
    <2>1. /\ unsaved' \subseteq unsaved /\ saving' = saving \cup {new}
          /\ UNCHANGED <<currentTerm, leaders>>
        BY <1>5 DEF SaveCapture, raftVars, historyVars
    <2>2. new.server = n /\ new.data.term = currentTerm[n] /\ new.data.written
        BY DEF Saved
    <2>3. currentTerm[n] \in Nat /\ \E l \in leaders : l.server = n /\ l.term <= currentTerm[n]
        BY <1>1, <1>2
    <2> HIDE DEF new
    <2> QED BY <2>1, <2>2, <2>3
<1>6. CASE CrashStep
    <2>1. PICK q \in Server, d \in Snapshot : \E handled : Restart(q, d, handled)
        BY <1>6, CrashRestarts
    <2>2. /\ currentTerm' = [currentTerm EXCEPT ![q] = IF HasData(d) THEN d.term ELSE 0]
          /\ unsaved' = {u \in unsaved : u.server # q}
          /\ saving' = {w \in saving : w.server # q}
          /\ leaders' = leaders
        BY <2>1 DEF Restart, historyVars
    <2> QED BY <1>1, <1>2, <2>2
<1>7. CASE UNCHANGED vars
    BY <1>3, <1>7 DEF vars, saveVars, historyVars
<1>8. CASE Step
    <2>1. CASE \E u \in unsaved : SaveCapture(u)
        BY <1>5, <2>1
    <2>2. CASE ~\E u \in unsaved : SaveCapture(u)
        <3>1. /\ crashes' = crashes /\ leaders \subseteq leaders'
              /\ unsaved' \subseteq unsaved /\ saving' \subseteq saving
            BY <1>8, <2>2
            DEF Step, saveVars, historyVars, StartElection, SendRequestVote,
                RequestVoteHelper, RequestVoteReply, VoteReplyToLeader, VoteReplyToFollower,
                VoteReplyNewer, VoteReplyGranted, VoteReplyRefused, StartLeader, BecomeLeader,
                LeaderSendAEs, SendAppendEntries, AppendEntriesHelper, AppendEntriesReply,
                SaveWrite, CommitChanSender
        <3> QED BY <1>3, <3>1
    <2> QED BY <2>1, <2>2
<1> QED BY <1>4, <1>6, <1>7, <1>8 DEF Next

(* A vote of a server whose disk does not change: its term, vote and role  *)
(* stay as they are, or its term grows.                                    *)
LEMMA KeptInMemory ==
    ASSUME TypeOK, TypeOK', NEW g \in grants, Kept(g), disk'[g.voter] = disk[g.voter],
           \/ currentTerm'[g.voter] > currentTerm[g.voter]
           \/ /\ currentTerm'[g.voter] = currentTerm[g.voter]
              /\ g.term = currentTerm[g.voter] =>
                     /\ state'[g.voter] = state[g.voter]
                     /\ votedFor'[g.voter] = votedFor[g.voter]
    PROVE  Kept(g)'
<1>1. /\ g.voter \in Server /\ g.term \in Nat
      /\ currentTerm[g.voter] \in Nat /\ currentTerm'[g.voter] \in Nat
      /\ disk[g.voter].term \in Nat
    BY HistoryFields DEF TypeOK, CMTypeOK, StoreTypeOK, Snapshot, Term
<1> QED BY <1>1 DEF Kept

(* A vote of a server that saves its term and its vote: the term has       *)
(* passed that of the vote, or the vote is the same.                       *)
LEMMA KeptOnDisk ==
    ASSUME TypeOK, TypeOK', NEW g, g.voter \in Server, 0 < g.term, g.term \in Nat,
           disk'[g.voter].written, disk'[g.voter].term = currentTerm'[g.voter],
           disk'[g.voter].votedFor = votedFor'[g.voter],
           \/ currentTerm'[g.voter] > g.term
           \/ /\ currentTerm'[g.voter] = g.term
              /\ votedFor'[g.voter] = g.candidate /\ state'[g.voter] = Follower
    PROVE  Kept(g)'
<1>1. currentTerm'[g.voter] \in Nat
    BY DEF TypeOK, CMTypeOK, Term
<1> QED BY <1>1 DEF Kept

(* With more leaders fewer votes are lasting. *)
LEMMA LastingBefore ==
    ASSUME NEW g, leaders \subseteq leaders', Lasting(g)' PROVE Lasting(g)
BY DEF Lasting

(* The voter: it grants a vote to another only if it has voted for nobody  *)
(* else in that term, and saves it.                                        *)
LEMMA RequestVoteHelperVotesAreKept ==
    ASSUME TypeOK, TypeOK', CandidatesVoteForThemselves, RequestsHaveTerms, VotesAreKept,
           NEW m \in voteRequests, RequestVoteHelper(m)
    PROVE  VotesAreKept'
<1> DEFINE n == m.dst
           newer == Newer(n, m.term)
           term == IF newer THEN m.term ELSE currentTerm[n]
           vote == IF newer THEN Nil ELSE votedFor[n]
           granted == GrantsVote(m, term, vote, log[n])
           newVote == IF granted THEN m.src ELSE vote
           new == [voter |-> n, term |-> m.term, candidate |-> m.src]
<1>1. /\ currentTerm \in [Server -> Nat] /\ votedFor \in [Server -> Server \cup {Nil}]
      /\ state \in [Server -> CMState] /\ disk \in [Server -> Snapshot]
      /\ n \in Server /\ m.src \in Server /\ m.term \in Nat /\ 0 < m.term
    BY DEF TypeOK, CMTypeOK, VoteTypeOK, VoteRequest, StoreTypeOK, Term, RequestsHaveTerms
<1>2. /\ currentTerm' = [currentTerm EXCEPT ![n] = term]
      /\ votedFor' = [votedFor EXCEPT ![n] = newVote]
      /\ state' = [state EXCEPT ![n] = IF newer THEN Follower ELSE @]
      /\ disk' = [disk EXCEPT ![n] = Saved(term, newVote, log[n])]
      /\ grants' = grants \cup {g \in {new} : granted}
      /\ leaders' = leaders
    BY DEF RequestVoteHelper
<1>3. /\ newer => term = m.term /\ term > currentTerm[n]
      /\ ~newer => term = currentTerm[n] /\ vote = votedFor[n]
      /\ granted => term = m.term /\ vote \in {Nil, m.src}
      /\ newVote = IF granted THEN m.src ELSE vote
      /\ Nil \notin Server
    BY ServerAssumption DEF Newer, GrantsVote
<1>4. /\ disk'[n].written /\ disk'[n].term = term /\ disk'[n].votedFor = newVote
      /\ currentTerm'[n] = term /\ votedFor'[n] = newVote
      /\ state'[n] = IF newer THEN Follower ELSE state[n]
    BY <1>1, <1>2 DEF Saved
<1>5. new.voter = n /\ new.term = m.term /\ new.candidate = m.src
    OBVIOUS
<1> HIDE DEF n, newer, term, vote, granted, newVote, new
<1> SUFFICES ASSUME NEW g \in grants', Lasting(g)' PROVE Kept(g)'
    BY DEF VotesAreKept
<1>6. CASE g \in grants
    <2>1. Kept(g) /\ g.voter \in Server /\ g.term \in Nat /\ g.candidate \in Server
        BY <1>2, <1>6, LastingBefore, HistoryFields DEF VotesAreKept
    <2>2. CASE g.voter # n
        BY <1>1, <1>2, <1>6, <2>1, <2>2, KeptInMemory
    <2>3. CASE g.voter = n
        <3>1. 0 < g.term /\ g.term <= currentTerm[n]
              /\ (g.term = currentTerm[n] => state[n] = Follower /\ votedFor[n] = g.candidate)
            BY <2>1, <2>3 DEF Kept
        <3>2. term > g.term \/ (term = g.term /\ newVote = g.candidate /\ state'[n] = Follower)
            BY <1>1, <1>3, <1>4, <2>1, <3>1
        <3> QED BY <1>4, <2>1, <2>3, <3>1, <3>2, KeptOnDisk
    <2> QED BY <2>2, <2>3
<1>7. CASE g \notin grants
    <2>1. g = new /\ granted
        BY <1>2, <1>7
    <2>2. m.src # n
        BY <1>5, <2>1 DEF Lasting
    <2>3. newVote = m.src /\ term = m.term /\ state'[n] = Follower
        BY <1>1, <1>3, <1>4, <2>1, <2>2 DEF CandidatesVoteForThemselves
    <2> QED BY <1>1, <1>4, <1>5, <2>1, <2>3, KeptOnDisk
<1> QED BY <1>6, <1>7

(* The follower: only a candidate that has voted for nobody else loses its *)
(* vote in its own term.                                                   *)
LEMMA AppendEntriesHelperVotesAreKept ==
    ASSUME TypeOK, TypeOK', VotesAreKept, NEW m \in appendRequests, AppendEntriesHelper(m)
    PROVE  VotesAreKept'
<1> DEFINE n == m.dst
           newer == Newer(n, m.term)
           term == IF newer THEN m.term ELSE currentTerm[n]
           stepDown == newer \/ (InTerm(m, term) /\ state[n] # Follower)
           vote == IF stepDown THEN Nil ELSE votedFor[n]
<1>1. /\ currentTerm \in [Server -> Nat] /\ votedFor \in [Server -> Server \cup {Nil}]
      /\ state \in [Server -> CMState] /\ disk \in [Server -> Snapshot]
      /\ n \in Server /\ m.term \in Nat
    BY DEF TypeOK, CMTypeOK, AppendTypeOK, AppendRequest, StoreTypeOK, Term
<1>2. /\ currentTerm' = [currentTerm EXCEPT ![n] = term]
      /\ votedFor' = [votedFor EXCEPT ![n] = vote]
      /\ state' = [state EXCEPT ![n] = IF stepDown THEN Follower ELSE @]
      /\ \E newLog : disk' = [disk EXCEPT ![n] = Saved(term, vote, newLog)]
      /\ UNCHANGED <<grants, leaders>>
    BY DEF AppendEntriesHelper, historyVars
<1>3. /\ newer => term = m.term /\ term > currentTerm[n]
      /\ ~newer => /\ term = currentTerm[n]
                   /\ stepDown => state[n] # Follower
      /\ vote = IF stepDown THEN Nil ELSE votedFor[n]
    BY DEF Newer
<1>4. /\ disk'[n].written /\ disk'[n].term = term /\ disk'[n].votedFor = vote
      /\ currentTerm'[n] = term /\ votedFor'[n] = vote
      /\ state'[n] = IF stepDown THEN Follower ELSE state[n]
    BY <1>1, <1>2 DEF Saved
<1> HIDE DEF n, newer, term, stepDown, vote
<1> SUFFICES ASSUME NEW g \in grants, Lasting(g)' PROVE Kept(g)'
    BY <1>2 DEF VotesAreKept
<1>5. Kept(g) /\ g.voter \in Server /\ g.term \in Nat /\ g.candidate \in Server
    BY <1>2, LastingBefore, HistoryFields DEF VotesAreKept
<1>6. CASE g.voter # n
    BY <1>1, <1>2, <1>5, <1>6, KeptInMemory
<1>7. CASE g.voter = n
    <2>1. 0 < g.term /\ g.term <= currentTerm[n]
          /\ (g.term = currentTerm[n] => state[n] = Follower /\ votedFor[n] = g.candidate)
        BY <1>5, <1>7 DEF Kept
    <2>2. term > g.term \/ (term = g.term /\ vote = g.candidate /\ state'[n] = Follower)
        BY <1>1, <1>3, <1>4, <1>5, <2>1
    <2> QED BY <1>4, <1>5, <1>7, <2>1, <2>2, KeptOnDisk
<1> QED BY <1>6, <1>7

(* The save of Submit, with whatever it captured: its server has led after *)
(* the vote, and since then the term has passed it.                        *)
LEMMA SaveWriteVotesAreKept ==
    ASSUME TypeOK, TypeOK', SavesAreOfLeaders, VotesAreKept, NEW w \in saving, SaveWrite(w)
    PROVE  VotesAreKept'
<1>1. /\ w.server \in Server /\ w.data.term \in Nat /\ disk \in [Server -> Snapshot]
      /\ \A n \in Server : currentTerm[n] \in Nat
    BY DEF TypeOK, CMTypeOK, StoreTypeOK, Snapshot, Term
<1>2. /\ disk' = [disk EXCEPT ![w.server] = w.data]
      /\ UNCHANGED <<state, currentTerm, votedFor, grants, leaders>>
    BY DEF SaveWrite, raftVars, historyVars
<1> SUFFICES ASSUME NEW g \in grants, Lasting(g) PROVE Kept(g)'
    BY <1>2, LastingBefore DEF VotesAreKept
<1>3. Kept(g) /\ g.voter \in Server /\ g.term \in Nat
    BY HistoryFields DEF VotesAreKept
<1>4. CASE g.voter # w.server
    BY <1>1, <1>2, <1>3, <1>4, KeptInMemory
<1>5. CASE g.voter = w.server
    <2>1. PICK l \in leaders : l.server = w.server /\ l.term <= w.data.term
        BY DEF SavesAreOfLeaders
    <2>2. l.term \in Nat /\ l.term > g.term
        BY <1>5, <2>1, HistoryFields DEF Lasting
    <2>3. w.data.term > g.term /\ w.data.written /\ w.data.term <= currentTerm[g.voter]
        BY <1>1, <1>3, <1>5, <2>1, <2>2 DEF SavesAreOfLeaders
    <2>4. disk'[g.voter] = w.data
        BY <1>1, <1>2, <1>5
    <2> QED BY <1>2, <1>3, <2>3, <2>4 DEF Kept
<1> QED BY <1>4, <1>5

(* Vote g is on disk d. *)
OnDisk(g, d) == d.written /\ (d.term > g.term \/ (d.term = g.term /\ d.votedFor = g.candidate))

(* A crash in the middle of saving s, which keeps the vote: the term is    *)
(* written first, so that no older vote stands under a later term.         *)
LEMMA TornKeeps ==
    ASSUME NEW g, NEW e \in Snapshot, NEW s, NEW d \in Torn(e, s), OnDisk(g, e),
           g.term \in Nat, s.term \in Nat,
           \/ s.term > g.term
           \/ s.term = g.term /\ s.votedFor = g.candidate /\ e.term <= g.term
    PROVE  OnDisk(g, d)
<1>1. d.written /\ d.term = s.term /\ d.votedFor \in {e.votedFor, s.votedFor}
    BY DEF Torn, Snapshot
<1>2. e.term \in Nat
    BY DEF Snapshot, Term
<1> QED BY <1>1, <1>2 DEF OnDisk

(* Whatever a server was saving when it crashed, its votes are on disk.    *)
LEMMA CrashKeepsVotes ==
    ASSUME TypeOK, SavesAreOfLeaders, VotesAreKept, CrashStep
    PROVE  \E n \in Server, d \in Snapshot :
               /\ \E handled : Restart(n, d, handled)
               /\ \A g \in grants : Lasting(g) /\ g.voter = n => OnDisk(g, d)
<1> DEFINE Voted(n, d) == \A g \in grants : Lasting(g) /\ g.voter = n => OnDisk(g, d)
<1>1. \A n \in Server : /\ disk[n] \in Snapshot /\ currentTerm[n] \in Nat
                        /\ votedFor[n] \in Server \cup {Nil} /\ disk[n].term \in Nat
                        /\ currentTerm[n] \in Term
    BY DEF TypeOK, StoreTypeOK, CMTypeOK, Snapshot, Term
<1>2. ASSUME NEW g \in grants, Lasting(g)
      PROVE  /\ g.voter \in Server /\ g.term \in Nat /\ g.candidate \in Server
             /\ OnDisk(g, disk[g.voter]) /\ disk[g.voter].term <= currentTerm[g.voter]
             /\ g.term <= currentTerm[g.voter]
             /\ g.term = currentTerm[g.voter] =>
                    state[g.voter] = Follower /\ votedFor[g.voter] = g.candidate
    BY <1>2, HistoryFields DEF VotesAreKept, Kept, OnDisk
<1>3. ASSUME NEW n \in Server PROVE Voted(n, disk[n])
    BY <1>2
<1>4. ASSUME NEW n \in Server, Crash(n)
      PROVE  \E d \in Snapshot : (\E handled : Restart(n, d, handled)) /\ Voted(n, d)
    BY <1>1, <1>3, <1>4 DEF Crash
<1>5. ASSUME NEW c \in appendCalls, AppendPanic(c) PROVE c.src \in Server /\ Crash(c.src)
    BY <1>5 DEF AppendPanic, TypeOK, AppendTypeOK, AppendCall
<1>6. ASSUME NEW m \in voteRequests, CrashVoting(m)
      PROVE  m.dst \in Server /\ \E d \in Snapshot : Restart(m.dst, d, {m}) /\ Voted(m.dst, d)
    <2> DEFINE n == m.dst
               s == VoteSaving(m)
    <2>1. /\ n \in Server /\ m.src \in Server /\ m.term \in Nat /\ m.term \in Term
          /\ Nil \notin Server
        BY ServerAssumption DEF TypeOK, VoteTypeOK, VoteRequest, Term
    <2>2. /\ s.term = IF Newer(n, m.term) THEN m.term ELSE currentTerm[n]
          /\ \/ s.votedFor = (IF Newer(n, m.term) THEN Nil ELSE votedFor[n])
             \/ /\ s.votedFor = m.src
                /\ (IF Newer(n, m.term) THEN Nil ELSE votedFor[n]) \in {Nil, m.src}
        BY DEF VoteSaving, GrantsVote
    <2> HIDE DEF s, n
    <2>3. s.term \in Term /\ s.votedFor \in Server \cup {Nil} /\ s.term \in Nat
        BY <1>1, <2>1, <2>2
    <2>4. PICK d \in Torn(disk[n], s) : Restart(n, d, {m})
        BY <1>6 DEF CrashVoting, n, s
    <2>5. d \in Snapshot
        BY <1>1, <2>1, <2>3, TornTypeOK
    <2>6. ASSUME NEW g \in grants, Lasting(g), g.voter = n PROVE OnDisk(g, d)
        <3>1. s.term > g.term
              \/ (s.term = g.term /\ s.votedFor = g.candidate /\ disk[n].term <= g.term)
            BY <1>1, <1>2, <2>1, <2>2, <2>6 DEF Newer
        <3> QED BY <1>1, <1>2, <2>1, <2>3, <2>6, <3>1, TornKeeps
    <2> QED BY <2>1, <2>4, <2>5, <2>6 DEF n
<1>7. ASSUME NEW m \in appendRequests, CrashAppending(m)
      PROVE  m.dst \in Server /\ \E d \in Snapshot : Restart(m.dst, d, {m}) /\ Voted(m.dst, d)
    <2> DEFINE n == m.dst
               s == AppendSaving(m)
    <2>1. n \in Server /\ m.term \in Nat /\ m.term \in Term
        BY DEF TypeOK, AppendTypeOK, AppendRequest, Term
    <2>2. /\ s.term = IF Newer(n, m.term) THEN m.term ELSE currentTerm[n]
          /\ ~Newer(n, m.term) /\ state[n] = Follower => s.votedFor = votedFor[n]
          /\ s.votedFor \in {Nil, votedFor[n]}
        BY DEF AppendSaving
    <2> HIDE DEF s, n
    <2>3. s.term \in Term /\ s.votedFor \in Server \cup {Nil} /\ s.term \in Nat
        BY <1>1, <2>1, <2>2
    <2>4. PICK d \in Torn(disk[n], s) : Restart(n, d, {m})
        BY <1>7 DEF CrashAppending, n, s
    <2>5. d \in Snapshot
        BY <1>1, <2>1, <2>3, TornTypeOK
    <2>6. ASSUME NEW g \in grants, Lasting(g), g.voter = n PROVE OnDisk(g, d)
        <3>1. s.term > g.term
              \/ (s.term = g.term /\ s.votedFor = g.candidate /\ disk[n].term <= g.term)
            BY <1>1, <1>2, <2>1, <2>2, <2>6 DEF Newer
        <3> QED BY <1>1, <1>2, <2>1, <2>3, <2>6, <3>1, TornKeeps
    <2> QED BY <2>1, <2>4, <2>5, <2>6 DEF n
<1>8. ASSUME NEW w \in saving, CrashSaving(w)
      PROVE  w.server \in Server /\ \E d \in Snapshot : Restart(w.server, d, {}) /\ Voted(w.server, d)
    <2> DEFINE n == w.server
               s == w.data
    <2>1. n \in Server /\ s.term \in Term /\ s.term \in Nat /\ s.votedFor \in Server \cup {Nil}
        BY DEF TypeOK, StoreTypeOK, Snapshot, Term
    <2>2. PICK l \in leaders : l.server = n /\ l.term <= s.term
        BY DEF SavesAreOfLeaders
    <2> HIDE DEF s, n
    <2>3. PICK d \in Torn(disk[n], s) : Restart(n, d, {})
        BY <1>8 DEF CrashSaving, n, s
    <2>4. d \in Snapshot
        BY <1>1, <2>1, <2>3, TornTypeOK
    <2>5. ASSUME NEW g \in grants, Lasting(g), g.voter = n PROVE OnDisk(g, d)
        <3>1. l.term \in Nat /\ l.term > g.term
            BY <2>2, <2>5, HistoryFields DEF Lasting
        <3>2. s.term > g.term
            BY <1>2, <2>1, <2>2, <2>5, <3>1
        <3> QED BY <1>1, <1>2, <2>1, <2>5, <3>2, TornKeeps
    <2> QED BY <2>1, <2>3, <2>4, <2>5 DEF n
<1> QED BY <1>4, <1>5, <1>6, <1>7, <1>8 DEF CrashStep

(* A restart that resumes in the saved term resumes with the saved vote.   *)
LEMMA CrashVotesAreKept ==
    ASSUME TypeOK, TypeOK', SavesAreOfLeaders, VotesAreKept, CrashStep,
           \A n \in Server : crashes' # crashes /\ disk[n].written =>
               currentTerm'[n] >= disk[n].term
    PROVE  VotesAreKept'
<1>1. PICK q \in Server, d \in Snapshot :
          /\ \E handled : Restart(q, d, handled)
          /\ \A g \in grants : Lasting(g) /\ g.voter = q => OnDisk(g, d)
    BY CrashKeepsVotes
<1>2. /\ crashes \in Nat /\ crashes' = crashes + 1
      /\ state' = [state EXCEPT ![q] = Follower]
      /\ currentTerm' = [currentTerm EXCEPT ![q] = IF HasData(d) THEN d.term ELSE 0]
      /\ votedFor' = [votedFor EXCEPT ![q] = IF HasData(d) THEN d.votedFor ELSE Nil]
      /\ disk' = [disk EXCEPT ![q] = d]
      /\ UNCHANGED <<grants, leaders>>
    BY <1>1, BoundsAssumption DEF Restart, historyVars, TypeOK, StoreTypeOK
<1>3. /\ state \in [Server -> CMState] /\ currentTerm \in [Server -> Nat]
      /\ votedFor \in [Server -> Server \cup {Nil}] /\ disk \in [Server -> Snapshot]
      /\ d.term \in Nat
    BY DEF TypeOK, CMTypeOK, StoreTypeOK, Snapshot, Term
<1> SUFFICES ASSUME NEW g \in grants, Lasting(g) PROVE Kept(g)'
    BY <1>2, LastingBefore DEF VotesAreKept
<1>4. Kept(g) /\ g.voter \in Server /\ g.term \in Nat
    BY HistoryFields DEF VotesAreKept
<1>5. CASE g.voter # q
    BY <1>2, <1>3, <1>4, <1>5, KeptInMemory
<1>6. CASE g.voter = q
    <2>1. OnDisk(g, d)
        BY <1>1, <1>6
    <2>2. HasData(d)
        <3>1. disk[q].written /\ disk[q].term > 0
            <4>1. disk[q].term \in Nat
                BY <1>3 DEF Snapshot, Term
            <4> QED BY <1>4, <1>6, <4>1 DEF Kept
        <3>2. currentTerm'[q] >= disk[q].term
            BY <1>2, <3>1
        <3>3. disk[q].term \in Nat /\ (~HasData(d) => currentTerm'[q] = 0)
            BY <1>2, <1>3 DEF Snapshot, Term
        <3> QED BY <3>1, <3>2, <3>3
    <2>3. /\ currentTerm'[q] = d.term /\ votedFor'[q] = d.votedFor /\ state'[q] = Follower
          /\ disk'[q] = d
        BY <1>2, <1>3, <2>2
    <2>4. 0 < g.term
        BY <1>4 DEF Kept
    <2> QED BY <1>3, <1>4, <1>6, <2>1, <2>3, <2>4, KeptOnDisk DEF OnDisk
<1> QED BY <1>5, <1>6

(* becomeFollower in a later term. *)
LEMMA FollowerVotesAreKept ==
    ASSUME TypeOK, TypeOK', VotesAreKept, NEW n \in Server, NEW term \in Nat,
           term > currentTerm[n], BecomeFollower(n, term), UNCHANGED <<grants, leaders, disk>>
    PROVE  VotesAreKept'
<1>1. /\ currentTerm \in [Server -> Nat] /\ state \in [Server -> CMState]
      /\ votedFor \in [Server -> Server \cup {Nil}]
    BY DEF TypeOK, CMTypeOK, Term
<1> SUFFICES ASSUME NEW g \in grants, Lasting(g) PROVE Kept(g)'
    BY LastingBefore DEF VotesAreKept
<1>2. Kept(g) /\ g.voter \in Server
    BY HistoryFields DEF VotesAreKept
<1> QED BY <1>1, <1>2, KeptInMemory DEF BecomeFollower

(* startLeader on a server that has voted for nobody else in its term. *)
LEMMA LeaderVotesAreKept ==
    ASSUME TypeOK, TypeOK', VotesAreKept, NEW n \in Server, state[n] # Follower,
           BecomeLeader(n), UNCHANGED <<currentTerm, votedFor, grants, disk>>
    PROVE  VotesAreKept'
<1>1. state \in [Server -> CMState] /\ leaders \subseteq leaders'
    BY DEF BecomeLeader, TypeOK, CMTypeOK
<1> SUFFICES ASSUME NEW g \in grants, Lasting(g) PROVE Kept(g)'
    BY <1>1, LastingBefore DEF VotesAreKept
<1>2. Kept(g) /\ g.voter \in Server
    BY HistoryFields DEF VotesAreKept
<1>3. g.voter = n => g.term # currentTerm[n]
    BY <1>2 DEF Kept
<1> QED BY <1>1, <1>2, <1>3, KeptInMemory DEF BecomeLeader

(* Every step keeps the votes. *)
LEMMA NextVotesAreKept ==
    ASSUME ~Late, TypeOK, DurableInv, [Next]_vars,
           [\A n \in Server : crashes' # crashes /\ disk[n].written =>
                currentTerm'[n] >= disk[n].term]_vars
    PROVE  VotesAreKept'
<1> USE DEF DurableInv
<1>0. TypeOK'
    BY NextTypeOK
<1>1. ASSUME UNCHANGED <<state, currentTerm, votedFor, disk, grants, leaders>>
      PROVE  VotesAreKept'
    BY <1>1 DEF VotesAreKept, Kept, Lasting
<1>2. ASSUME NEW n \in Server, StartElection(n) PROVE VotesAreKept'
    <2> DEFINE new == [voter |-> n, term |-> currentTerm[n] + 1, candidate |-> n]
    <2>1. /\ state \in [Server -> CMState] /\ currentTerm \in [Server -> Nat]
          /\ votedFor \in [Server -> Server \cup {Nil}]
        BY DEF TypeOK, CMTypeOK, Term
    <2>2. /\ state' = [state EXCEPT ![n] = Candidate]
          /\ currentTerm' = [currentTerm EXCEPT ![n] = @ + 1]
          /\ votedFor' = [votedFor EXCEPT ![n] = n]
          /\ grants' = grants \cup {new}
          /\ UNCHANGED <<disk, leaders>>
        BY <1>2, <2>1 DEF StartElection
    <2> SUFFICES ASSUME NEW g \in grants', Lasting(g)' PROVE Kept(g)'
        BY DEF VotesAreKept
    <2>3. g # new
        BY DEF Lasting
    <2>4. g \in grants /\ Kept(g) /\ g.voter \in Server
        BY <2>2, <2>3, LastingBefore, HistoryFields DEF VotesAreKept
    <2> QED BY <1>0, <2>1, <2>2, <2>4, KeptInMemory
<1>3. ASSUME NEW r \in voteReplies, RequestVoteReply(r) PROVE VotesAreKept'
    <2>1. /\ r.src \in Server /\ r.replyTerm \in Nat /\ currentTerm[r.src] = r.term
          /\ UNCHANGED <<grants, disk>>
        BY <1>3 DEF TypeOK, VoteTypeOK, VoteReply, Term, RequestVoteReply, SameTerm
    <2>2. CASE VoteReplyToLeader(r)
        BY <1>0, <2>1, <2>2, LeaderVotesAreKept DEF VoteReplyToLeader, Leader, Follower
    <2>3. CASE VoteReplyNewer(r)
        BY <1>0, <2>1, <2>3, FollowerVotesAreKept DEF VoteReplyNewer
    <2>4. CASE VoteReplyToFollower(r) \/ VoteReplyGranted(r) \/ VoteReplyRefused(r)
        BY <1>1, <2>1, <2>4 DEF VoteReplyToFollower, VoteReplyGranted, VoteReplyRefused
    <2> QED BY <1>3, <2>2, <2>3, <2>4 DEF RequestVoteReply
<1>4. ASSUME NEW s \in starting, StartLeader(s) PROVE VotesAreKept'
    <2>1. s.src \in Server
        BY DEF TypeOK, VoteTypeOK, VoteCall
    <2> QED BY <1>0, <1>4, <2>1, LeaderVotesAreKept DEF StartLeader
<1>5. ASSUME NEW r \in appendReplies, AppendEntriesReply(r) PROVE VotesAreKept'
    <2>1. /\ r.src \in Server /\ r.replyTerm \in Nat /\ UNCHANGED <<grants, leaders, disk>>
        BY <1>5 DEF TypeOK, AppendTypeOK, AppendReply, Term, AppendEntriesReply, historyVars
    <2>2. CASE AppendReplyNewer(r)
        BY <1>0, <2>1, <2>2, FollowerVotesAreKept DEF AppendReplyNewer, Newer
    <2>3. CASE AppendReplySuccess(r) \/ AppendReplyConflict(r) \/ AppendReplyIgnored(r)
        BY <1>1, <2>1, <2>3 DEF AppendReplySuccess, AppendReplyConflict, AppendReplyIgnored
    <2> QED BY <1>5, <2>2, <2>3 DEF AppendEntriesReply
<1>6. CASE \/ \E c \in voteCalls : SendRequestVote(c)
           \/ \E p \in Server : LeaderSendAEs(p) \/ CommitChanSender(p) \/ Submit(p)
           \/ \E c \in appendCalls : SendAppendEntries(c)
           \/ \E u \in unsaved : SaveCapture(u)
           \/ UNCHANGED vars
    BY <1>1, <1>6 DEF SendRequestVote, LeaderSendAEs, CommitChanSender, Submit,
                      SubmitToLeader, SendAppendEntries, SaveCapture, vars, raftVars,
                      historyVars
<1>7. CASE CrashStep
    <2>1. crashes' # crashes
        <3>1. crashes \in Nat
            BY BoundsAssumption DEF TypeOK, StoreTypeOK
        <3>2. PICK q \in Server, d \in Snapshot : \E handled : Restart(q, d, handled)
            BY <1>7, CrashRestarts
        <3>3. crashes' = crashes + 1
            BY <3>2 DEF Restart
        <3> QED BY <3>1, <3>3
    <2>2. vars' # vars
        BY <2>1 DEF vars
    <2> QED BY <1>0, <1>7, <2>2, CrashVotesAreKept
<1> QED BY <1>0, <1>2, <1>3, <1>4, <1>5, <1>6, <1>7, RequestVoteHelperVotesAreKept,
           AppendEntriesHelperVotesAreKept, SaveWriteVotesAreKept DEF Next, Step

(* Votes are durable: if responses are handled in the term of their        *)
(* election, and every restart resumes in the term on disk (which HasData, *)
(* asking for a log entry, does not ensure), no save, no crash in the      *)
(* middle of one and no restart undoes a vote (RequestVoteHelper,          *)
(* persistToStorage, SetState).                                            *)
THEOREM VotesAreDurable ==
    ASSUME ~Late PROVE Spec /\ RestartKeepsTerm => []VoteIsDurable
<1> DEFINE Remembers == \A n \in Server : crashes' # crashes /\ disk[n].written =>
                            currentTerm'[n] >= disk[n].term
<1>1. Init => DurableInv
    BY DEF Init, DurableInv, CandidatesVoteForThemselves, LeadersAreOnRecord,
           RequestsHaveTerms, SavesAreOfLeaders, VotesAreKept, Follower, Leader
<1>2. TypeOK /\ DurableInv /\ [Next]_vars /\ [Remembers]_vars => DurableInv'
    BY NextRoles, NextRequestsHaveTerms, NextSavesAreOfLeaders, NextVotesAreKept
    DEF DurableInv
<1>3. DurableInv => VoteIsDurable
    BY DEF DurableInv, VotesAreKept, Kept, VoteIsDurable
<1> QED BY <1>1, <1>2, <1>3, TypeCorrect, PTL DEF Spec, RestartKeepsTerm
=============================================================================
