-------------------------- MODULE RaftEntryProofs ---------------------------
(***************************************************************************)
(* What the logs hold, for every cluster.  If no vote response is late and *)
(* nobody crashes, logs that agree on the term at an index agree up to it. *)
(* In any case, crashes included, a forwarded command is in a log at most  *)
(* once.                                                                   *)
(***************************************************************************)
EXTENDS RaftElectionProofs, RaftForward

(* A stretch of a log: what a server holds, from its beginning, or what an *)
(* AppendEntries in flight carries, from the entry before the first one.   *)
OfLog(n) == [prev |-> 0, prevTerm |-> 0, entries |-> log[n]]
OfRequest(m) == [prev |-> m.prevLogIndex, prevTerm |-> m.prevLogTerm,
                 entries |-> m.entries]

Stretches == {OfLog(n) : n \in Server} \cup {OfRequest(m) : m \in appendRequests}

(* The indices it tells the entry of, and those it tells the term of.      *)
Held(w) == (w.prev + 1)..(w.prev + Len(w.entries))
Span(w) == {i \in w.prev..(w.prev + Len(w.entries)) : i > 0}

EntryAt(w, i) == w.entries[i - w.prev]
TermAt(w, i) == IF i = w.prev THEN w.prevTerm ELSE EntryAt(w, i).term

(* What two stretches agree on at an index: the term, and the entry.       *)
SameAt(v, w, j) ==
    /\ j \in Span(v) /\ j \in Span(w) => TermAt(v, j) = TermAt(w, j)
    /\ j \in Held(v) /\ j \in Held(w) => EntryAt(v, j) = EntryAt(w, j)

Matching(v, w) ==
    \A i \in Span(v) \cap Span(w) : TermAt(v, i) = TermAt(w, i) =>
        \A j \in 1..i : SameAt(v, w, j)

StretchesMatch == \A v, w \in Stretches : Matching(v, w)

(* Every entry was made by a leader of its term.                           *)
EntriesHaveLeaders ==
    \A w \in Stretches : \A i \in Span(w) : \E l \in leaders : l.term = TermAt(w, i)

(* A leader holds an entry at every index where anybody has one of its     *)
(* term.                                                                   *)
LeaderIsAhead ==
    \A n \in Server : state[n] = Leader =>
        \A w \in Stretches : \A i \in Span(w) :
            TermAt(w, i) = currentTerm[n] => i <= Len(log[n])

(* A leader leads as long as it stays in its term. *)
LeadersLead ==
    \A l \in leaders : currentTerm[l.server] = l.term => state[l.server] = Leader

(* The inductive invariant. *)
MatchingInv == StretchesMatch /\ EntriesHaveLeaders /\ LeaderIsAhead /\ LeadersLead
-----------------------------------------------------------------------------
(* Stretch v is a part of stretch w: whatever it tells, w tells too.       *)
PartOf(v, w) ==
    /\ Span(v) \subseteq Span(w) /\ Held(v) \subseteq Held(w)
    /\ \A i \in Span(v) : TermAt(v, i) = TermAt(w, i)
    /\ \A i \in Held(v) : EntryAt(v, i) = EntryAt(w, i)

(* A part of a stretch matches what the stretch matches. *)
LEMMA PartMatches ==
    ASSUME NEW v, NEW w, NEW x, PartOf(v, w), Matching(w, x)
    PROVE  Matching(v, x)
BY DEF PartOf, Matching, SameAt

(* It does not matter in which order two stretches are compared. *)
LEMMA MatchingIsSymmetric ==
    ASSUME NEW v, NEW w, Matching(v, w) PROVE Matching(w, v)
BY DEF Matching, SameAt

(* The same of two parts of two stretches that match. *)
LEMMA PartsMatch ==
    ASSUME NEW v, NEW w, NEW x, NEW y, PartOf(v, w), PartOf(x, y), Matching(w, y)
    PROVE  Matching(v, x)
BY PartMatches, MatchingIsSymmetric

Stretch == [prev : Nat, prevTerm : Term, entries : Seq(LogEntry)]

(* What the servers hold and the requests carry are stretches of entries.  *)
LEMMA StretchesType ==
    ASSUME TypeOK
    PROVE  /\ \A n \in Server : OfLog(n) \in Stretch
           /\ \A m \in appendRequests : OfRequest(m) \in Stretch
           /\ Stretches \subseteq Stretch
<1>1. ASSUME NEW n \in Server PROVE OfLog(n) \in Stretch
    BY DEF TypeOK, CMTypeOK, OfLog, Stretch, Term
<1>2. ASSUME NEW m \in appendRequests PROVE OfRequest(m) \in Stretch
    BY DEF TypeOK, AppendTypeOK, AppendRequest, OfRequest, Stretch, Term
<1> QED BY <1>1, <1>2 DEF Stretches

(* Where a stretch begins and ends. *)
LEMMA StretchIndices ==
    ASSUME NEW w \in Stretch
    PROVE  /\ w.prev \in Nat /\ Len(w.entries) \in Nat
           /\ \A i : i \in Held(w) <=>
                  i \in Nat /\ w.prev < i /\ i <= w.prev + Len(w.entries)
           /\ \A i : i \in Span(w) <=>
                  i \in Nat /\ 0 < i /\ w.prev <= i /\ i <= w.prev + Len(w.entries)
           /\ \A i \in Held(w) : i \in Span(w) /\ TermAt(w, i) = EntryAt(w, i).term
BY DEF Stretch, Held, Span, TermAt

(* Stretch u, the log of a follower that has taken w, is v up to the entry *)
(* before the first of w, which both know, and w from there on.            *)
Joins(u, v, w) ==
    /\ u.prev = 0 /\ v.prev = 0 /\ w.prev <= Len(v.entries)
    /\ Len(u.entries) = w.prev + Len(w.entries)
    /\ \A i \in 1..w.prev : u.entries[i] = v.entries[i]
    /\ \A i \in Held(w) : u.entries[i] = EntryAt(w, i)
    /\ w.prev > 0 => w.prevTerm = v.entries[w.prev].term

(* It tells what they tell. *)
LEMMA JoinTells ==
    ASSUME NEW u \in Stretch, NEW v \in Stretch, NEW w \in Stretch, Joins(u, v, w)
    PROVE  /\ \A i \in Span(u) : i <= w.prev =>
                  i \in Span(v) /\ i \in Held(v) /\ TermAt(u, i) = TermAt(v, i)
                  /\ EntryAt(u, i) = EntryAt(v, i)
           /\ \A i \in Span(u) : w.prev <= i => i \in Span(w) /\ TermAt(u, i) = TermAt(w, i)
           /\ \A i \in Span(u) : w.prev < i =>
                  i \in Held(w) /\ EntryAt(u, i) = EntryAt(w, i)
           /\ Held(u) = Span(u)
           /\ w.prev > 0 => w.prev \in Span(u)
<1>1. /\ u.prev = 0 /\ v.prev = 0 /\ w.prev <= Len(v.entries)
      /\ Len(u.entries) = w.prev + Len(w.entries)
      /\ Len(v.entries) \in Nat /\ Len(w.entries) \in Nat /\ w.prev \in Nat
    BY StretchIndices DEF Joins
<1>2. ASSUME NEW i \in Span(u), i <= w.prev
      PROVE  /\ i \in Span(v) /\ i \in Held(v) /\ TermAt(u, i) = TermAt(v, i)
             /\ EntryAt(u, i) = EntryAt(v, i)
    <2>1. i \in Nat /\ 0 < i /\ i \in Span(v) /\ i \in Held(v) /\ i \in 1..w.prev
        BY <1>1, <1>2, StretchIndices
    <2>2. EntryAt(u, i) = EntryAt(v, i)
        BY <1>1, <2>1 DEF EntryAt, Joins
    <2> QED BY <1>1, <2>1, <2>2 DEF TermAt
<1>3. ASSUME NEW i \in Span(u), w.prev < i
      PROVE  /\ i \in Held(w) /\ EntryAt(u, i) = EntryAt(w, i)
             /\ i \in Span(w) /\ TermAt(u, i) = TermAt(w, i)
    <2>1. i \in Nat /\ 0 < i /\ i \in Span(w) /\ i \in Held(w)
        BY <1>1, <1>3, StretchIndices
    <2>2. EntryAt(u, i) = EntryAt(w, i)
        BY <1>1, <2>1 DEF EntryAt, Joins
    <2> QED BY <1>1, <1>3, <2>1, <2>2 DEF TermAt
<1>4. ASSUME NEW i \in Span(u), i = w.prev
      PROVE  i \in Span(w) /\ TermAt(u, i) = TermAt(w, i)
    <2>1. i \in Nat /\ 0 < i /\ i \in Span(w) /\ i \in 1..w.prev
        BY <1>1, <1>4, StretchIndices
    <2>2. u.entries[i] = v.entries[i] /\ w.prevTerm = v.entries[i].term
        BY <1>1, <1>4, <2>1 DEF Joins
    <2> QED BY <1>1, <1>4, <2>1, <2>2 DEF TermAt, EntryAt
<1>5. Held(u) = Span(u)
    <2>1. \A i : i \in Held(u) <=> i \in Span(u)
        BY <1>1, StretchIndices
    <2> QED BY <2>1
<1>6. ASSUME w.prev > 0 PROVE w.prev \in Span(u)
    BY <1>1, <1>6 DEF Span
<1>7. \A i \in Span(u) : i \in Nat /\ (w.prev <= i => w.prev < i \/ i = w.prev)
    BY <1>1, StretchIndices
<1> QED BY <1>2, <1>3, <1>4, <1>5, <1>6, <1>7

(* So it matches what both match. *)
LEMMA JoinMatches ==
    ASSUME NEW u \in Stretch, NEW v \in Stretch, NEW w \in Stretch, NEW x \in Stretch,
           Joins(u, v, w), Matching(v, x), Matching(w, x)
    PROVE  Matching(u, x)
<1> SUFFICES ASSUME NEW i \in Span(u), i \in Span(x), TermAt(u, i) = TermAt(x, i),
                    NEW j \in 1..i
             PROVE  SameAt(u, x, j)
    BY DEF Matching
<1>1. i \in Nat /\ j \in Nat /\ 0 < j /\ j <= i /\ w.prev \in Nat /\ x.prev \in Nat
    BY StretchIndices
<1>2. CASE i <= w.prev
    <2>1. SameAt(v, x, j)
        BY <1>1, <1>2, JoinTells DEF Matching
    <2>2. j <= w.prev
        BY <1>1, <1>2
    <2> QED BY <2>1, <2>2, JoinTells DEF SameAt
<1>3. CASE w.prev < i
    <2>1. \A k \in 1..i : SameAt(w, x, k)
        BY <1>1, <1>3, JoinTells DEF Matching
    <2>2. CASE w.prev < j
        <3>1. SameAt(w, x, j) /\ w.prev <= j
            BY <1>1, <2>1, <2>2
        <3> QED BY <2>2, <3>1, JoinTells DEF SameAt
    <2>3. CASE j <= w.prev
        <3>1. CASE j \notin Span(x)
            <4>1. j \notin Held(x)
                BY <3>1, StretchIndices
            <4> QED BY <3>1, <4>1 DEF SameAt
        <3>2. CASE j \in Span(x)
            <4>1. w.prev \in Span(x) /\ w.prev \in 1..i /\ w.prev > 0
                <5>1. /\ x.prev <= j /\ i <= x.prev + Len(x.entries)
                      /\ Len(x.entries) \in Nat
                    BY <3>2, StretchIndices
                <5> QED BY <1>1, <1>3, <2>3, <5>1 DEF Span
            <4>2. w.prev \in Span(u) /\ w.prev <= w.prev
                BY <1>1, <4>1, JoinTells
            <4>3. w.prev \in Span(v) /\ w.prev \in Span(w)
                  /\ TermAt(v, w.prev) = TermAt(w, w.prev)
                BY <4>2, JoinTells
            <4>4. TermAt(v, w.prev) = TermAt(x, w.prev)
                BY <2>1, <4>1, <4>3 DEF SameAt
            <4>5. SameAt(v, x, j)
                BY <1>1, <2>3, <4>1, <4>3, <4>4 DEF Matching
            <4> QED BY <2>3, <4>5, JoinTells DEF SameAt
        <3> QED BY <3>1, <3>2
    <2> QED BY <1>1, <2>2, <2>3
<1> QED BY <1>1, <1>2, <1>3

-----------------------------------------------------------------------------
(* Everything a stretch tells the term of was told before. *)
NothingNew ==
    \A w \in Stretches' : \A i \in Span(w) :
        \E x \in Stretches : i \in Span(x) /\ TermAt(x, i) = TermAt(w, i)

(* A server that leads has led before, in the same term and with the same  *)
(* log; one that led before and leads no more is in a later term.          *)
NobodyRises ==
    \A n \in Server :
        /\ currentTerm'[n] >= currentTerm[n]
        /\ state'[n] = Leader =>
               /\ state[n] = Leader
               /\ currentTerm'[n] = currentTerm[n]
               /\ log'[n] = log[n]
        /\ currentTerm'[n] = currentTerm[n] /\ state[n] = Leader => state'[n] = Leader

(* A step that makes no entry and no leader. *)
LEMMA ElsewhereMatchingInv ==
    ASSUME TypeOK, TypeOK', ElectionInv, MatchingInv, StretchesMatch', NothingNew,
           NobodyRises, leaders' = leaders
    PROVE  MatchingInv'
<1> USE DEF MatchingInv
<1>1. EntriesHaveLeaders'
    BY DEF EntriesHaveLeaders, NothingNew
<1>2. LeaderIsAhead'
    BY DEF LeaderIsAhead, NothingNew, NobodyRises
<1>3. LeadersLead'
    <2> SUFFICES ASSUME NEW l \in leaders, currentTerm'[l.server] = l.term
                 PROVE  state'[l.server] = Leader
        BY DEF LeadersLead
    <2>1. l.server \in Server /\ l.term <= currentTerm[l.server] /\ l.term \in Nat
          /\ currentTerm[l.server] \in Nat
        BY HistoryFields DEF ElectionInv, LeadersKeepTheirVote, TypeOK, CMTypeOK, Term
    <2>2. currentTerm'[l.server] >= currentTerm[l.server]
        BY <2>1 DEF NobodyRises
    <2>3. currentTerm'[l.server] = currentTerm[l.server]
        BY <2>1, <2>2
    <2> QED BY <2>1, <2>3 DEF LeadersLead, NobodyRises
<1> QED BY <1>1, <1>2, <1>3

(* Steps that only take parts of what there is. *)
LEMMA PartsMatchingInv ==
    ASSUME TypeOK, TypeOK', ElectionInv, MatchingInv, NobodyRises, leaders' = leaders,
           \A w \in Stretches' : \E x \in Stretches : PartOf(w, x)
    PROVE  MatchingInv'
<1>1. StretchesMatch'
    <2> SUFFICES ASSUME NEW v \in Stretches', NEW w \in Stretches'
                 PROVE  Matching(v, w)
        BY DEF StretchesMatch
    <2>1. PICK x \in Stretches : PartOf(v, x)
        OBVIOUS
    <2>2. PICK y \in Stretches : PartOf(w, y)
        OBVIOUS
    <2>3. Matching(x, y)
        BY DEF MatchingInv, StretchesMatch
    <2> QED BY <2>1, <2>2, <2>3, PartsMatch
<1>2. NothingNew
    BY DEF NothingNew, PartOf
<1> QED BY <1>1, <1>2, ElsewhereMatchingInv

(* Steps that leave the logs and the requests alone. *)
LEMMA SameStretches ==
    ASSUME UNCHANGED <<log, appendRequests>>
    PROVE  \A w \in Stretches' : \E x \in Stretches : PartOf(w, x)
<1>1. Stretches' = Stretches
    BY DEF Stretches, OfLog
<1> QED BY <1>1 DEF PartOf

(* A server that moves to a later term does not lead there yet. *)
LEMMA FollowerRisesNot ==
    ASSUME TypeOK, NEW n \in Server, NEW term \in Nat, term > currentTerm[n],
           currentTerm' = [currentTerm EXCEPT ![n] = term], log' = log,
           NEW s \in CMState, s # Leader, state' = [state EXCEPT ![n] = s]
    PROVE  NobodyRises
<1>1. currentTerm \in [Server -> Nat] /\ state \in [Server -> CMState]
    BY DEF TypeOK, CMTypeOK, Term
<1> QED BY <1>1 DEF NobodyRises

(* Nor does a step that leaves states, terms and the logs of leaders alone *)
(* make a leader.                                                          *)
LEMMA SameRisesNot ==
    ASSUME TypeOK, UNCHANGED <<currentTerm, state>>,
           \A n \in Server : state[n] = Leader => log'[n] = log[n]
    PROVE  NobodyRises
<1>1. currentTerm \in [Server -> Nat]
    BY DEF TypeOK, CMTypeOK, Term
<1> QED BY <1>1 DEF NobodyRises

-----------------------------------------------------------------------------
(* startElection. *)
LEMMA StartElectionMatchingInv ==
    ASSUME TypeOK, TypeOK', ElectionInv, MatchingInv, NEW n \in Server, StartElection(n)
    PROVE  MatchingInv'
<1>1. /\ currentTerm \in [Server -> Nat]
      /\ currentTerm' = [currentTerm EXCEPT ![n] = currentTerm[n] + 1]
      /\ state' = [state EXCEPT ![n] = Candidate]
      /\ UNCHANGED <<log, appendRequests, leaders>>
    BY DEF StartElection, TypeOK, CMTypeOK, Term, appendVars
<1>2. currentTerm[n] + 1 \in Nat /\ currentTerm[n] + 1 > currentTerm[n]
    BY <1>1
<1>3. Candidate \in CMState /\ Candidate # Leader
    BY DEF CMState, Candidate, Leader
<1>4. NobodyRises
    BY <1>1, <1>2, <1>3, FollowerRisesNot
<1> QED BY <1>1, <1>4, SameStretches, PartsMatchingInv

(* RequestVoteHelper. *)
LEMMA RequestVoteHelperMatchingInv ==
    ASSUME TypeOK, TypeOK', ElectionInv, MatchingInv, NEW m \in voteRequests,
           RequestVoteHelper(m)
    PROVE  MatchingInv'
<1>1. /\ m.dst \in Server /\ m.term \in Nat
      /\ state \in [Server -> CMState] /\ currentTerm \in [Server -> Nat]
      /\ UNCHANGED <<log, appendRequests, leaders>>
    BY DEF RequestVoteHelper, appendVars, TypeOK, CMTypeOK, VoteTypeOK, VoteRequest, Term
<1>2. CASE Newer(m.dst, m.term)
    <2>1. /\ currentTerm' = [currentTerm EXCEPT ![m.dst] = m.term]
          /\ state' = [state EXCEPT ![m.dst] = Follower]
          /\ m.term > currentTerm[m.dst]
        BY <1>2 DEF RequestVoteHelper, Newer
    <2>2. Follower \in CMState /\ Follower # Leader
        BY DEF CMState, Follower, Leader
    <2>3. NobodyRises
        BY <1>1, <2>1, <2>2, FollowerRisesNot
    <2> QED BY <1>1, <2>3, SameStretches, PartsMatchingInv
<1>3. CASE ~Newer(m.dst, m.term)
    <2>1. currentTerm' = currentTerm /\ state' = state
        BY <1>1, <1>3 DEF RequestVoteHelper
    <2> QED BY <1>1, <2>1, SameRisesNot, SameStretches, PartsMatchingInv
<1> QED BY <1>2, <1>3

(* becomeFollower. *)
LEMMA BecomeFollowerMatchingInv ==
    ASSUME TypeOK, TypeOK', ElectionInv, MatchingInv, NEW n \in Server, NEW term \in Nat,
           term > currentTerm[n], BecomeFollower(n, term),
           UNCHANGED <<log, appendRequests, leaders>>
    PROVE  MatchingInv'
<1>1. Follower \in CMState /\ Follower # Leader
    BY DEF CMState, Follower, Leader
<1>2. NobodyRises
    BY <1>1, FollowerRisesNot DEF BecomeFollower
<1> QED BY <1>2, SameStretches, PartsMatchingInv

(* Steps that touch neither the states, nor the terms, nor the logs. *)
LEMMA UnconcernedMatchingInv ==
    ASSUME TypeOK, TypeOK', ElectionInv, MatchingInv,
           UNCHANGED <<state, currentTerm, log, appendRequests, leaders>>
    PROVE  MatchingInv'
BY SameRisesNot, SameStretches, PartsMatchingInv

(* A response to a vote request, not late. *)
LEMMA RequestVoteReplyMatchingInv ==
    ASSUME Calm, TypeOK, TypeOK', ElectionInv, MatchingInv, NEW r \in voteReplies,
           RequestVoteReply(r)
    PROVE  MatchingInv'
<1>1. /\ r.src \in Server /\ r.replyTerm \in Nat /\ state \in [Server -> CMState]
      /\ currentTerm[r.src] = r.term /\ UNCHANGED <<log, appendRequests>>
    BY DEF TypeOK, CMTypeOK, VoteTypeOK, VoteReply, Term, RequestVoteReply, Calm,
           SameTerm, appendVars
<1>2. CASE VoteReplyToLeader(r)
    <2>1. [server |-> r.src, term |-> currentTerm[r.src]] \in leaders
        BY <1>1, <1>2 DEF VoteReplyToLeader, ElectionInv, LeadersAreOnRecord
    <2>2. UNCHANGED <<state, currentTerm, leaders>>
        BY <1>1, <1>2, <2>1 DEF VoteReplyToLeader, BecomeLeader
    <2> QED BY <1>1, <2>2, UnconcernedMatchingInv
<1>3. CASE VoteReplyNewer(r)
    <2>1. /\ BecomeFollower(r.src, r.replyTerm) /\ r.replyTerm > currentTerm[r.src]
          /\ leaders' = leaders
        BY <1>1, <1>3 DEF VoteReplyNewer
    <2> QED BY <1>1, <2>1, BecomeFollowerMatchingInv
<1>4. CASE VoteReplyToFollower(r) \/ VoteReplyGranted(r) \/ VoteReplyRefused(r)
    BY <1>1, <1>4, UnconcernedMatchingInv
    DEF VoteReplyToFollower, VoteReplyGranted, VoteReplyRefused
<1> QED BY <1>2, <1>3, <1>4 DEF RequestVoteReply

(* startLeader: a server that begins to lead leads a term of which nobody  *)
(* has an entry; one that leads already goes on leading.                   *)
LEMMA StartLeaderMatchingInv ==
    ASSUME Calm, TypeOK, TypeOK', ElectionInv, ElectionSafety', MatchingInv,
           NEW s \in starting, StartLeader(s)
    PROVE  MatchingInv'
<1> USE DEF MatchingInv
<1> DEFINE n == s.src
           new == [server |-> n, term |-> currentTerm[n]]
<1>1. /\ n \in Server /\ state \in [Server -> CMState]
      /\ state' = [state EXCEPT ![n] = Leader] /\ leaders' = leaders \cup {new}
      /\ UNCHANGED <<currentTerm, log, appendRequests>>
    BY DEF StartLeader, BecomeLeader, appendVars, TypeOK, CMTypeOK, VoteTypeOK, VoteCall
<1>2. Stretches' = Stretches
    BY <1>1 DEF Stretches, OfLog
<1>3. StretchesMatch'
    BY <1>2 DEF StretchesMatch
<1>4. EntriesHaveLeaders'
    BY <1>1, <1>2 DEF EntriesHaveLeaders
<1>5. LeadersLead'
    BY <1>1 DEF LeadersLead
<1>6. LeaderIsAhead'
    <2> SUFFICES ASSUME NEW p \in Server, state'[p] = Leader, NEW w \in Stretches,
                        NEW i \in Span(w), TermAt(w, i) = currentTerm[p]
                 PROVE  i <= Len(log[p])
        BY <1>1, <1>2 DEF LeaderIsAhead
    <2>1. CASE state[p] = Leader
        BY <2>1 DEF LeaderIsAhead
    <2>2. CASE state[p] # Leader
        <3>1. p = n
            BY <1>1, <2>2
        <3>2. PICK l \in leaders : l.term = currentTerm[p]
            BY DEF EntriesHaveLeaders
        <3>3. l.server = p
            <4>1. l \in leaders' /\ new \in leaders' /\ new.term = l.term /\ new.server = p
                BY <1>1, <3>1, <3>2
            <4> QED BY <4>1 DEF ElectionSafety
        <3> QED BY <2>2, <3>2, <3>3 DEF LeadersLead
    <2> QED BY <2>1, <2>2
<1> QED BY <1>3, <1>4, <1>5, <1>6

-----------------------------------------------------------------------------
(* Request m carries the end of a log, and what is before it. *)
SentBy(m, c) ==
    /\ m.src = c.src /\ m.term = c.term /\ m.leaderCommit = commitIndex[c.src]
    /\ m.prevLogIndex + Len(m.entries) = Len(log[c.src])
    /\ PartOf(OfRequest(m), OfLog(c.src))

(* So does any AppendEntries when it is sent. *)
LEMMA SentIsPart ==
    ASSUME TypeOK, NEW c \in appendCalls, SendAppendEntries(c)
    PROVE  /\ c.src \in Server
           /\ \E new : appendRequests' = appendRequests \cup {new} /\ SentBy(new, c)
<1> DEFINE n == c.src
           ni == nextIndex[n][c.dst]
           prev == ni - 1
           new == [src |-> n, dst |-> c.dst, round |-> c.round, term |-> c.term,
                   prevLogIndex |-> prev,
                   prevLogTerm |-> IF prev > 0 THEN log[n][prev].term ELSE 0,
                   entries |-> SubSeq(log[n], ni, Len(log[n])),
                   leaderCommit |-> commitIndex[n], live |-> TRUE]
           sent == [prev |-> prev,
                    prevTerm |-> IF prev > 0 THEN log[n][prev].term ELSE 0,
                    entries |-> SubSeq(log[n], ni, Len(log[n]))]
<1>1. /\ n \in Server /\ ni \in Nat \ {0} /\ log[n] \in Seq(LogEntry)
      /\ prev <= Len(log[n])
    <2>1. n \in Server /\ c.dst \in Server
        BY DEF TypeOK, AppendTypeOK, AppendCall
    <2>2. nextIndex \in [Server -> [Server -> Nat \ {0}]] /\ log \in [Server -> Seq(LogEntry)]
        BY DEF TypeOK, CMTypeOK
    <2>3. prev <= Len(log[n])
        BY DEF SendAppendEntries
    <2> QED BY <2>1, <2>2, <2>3
<1>2. appendRequests' = appendRequests \cup {new}
    BY DEF SendAppendEntries
<1>3. /\ OfRequest(new) = sent /\ new.src = n /\ new.term = c.term
      /\ new.leaderCommit = commitIndex[n]
      /\ new.prevLogIndex = prev /\ new.entries = sent.entries
    BY DEF OfRequest
<1>4. PartOf(sent, OfLog(n)) /\ prev + Len(sent.entries) = Len(log[n])
    <2>1. /\ ni \in 1..(Len(log[n]) + 1) /\ Len(log[n]) \in (ni - 1)..Len(log[n])
          /\ prev \in Nat /\ Len(log[n]) \in Nat /\ ni = prev + 1
        <3>1. Len(log[n]) \in Nat
            BY <1>1
        <3>2. ni \in Nat \ {0} /\ prev \in Nat /\ ni = prev + 1
            BY <1>1
        <3> HIDE DEF n, ni, prev
        <3> QED BY <1>1, <3>1, <3>2
    <2>2. /\ Len(sent.entries) = Len(log[n]) - prev
          /\ \A i \in 1..(Len(log[n]) - prev) : sent.entries[i] = log[n][prev + i]
        <3>1. sent.entries = SubSeq(log[n], ni, Len(log[n]))
            OBVIOUS
        <3> HIDE DEF ni, prev, sent
        <3>2. /\ Len(sent.entries) = Len(log[n]) - ni + 1
              /\ \A i \in 1..(Len(log[n]) - ni + 1) : sent.entries[i] = log[n][ni + i - 1]
            BY <1>1, <2>1, <3>1, PartOfSeq
        <3>3. Len(log[n]) - ni + 1 = Len(log[n]) - prev
            BY <2>1
        <3>4. ASSUME NEW i \in 1..(Len(log[n]) - prev) PROVE ni + i - 1 = prev + i
            BY <2>1
        <3> QED BY <3>2, <3>3, <3>4
    <2>3. /\ sent.prev = prev /\ OfLog(n).prev = 0 /\ OfLog(n).entries = log[n]
          /\ prev > 0 => sent.prevTerm = log[n][prev].term
        BY DEF OfLog
    <2> HIDE DEF sent, prev, ni
    <2>4. Span(sent) \subseteq Span(OfLog(n)) /\ Held(sent) \subseteq Held(OfLog(n))
        BY <1>1, <2>1, <2>2, <2>3 DEF Span, Held
    <2>5. ASSUME NEW i \in Held(sent) PROVE EntryAt(sent, i) = EntryAt(OfLog(n), i)
        <3>1. i \in (prev + 1)..(prev + (Len(log[n]) - prev))
            BY <2>2, <2>3, <2>5 DEF Held
        <3>2. /\ i - prev \in 1..(Len(log[n]) - prev)
              /\ prev + (i - prev) = i /\ i - 0 = i
            BY <2>1, <3>1
        <3>3. EntryAt(sent, i) = sent.entries[i - prev] /\ EntryAt(OfLog(n), i) = log[n][i - 0]
            BY <2>3 DEF EntryAt
        <3> QED BY <2>2, <3>2, <3>3
    <2>6. ASSUME NEW i \in Span(sent) PROVE TermAt(sent, i) = TermAt(OfLog(n), i)
        <3>1. i \in Nat /\ i > 0 /\ (i = prev \/ i \in Held(sent)) /\ i - 0 = i
            BY <1>1, <2>1, <2>2, <2>3, <2>6 DEF Held, Span
        <3>2. TermAt(OfLog(n), i) = EntryAt(OfLog(n), i).term
              /\ EntryAt(OfLog(n), i) = log[n][i]
            BY <2>3, <3>1 DEF TermAt, EntryAt
        <3>3. CASE i = prev
            BY <2>3, <3>1, <3>2, <3>3 DEF TermAt
        <3>4. CASE i # prev
            BY <2>3, <2>5, <3>1, <3>2, <3>4 DEF TermAt
        <3> QED BY <3>3, <3>4
    <2>7. prev + Len(sent.entries) = Len(log[n])
        BY <2>1, <2>2
    <2> QED BY <2>4, <2>5, <2>6, <2>7 DEF PartOf
<1> HIDE DEF new, sent
<1> QED BY <1>1, <1>2, <1>3, <1>4 DEF SentBy

(* So sending it takes a part of what there is. *)
LEMMA SendAppendEntriesMatchingInv ==
    ASSUME TypeOK, TypeOK', ElectionInv, MatchingInv, NEW c \in appendCalls,
           SendAppendEntries(c)
    PROVE  MatchingInv'
<1>1. PICK new : /\ appendRequests' = appendRequests \cup {new}
                 /\ PartOf(OfRequest(new), OfLog(c.src))
    BY SentIsPart DEF SentBy
<1>2. UNCHANGED <<state, currentTerm, log, leaders>>
    BY DEF SendAppendEntries, raftVars, historyVars
<1>3. ASSUME NEW w \in Stretches' PROVE \E x \in Stretches : PartOf(w, x)
    <2>1. w \in Stretches \/ w = OfRequest(new)
        BY <1>1, <1>2 DEF Stretches, OfLog
    <2>2. OfLog(c.src) \in Stretches
        BY SentIsPart DEF Stretches
    <2>3. PartOf(w, w)
        BY DEF PartOf
    <2> QED BY <1>1, <2>1, <2>2, <2>3
<1>4. NobodyRises
    BY <1>2, SameRisesNot
<1> QED BY <1>2, <1>3, <1>4, PartsMatchingInv

(* The follower's log after a merge that has changed it is its own log up  *)
(* to prevLogIndex and the entries sent from there on: where the two agree *)
(* on a term they agree on the entry.                                      *)
LEMMA MergeJoins ==
    ASSUME NEW own \in Seq(LogEntry), NEW v \in Stretch, NEW w \in Stretch,
           v.prev = 0, v.entries = own, Matching(v, w),
           PrevMatches(own, w.prev, w.prevTerm),
           NEW u \in Stretch, u.prev = 0, u.entries = MergeEntries(own, w.prev, w.entries),
           u.entries # own
    PROVE  Joins(u, v, w)
<1> DEFINE merged == MergeEntries(own, w.prev, w.entries)
<1>1. /\ w.prev \in Nat /\ w.entries \in Seq(LogEntry) /\ Len(own) \in Nat
      /\ Len(w.entries) \in Nat
    BY DEF Stretch
<1>2. w.prev \in 0..Len(own) /\ (w.prev > 0 => w.prevTerm = own[w.prev].term)
    BY <1>1 DEF PrevMatches
<1>3. /\ \A i \in 1..w.prev : merged[i] = own[i]
      /\ \A k \in 1..Len(w.entries) : merged[w.prev + k].term = w.entries[k].term
      /\ Len(merged) = w.prev + Len(w.entries)
      /\ \A k \in 1..Len(w.entries) :
             \/ merged[w.prev + k] = w.entries[k]
             \/ w.prev + k <= Len(own) /\ merged[w.prev + k] = own[w.prev + k]
    <2>1. merged # own
        OBVIOUS
    <2>2. MergedFrom(merged, own, w.prev, w.entries)
        BY <1>1, <1>2, MergeEntriesHolds
    <2> HIDE DEF merged
    <2> QED BY <2>1, <2>2 DEF MergedFrom
<1> HIDE DEF merged
<1>4. ASSUME NEW i \in Held(w) PROVE merged[i] = EntryAt(w, i)
    <2>1. /\ i \in Nat /\ w.prev < i /\ i - w.prev \in 1..Len(w.entries)
          /\ w.prev + (i - w.prev) = i /\ i > 0 /\ i - 0 = i
        BY <1>1, <1>4, StretchIndices
    <2>2. merged[i].term = w.entries[i - w.prev].term
          /\ (merged[i] = w.entries[i - w.prev] \/ (i <= Len(own) /\ merged[i] = own[i]))
        BY <1>3, <2>1
    <2>3. EntryAt(w, i) = w.entries[i - w.prev]
        BY DEF EntryAt
    <2>4. ASSUME i <= Len(own), merged[i] = own[i] PROVE own[i] = EntryAt(w, i)
        <3>1. i \in Span(v) /\ i \in Held(v) /\ i \in Span(w)
            BY <1>1, <2>1, <2>4, <1>4, StretchIndices
        <3>2. TermAt(v, i) = own[i].term /\ EntryAt(v, i) = own[i]
            BY <2>1 DEF TermAt, EntryAt
        <3>3. TermAt(w, i) = EntryAt(w, i).term
            BY <1>4, StretchIndices
        <3>4. TermAt(v, i) = TermAt(w, i)
            BY <2>2, <2>3, <2>4, <3>2, <3>3
        <3>5. SameAt(v, w, i)
            BY <2>1, <3>1, <3>4 DEF Matching
        <3> QED BY <1>4, <3>1, <3>2, <3>5 DEF SameAt
    <2> QED BY <2>2, <2>3, <2>4
<1>5. merged = u.entries
    BY DEF merged
<1> QED BY <1>1, <1>2, <1>3, <1>4, <1>5 DEF Joins

(* AppendEntriesHelper makes no leader, and cuts the log of none: a        *)
(* request of a leader's own term does not come from another server.       *)
LEMMA AppendEntriesHelperRisesNot ==
    ASSUME TypeOK, ElectionInv, ElectionSafety, NEW m \in appendRequests,
           AppendEntriesHelper(m)
    PROVE  NobodyRises
<1> DEFINE n == m.dst
           newer == Newer(n, m.term)
           term == IF newer THEN m.term ELSE currentTerm[n]
           current == InTerm(m, term)
           stepDown == newer \/ (current /\ state[n] # Follower)
           success == current /\ PrevMatches(log[n], m.prevLogIndex, m.prevLogTerm)
           newLog == IF success THEN MergeEntries(log[n], m.prevLogIndex, m.entries)
                                ELSE log[n]
<1>1. /\ currentTerm \in [Server -> Nat] /\ state \in [Server -> CMState]
      /\ log \in [Server -> Seq(LogEntry)] /\ n \in Server /\ m.term \in Nat
    BY DEF TypeOK, CMTypeOK, AppendTypeOK, AppendRequest, Term
<1>2. /\ currentTerm' = [currentTerm EXCEPT ![n] = term]
      /\ state' = [state EXCEPT ![n] = IF stepDown THEN Follower ELSE @]
      /\ log' = [log EXCEPT ![n] = newLog]
    BY DEF AppendEntriesHelper
<1>3. /\ newer <=> m.term > currentTerm[n]
      /\ newer => stepDown /\ term = m.term
      /\ ~newer => term = currentTerm[n]
      /\ current <=> m.term = term
      /\ stepDown <=> newer \/ (current /\ state[n] # Follower)
    BY DEF Newer, InTerm
<1>4. newLog # log[n] => current
    OBVIOUS
<1>5. state[n] = Leader => m.term # currentTerm[n]
    BY <1>1 DEF ElectionInv, AppendsAreFromLeaders, LeadersAreOnRecord, ElectionSafety
<1>6. Follower # Leader
    BY DEF Follower, Leader
<1> HIDE DEF n, newer, term, current, stepDown, success, newLog
<1> SUFFICES ASSUME NEW p \in Server
             PROVE  /\ currentTerm'[p] >= currentTerm[p]
                    /\ state'[p] = Leader =>
                           /\ state[p] = Leader
                           /\ currentTerm'[p] = currentTerm[p]
                           /\ log'[p] = log[p]
                    /\ currentTerm'[p] = currentTerm[p] /\ state[p] = Leader =>
                           state'[p] = Leader
    BY DEF NobodyRises
<1>7. CASE p # n
    BY <1>1, <1>2, <1>7
<1>8. CASE p = n
    <2>1. currentTerm'[p] = term /\ log'[p] = newLog
          /\ state'[p] = IF stepDown THEN Follower ELSE state[p]
        BY <1>1, <1>2, <1>8
    <2>2. currentTerm[p] \in Nat /\ (p = n)
        BY <1>1, <1>8
    <2>3. currentTerm'[p] >= currentTerm[p]
        BY <1>1, <1>3, <2>1, <2>2
    <2>4. ASSUME state'[p] = Leader
          PROVE  state[p] = Leader /\ currentTerm'[p] = currentTerm[p] /\ log'[p] = log[p]
        BY <1>3, <1>4, <1>6, <2>1, <2>2, <2>4
    <2>5. ASSUME currentTerm'[p] = currentTerm[p], state[p] = Leader PROVE state'[p] = Leader
        BY <1>1, <1>3, <1>5, <2>1, <2>2, <2>5
    <2> QED BY <2>3, <2>4, <2>5
<1> QED BY <1>7, <1>8

(* AppendEntriesHelper: the log it leaves matches whatever the request and *)
(* the old log matched.                                                    *)
LEMMA AppendEntriesHelperMatchingInv ==
    ASSUME TypeOK, TypeOK', ElectionInv, ElectionSafety, MatchingInv,
           NEW m \in appendRequests, AppendEntriesHelper(m)
    PROVE  MatchingInv'
<1> DEFINE n == m.dst
           w == OfRequest(m)
           v == OfLog(n)
           u == [prev |-> 0, prevTerm |-> 0, entries |-> log'[n]]
           merged == MergeEntries(log[n], m.prevLogIndex, m.entries)
<1>1. /\ n \in Server /\ log \in [Server -> Seq(LogEntry)]
      /\ v \in Stretch /\ w \in Stretch /\ v \in Stretches /\ w \in Stretches
    BY StretchesType DEF TypeOK, CMTypeOK, AppendTypeOK, AppendRequest, Stretches
<1>2. /\ u \in Stretch
    BY <1>1 DEF TypeOK, CMTypeOK, Stretch, Term
<1>3. /\ leaders' = leaders /\ appendRequests' \subseteq appendRequests
      /\ \E new : log' = [log EXCEPT ![n] = new]
      /\ \/ log'[n] = log[n]
         \/ log'[n] = merged /\ PrevMatches(log[n], m.prevLogIndex, m.prevLogTerm)
    BY <1>1 DEF AppendEntriesHelper, historyVars
<1>4. /\ v.prev = 0 /\ v.entries = log[n] /\ u.prev = 0 /\ u.entries = log'[n]
      /\ w.prev = m.prevLogIndex /\ w.entries = m.entries /\ w.prevTerm = m.prevLogTerm
    BY DEF OfLog, OfRequest
<1>5. ASSUME NEW x \in Stretches' PROVE x \in Stretches \/ x = u
    <2>1. ASSUME NEW p \in Server, p # n PROVE log'[p] = log[p]
        BY <1>1, <1>3, <2>1
    <2> QED BY <1>3, <2>1 DEF Stretches, OfLog
<1>6. NobodyRises
    BY AppendEntriesHelperRisesNot
<1>7. Stretches \subseteq Stretch
    BY StretchesType
<1> HIDE DEF n, u, v, w, merged
<1>8. CASE log'[n] = log[n]
    <2>1. PartOf(u, v)
        <3>1. Span(u) = Span(v) /\ Held(u) = Held(v)
            BY <1>4, <1>8 DEF Span, Held
        <3>2. \A i : EntryAt(u, i) = EntryAt(v, i)
            BY <1>4, <1>8 DEF EntryAt
        <3>3. \A i \in Span(u) : TermAt(u, i) = TermAt(v, i)
            <4>1. \A i \in Span(u) : i # 0
                BY <1>2, StretchIndices
            <4> QED BY <1>4, <3>2, <4>1 DEF TermAt
        <3> QED BY <3>1, <3>2, <3>3 DEF PartOf
    <2>2. ASSUME NEW x \in Stretches' PROVE \E y \in Stretches : PartOf(x, y)
        <3>1. PartOf(x, x)
            BY DEF PartOf
        <3> QED BY <1>1, <1>5, <2>1, <3>1
    <2> QED BY <1>3, <1>6, <2>2, PartsMatchingInv
<1>9. CASE log'[n] # log[n]
    <2>1. Matching(v, w)
        BY <1>1 DEF MatchingInv, StretchesMatch
    <2>2. Joins(u, v, w)
        BY <1>1, <1>2, <1>3, <1>4, <1>9, <2>1, MergeJoins DEF merged
    <2>3. ASSUME NEW x \in Stretches PROVE Matching(u, x)
        <3>1. Matching(v, x) /\ Matching(w, x)
            BY <1>1 DEF MatchingInv, StretchesMatch
        <3>2. x \in Stretch
            BY <1>7
        <3> QED BY <1>1, <1>2, <2>2, <3>1, <3>2, JoinMatches
    <2>4. Matching(u, u)
        BY DEF Matching, SameAt
    <2>5. StretchesMatch'
        <3> SUFFICES ASSUME NEW x \in Stretches', NEW y \in Stretches'
                     PROVE  Matching(x, y)
            BY DEF StretchesMatch
        <3>1. CASE x \in Stretches /\ y \in Stretches
            BY <3>1 DEF MatchingInv, StretchesMatch
        <3>2. CASE x = u
            BY <1>5, <2>3, <2>4, <3>2
        <3>3. CASE x \in Stretches /\ y = u
            BY <2>3, <3>3, MatchingIsSymmetric
        <3> QED BY <1>5, <3>1, <3>2, <3>3
    <2>6. ASSUME NEW i \in Span(u)
          PROVE  \E x \in Stretches : i \in Span(x) /\ TermAt(x, i) = TermAt(u, i)
        <3>1. i \in Nat /\ w.prev \in Nat
            BY <1>1, <1>2, StretchIndices
        <3>2. CASE i <= w.prev
            BY <1>1, <1>2, <2>2, <3>2, JoinTells
        <3>3. CASE w.prev <= i
            BY <1>1, <1>2, <2>2, <3>3, JoinTells
        <3> QED BY <3>1, <3>2, <3>3
    <2>7. NothingNew
        BY <1>5, <2>6 DEF NothingNew
    <2> QED BY <1>3, <1>6, <2>5, <2>7, ElsewhereMatchingInv
<1> QED BY <1>8, <1>9

(* The response to an AppendEntries. *)
LEMMA AppendEntriesReplyMatchingInv ==
    ASSUME TypeOK, TypeOK', ElectionInv, MatchingInv, NEW r \in appendReplies,
           AppendEntriesReply(r)
    PROVE  MatchingInv'
<1>1. UNCHANGED <<log, appendRequests, leaders>>
    BY DEF AppendEntriesReply, historyVars
<1>2. CASE AppendReplyNewer(r)
    <2>1. /\ r.src \in Server /\ r.replyTerm \in Nat
          /\ BecomeFollower(r.src, r.replyTerm) /\ r.replyTerm > currentTerm[r.src]
        BY <1>2 DEF AppendReplyNewer, Newer, TypeOK, AppendTypeOK, AppendReply, Term
    <2> QED BY <1>1, <2>1, BecomeFollowerMatchingInv
<1>3. CASE AppendReplySuccess(r) \/ AppendReplyConflict(r) \/ AppendReplyIgnored(r)
    BY <1>1, <1>3, UnconcernedMatchingInv
    DEF AppendReplySuccess, AppendReplyConflict, AppendReplyIgnored
<1> QED BY <1>2, <1>3 DEF AppendEntriesReply

(* Submit: the leader appends where nobody has an entry of its term.       *)
LEMMA SubmitMatchingInv ==
    ASSUME TypeOK, TypeOK', ElectionInv, ElectionSafety, MatchingInv,
           NEW n \in Server, Submit(n)
    PROVE  MatchingInv'
<1> USE DEF MatchingInv
<1> DEFINE last == Len(log[n]) + 1
           new == [term |-> currentTerm[n], command |-> submitted + 1]
           v == OfLog(n)
           u == [prev |-> 0, prevTerm |-> 0, entries |-> log'[n]]
<1>1. /\ n \in Server /\ log \in [Server -> Seq(LogEntry)] /\ log[n] \in Seq(LogEntry)
      /\ Len(log[n]) \in Nat /\ state[n] = Leader
      /\ log' = [log EXCEPT ![n] = Append(log[n], new)]
      /\ UNCHANGED <<state, currentTerm, appendRequests, leaders>>
    BY DEF TypeOK, CMTypeOK, Submit, SubmitToLeader, appendVars, historyVars
<1>2. /\ v \in Stretch /\ v \in Stretches /\ u \in Stretch /\ Stretches \subseteq Stretch
      /\ new.term = currentTerm[n]
    BY <1>1, StretchesType DEF TypeOK, CMTypeOK, Stretches, Stretch, Term
<1>3. /\ v.prev = 0 /\ v.entries = log[n] /\ u.prev = 0 /\ u.entries = log'[n]
    BY DEF OfLog
<1>4. /\ Len(log'[n]) = last /\ log'[n][last] = new
      /\ \A i \in 1..Len(log[n]) : log'[n][i] = log[n][i]
    BY <1>1, AppendProperties
<1> HIDE DEF last, new, u, v
<1>5. ASSUME NEW x \in Stretches' PROVE x \in Stretches \/ x = u
    <2>1. ASSUME NEW p \in Server, p # n PROVE log'[p] = log[p]
        BY <1>1, <2>1
    <2> QED BY <1>1, <2>1 DEF Stretches, OfLog, u
<1>6. ASSUME NEW i \in Span(u)
      PROVE  /\ i \in Held(u) /\ i \in Nat
             /\ i # last => /\ i <= Len(log[n]) /\ i \in Span(v) /\ i \in Held(v)
                            /\ TermAt(u, i) = TermAt(v, i) /\ EntryAt(u, i) = EntryAt(v, i)
             /\ i = last => TermAt(u, i) = currentTerm[n]
    <2>1. i \in Nat /\ 0 < i /\ i <= last /\ i \in Held(u) /\ i - 0 = i
        BY <1>2, <1>3, <1>4, <1>6, StretchIndices DEF last
    <2>2. ASSUME i # last
          PROVE  /\ i <= Len(log[n]) /\ i \in Span(v) /\ i \in Held(v)
                 /\ TermAt(u, i) = TermAt(v, i) /\ EntryAt(u, i) = EntryAt(v, i)
        <3>1. i <= Len(log[n]) /\ i \in 1..Len(log[n])
            BY <1>1, <2>1, <2>2 DEF last
        <3>2. i \in Span(v) /\ i \in Held(v)
            BY <1>1, <1>2, <1>3, <2>1, <3>1, StretchIndices
        <3>3. EntryAt(u, i) = EntryAt(v, i)
            BY <1>3, <1>4, <2>1, <3>1 DEF EntryAt
        <3> QED BY <1>3, <2>1, <3>1, <3>2, <3>3 DEF TermAt
    <2>3. ASSUME i = last PROVE TermAt(u, i) = currentTerm[n]
        <3>1. EntryAt(u, i) = new
            BY <1>3, <1>4, <2>1, <2>3 DEF EntryAt
        <3> QED BY <1>2, <1>3, <2>1, <3>1 DEF TermAt
    <2> QED BY <2>1, <2>2, <2>3
<1>7. ASSUME NEW x \in Stretches, NEW i \in Span(x), TermAt(x, i) = currentTerm[n]
      PROVE  i <= Len(log[n])
    BY <1>1, <1>7 DEF LeaderIsAhead
<1>8. ASSUME NEW x \in Stretches PROVE Matching(u, x)
    <2> SUFFICES ASSUME NEW i \in Span(u), i \in Span(x), TermAt(u, i) = TermAt(x, i),
                        NEW j \in 1..i
                 PROVE  SameAt(u, x, j)
        BY DEF Matching
    <2>1. i # last
        BY <1>1, <1>6, <1>7 DEF last
    <2>2. Matching(v, x)
        BY <1>2 DEF StretchesMatch
    <2>3. SameAt(v, x, j)
        BY <1>6, <2>1, <2>2 DEF Matching
    <2>4. j # last /\ (j \in Held(u) => j \in Span(u))
        BY <1>1, <1>2, <1>6, <2>1, StretchIndices DEF last
    <2> QED BY <1>6, <2>3, <2>4 DEF SameAt
<1>9. StretchesMatch'
    <2> SUFFICES ASSUME NEW x \in Stretches', NEW y \in Stretches'
                 PROVE  Matching(x, y)
        BY DEF StretchesMatch
    <2>1. CASE x \in Stretches /\ y \in Stretches
        BY <2>1 DEF StretchesMatch
    <2>2. Matching(u, u)
        BY DEF Matching, SameAt
    <2>3. CASE x = u
        BY <1>5, <1>8, <2>2, <2>3
    <2>4. CASE x \in Stretches /\ y = u
        BY <1>8, <2>4, MatchingIsSymmetric
    <2> QED BY <1>5, <2>1, <2>3, <2>4
<1>10. ASSUME NEW x \in Stretches', NEW i \in Span(x)
       PROVE  \/ \E y \in Stretches : i \in Span(y) /\ TermAt(y, i) = TermAt(x, i)
              \/ i = last /\ TermAt(x, i) = currentTerm[n]
    BY <1>2, <1>5, <1>6
<1>11. EntriesHaveLeaders'
    <2>1. \E l \in leaders : l.term = currentTerm[n]
        <3>1. [server |-> n, term |-> currentTerm[n]] \in leaders
            BY <1>1 DEF ElectionInv, LeadersAreOnRecord
        <3> QED BY <3>1
    <2> SUFFICES ASSUME NEW x \in Stretches', NEW i \in Span(x)
                 PROVE  \E l \in leaders : l.term = TermAt(x, i)
        BY <1>1 DEF EntriesHaveLeaders
    <2>2. CASE \E y \in Stretches : i \in Span(y) /\ TermAt(y, i) = TermAt(x, i)
        BY <2>2 DEF EntriesHaveLeaders
    <2> QED BY <1>10, <2>1, <2>2
<1>12. LeaderIsAhead'
    <2> SUFFICES ASSUME NEW p \in Server, state[p] = Leader, NEW x \in Stretches',
                        NEW i \in Span(x), TermAt(x, i) = currentTerm[p]
                 PROVE  i <= Len(log'[p])
        BY <1>1 DEF LeaderIsAhead
    <2>1. Len(log'[p]) \in Nat /\ Len(log[p]) \in Nat /\ Len(log'[p]) >= Len(log[p])
          /\ i \in Nat
        <3>1. p # n => log'[p] = log[p]
            BY <1>1
        <3>2. i \in Nat
            BY <1>2, <1>5, StretchIndices
        <3> QED BY <1>1, <1>4, <3>1, <3>2 DEF last
    <2>2. CASE \E y \in Stretches : i \in Span(y) /\ TermAt(y, i) = TermAt(x, i)
        BY <2>1, <2>2 DEF LeaderIsAhead
    <2>3. CASE i = last /\ TermAt(x, i) = currentTerm[n]
        <3>1. p = n
            BY <1>1, <2>3 DEF ElectionInv, LeadersAreOnRecord, ElectionSafety
        <3> QED BY <1>4, <2>1, <2>3, <3>1
    <2> QED BY <1>10, <2>2, <2>3
<1>13. LeadersLead'
    BY <1>1 DEF LeadersLead
<1> QED BY <1>9, <1>11, <1>12, <1>13

-----------------------------------------------------------------------------
(* Every step preserves the invariant. *)
LEMMA NextMatchingInv ==
    ASSUME Calm, TypeOK, TypeOK', ElectionInv, ElectionSafety, ElectionSafety',
           MatchingInv, [Next]_vars
    PROVE  MatchingInv'
<1>1. ASSUME UNCHANGED <<state, currentTerm, log, appendRequests, leaders>>
      PROVE  MatchingInv'
    BY <1>1, UnconcernedMatchingInv
<1>2. CASE Step
    <2>1. CASE \/ \E c \in voteCalls : SendRequestVote(c)
               \/ \E n \in Server : LeaderSendAEs(n)
               \/ \E u \in unsaved : SaveCapture(u)
               \/ \E w \in saving : SaveWrite(w)
               \/ \E n \in Server : CommitChanSender(n)
        BY <1>1, <2>1 DEF SendRequestVote, LeaderSendAEs, SaveCapture, SaveWrite,
                          CommitChanSender, raftVars, appendVars, historyVars
    <2> QED BY <1>2, <2>1, StartElectionMatchingInv, RequestVoteHelperMatchingInv,
               RequestVoteReplyMatchingInv, StartLeaderMatchingInv,
               SendAppendEntriesMatchingInv, AppendEntriesHelperMatchingInv,
               AppendEntriesReplyMatchingInv
            DEF Step
<1>3. CASE \E n \in Server : Submit(n)
    BY <1>3, SubmitMatchingInv
<1>4. CASE CrashStep
    BY <1>4, CalmNeverCrashes
<1>5. CASE UNCHANGED vars
    BY <1>1, <1>5 DEF vars, raftVars, appendVars, historyVars
<1> QED BY <1>2, <1>3, <1>4, <1>5 DEF Next

(* The invariant says it of the logs of any two servers. *)
LEMMA LogsMatch ==
    ASSUME TypeOK, MatchingInv PROVE LogMatching
<1> SUFFICES ASSUME NEW m \in Server, NEW n \in Server,
                    NEW i \in 1..intMin(Len(log[m]), Len(log[n])),
                    log[m][i].term = log[n][i].term, NEW j \in 1..i
             PROVE  log[m][j] = log[n][j]
    BY DEF LogMatching
<1> DEFINE v == OfLog(m)
           w == OfLog(n)
<1>1. /\ v \in Stretch /\ w \in Stretch /\ v \in Stretches /\ w \in Stretches
      /\ v.prev = 0 /\ v.entries = log[m] /\ w.prev = 0 /\ w.entries = log[n]
    BY StretchesType DEF Stretches, OfLog
<1>2. /\ i \in Nat /\ i > 0 /\ j \in Nat /\ j > 0 /\ j <= i
      /\ i <= Len(log[m]) /\ i <= Len(log[n])
      /\ Len(log[m]) \in Nat /\ Len(log[n]) \in Nat
    <2>1. log[m] \in Seq(LogEntry) /\ log[n] \in Seq(LogEntry)
        BY DEF TypeOK, CMTypeOK
    <2>2. Len(log[m]) \in Nat /\ Len(log[n]) \in Nat
        BY <2>1
    <2> QED BY <2>2 DEF intMin
<1> HIDE DEF v, w
<1>3. /\ i \in Span(v) /\ i \in Span(w) /\ j \in Held(v) /\ j \in Held(w)
      /\ i - 0 = i /\ j - 0 = j
    <2>1. j <= Len(log[m]) /\ j <= Len(log[n])
        BY <1>2
    <2>2. i \in Span(v) /\ j \in Held(v)
        BY <1>1, <1>2, <2>1 DEF Span, Held
    <2>3. i \in Span(w) /\ j \in Held(w)
        BY <1>1, <1>2, <2>1 DEF Span, Held
    <2> QED BY <1>2, <2>2, <2>3
<1>4. /\ TermAt(v, i) = log[m][i].term /\ TermAt(w, i) = log[n][i].term
      /\ EntryAt(v, j) = log[m][j] /\ EntryAt(w, j) = log[n][j]
    BY <1>1, <1>2, <1>3 DEF TermAt, EntryAt
<1>5. SameAt(v, w, j)
    BY <1>1, <1>3, <1>4 DEF MatchingInv, StretchesMatch, Matching
<1> QED BY <1>3, <1>4, <1>5 DEF SameAt

(* At first there are no entries. *)
LEMMA InitMatchingInv ==
    ASSUME Init
    PROVE  MatchingInv /\ \A w \in Stretches : Span(w) = {}
<1>1. \A w \in Stretches : w.prev = 0 /\ w.entries = <<>>
    BY DEF Init, Stretches, OfLog
<1>2. \A w \in Stretches : Span(w) = {}
    BY <1>1 DEF Span
<1> QED BY <1>2 DEF MatchingInv, StretchesMatch, Matching, EntriesHaveLeaders,
                    LeaderIsAhead, LeadersLead, Init

(* Log matching: if responses are handled in the term of their election    *)
(* and nobody crashes, logs that agree on the term at an index agree on    *)
(* everything up to it, whatever the merge in AppendEntriesHelper has cut  *)
(* and spliced, and in whatever order the AppendEntries came.              *)
THEOREM CalmLogsMatch ==
    ASSUME Calm PROVE Spec => []LogMatching
<1>1. Init => VoteInv /\ ElectionInv
    BY InitElectionInv
<1>2. Init => MatchingInv
    BY InitMatchingInv
<1>3. TypeOK /\ VoteInv /\ [Next]_vars => VoteInv'
    BY NextVoteInv
<1>4. TypeOK /\ VoteInv /\ ElectionInv /\ [Next]_vars => ElectionInv'
    BY NextElectionInv
<1>5. /\ TypeOK /\ TypeOK' /\ ElectionInv /\ ElectionSafety /\ ElectionSafety'
      /\ MatchingInv /\ [Next]_vars
      => MatchingInv'
    BY NextMatchingInv
<1>6. TypeOK /\ MatchingInv => LogMatching
    BY LogsMatch
<1> QED BY <1>1, <1>2, <1>3, <1>4, <1>5, <1>6, TypeCorrect, CalmElectionsAreSafe, PTL DEF Spec

-----------------------------------------------------------------------------
(***************************************************************************)
(* A command gets into a log once, however it was forwarded.               *)
(***************************************************************************)

ForwardTypeOK ==
    /\ forwardCalls \in SUBSET ForwardCall
    /\ forwardRequests \in SUBSET ForwardRequest
    /\ forwardReplies \in SUBSET ForwardReply

(* Everything that may come to be a log, or a part of one: what a server   *)
(* has saved, or is about to save, too.                                    *)
Whole(entries) == [prev |-> 0, prevTerm |-> 0, entries |-> entries]

Copies == {Whole(log[n]) : n \in Server} \cup {OfRequest(m) : m \in appendRequests}
              \cup {Whole(disk[n].log) : n \in Server} \cup {Whole(w.data.log) : w \in saving}

CommandAt(w, i) == EntryAt(w, i).command

(* A command is at one and the same index wherever it is. *)
OnePlace ==
    \A v, w \in Copies : \A i \in Held(v), j \in Held(w) :
        CommandAt(v, i) = CommandAt(w, j) => i = j

(* The commands in the copies have been submitted. *)
CopiesAreSubmitted ==
    \A w \in Copies : \A i \in Held(w) : CommandAt(w, i) \in 1..submitted

(* A response that makes the server forward its command again.             *)
Refusals == {r \in forwardReplies : ~r.success}

(* A command that is being forwarded has been submitted and is in no log.  *)
New(command) ==
    /\ command \in 1..submitted
    /\ \A w \in Copies : \A i \in Held(w) : CommandAt(w, i) # command

ForwardedAreNew ==
    /\ \A c \in forwardCalls : New(c.command)
    /\ \A m \in forwardRequests : New(m.command)
    /\ \A r \in Refusals : New(r.command)

(* It is on its way once. *)
ForwardedOnce ==
    /\ \A c, d \in forwardCalls : c.command = d.command => c = d
    /\ \A m, k \in forwardRequests : m.command = k.command => m = k
    /\ \A r, s \in Refusals : r.command = s.command => r = s
    /\ \A c \in forwardCalls, m \in forwardRequests : c.command # m.command
    /\ \A c \in forwardCalls, r \in Refusals : c.command # r.command
    /\ \A m \in forwardRequests, r \in Refusals : m.command # r.command

(* The inductive invariant. *)
OnceInv == OnePlace /\ CopiesAreSubmitted /\ ForwardedAreNew /\ ForwardedOnce

-----------------------------------------------------------------------------
(* The copies are stretches of entries. *)
LEMMA CopiesType ==
    ASSUME TypeOK
    PROVE  /\ \A n \in Server : Whole(log[n]) \in Copies /\ Whole(disk[n].log) \in Copies
           /\ \A m \in appendRequests : OfRequest(m) \in Copies
           /\ \A w \in saving : Whole(w.data.log) \in Copies
           /\ Copies \subseteq Stretch
<1>1. \A n \in Server : log[n] \in Seq(LogEntry) /\ disk[n].log \in Seq(LogEntry)
    BY DEF TypeOK, CMTypeOK, StoreTypeOK, Snapshot
<1>2. \A w \in saving : w.data.log \in Seq(LogEntry)
    BY DEF TypeOK, StoreTypeOK, Snapshot
<1>3. \A m \in appendRequests : OfRequest(m) \in Stretch
    BY StretchesType
<1>4. \A entries \in Seq(LogEntry) : Whole(entries) \in Stretch
    BY DEF Whole, Stretch, Term
<1> QED BY <1>1, <1>2, <1>3, <1>4 DEF Copies

(* What a stretch that is a whole log holds. *)
LEMMA WholeHolds ==
    ASSUME NEW entries \in Seq(LogEntry)
    PROVE  /\ \A i : i \in Held(Whole(entries)) <=> i \in 1..Len(entries)
           /\ \A i \in 1..Len(entries) : EntryAt(Whole(entries), i) = entries[i]
<1>1. Whole(entries).prev = 0 /\ Whole(entries).entries = entries /\ Len(entries) \in Nat
    BY DEF Whole
<1>2. Held(Whole(entries)) = 1..Len(entries)
    BY <1>1 DEF Held
<1>3. ASSUME NEW i \in 1..Len(entries) PROVE EntryAt(Whole(entries), i) = entries[i]
    <2>1. i - 0 = i
        OBVIOUS
    <2> QED BY <1>1, <2>1 DEF EntryAt
<1> QED BY <1>2, <1>3

(* Every entry of the stretch is in a copy, at the same index.             *)
Traced(w) ==
    \A i \in Held(w) : \E x \in Copies : i \in Held(x) /\ EntryAt(x, i) = EntryAt(w, i)

(* Then nothing changes for any command.                                   *)
LEMMA TracedCopies ==
    ASSUME OnePlace, CopiesAreSubmitted, \A w \in Copies' : Traced(w),
           submitted' = submitted
    PROVE  /\ OnePlace' /\ CopiesAreSubmitted'
           /\ \A command : New(command) => New(command)'
<1>1. OnePlace'
    <2> SUFFICES ASSUME NEW v \in Copies', NEW w \in Copies', NEW i \in Held(v),
                        NEW j \in Held(w), CommandAt(v, i) = CommandAt(w, j)
                 PROVE  i = j
        BY DEF OnePlace
    <2>1. PICK x \in Copies : i \in Held(x) /\ EntryAt(x, i) = EntryAt(v, i)
        BY DEF Traced
    <2>2. PICK y \in Copies : j \in Held(y) /\ EntryAt(y, j) = EntryAt(w, j)
        BY DEF Traced
    <2> QED BY <2>1, <2>2 DEF OnePlace, CommandAt
<1>2. CopiesAreSubmitted'
    BY DEF CopiesAreSubmitted, CommandAt, Traced
<1>3. \A command : New(command) => New(command)'
    BY DEF New, CommandAt, Traced
<1> QED BY <1>1, <1>2, <1>3

(* A copy can be traced to itself. *)
LEMMA CopyIsTraced ==
    ASSUME NEW w \in Copies PROVE Traced(w)
BY DEF Traced

(* Steps that take no new copy. *)
LEMMA SameCopies ==
    ASSUME UNCHANGED <<log, disk>>, appendRequests' \subseteq appendRequests,
           saving' \subseteq saving
    PROVE  \A w \in Copies' : Traced(w)
<1>1. Copies' \subseteq Copies
    BY DEF Copies
<1> QED BY <1>1, CopyIsTraced

(* The goroutine of leaderSendAEs. *)
LEMMA SendAppendEntriesTraced ==
    ASSUME TypeOK, NEW c \in appendCalls, SendAppendEntries(c)
    PROVE  \A w \in Copies' : Traced(w)
<1>1. PICK new : /\ appendRequests' = appendRequests \cup {new}
                 /\ PartOf(OfRequest(new), OfLog(c.src))
    BY SentIsPart DEF SentBy
<1>2. UNCHANGED <<log, disk, saving>>
    BY DEF SendAppendEntries, raftVars, saveVars
<1>3. ASSUME NEW w \in Copies' PROVE w \in Copies \/ w = OfRequest(new)
    BY <1>1, <1>2 DEF Copies
<1>4. OfLog(c.src) \in Copies
    <2>1. OfLog(c.src) = Whole(log[c.src]) /\ c.src \in Server
        BY SentIsPart DEF OfLog, Whole
    <2> QED BY <2>1, CopiesType
<1>5. Traced(OfRequest(new))
    BY <1>1, <1>4 DEF Traced, PartOf
<1> QED BY <1>3, <1>5, CopyIsTraced

(* RequestVoteHelper, persistToStorage and SetState copy logs.             *)
LEMMA SavesTraced ==
    ASSUME TypeOK,
           \/ \E m \in voteRequests : RequestVoteHelper(m)
           \/ \E u \in unsaved : SaveCapture(u)
           \/ \E w \in saving : SaveWrite(w)
    PROVE  \A w \in Copies' : Traced(w)
<1>1. /\ disk \in [Server -> Snapshot]
      /\ \A m \in voteRequests : m.dst \in Server
      /\ \A u \in unsaved : u.server \in Server
      /\ \A w \in saving : w.server \in Server
    BY DEF TypeOK, StoreTypeOK, VoteTypeOK, VoteRequest
<1>2. ASSUME NEW m \in voteRequests, RequestVoteHelper(m) PROVE Copies' \subseteq Copies
    <2>1. /\ UNCHANGED <<log, appendRequests, saving>>
          /\ \E term, vote : disk' = [disk EXCEPT ![m.dst] = Saved(term, vote, log[m.dst])]
        BY <1>2 DEF RequestVoteHelper, appendVars, saveVars
    <2>2. \A n \in Server : disk'[n].log \in {disk[n].log, log[n]}
        BY <1>1, <2>1 DEF Saved
    <2> QED BY <2>1, <2>2 DEF Copies
<1>3. ASSUME NEW u \in unsaved, SaveCapture(u) PROVE Copies' \subseteq Copies
    <2>1. /\ UNCHANGED <<log, appendRequests, disk>>
          /\ \A w \in saving' : w \in saving \/ w.data.log = log[u.server]
        BY <1>3 DEF SaveCapture, raftVars, appendVars, Saved
    <2> QED BY <1>1, <2>1 DEF Copies
<1>4. ASSUME NEW w \in saving, SaveWrite(w) PROVE Copies' \subseteq Copies
    <2>1. /\ UNCHANGED <<log, appendRequests>> /\ saving' \subseteq saving
          /\ \A n \in Server : disk'[n] \in {disk[n], w.data}
        BY <1>1, <1>4 DEF SaveWrite, raftVars, appendVars
    <2> QED BY <2>1 DEF Copies
<1> QED BY <1>2, <1>3, <1>4, CopyIsTraced

(* AppendEntriesHelper: the merged log, which it saves too, has every entry *)
(* from the same index of the log before or of the request.                *)
LEMMA AppendEntriesHelperTraced ==
    ASSUME TypeOK, NEW m \in appendRequests, AppendEntriesHelper(m)
    PROVE  \A w \in Copies' : Traced(w)
<1> DEFINE n == m.dst
           merged == MergeEntries(log[n], m.prevLogIndex, m.entries)
<1>1. /\ n \in Server /\ log \in [Server -> Seq(LogEntry)] /\ disk \in [Server -> Snapshot]
      /\ log[n] \in Seq(LogEntry) /\ m.entries \in Seq(LogEntry) /\ m.prevLogIndex \in Nat
      /\ OfRequest(m) \in Stretch /\ OfRequest(m) \in Copies /\ Whole(log[n]) \in Copies
    BY CopiesType, StretchesType
    DEF TypeOK, CMTypeOK, StoreTypeOK, AppendTypeOK, AppendRequest
<1>2. /\ appendRequests' \subseteq appendRequests /\ saving' = saving
      /\ \E new, term, vote :
             /\ log' = [log EXCEPT ![n] = new]
             /\ disk' = [disk EXCEPT ![n] = Saved(term, vote, new)]
             /\ \/ new = log[n]
                \/ new = merged /\ PrevMatches(log[n], m.prevLogIndex, m.prevLogTerm)
    BY DEF AppendEntriesHelper, saveVars
<1> HIDE DEF n, merged
<1>3. PICK new, term, vote :
          /\ log' = [log EXCEPT ![n] = new]
          /\ disk' = [disk EXCEPT ![n] = Saved(term, vote, new)]
          /\ \/ new = log[n]
             \/ new = merged /\ PrevMatches(log[n], m.prevLogIndex, m.prevLogTerm)
    BY <1>2
<1>4. ASSUME NEW w \in Copies' PROVE w \in Copies \/ w = Whole(new)
    <2>1. \A p \in Server : /\ log'[p] \in {log[p], new}
                            /\ disk'[p].log \in {disk[p].log, new}
        BY <1>1, <1>3 DEF Saved
    <2> QED BY <1>2, <2>1 DEF Copies
<1>5. CASE new = log[n]
    BY <1>1, <1>4, <1>5, CopyIsTraced
<1>6. CASE new = merged /\ PrevMatches(log[n], m.prevLogIndex, m.prevLogTerm)
    <2> DEFINE prev == m.prevLogIndex
               entries == m.entries
    <2>1. prev \in 0..Len(log[n]) /\ entries \in Seq(LogEntry) /\ prev \in Nat
          /\ Len(log[n]) \in Nat /\ Len(entries) \in Nat
        BY <1>1, <1>6 DEF PrevMatches
    <2>2. new = MergeEntries(log[n], prev, entries)
        BY <1>6 DEF merged
    <2>3. /\ OfRequest(m).prev = prev /\ OfRequest(m).entries = entries
        BY DEF OfRequest
    <2> HIDE DEF prev, entries
    <2>4. /\ new \in Seq(LogEntry)
          /\ \A i \in 1..prev : new[i] = log[n][i]
          /\ new # log[n] => Len(new) = prev + Len(entries)
          /\ \A k \in 1..Len(entries) :
                 \/ new[prev + k] = entries[k]
                 \/ prev + k <= Len(log[n]) /\ new[prev + k] = log[n][prev + k]
        <3>1. new \in Seq(LogEntry) /\ MergedFrom(new, log[n], prev, entries)
            BY <1>1, <2>1, <2>2, MergeEntriesType, MergeEntriesHolds
        <3> QED BY <3>1 DEF MergedFrom
    <2>5. ASSUME new # log[n], NEW i \in 1..Len(new)
          PROVE  \/ i \in 1..Len(log[n]) /\ new[i] = log[n][i]
                 \/ i \in Held(OfRequest(m)) /\ new[i] = EntryAt(OfRequest(m), i)
        <3>1. CASE i <= prev
            BY <2>1, <2>4, <2>5, <3>1
        <3>2. CASE prev < i
            <4>1. /\ i - prev \in 1..Len(entries) /\ prev + (i - prev) = i
                  /\ i \in (prev + 1)..(prev + Len(entries))
                BY <2>1, <2>4, <2>5, <3>2
            <4>2. i \in Held(OfRequest(m)) /\ EntryAt(OfRequest(m), i) = entries[i - prev]
                BY <2>3, <4>1 DEF Held, EntryAt
            <4>3. \/ new[i] = entries[i - prev]
                  \/ i <= Len(log[n]) /\ new[i] = log[n][i]
                BY <2>4, <4>1
            <4> QED BY <2>1, <2>5, <4>2, <4>3
        <3> QED BY <2>1, <3>1, <3>2
    <2>6. ASSUME new # log[n] PROVE Traced(Whole(new))
        <3> SUFFICES ASSUME NEW i \in Held(Whole(new))
                     PROVE  \E x \in Copies : i \in Held(x)
                                /\ EntryAt(x, i) = EntryAt(Whole(new), i)
            BY DEF Traced
        <3>1. i \in 1..Len(new) /\ EntryAt(Whole(new), i) = new[i]
            BY <2>4, WholeHolds
        <3>2. CASE i \in 1..Len(log[n]) /\ new[i] = log[n][i]
            BY <1>1, <3>1, <3>2, WholeHolds
        <3>3. CASE i \in Held(OfRequest(m)) /\ new[i] = EntryAt(OfRequest(m), i)
            BY <1>1, <3>1, <3>3
        <3> QED BY <2>5, <2>6, <3>1, <3>2, <3>3
    <2> QED BY <1>4, <1>5, <2>6, CopyIsTraced
<1> QED BY <1>3, <1>5, <1>6

(* A crash, between two writes of SetState too: the log that is restored   *)
(* was on the disk.                                                        *)
LEMMA RestartTraced ==
    ASSUME TypeOK, NEW n \in Server, NEW d \in Snapshot, NEW handled,
           Restart(n, d, handled), d.log = disk[n].log
    PROVE  \A w \in Copies' : Traced(w)
<1>1. log \in [Server -> Seq(LogEntry)] /\ disk \in [Server -> Snapshot]
    BY DEF TypeOK, CMTypeOK, StoreTypeOK
<1>2. /\ \A p \in Server : log'[p] \in {log[p], disk[p].log, <<>>}
      /\ \A p \in Server : disk'[p].log = disk[p].log
      /\ saving' \subseteq saving
    BY <1>1 DEF Restart
<1>3. ASSUME NEW k \in appendRequests' PROVE \E m \in appendRequests : OfRequest(k) = OfRequest(m)
    BY DEF Restart, Orphan, OfRequest, TypeOK, AppendTypeOK, AppendRequest
<1>4. ASSUME NEW w \in Copies' PROVE w \in Copies \/ w = Whole(<<>>)
    BY <1>2, <1>3 DEF Copies
<1>5. Traced(Whole(<<>>))
    BY DEF Traced, Held, Whole
<1> QED BY <1>4, <1>5, CopyIsTraced

(* The steps of Raft other than Submit. *)
LEMMA StepTraced ==
    ASSUME TypeOK, Step PROVE (\A w \in Copies' : Traced(w)) /\ submitted' = submitted
<1>1. CASE \/ \E n \in Server : StartElection(n)
           \/ \E c \in voteCalls : SendRequestVote(c)
           \/ \E r \in voteReplies : RequestVoteReply(r)
           \/ \E s \in starting : StartLeader(s)
           \/ \E n \in Server : LeaderSendAEs(n)
           \/ \E r \in appendReplies : AppendEntriesReply(r)
           \/ \E n \in Server : CommitChanSender(n)
    BY <1>1, SameCopies
    DEF StartElection, SendRequestVote, RequestVoteReply, StartLeader, LeaderSendAEs,
        AppendEntriesReply, CommitChanSender, raftVars, appendVars, saveVars
<1>2. CASE \/ \E m \in voteRequests : RequestVoteHelper(m)
           \/ \E u \in unsaved : SaveCapture(u)
           \/ \E w \in saving : SaveWrite(w)
    BY <1>2, SavesTraced DEF RequestVoteHelper, SaveCapture, SaveWrite
<1>3. CASE \E c \in appendCalls : SendAppendEntries(c)
    BY <1>3, SendAppendEntriesTraced DEF SendAppendEntries
<1>4. CASE \E m \in appendRequests : AppendEntriesHelper(m)
    <2>1. \A w \in Copies' : Traced(w)
        BY <1>4, AppendEntriesHelperTraced
    <2>2. submitted' = submitted
        BY <1>4 DEF AppendEntriesHelper
    <2> QED BY <2>1, <2>2
<1> QED BY <1>1, <1>2, <1>3, <1>4 DEF Step

(* Submit on a leader: a command that is in no log gets into one.          *)
LEMMA SubmitToLeaderPlaces ==
    ASSUME TypeOK, OnePlace, CopiesAreSubmitted, NEW n \in Server, NEW command \in Nat,
           SubmitToLeader(n, command),
           \A w \in Copies : \A i \in Held(w) : CommandAt(w, i) # command,
           submitted' \in Nat, submitted <= submitted', command \in 1..submitted'
    PROVE  /\ OnePlace' /\ CopiesAreSubmitted'
           /\ \A k : New(k) /\ k # command => New(k)'
<1> DEFINE entry == [term |-> currentTerm[n], command |-> command]
           new == Append(log[n], entry)
           last == Len(log[n]) + 1
<1>1. /\ log \in [Server -> Seq(LogEntry)] /\ log[n] \in Seq(LogEntry) /\ submitted \in Nat
      /\ Whole(log[n]) \in Copies /\ Len(log[n]) \in Nat
      /\ log' = [log EXCEPT ![n] = new] /\ UNCHANGED <<appendRequests, disk, saving>>
    <2>1. log \in [Server -> Seq(LogEntry)] /\ log[n] \in Seq(LogEntry)
        BY DEF TypeOK, CMTypeOK
    <2>2. submitted \in Nat
        BY BoundsAssumption DEF TypeOK, StoreTypeOK
    <2>3. Whole(log[n]) \in Copies /\ Len(log[n]) \in Nat
        BY <2>1, CopiesType
    <2>4. log' = [log EXCEPT ![n] = new] /\ UNCHANGED <<appendRequests, disk, saving>>
        BY DEF SubmitToLeader, appendVars
    <2> QED BY <2>1, <2>2, <2>3, <2>4
<1>2. /\ Len(new) = last /\ new[last] = entry
      /\ \A i \in 1..Len(log[n]) : new[i] = log[n][i]
    BY <1>1, AppendProperties
<1>3. entry.command = command
    OBVIOUS
<1> HIDE DEF entry, new
<1>4. ASSUME NEW w \in Copies' PROVE w \in Copies \/ w = Whole(new)
    <2>1. \A p \in Server : log'[p] \in {log[p], new}
        BY <1>1
    <2> QED BY <1>1, <2>1 DEF Copies
<1>5. Held(Whole(new)) = 1..last /\ \A i \in 1..last : EntryAt(Whole(new), i) = new[i]
    <2>1. Whole(new).prev = 0 /\ Whole(new).entries = new
        BY DEF Whole
    <2>2. Held(Whole(new)) = 1..last
        BY <1>1, <1>2, <2>1 DEF Held
    <2>3. ASSUME NEW i \in 1..last PROVE EntryAt(Whole(new), i) = new[i]
        <3>1. i - 0 = i
            BY <1>1
        <3> QED BY <2>1, <3>1 DEF EntryAt
    <2> QED BY <2>2, <2>3
<1>6. ASSUME NEW w \in Copies', NEW i \in Held(w)
      PROVE  \/ \E x \in Copies : i \in Held(x) /\ CommandAt(x, i) = CommandAt(w, i)
             \/ i = last /\ CommandAt(w, i) = command
    <2>1. CASE w \in Copies
        BY <2>1
    <2>2. CASE w = Whole(new)
        <3>1. i \in 1..last /\ CommandAt(w, i) = new[i].command
            BY <1>5, <2>2 DEF CommandAt
        <3>2. CASE i = last
            BY <1>2, <1>3, <3>1, <3>2
        <3>3. CASE i # last
            <4>1. i \in 1..Len(log[n])
                BY <1>1, <3>1, <3>3
            <4>2. i \in Held(Whole(log[n])) /\ EntryAt(Whole(log[n]), i) = log[n][i]
                BY <1>1, <4>1, WholeHolds
            <4>3. CommandAt(Whole(log[n]), i) = CommandAt(w, i)
                BY <1>2, <3>1, <4>1, <4>2 DEF CommandAt
            <4> QED BY <1>1, <4>2, <4>3
        <3> QED BY <3>2, <3>3
    <2> QED BY <1>4, <2>1, <2>2
<1>7. OnePlace'
    <2> SUFFICES ASSUME NEW v \in Copies', NEW w \in Copies', NEW i \in Held(v),
                        NEW j \in Held(w), CommandAt(v, i) = CommandAt(w, j)
                 PROVE  i = j
        BY DEF OnePlace
    <2>1. CASE i = last /\ CommandAt(v, i) = command
        BY <1>6, <2>1
    <2>2. CASE j = last /\ CommandAt(w, j) = command
        BY <1>6, <2>2
    <2>3. ASSUME NEW x \in Copies, i \in Held(x), CommandAt(x, i) = CommandAt(v, i),
                 NEW y \in Copies, j \in Held(y), CommandAt(y, j) = CommandAt(w, j)
          PROVE  i = j
        BY <2>3 DEF OnePlace
    <2> QED BY <1>6, <2>1, <2>2, <2>3
<1>8. CopiesAreSubmitted'
    <2> SUFFICES ASSUME NEW w \in Copies', NEW i \in Held(w)
                 PROVE  CommandAt(w, i) \in 1..submitted'
        BY DEF CopiesAreSubmitted
    <2>1. CommandAt(w, i) \in 1..submitted \/ CommandAt(w, i) = command
        BY <1>6 DEF CopiesAreSubmitted
    <2> QED BY <1>1, <2>1
<1>9. ASSUME NEW k, New(k), k # command PROVE New(k)'
    <2>1. k \in 1..submitted'
        BY <1>1, <1>9 DEF New
    <2>2. \A w \in Copies' : \A i \in Held(w) : CommandAt(w, i) # k
        BY <1>6, <1>9 DEF New
    <2> QED BY <2>1, <2>2 DEF New
<1> QED BY <1>7, <1>8, <1>9

-----------------------------------------------------------------------------
(* Submit keeps the types, whichever branch it takes. *)
LEMMA SubmitHereTypeOK ==
    ASSUME TypeOK, ForwardTypeOK, NEW n \in Server, NEW command \in Command,
           SubmitHere(n, command), submitted' \in 0..MaxSubmits
    PROVE  TypeOK' /\ forwardCalls' \in SUBSET ForwardCall
<1>1. CASE SubmitToLeader(n, command) /\ UNCHANGED forwardCalls
    BY <1>1, SubmitToLeaderTypeOK DEF ForwardTypeOK
<1>2. CASE SubmitElsewhere(n, command)
    <2>1. TypeOK'
        BY <1>2 DEF SubmitElsewhere, TypeOK, CMTypeOK, ElectionTypeOK, VoteTypeOK,
                    AppendTypeOK, StoreTypeOK, raftVars, commitVars, leaderVars,
                    electionVars, voteVars, appendVars, saveVars, historyVars
    <2>2. Called(n, command) \in ForwardCall
        BY DEF Called, ForwardCall
    <2> QED BY <1>2, <2>1, <2>2 DEF SubmitElsewhere, ForwardTypeOK
<1> QED BY <1>1, <1>2 DEF SubmitHere

(* The response of ForwardLeaderHelper. *)
LEMMA ReplyForwardType ==
    ASSUME ForwardTypeOK, NEW m \in forwardRequests, NEW success \in BOOLEAN,
           NEW id \in Server \cup {Nil}, ReplyForward(m, success, id)
    PROVE  forwardReplies' \in SUBSET ForwardReply
<1>1. m \in ForwardRequest
    BY DEF ForwardTypeOK
<1>2. [src |-> m.src, dst |-> m.dst, command |-> m.command, success |-> success,
       leaderId |-> id] \in ForwardReply
    BY <1>1 DEF ForwardRequest, ForwardReply
<1> QED BY <1>2 DEF ReplyForward, ForwardTypeOK

(* The process of n starts again with disk d, whose log is the one it had. *)
StartsAgain(n, d) ==
    /\ d.log = disk[n].log
    /\ \E handled : Restart(n, d, handled)
    /\ EndsForwards(n)

(* Every crash is such a restart: SetState writes the log last.            *)
LEMMA FCrashRestarts ==
    ASSUME TypeOK, ForwardTypeOK, FCrash \/ \E c \in forwardCalls : ForwardPanic(c)
    PROVE  \E n \in Server, d \in Snapshot : StartsAgain(n, d)
<1> USE DEF StartsAgain
<1>1. \A n \in Server : disk[n] \in Snapshot /\ currentTerm[n] \in Term
                           /\ votedFor[n] \in Server \cup {Nil}
    BY DEF TypeOK, StoreTypeOK, CMTypeOK
<1>2. ASSUME NEW e \in Snapshot, NEW s, NEW d \in Torn(e, s) PROVE d.log = e.log
    BY <1>2 DEF Torn, Snapshot
<1>3. ASSUME NEW n \in Server, Crash(n), EndsForwards(n)
      PROVE  \E d \in Snapshot : StartsAgain(n, d)
    BY <1>1, <1>3 DEF Crash
<1>4. ASSUME NEW m \in voteRequests, CrashVoting(m), EndsForwards(m.dst)
      PROVE  m.dst \in Server /\ \E d \in Snapshot : StartsAgain(m.dst, d)
    <2>1. m.dst \in Server /\ m.src \in Server /\ m.term \in Term
        BY DEF TypeOK, VoteTypeOK, VoteRequest
    <2>2. VoteSaving(m).term \in Term /\ VoteSaving(m).votedFor \in Server \cup {Nil}
        BY <1>1, <2>1 DEF VoteSaving
    <2>3. PICK d \in Torn(disk[m.dst], VoteSaving(m)) : Restart(m.dst, d, {m})
        BY <1>4 DEF CrashVoting
    <2> QED BY <1>1, <1>2, <1>4, <2>1, <2>2, <2>3, TornTypeOK
<1>5. ASSUME NEW m \in appendRequests, CrashAppending(m), EndsForwards(m.dst)
      PROVE  m.dst \in Server /\ \E d \in Snapshot : StartsAgain(m.dst, d)
    <2>1. m.dst \in Server /\ m.term \in Term
        BY DEF TypeOK, AppendTypeOK, AppendRequest
    <2>2. AppendSaving(m).term \in Term /\ AppendSaving(m).votedFor \in Server \cup {Nil}
        BY <1>1, <2>1 DEF AppendSaving
    <2>3. PICK d \in Torn(disk[m.dst], AppendSaving(m)) : Restart(m.dst, d, {m})
        BY <1>5 DEF CrashAppending
    <2> QED BY <1>1, <1>2, <1>5, <2>1, <2>2, <2>3, TornTypeOK
<1>6. ASSUME NEW w \in saving, CrashSaving(w), EndsForwards(w.server)
      PROVE  w.server \in Server /\ \E d \in Snapshot : StartsAgain(w.server, d)
    <2>1. w.server \in Server /\ w.data.term \in Term /\ w.data.votedFor \in Server \cup {Nil}
        BY DEF TypeOK, StoreTypeOK, Snapshot
    <2>2. PICK d \in Torn(disk[w.server], w.data) : Restart(w.server, d, {})
        BY <1>6 DEF CrashSaving
    <2> QED BY <1>1, <1>2, <1>6, <2>1, <2>2, TornTypeOK
<1>7. ASSUME NEW c \in forwardCalls, ForwardPanic(c)
      PROVE  c.src \in Server /\ \E d \in Snapshot : StartsAgain(c.src, d)
    <2>1. c.src \in Server /\ Crash(c.src) /\ EndsForwards(c.src)
        BY <1>7 DEF ForwardPanic, ForwardTypeOK, ForwardCall
    <2> QED BY <1>3, <2>1
<1> HIDE DEF StartsAgain
<1> QED BY <1>3, <1>4, <1>5, <1>6, <1>7 DEF FCrash

(* A crash. *)
LEMMA StartsAgainTypeOK ==
    ASSUME TypeOK, ForwardTypeOK, NEW n \in Server, NEW d \in Snapshot, StartsAgain(n, d)
    PROVE  TypeOK' /\ ForwardTypeOK'
<1>1. TypeOK'
    BY RestartTypeOK DEF StartsAgain
<1>2. forwardRequests' \in SUBSET ForwardRequest
    <2> SUFFICES ASSUME NEW m \in forwardRequests
                 PROVE  (IF m.src = n THEN [m EXCEPT !.live = FALSE] ELSE m) \in ForwardRequest
        BY DEF StartsAgain, EndsForwards, Orphan
    <2>1. m \in ForwardRequest
        BY DEF ForwardTypeOK
    <2> QED BY <2>1 DEF ForwardRequest
<1>3. forwardCalls' \in SUBSET ForwardCall /\ forwardReplies' \in SUBSET ForwardReply
    BY DEF StartsAgain, EndsForwards, Not, ForwardTypeOK
<1> QED BY <1>1, <1>2, <1>3 DEF ForwardTypeOK

(* Every step keeps the types. *)
LEMMA FNextTypeOK ==
    ASSUME TypeOK, ForwardTypeOK, [FNext]_<<vars, forwardVars>>
    PROVE  TypeOK' /\ ForwardTypeOK'
<1> USE DEF ForwardTypeOK
<1>1. /\ \A c \in forwardCalls : c \in ForwardCall /\ c.src \in Server /\ c.command \in Command
      /\ \A m \in forwardRequests : m \in ForwardRequest /\ m.dst \in Server
                                        /\ m.command \in Command
      /\ \A r \in forwardReplies : /\ r.src \in Server /\ r.command \in Command
                                   /\ r.leaderId \in Server \cup {Nil}
    BY DEF ForwardCall, ForwardRequest, ForwardReply
<1>2. /\ submitted \in 0..MaxSubmits
      /\ leaderid \in [Server -> Server \cup {Nil}]
    BY DEF TypeOK, StoreTypeOK, CMTypeOK
<1>3. ASSUME UNCHANGED vars PROVE TypeOK'
    BY <1>3, StutterTypeOK
<1>4. CASE Step /\ UNCHANGED forwardVars
    BY <1>4, NextTypeOK DEF Next, forwardVars
<1>5. ASSUME NEW n \in Server, SubmitAnywhere(n) PROVE TypeOK' /\ ForwardTypeOK'
    <2>1. submitted + 1 \in Command /\ submitted' \in 0..MaxSubmits
        BY <1>2, <1>5, BoundsAssumption DEF SubmitAnywhere, Command
    <2> QED BY <1>5, <2>1, SubmitHereTypeOK DEF SubmitAnywhere
<1>6. ASSUME NEW c \in forwardCalls, ForwardDropped(c) PROVE TypeOK' /\ ForwardTypeOK'
    BY <1>3, <1>6 DEF ForwardDropped
<1>7. ASSUME NEW c \in forwardCalls, ForwardSpawned(c) PROVE TypeOK' /\ ForwardTypeOK'
    <2>1. [c EXCEPT !.spawned = TRUE] \in ForwardCall
        BY <1>1 DEF ForwardCall
    <2> QED BY <1>3, <1>7, <2>1 DEF ForwardSpawned
<1>8. ASSUME NEW c \in forwardCalls, ForwardToLeader(c) PROVE TypeOK' /\ ForwardTypeOK'
    <2>1. [src |-> c.src, dst |-> leaderid[c.src], command |-> c.command,
           admitted |-> FALSE, live |-> TRUE] \in ForwardRequest
        BY <1>1, <1>8 DEF ForwardToLeader, Peers, ForwardRequest
    <2> QED BY <1>3, <1>8, <2>1 DEF ForwardToLeader
<1>9. ASSUME NEW m \in forwardRequests, ForwardAdmitted(m) PROVE TypeOK' /\ ForwardTypeOK'
    <2>1. [m EXCEPT !.admitted = TRUE] \in ForwardRequest
        BY <1>1 DEF ForwardRequest
    <2> QED BY <1>3, <1>9, <2>1 DEF ForwardAdmitted
<1>10. ASSUME NEW m \in forwardRequests, ForwardRefused(m) PROVE TypeOK' /\ ForwardTypeOK'
    <2>1. leaderid[m.dst] \in Server \cup {Nil} /\ FALSE \in BOOLEAN
        BY <1>1, <1>2
    <2>2. forwardReplies' \in SUBSET ForwardReply
        BY <1>10, <2>1, ReplyForwardType DEF ForwardRefused
    <2> QED BY <1>3, <1>10, <2>2 DEF ForwardRefused
<1>11. ASSUME NEW m \in forwardRequests, SubmitForwarded(m) PROVE TypeOK' /\ ForwardTypeOK'
    <2>1. m.dst \in Server \cup {Nil} /\ TRUE \in BOOLEAN
        BY <1>1
    <2>2. forwardReplies' \in SUBSET ForwardReply
        BY <1>11, <2>1, ReplyForwardType DEF SubmitForwarded
    <2>3. TypeOK' /\ forwardCalls' \in SUBSET ForwardCall
        BY <1>1, <1>2, <1>11, SubmitHereTypeOK DEF SubmitForwarded
    <2> QED BY <1>11, <2>2, <2>3 DEF SubmitForwarded
<1>12. ASSUME NEW r \in forwardReplies, ForwardSucceeded(r) PROVE TypeOK' /\ ForwardTypeOK'
    <2>1. newCommitReady' \in [Server -> Nat]
        BY <1>1, <1>12 DEF ForwardSucceeded, TypeOK, CMTypeOK
    <2>2. TypeOK'
        BY <1>12, <2>1 DEF ForwardSucceeded, TypeOK, CMTypeOK, ElectionTypeOK, VoteTypeOK,
            AppendTypeOK, StoreTypeOK, raftVars, leaderVars, electionVars,
            voteVars, appendVars, saveVars, historyVars
    <2> QED BY <1>12, <2>2 DEF ForwardSucceeded
<1>13. ASSUME NEW r \in forwardReplies, ForwardRetried(r) PROVE TypeOK' /\ ForwardTypeOK'
    <2>1. leaderid' \in [Server -> Server \cup {Nil}]
        BY <1>1, <1>2, <1>13 DEF ForwardRetried
    <2>2. TypeOK'
        BY <1>13, <2>1 DEF ForwardRetried, TypeOK, CMTypeOK, ElectionTypeOK, VoteTypeOK,
            AppendTypeOK, StoreTypeOK, commitVars, leaderVars, electionVars,
            voteVars, appendVars, saveVars, historyVars
    <2>3. Called(r.src, r.command) \in ForwardCall
        BY <1>1 DEF Called, ForwardCall
    <2> QED BY <1>13, <2>2, <2>3 DEF ForwardRetried
<1>14. CASE FCrash \/ \E c \in forwardCalls : ForwardPanic(c)
    BY <1>14, FCrashRestarts, StartsAgainTypeOK
<1>15. CASE UNCHANGED <<vars, forwardVars>>
    BY <1>3, <1>15 DEF forwardVars
<1> QED BY <1>4, <1>5, <1>6, <1>7, <1>8, <1>9, <1>10, <1>11, <1>12, <1>13, <1>14, <1>15
        DEF FNext, ForwardStep

-----------------------------------------------------------------------------
(* Steps that leave the logs alone leave every command where it is.        *)
LEMMA SameNew ==
    ASSUME OnePlace, CopiesAreSubmitted,
           UNCHANGED <<log, appendRequests, disk, saving, submitted>>
    PROVE  OnePlace' /\ CopiesAreSubmitted' /\ \A k : New(k) => New(k)'
<1>1. Copies' = Copies
    BY DEF Copies
<1> QED BY <1>1 DEF OnePlace, CopiesAreSubmitted, New

(* Steps of the forwarding goroutines and handlers: a command that is on   *)
(* its way goes on, comes back or is given up.                             *)
LEMMA ForwardingOnce ==
    ASSUME OnceInv, ForwardTypeOK,
           UNCHANGED <<log, appendRequests, disk, saving, submitted>>,
           \/ \E c \in forwardCalls :
                  ForwardDropped(c) \/ ForwardSpawned(c) \/ ForwardToLeader(c)
           \/ \E m \in forwardRequests : ForwardAdmitted(m) \/ ForwardRefused(m)
           \/ \E r \in forwardReplies : ForwardSucceeded(r) \/ ForwardRetried(r)
    PROVE  OnceInv'
<1> USE DEF OnceInv
<1>1. OnePlace' /\ CopiesAreSubmitted' /\ \A k : New(k) => New(k)'
    BY SameNew
<1>2. ASSUME NEW c \in forwardCalls, ForwardDropped(c)
      PROVE  ForwardedAreNew' /\ ForwardedOnce'
    <2>1. forwardCalls' \subseteq forwardCalls /\ UNCHANGED <<forwardRequests, forwardReplies>>
        BY <1>2 DEF ForwardDropped
    <2> QED BY <1>1, <2>1 DEF ForwardedAreNew, ForwardedOnce, Refusals
<1>3. ASSUME NEW c \in forwardCalls, ForwardSpawned(c)
      PROVE  ForwardedAreNew' /\ ForwardedOnce'
    <2> DEFINE d == [c EXCEPT !.spawned = TRUE]
    <2>1. /\ forwardCalls' = (forwardCalls \ {c}) \cup {d}
          /\ UNCHANGED <<forwardRequests, forwardReplies>> /\ d.command = c.command
        BY <1>3 DEF ForwardSpawned, ForwardTypeOK, ForwardCall
    <2> HIDE DEF d
    <2>2. ForwardedAreNew'
        BY <1>1, <2>1 DEF ForwardedAreNew, Refusals
    <2>3. ForwardedOnce'
        BY <2>1 DEF ForwardedOnce, Refusals
    <2> QED BY <2>2, <2>3
<1>4. ASSUME NEW c \in forwardCalls, ForwardToLeader(c)
      PROVE  ForwardedAreNew' /\ ForwardedOnce'
    <2> DEFINE m == [src |-> c.src, dst |-> leaderid[c.src], command |-> c.command,
                     admitted |-> FALSE, live |-> TRUE]
    <2>1. /\ forwardCalls' = forwardCalls \ {c}
          /\ forwardRequests' = forwardRequests \cup {m}
          /\ UNCHANGED forwardReplies /\ m.command = c.command
        BY <1>4 DEF ForwardToLeader
    <2> HIDE DEF m
    <2>2. ForwardedAreNew'
        BY <1>1, <2>1 DEF ForwardedAreNew, Refusals
    <2>3. ForwardedOnce'
        BY <2>1 DEF ForwardedOnce, Refusals
    <2> QED BY <2>2, <2>3
<1>5. ASSUME NEW m \in forwardRequests, ForwardAdmitted(m)
      PROVE  ForwardedAreNew' /\ ForwardedOnce'
    <2> DEFINE k == [m EXCEPT !.admitted = TRUE]
    <2>1. /\ forwardRequests' = (forwardRequests \ {m}) \cup {k}
          /\ UNCHANGED <<forwardCalls, forwardReplies>> /\ k.command = m.command
        BY <1>5 DEF ForwardAdmitted, ForwardTypeOK, ForwardRequest
    <2> HIDE DEF k
    <2>2. ForwardedAreNew'
        BY <1>1, <2>1 DEF ForwardedAreNew, Refusals
    <2>3. ForwardedOnce'
        BY <2>1 DEF ForwardedOnce, Refusals
    <2> QED BY <2>2, <2>3
<1>6. ASSUME NEW m \in forwardRequests, ForwardRefused(m)
      PROVE  ForwardedAreNew' /\ ForwardedOnce'
    <2> DEFINE r == [src |-> m.src, dst |-> m.dst, command |-> m.command,
                     success |-> FALSE, leaderId |-> leaderid[m.dst]]
    <2>1. /\ forwardRequests' = forwardRequests \ {m}
          /\ UNCHANGED forwardCalls /\ r.command = m.command
          /\ forwardReplies' \subseteq forwardReplies \cup {r}
        BY <1>6 DEF ForwardRefused, ReplyForward
    <2> HIDE DEF r
    <2>2. Refusals' \subseteq Refusals \cup {r}
        BY <2>1 DEF Refusals
    <2>3. ForwardedAreNew'
        BY <1>1, <2>1, <2>2 DEF ForwardedAreNew
    <2>4. ForwardedOnce'
        BY <2>1, <2>2 DEF ForwardedOnce
    <2> QED BY <2>3, <2>4
<1>7. ASSUME NEW r \in forwardReplies, ForwardSucceeded(r)
      PROVE  ForwardedAreNew' /\ ForwardedOnce'
    <2>1. Refusals' \subseteq Refusals /\ UNCHANGED <<forwardCalls, forwardRequests>>
        BY <1>7 DEF ForwardSucceeded, Refusals
    <2> QED BY <1>1, <2>1 DEF ForwardedAreNew, ForwardedOnce
<1>8. ASSUME NEW r \in forwardReplies, ForwardRetried(r)
      PROVE  ForwardedAreNew' /\ ForwardedOnce'
    <2> DEFINE c == Called(r.src, r.command)
    <2>1. /\ r \in Refusals /\ Refusals' = Refusals \ {r}
          /\ forwardCalls' = forwardCalls \cup {c} /\ c.command = r.command
          /\ UNCHANGED forwardRequests
        BY <1>8 DEF ForwardRetried, Refusals, Called
    <2> HIDE DEF c
    <2>2. ForwardedAreNew'
        BY <1>1, <2>1 DEF ForwardedAreNew
    <2>3. ForwardedOnce'
        BY <2>1 DEF ForwardedOnce
    <2> QED BY <2>2, <2>3
<1> QED BY <1>1, <1>2, <1>3, <1>4, <1>5, <1>6, <1>7, <1>8

(* Submit, with a command that is new and, from now on, on its way nowhere *)
(* else.                                                                   *)
LEMMA SubmitHereOnce ==
    ASSUME TypeOK, OnceInv, NEW n \in Server, NEW command \in Nat, SubmitHere(n, command),
           \A w \in Copies : \A i \in Held(w) : CommandAt(w, i) # command,
           submitted' \in Nat, submitted <= submitted', command \in 1..submitted',
           forwardRequests' \subseteq forwardRequests, Refusals' \subseteq Refusals,
           \A c \in forwardCalls : c.command # command,
           \A m \in forwardRequests' : m.command # command,
           \A r \in Refusals' : r.command # command
    PROVE  OnceInv'
<1> USE DEF OnceInv
<1>1. CASE SubmitToLeader(n, command) /\ UNCHANGED forwardCalls
    <2>1. /\ OnePlace' /\ CopiesAreSubmitted'
          /\ \A k : New(k) /\ k # command => New(k)'
        BY <1>1, SubmitToLeaderPlaces
    <2>2. ForwardedAreNew'
        BY <1>1, <2>1 DEF ForwardedAreNew
    <2>3. ForwardedOnce'
        BY <1>1 DEF ForwardedOnce
    <2> QED BY <2>1, <2>2, <2>3
<1>2. CASE SubmitElsewhere(n, command)
    <2> DEFINE c == Called(n, command)
    <2>1. /\ forwardCalls' = forwardCalls \cup {c} /\ c.command = command
          /\ UNCHANGED <<log, appendRequests, disk, saving>>
        BY <1>2 DEF SubmitElsewhere, raftVars, appendVars, saveVars, Called
    <2> HIDE DEF c
    <2>2. submitted \in Nat /\ Copies' = Copies
        BY <2>1, BoundsAssumption DEF TypeOK, StoreTypeOK, Copies
    <2>3. OnePlace'
        BY <2>2 DEF OnePlace
    <2>4. 1..submitted \subseteq 1..submitted'
        BY <2>2
    <2>5. CopiesAreSubmitted'
        BY <2>2, <2>4 DEF CopiesAreSubmitted
    <2>6. New(command)' /\ \A k : New(k) => New(k)'
        BY <2>2, <2>4 DEF New
    <2>7. ForwardedAreNew'
        BY <2>1, <2>6 DEF ForwardedAreNew
    <2>8. ForwardedOnce'
        BY <2>1 DEF ForwardedOnce
    <2> QED BY <2>3, <2>5, <2>7, <2>8
<1> QED BY <1>1, <1>2 DEF SubmitHere

(* A crash loses what the server was forwarding. *)
LEMMA StartsAgainOnce ==
    ASSUME TypeOK, ForwardTypeOK, OnceInv, NEW n \in Server, NEW d \in Snapshot,
           StartsAgain(n, d)
    PROVE  OnceInv'
<1> USE DEF OnceInv
<1>1. OnePlace' /\ CopiesAreSubmitted' /\ \A k : New(k) => New(k)'
    <2>1. PICK handled : Restart(n, d, handled)
        BY DEF StartsAgain
    <2>2. submitted' = submitted
        BY <2>1 DEF Restart
    <2>3. \A w \in Copies' : Traced(w)
        BY <2>1, RestartTraced DEF StartsAgain
    <2> QED BY <2>2, <2>3, TracedCopies
<1>2. forwardCalls' \subseteq forwardCalls /\ Refusals' \subseteq Refusals
    BY DEF StartsAgain, EndsForwards, Not, Refusals
<1> DEFINE Lost(m) == IF m.src = n THEN [m EXCEPT !.live = FALSE] ELSE m
<1>3. ASSUME NEW k \in forwardRequests'
      PROVE  \E m \in forwardRequests : k = Lost(m) /\ k.command = m.command
    <2>1. PICK m \in forwardRequests : k = Lost(m)
        BY DEF StartsAgain, EndsForwards, Orphan
    <2>2. Lost(m).command = m.command
        BY DEF ForwardTypeOK, ForwardRequest
    <2> QED BY <2>1, <2>2
<1> HIDE DEF Lost
<1>4. ForwardedAreNew'
    BY <1>1, <1>2, <1>3 DEF ForwardedAreNew
<1>5. ForwardedOnce'
    BY <1>2, <1>3 DEF ForwardedOnce
<1> QED BY <1>1, <1>4, <1>5

(* Every step preserves the invariant. *)
LEMMA FNextOnce ==
    ASSUME TypeOK, ForwardTypeOK, OnceInv, [FNext]_<<vars, forwardVars>> PROVE OnceInv'
<1> USE DEF OnceInv
<1>1. submitted \in Nat
    BY BoundsAssumption DEF TypeOK, StoreTypeOK
<1>2. CASE Step /\ UNCHANGED forwardVars
    <2>1. OnePlace' /\ CopiesAreSubmitted' /\ \A k : New(k) => New(k)'
        BY <1>2, StepTraced, TracedCopies
    <2> QED BY <1>2, <2>1 DEF forwardVars, ForwardedAreNew, ForwardedOnce, Refusals
<1>3. ASSUME NEW n \in Server, SubmitAnywhere(n) PROVE OnceInv'
    <2> DEFINE command == submitted + 1
    <2>1. /\ SubmitHere(n, command) /\ submitted' = command
          /\ UNCHANGED <<forwardRequests, forwardReplies>>
        BY <1>3 DEF SubmitAnywhere
    <2>2. /\ command \in Nat /\ submitted <= command /\ command \in 1..command
          /\ command \notin 1..submitted
        BY <1>1
    <2> HIDE DEF command
    <2>3. \A w \in Copies : \A i \in Held(w) : CommandAt(w, i) # command
        BY <2>2 DEF CopiesAreSubmitted
    <2>4. /\ \A c \in forwardCalls : c.command # command
          /\ \A m \in forwardRequests : m.command # command
          /\ \A r \in Refusals : r.command # command
        BY <2>2 DEF ForwardedAreNew, New
    <2>5. Refusals' = Refusals
        BY <2>1 DEF Refusals
    <2> QED BY <2>1, <2>2, <2>3, <2>4, <2>5, SubmitHereOnce
<1>4. ASSUME NEW m \in forwardRequests, SubmitForwarded(m) PROVE OnceInv'
    <2> DEFINE r == [src |-> m.src, dst |-> m.dst, command |-> m.command,
                     success |-> TRUE, leaderId |-> m.dst]
    <2>1. /\ SubmitHere(m.dst, m.command) /\ submitted' = submitted
          /\ forwardRequests' = forwardRequests \ {m}
          /\ forwardReplies' \subseteq forwardReplies \cup {r} /\ r.success
        BY <1>4 DEF SubmitForwarded, ReplyForward
    <2> HIDE DEF r
    <2>2. Refusals' \subseteq Refusals
        BY <2>1 DEF Refusals
    <2>3. /\ m.command \in 1..submitted
          /\ \A w \in Copies : \A i \in Held(w) : CommandAt(w, i) # m.command
        BY DEF ForwardedAreNew, New
    <2>4. /\ \A c \in forwardCalls : c.command # m.command
          /\ \A k \in forwardRequests' : k.command # m.command
          /\ \A s \in Refusals' : s.command # m.command
        BY <2>1, <2>2 DEF ForwardedOnce
    <2>5. m.dst \in Server /\ m.command \in Nat /\ submitted <= submitted
        BY <1>1, <2>3 DEF ForwardTypeOK, ForwardRequest
    <2> QED BY <1>1, <2>1, <2>2, <2>3, <2>4, <2>5, SubmitHereOnce
<1>5. CASE \/ \E c \in forwardCalls :
                  ForwardDropped(c) \/ ForwardSpawned(c) \/ ForwardToLeader(c)
           \/ \E m \in forwardRequests : ForwardAdmitted(m) \/ ForwardRefused(m)
           \/ \E r \in forwardReplies : ForwardSucceeded(r) \/ ForwardRetried(r)
    <2>1. UNCHANGED <<log, appendRequests, disk, saving, submitted>>
        BY <1>5 DEF ForwardDropped, ForwardSpawned, ForwardToLeader, ForwardAdmitted,
            ForwardRefused, ForwardSucceeded, ForwardRetried, vars, raftVars, appendVars,
            saveVars
    <2> QED BY <1>5, <2>1, ForwardingOnce
<1>6. CASE FCrash \/ \E c \in forwardCalls : ForwardPanic(c)
    BY <1>6, FCrashRestarts, StartsAgainOnce
<1>7. CASE UNCHANGED <<vars, forwardVars>>
    <2>1. UNCHANGED <<log, appendRequests, disk, saving, submitted>>
        BY <1>7 DEF vars, raftVars, appendVars, saveVars
    <2>2. OnePlace' /\ CopiesAreSubmitted' /\ \A k : New(k) => New(k)'
        BY <2>1, SameNew
    <2> QED BY <1>7, <2>2 DEF forwardVars, ForwardedAreNew, ForwardedOnce, Refusals
<1> QED BY <1>2, <1>3, <1>4, <1>5, <1>6, <1>7 DEF FNext, ForwardStep

(* A command is in a log at most once, for every cluster, however late the *)
(* vote responses are and whoever crashes: neither the retries of          *)
(* forwardToLeader nor the merge in AppendEntriesHelper nor a restart from *)
(* an old state of the disk brings a command into a log a second time.     *)
THEOREM ForwardedCommandsOnce == FSpec => []CommandOnce
<1>1. FInit => TypeOK /\ ForwardTypeOK /\ OnceInv
    <2> SUFFICES ASSUME FInit PROVE TypeOK /\ ForwardTypeOK /\ OnceInv
        OBVIOUS
    <2>1. TypeOK /\ Init /\ NoForward
        BY InitTypeOK DEF FInit
    <2>2. ForwardTypeOK /\ ForwardedAreNew /\ ForwardedOnce
        BY <2>1 DEF NoForward, ForwardTypeOK, ForwardedAreNew, ForwardedOnce, Refusals
    <2>3. \A w \in Copies : w = Whole(<<>>)
        BY <2>1 DEF Init, Copies
    <2>4. Held(Whole(<<>>)) = {}
        BY DEF Held, Whole
    <2>5. OnePlace /\ CopiesAreSubmitted
        BY <2>3, <2>4 DEF OnePlace, CopiesAreSubmitted
    <2> QED BY <2>1, <2>2, <2>5 DEF OnceInv
<1>2. TypeOK /\ ForwardTypeOK /\ [FNext]_<<vars, forwardVars>> => TypeOK' /\ ForwardTypeOK'
    BY FNextTypeOK
<1>3. TypeOK /\ ForwardTypeOK /\ OnceInv /\ [FNext]_<<vars, forwardVars>> => OnceInv'
    BY FNextOnce
<1>4. TypeOK /\ OnceInv => CommandOnce
    <2> SUFFICES ASSUME TypeOK, OnceInv, NEW n \in Server, NEW i \in DOMAIN log[n],
                        NEW j \in DOMAIN log[n], log[n][i].command = log[n][j].command
                 PROVE  i = j
        BY DEF CommandOnce
    <2> DEFINE w == Whole(log[n])
    <2>1. log[n] \in Seq(LogEntry) /\ w \in Copies
        BY CopiesType DEF TypeOK, CMTypeOK
    <2>2. i \in 1..Len(log[n]) /\ j \in 1..Len(log[n])
        BY <2>1, LenProperties
    <2>3. /\ i \in Held(w) /\ j \in Held(w)
          /\ CommandAt(w, i) = log[n][i].command /\ CommandAt(w, j) = log[n][j].command
        BY <2>1, <2>2, WholeHolds DEF CommandAt
    <2> QED BY <2>1, <2>3 DEF OnceInv, OnePlace
<1> QED BY <1>1, <1>2, <1>3, <1>4, PTL DEF FSpec
=============================================================================
