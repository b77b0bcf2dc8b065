-------------------------- MODULE RaftSafetyProofs --------------------------
(***************************************************************************)
(* What is committed stays, for every cluster: no leader is without it, no *)
(* server cuts it, and no two servers apply different commands at an       *)
(* index; provided no vote response is late, nobody crashes, and a leader  *)
(* that was deposed neither sends the AppendEntries it had begun nor       *)
(* counts the answers to earlier ones.  Where one of these fails the code  *)
(* does lose what was committed.                                           *)
(***************************************************************************)
EXTENDS RaftEntryProofs, RaftRefinement

(* A goroutine of leaderSendAEs reads the log in the term it was spawned   *)
(* in, ...                                                                 *)
SendsInTerm ==
    \A c \in appendCalls : SendAppendEntries(c) => currentTerm[c.src] = c.term

(* ... and is still in that term when the answer counts.                   *)
CountsInTerm ==
    \A r \in appendReplies :
        AppendEntriesReply(r) /\ AppendReplySuccess(r) => currentTerm[r.src] = r.term

RequestsInTerm == [][SendsInTerm]_vars
AnswersInTerm == [][CountsInTerm]_vars

(* Server n holds an entry of term t at index i. *)
Has(n, i, t) == i \in 1..Len(log[n]) /\ log[n][i].term = t

(* No entry is of a later term than its holder, or than the request that   *)
(* carries it.                                                             *)
EntriesOfThePast ==
    /\ \A n \in Server : \A i \in 1..Len(log[n]) : log[n][i].term <= currentTerm[n]
    /\ \A m \in appendRequests : \A i \in Span(OfRequest(m)) :
           TermAt(OfRequest(m), i) <= m.term

(* Terms never go down along a log. *)
Ascends(w) == \A i, j \in Span(w) : i <= j => TermAt(w, i) <= TermAt(w, j)

TermsAscend == \A w \in Stretches : Ascends(w)

(* What a leader has sent in its term is a part of its log. *)
LeaderSentParts ==
    \A n \in Server : state[n] = Leader =>
        \A m \in appendRequests : m.term = currentTerm[n] =>
            /\ m.prevLogIndex + Len(m.entries) <= Len(log[n])
            /\ \A i \in Span(OfRequest(m)) : TermAt(OfRequest(m), i) = log[n][i].term

RepliesAreToLeaders ==
    \A r \in appendReplies : r.success => [server |-> r.src, term |-> r.term] \in leaders

(* Peer p is on its way to tell leader n that it holds i entries, ...      *)
AckUnderWay(n, p, i) ==
    \E r \in appendReplies :
        /\ r.src = n /\ r.dst = p /\ r.success
        /\ r.term = currentTerm[n] /\ r.replyTerm = r.term
        /\ i <= LastSent(r)

(* ... or has told it. *)
Ack(n, p, i) == p # n /\ (i <= matchIndex[n][p] \/ AckUnderWay(n, p, i))

Acked(n, i) == {n} \cup {p \in Server : Ack(n, p, i)}

(* What a peer has acknowledged it holds as long as it is in the leader's  *)
(* term.                                                                   *)
AcksHold ==
    \A n \in Server : state[n] = Leader =>
        \A p \in Server : \A i \in Nat \ {0} : Ack(n, p, i) =>
            /\ i <= Len(log[n])
            /\ currentTerm[n] <= currentTerm[p]
            /\ currentTerm[p] = currentTerm[n] =>
                   i <= Len(log[p]) /\ log[p][i].term = log[n][i].term

(* Who asked for votes has reached the term it asked them for. *)
BallotsReached ==
    /\ \A c \in voteCalls \cup voteRequests : c.term <= currentTerm[c.src]
    /\ \A g \in grants : g.term <= currentTerm[g.candidate]

(* A candidate's requests describe its log. *)
CandidatesTell ==
    \A m \in voteRequests :
        state[m.src] = Candidate /\ currentTerm[m.src] = m.term =>
            /\ m.lastLogIndex = Len(log[m.src])
            /\ m.lastLogTerm = LastLogTerm(log[m.src])
-----------------------------------------------------------------------------
(***************************************************************************)
(* When an entry of term t at index i is safe.                             *)
(***************************************************************************)

(* Stretch w reaches index i, and has an entry of term t there; or begins  *)
(* beyond it, with an entry no older.                                      *)
Covers(w, i, t) ==
    /\ i <= w.prev + Len(w.entries)
    /\ i \in Span(w) => TermAt(w, i) = t
    /\ i < w.prev => w.prevTerm >= t

(* An entry of term u at index j makes a log as up to date as one that     *)
(* ends with an entry of term t at index i.                                *)
AsRecent(u, j, t, i) == u > t \/ (u = t /\ j >= i)

(* Every log as up to date as that has the entry. *)
RecentCover(i, t) ==
    \A w \in Stretches : \A j \in Span(w) :
        AsRecent(TermAt(w, j), j, t, i) => Covers(w, i, t)

(* So has everyone who led term t or a later one ... *)
LeadersCover(i, t) == \A l \in leaders : l.term >= t => Has(l.server, i, t)

(* ... and what they have sent. *)
RequestsCover(i, t) ==
    \A m \in appendRequests :
        /\ m.term > t => Covers(OfRequest(m), i, t)
        /\ m.term = t =>
               /\ i < m.prevLogIndex => m.prevLogTerm >= t
               /\ \A l \in leaders : l.term = t =>
                      \A j \in Span(OfRequest(m)) : j <= i =>
                          TermAt(OfRequest(m), j) = log[l.server][j].term

Covered(i, t) == RecentCover(i, t) /\ LeadersCover(i, t) /\ RequestsCover(i, t)

(* The servers of A hold it, and whoever they voted for in a later term    *)
(* has it too.                                                             *)
HeldBy(i, t, A) == \A p \in A : Has(p, i, t) /\ currentTerm[p] >= t

VotersSaw(i, t, A) ==
    \A g \in grants :
        /\ g.voter \in A /\ g.term > t
        /\ state[g.candidate] = Candidate /\ currentTerm[g.candidate] = g.term
        => Has(g.candidate, i, t)

Safe(i, t, A) == Covered(i, t) /\ HeldBy(i, t, A) /\ VotersSaw(i, t, A)

(* A majority is in later terms than leader n and has not acknowledged     *)
(* entry i: it will never be committed.                                    *)
Hopeless(n, i) ==
    \E V \in SUBSET Server :
        /\ Majority(V, Server)
        /\ \A v \in V : v \notin Acked(n, i) /\ currentTerm[v] > currentTerm[n]

(* One or the other holds for what a leader took in its term. *)
EntriesOfLeaders ==
    \A n \in Server : state[n] = Leader =>
        \A i, t \in Nat, A \in SUBSET Server :
            Has(n, i, t) /\ t = currentTerm[n] /\ A = Acked(n, i) =>
                Hopeless(n, i) \/ Safe(i, t, A)

(* Index c of a log is below an entry that is safe with a majority. *)
Anchored(c, i, t, A) ==
    /\ A \in SUBSET Server /\ Majority(A, Server)
    /\ c <= i /\ Safe(i, t, A)

CommitsAreSafe ==
    \A n \in Server : commitIndex[n] > 0 =>
        /\ commitIndex[n] <= Len(log[n])
        /\ \E i, t \in Nat, A \in SUBSET Server :
               /\ Anchored(commitIndex[n], i, t, A) /\ t <= currentTerm[n]
               /\ \A h \in A : log[n][commitIndex[n]].term = log[h][commitIndex[n]].term

SentCommitsAreSafe ==
    \A m \in appendRequests : m.leaderCommit > 0 =>
        /\ m.leaderCommit <= m.prevLogIndex + Len(m.entries)
        /\ \E i, t \in Nat, A \in SUBSET Server :
               Anchored(m.leaderCommit, i, t, A) /\ t <= m.term

(* Index k of what was handed over is entry k of the log. *)
AppliedFrom(s, w) ==
    \A k \in 1..Len(s) : s[k].index = k /\ s[k].command = w[k].command

(* What was handed to the application is the log up to lastApplied. *)
AppliedIsCommitted ==
    \A n \in Server :
        /\ Len(applied[n]) = lastApplied[n] /\ lastApplied[n] <= commitIndex[n]
        /\ AppliedFrom(applied[n], log[n])
-----------------------------------------------------------------------------
(***************************************************************************)
(* Logs and requests.                                                      *)
(***************************************************************************)

(* The types the proofs need most. *)
LEMMA Types ==
    ASSUME TypeOK
    PROVE  /\ currentTerm \in [Server -> Nat] /\ state \in [Server -> CMState]
           /\ log \in [Server -> Seq(LogEntry)] /\ commitIndex \in [Server -> Nat]
           /\ \A n \in Server : /\ currentTerm[n] \in Nat /\ commitIndex[n] \in Nat
                                /\ log[n] \in Seq(LogEntry) /\ Len(log[n]) \in Nat
                                /\ \A i \in 1..Len(log[n]) : log[n][i].term \in Nat
           /\ \A m \in appendRequests :
                  /\ m.src \in Server /\ m.dst \in Server /\ m.term \in Nat
                  /\ m.prevLogIndex \in Nat /\ m.prevLogTerm \in Nat
                  /\ m.entries \in Seq(LogEntry) /\ Len(m.entries) \in Nat
                  /\ m.leaderCommit \in Nat
<1>1. /\ currentTerm \in [Server -> Nat] /\ state \in [Server -> CMState]
      /\ log \in [Server -> Seq(LogEntry)] /\ commitIndex \in [Server -> Nat]
    BY DEF TypeOK, CMTypeOK, Term
<1>2. ASSUME NEW n \in Server
      PROVE  /\ currentTerm[n] \in Nat /\ commitIndex[n] \in Nat
             /\ log[n] \in Seq(LogEntry) /\ Len(log[n]) \in Nat
             /\ \A i \in 1..Len(log[n]) : log[n][i].term \in Nat
    <2>1. log[n] \in Seq(LogEntry)
        BY <1>1
    <2>2. \A i \in 1..Len(log[n]) : log[n][i] \in LogEntry
        BY <2>1
    <2>3. \A i \in 1..Len(log[n]) : log[n][i].term \in Nat
        BY <2>2 DEF LogEntry, Term
    <2>4. currentTerm[n] \in Nat /\ commitIndex[n] \in Nat
        BY <1>1
    <2> QED BY <2>1, <2>3, <2>4
<1>3. ASSUME NEW m \in appendRequests
      PROVE  /\ m.src \in Server /\ m.dst \in Server /\ m.term \in Nat
             /\ m.prevLogIndex \in Nat /\ m.prevLogTerm \in Nat
             /\ m.entries \in Seq(LogEntry) /\ Len(m.entries) \in Nat
             /\ m.leaderCommit \in Nat
    <2>1. m \in AppendRequest
        BY DEF TypeOK, AppendTypeOK
    <2> QED BY <2>1 DEF AppendRequest, Term
<1> QED BY <1>1, <1>2, <1>3

(* The stretch of a log. *)
LEMMA LogStretch ==
    ASSUME NEW s \in Seq(LogEntry)
    PROVE  LET w == [prev |-> 0, prevTerm |-> 0, entries |-> s]
           IN /\ w \in Stretch
              /\ Span(w) = 1..Len(s) /\ Held(w) = 1..Len(s)
              /\ \A i \in 1..Len(s) : TermAt(w, i) = s[i].term /\ EntryAt(w, i) = s[i]
<1> DEFINE w == [prev |-> 0, prevTerm |-> 0, entries |-> s]
<1>1. w.prev = 0 /\ w.entries = s /\ Len(s) \in Nat /\ w \in Stretch
    BY DEF Stretch, Term
<1> HIDE DEF w
<1>2. Span(w) = 1..Len(s) /\ Held(w) = 1..Len(s)
    BY <1>1 DEF Span, Held
<1>3. ASSUME NEW i \in 1..Len(s) PROVE TermAt(w, i) = s[i].term /\ EntryAt(w, i) = s[i]
    <2>1. i - 0 = i /\ i # 0
        OBVIOUS
    <2> QED BY <1>1, <2>1 DEF TermAt, EntryAt
<1> QED BY <1>1, <1>2, <1>3 DEF w

(* The stretch of a server's log is one of those there are. *)
LEMMA OwnStretch ==
    ASSUME TypeOK, NEW n \in Server
    PROVE  /\ OfLog(n) \in Stretches /\ OfLog(n) \in Stretch
           /\ OfLog(n).prev = 0 /\ OfLog(n).entries = log[n]
           /\ Span(OfLog(n)) = 1..Len(log[n]) /\ Held(OfLog(n)) = 1..Len(log[n])
           /\ \A i \in 1..Len(log[n]) :
                  TermAt(OfLog(n), i) = log[n][i].term /\ EntryAt(OfLog(n), i) = log[n][i]
<1>1. log[n] \in Seq(LogEntry)
    BY Types
<1> QED BY <1>1, LogStretch DEF OfLog, Stretches

(* Where a request begins and ends. *)
LEMMA RequestStretch ==
    ASSUME TypeOK, NEW m \in appendRequests
    PROVE  /\ OfRequest(m) \in Stretches /\ OfRequest(m) \in Stretch
           /\ OfRequest(m).prev = m.prevLogIndex /\ OfRequest(m).prevTerm = m.prevLogTerm
           /\ OfRequest(m).entries = m.entries
           /\ \A i : i \in Span(OfRequest(m)) <=>
                  /\ i \in Nat /\ 0 < i /\ m.prevLogIndex <= i
                  /\ i <= m.prevLogIndex + Len(m.entries)
           /\ \A k \in 1..Len(m.entries) :
                  TermAt(OfRequest(m), m.prevLogIndex + k) = m.entries[k].term
           /\ \A i \in Span(OfRequest(m)) : TermAt(OfRequest(m), i) \in Nat
<1> DEFINE w == OfRequest(m)
<1>1. /\ w \in Stretches /\ w \in Stretch
      /\ w.prev = m.prevLogIndex /\ w.prevTerm = m.prevLogTerm /\ w.entries = m.entries
      /\ m.prevLogIndex \in Nat /\ m.prevLogTerm \in Nat
      /\ m.entries \in Seq(LogEntry) /\ Len(m.entries) \in Nat
    BY StretchesType, Types DEF Stretches, OfRequest
<1> HIDE DEF w
<1>2. \A i : i \in Span(w) <=>
          /\ i \in Nat /\ 0 < i /\ m.prevLogIndex <= i
          /\ i <= m.prevLogIndex + Len(m.entries)
    BY <1>1, StretchIndices
<1>3. ASSUME NEW k \in 1..Len(m.entries)
      PROVE  TermAt(w, m.prevLogIndex + k) = m.entries[k].term
    <2>1. m.prevLogIndex + k - m.prevLogIndex = k /\ m.prevLogIndex + k # m.prevLogIndex
        BY <1>1
    <2> QED BY <1>1, <2>1 DEF TermAt, EntryAt
<1>4. ASSUME NEW i \in Span(w) PROVE TermAt(w, i) \in Nat
    <2>1. CASE i = m.prevLogIndex
        BY <1>1, <2>1 DEF TermAt
    <2>2. CASE i # m.prevLogIndex
        <3>1. /\ i - m.prevLogIndex \in 1..Len(m.entries)
              /\ m.prevLogIndex + (i - m.prevLogIndex) = i
            BY <1>1, <1>2, <2>2
        <3>2. m.entries[i - m.prevLogIndex] \in LogEntry
            BY <1>1, <3>1
        <3> QED BY <1>3, <3>1, <3>2 DEF LogEntry, Term
    <2> QED BY <2>1, <2>2
<1> QED BY <1>1, <1>2, <1>3, <1>4 DEF w

(* Two logs that agree on a term agree on what is below. *)
LEMMA LogsAgree ==
    ASSUME TypeOK, LogMatching, NEW n \in Server, NEW h \in Server, NEW i \in Nat,
           i <= Len(log[n]), i <= Len(log[h]), log[n][i].term = log[h][i].term,
           NEW j \in 1..i
    PROVE  log[n][j] = log[h][j]
<1>1. i \in 1..intMin(Len(log[n]), Len(log[h]))
    BY Types DEF intMin
<1> QED BY <1>1 DEF LogMatching

(* So do a log and a request. *)
LEMMA RequestMatches ==
    ASSUME TypeOK, MatchingInv, NEW m \in appendRequests, NEW n \in Server,
           NEW i \in Span(OfRequest(m)), i <= Len(log[n]),
           TermAt(OfRequest(m), i) = log[n][i].term,
           NEW j \in Span(OfRequest(m)), j <= i
    PROVE  TermAt(OfRequest(m), j) = log[n][j].term
<1>1. i \in 1..Len(log[n]) /\ j \in 1..Len(log[n]) /\ j \in 1..i
    BY RequestStretch, Types
<1>2. i \in Span(OfLog(n)) /\ j \in Span(OfLog(n))
      /\ TermAt(OfLog(n), i) = log[n][i].term /\ TermAt(OfLog(n), j) = log[n][j].term
    BY <1>1, OwnStretch
<1>3. Matching(OfRequest(m), OfLog(n))
    BY RequestStretch, OwnStretch DEF MatchingInv, StretchesMatch
<1> QED BY <1>1, <1>2, <1>3 DEF Matching, SameAt

(* A request of term t or a later one agrees with a log on what is below   *)
(* an entry of term t that is covered.                                     *)
LEMMA RequestAgrees ==
    ASSUME TypeOK, MatchingInv, LogMatching, NEW i \in Nat, NEW t \in Nat, Covered(i, t),
           NEW h \in Server, Has(h, i, t), NEW m \in appendRequests, m.term >= t,
           NEW q \in Server, NEW c \in 1..i, c <= Len(log[q]),
           log[q][c].term = log[h][c].term,
           NEW j \in Span(OfRequest(m)), j <= c
    PROVE  TermAt(OfRequest(m), j) = log[q][j].term
<1>1. /\ i \in 1..Len(log[h]) /\ log[h][i].term = t /\ Len(log[h]) \in Nat
      /\ j \in Nat /\ 0 < j /\ m.term \in Nat /\ m.prevLogIndex <= j
      /\ m.prevLogIndex \in Nat
    BY RequestStretch, Types DEF Has
<1>2. j \in 1..c /\ j \in 1..i /\ j <= i /\ c \in Nat /\ c <= Len(log[h])
    BY <1>1
<1>3. log[q][j] = log[h][j]
    BY <1>2, LogsAgree
<1>4. CASE m.term > t
    <2>1. Covers(OfRequest(m), i, t)
        BY <1>4 DEF Covered, RequestsCover
    <2>2. i <= m.prevLogIndex + Len(m.entries)
        BY <2>1 DEF Covers, OfRequest
    <2>3. m.prevLogIndex <= i /\ 0 < i
        BY <1>1, <1>2
    <2>4. i \in Span(OfRequest(m))
        BY <2>2, <2>3, RequestStretch
    <2>5. TermAt(OfRequest(m), i) = t
        BY <2>1, <2>4 DEF Covers
    <2>6. TermAt(OfRequest(m), j) = log[h][j].term
        BY <1>1, <1>2, <2>4, <2>5, RequestMatches
    <2> QED BY <1>3, <2>6
<1>5. CASE m.term = t
    <2>1. PICK l \in leaders : l.term = t
        <3>1. i \in Span(OfLog(h)) /\ TermAt(OfLog(h), i) = t /\ OfLog(h) \in Stretches
            BY <1>1, OwnStretch
        <3> QED BY <3>1 DEF MatchingInv, EntriesHaveLeaders
    <2>2. Has(l.server, i, t) /\ l.server \in Server
        BY <2>1, HistoryFields DEF Covered, LeadersCover
    <2>3. log[h][j] = log[l.server][j]
        <3>1. /\ i <= Len(log[h]) /\ i <= Len(log[l.server])
              /\ log[h][i].term = log[l.server][i].term
            BY <1>1, <2>2 DEF Has
        <3> DEFINE s == l.server
        <3>2. s \in Server /\ i <= Len(log[s]) /\ log[h][i].term = log[s][i].term
            BY <2>2, <3>1
        <3> HIDE DEF s
        <3>3. log[h][j] = log[s][j]
            BY <1>2, <3>1, <3>2, LogsAgree
        <3> QED BY <3>3 DEF s
    <2>4. TermAt(OfRequest(m), j) = log[l.server][j].term
        BY <1>2, <1>5, <2>1 DEF Covered, RequestsCover
    <2> QED BY <1>3, <2>3, <2>4
<1> QED BY <1>1, <1>4, <1>5

(* What happens when follower m.dst accepts request m. *)
Taken(m) ==
    LET q == m.dst
    IN /\ m.term >= currentTerm[q] /\ currentTerm'[q] = m.term
       /\ state'[q] = Follower
       /\ PrevMatches(log[q], m.prevLogIndex, m.prevLogTerm)
       /\ log'[q] = MergeEntries(log[q], m.prevLogIndex, m.entries)
       /\ commitIndex'[q] = IF m.leaderCommit > commitIndex[q]
                            THEN intMin(m.leaderCommit, Len(log'[q]))
                            ELSE commitIndex[q]
       /\ \A r \in appendReplies' : r \in appendReplies \/
              /\ r.src = m.src /\ r.dst = q /\ r.term = m.term
              /\ LastSent(r) = m.prevLogIndex + Len(m.entries)

(* It accepts it, or leaves its log and commitIndex alone and says no.     *)
Refused ==
    /\ log' = log /\ commitIndex' = commitIndex
    /\ \A r \in appendReplies' : r \in appendReplies \/ ~r.success

(* A follower takes the term of a request that is not older than its own,  *)
(* and accepts the request or refuses it (AppendEntriesHelper).            *)
LEMMA TakenOrRefused ==
    ASSUME TypeOK, NEW m \in appendRequests, AppendEntriesHelper(m)
    PROVE  /\ m.dst \in Server
           /\ currentTerm' = [currentTerm EXCEPT ![m.dst] =
                                  IF m.term > currentTerm[m.dst] THEN m.term ELSE @]
           /\ \A p \in Server : p # m.dst =>
                  log'[p] = log[p] /\ state'[p] = state[p] /\ commitIndex'[p] = commitIndex[p]
           /\ state'[m.dst] \in {Follower, state[m.dst]}
           /\ m.term > currentTerm[m.dst] => state'[m.dst] = Follower
           /\ appendRequests' = appendRequests \ {m}
           /\ UNCHANGED <<leaders, grants, matchIndex, applied, lastApplied,
                          voteCalls, voteRequests, voteReplies, starting>>
           /\ Taken(m) \/ Refused
<1> DEFINE n == m.dst
           newer == Newer(n, m.term)
           term == IF newer THEN m.term ELSE currentTerm[n]
           current == InTerm(m, term)
           stepDown == newer \/ (current /\ state[n] # Follower)
           success == current /\ PrevMatches(log[n], m.prevLogIndex, m.prevLogTerm)
           newLog == IF success THEN MergeEntries(log[n], m.prevLogIndex, m.entries)
                                ELSE log[n]
           commit == success /\ m.leaderCommit > commitIndex[n]
           reply == [src |-> m.src, dst |-> n, round |-> m.round,
                     term |-> m.term, ni |-> m.prevLogIndex + 1,
                     sent |-> Len(m.entries), replyTerm |-> term, success |-> success]
<1>1. /\ currentTerm \in [Server -> Nat] /\ state \in [Server -> CMState]
      /\ log \in [Server -> Seq(LogEntry)] /\ commitIndex \in [Server -> Nat]
      /\ n \in Server /\ m.term \in Nat /\ m.prevLogIndex \in Nat /\ Len(m.entries) \in Nat
    BY Types
<1>2. /\ currentTerm' = [currentTerm EXCEPT ![n] = term]
      /\ state' = [state EXCEPT ![n] = IF stepDown THEN Follower ELSE @]
      /\ log' = [log EXCEPT ![n] = newLog]
      /\ commitIndex' = [commitIndex EXCEPT ![n] =
                             IF commit THEN intMin(m.leaderCommit, Len(newLog)) ELSE @]
      /\ appendRequests' = appendRequests \ {m}
      /\ appendReplies' \subseteq appendReplies \cup {reply}
      /\ UNCHANGED <<leaders, grants, matchIndex, applied, lastApplied,
                     voteCalls, voteRequests, voteReplies, starting>>
    BY DEF AppendEntriesHelper, historyVars, leaderVars, voteVars
<1>3. /\ newer <=> m.term > currentTerm[n]
      /\ newer => stepDown /\ term = m.term
      /\ ~newer => term = currentTerm[n]
      /\ current <=> m.term = term
      /\ stepDown <=> newer \/ (current /\ state[n] # Follower)
      /\ success <=> current /\ PrevMatches(log[n], m.prevLogIndex, m.prevLogTerm)
      /\ commit <=> success /\ m.leaderCommit > commitIndex[n]
      /\ success => newLog = MergeEntries(log[n], m.prevLogIndex, m.entries)
      /\ ~success => newLog = log[n]
    BY DEF Newer, InTerm
<1>4. /\ reply.src = m.src /\ reply.dst = n /\ reply.term = m.term
      /\ reply.success = success
      /\ LastSent(reply) = m.prevLogIndex + Len(m.entries)
    <2>1. /\ reply.src = m.src /\ reply.dst = n /\ reply.term = m.term
          /\ reply.success = success
          /\ reply.ni = m.prevLogIndex + 1 /\ reply.sent = Len(m.entries)
        OBVIOUS
    <2> HIDE DEF reply
    <2>2. LastSent(reply) = m.prevLogIndex + Len(m.entries)
        <3>1. \A a, b \in Nat : (a + 1) + b - 1 = a + b
            OBVIOUS
        <3>2. LastSent(reply) = (m.prevLogIndex + 1) + Len(m.entries) - 1
            BY <2>1 DEF LastSent
        <3> QED BY <1>1, <3>1, <3>2
    <2> QED BY <2>1, <2>2
<1> HIDE DEF n, newer, term, current, stepDown, success, newLog, commit, reply
<1>5. /\ currentTerm'[n] = term /\ log'[n] = newLog
      /\ state'[n] = IF stepDown THEN Follower ELSE state[n]
      /\ commitIndex'[n] = IF commit THEN intMin(m.leaderCommit, Len(newLog))
                                     ELSE commitIndex[n]
    BY <1>1, <1>2
<1>6. CASE success
    <2>1. m.term >= currentTerm[n] /\ term = m.term
        BY <1>1, <1>3, <1>6
    <2>2. state'[n] = Follower
        BY <1>3, <1>5, <1>6
    <2>3. PrevMatches(log[n], m.prevLogIndex, m.prevLogTerm)
          /\ log'[n] = MergeEntries(log[n], m.prevLogIndex, m.entries)
        BY <1>3, <1>5, <1>6
    <2>4. commitIndex'[n] = IF m.leaderCommit > commitIndex[n]
                            THEN intMin(m.leaderCommit, Len(log'[n])) ELSE commitIndex[n]
        BY <1>3, <1>5, <1>6
    <2>5. \A r \in appendReplies' : r \in appendReplies \/
              /\ r.src = m.src /\ r.dst = n /\ r.term = m.term
              /\ LastSent(r) = m.prevLogIndex + Len(m.entries)
        BY <1>2, <1>4
    <2> QED BY <1>1, <1>2, <1>3, <1>5, <2>1, <2>2, <2>3, <2>4, <2>5 DEF Taken, n
<1>7. CASE ~success
    <2>1. log' = log /\ commitIndex' = commitIndex
        BY <1>1, <1>2, <1>3, <1>7
    <2>2. Refused
        BY <1>2, <1>4, <1>7, <2>1 DEF Refused
    <2> QED BY <1>1, <1>2, <1>3, <1>5, <2>2 DEF n
<1> QED BY <1>6, <1>7

(* The log a follower has once it has accepted a request. *)
LEMMA TakenLog ==
    ASSUME TypeOK, NEW m \in appendRequests, Taken(m)
    PROVE  LET q == m.dst
               w == OfRequest(m)
           IN /\ m.prevLogIndex + Len(m.entries) <= Len(log'[q])
              /\ log'[q] = log[q] \/ Len(log'[q]) = m.prevLogIndex + Len(m.entries)
              /\ \A j \in Span(w) : j \in 1..Len(log'[q]) /\ log'[q][j].term = TermAt(w, j)
              /\ \A j \in 1..m.prevLogIndex : j <= Len(log[q]) /\ log'[q][j] = log[q][j]
              /\ \A c \in 1..Len(log[q]) :
                     (\A j \in Span(w) : j <= c => TermAt(w, j) = log[q][j].term) =>
                         c <= Len(log'[q]) /\ \A j \in 1..c : log'[q][j] = log[q][j]
              /\ \A j \in 1..Len(log'[q]) :
                     \/ j \in 1..Len(log[q]) /\ log'[q][j] = log[q][j]
                     \/ j \in Span(w) /\ m.prevLogIndex < j
<1> DEFINE q == m.dst
           w == OfRequest(m)
           prev == m.prevLogIndex
           entries == m.entries
           own == log[q]
           new == log'[q]
<1>1. /\ own \in Seq(LogEntry) /\ Len(own) \in Nat /\ prev \in Nat
      /\ entries \in Seq(LogEntry) /\ Len(entries) \in Nat
    BY Types
<1>2. new = MergeEntries(own, prev, entries) /\ PrevMatches(own, prev, m.prevLogTerm)
    BY DEF Taken
<1>3. prev \in 0..Len(own) /\ (prev > 0 => m.prevLogTerm = own[prev].term)
    BY <1>1, <1>2 DEF PrevMatches
<1>4. /\ \A i : i \in Span(w) <=>
             i \in Nat /\ 0 < i /\ prev <= i /\ i <= prev + Len(entries)
      /\ \A k \in 1..Len(entries) : TermAt(w, prev + k) = entries[k].term
      /\ TermAt(w, prev) = m.prevLogTerm
    BY RequestStretch DEF TermAt
<1> HIDE DEF q, w, prev, entries, own, new
<1>5. /\ new \in Seq(LogEntry) /\ MergedFrom(new, own, prev, entries)
    BY <1>1, <1>2, <1>3, MergeEntriesType, MergeEntriesHolds
<1>6. /\ Len(new) \in Nat /\ Len(new) >= prev + Len(entries)
      /\ \A i \in 1..prev : new[i] = own[i]
      /\ \A k \in 1..Len(entries) : new[prev + k].term = entries[k].term
      /\ new # own => Len(new) = prev + Len(entries)
    BY <1>5 DEF MergedFrom
<1>7. ASSUME NEW j \in Span(w) PROVE j \in 1..Len(new) /\ new[j].term = TermAt(w, j)
    <2>1. j \in Nat /\ 0 < j /\ prev <= j /\ j <= prev + Len(entries)
        BY <1>4
    <2>2. j \in 1..Len(new)
        BY <1>1, <1>6, <2>1
    <2>3. CASE j = prev
        <3>1. j \in 1..prev /\ prev > 0
            BY <1>1, <2>1, <2>3
        <3> QED BY <1>3, <1>4, <1>6, <2>2, <2>3, <3>1
    <2>4. CASE j # prev
        <3>1. j - prev \in 1..Len(entries) /\ prev + (j - prev) = j
            BY <1>1, <2>1, <2>4
        <3> QED BY <1>4, <1>6, <2>2, <3>1
    <2> QED BY <2>3, <2>4
<1>8. ASSUME NEW j \in 1..prev PROVE j <= Len(own) /\ new[j] = own[j]
    BY <1>1, <1>3, <1>6
<1>9. ASSUME NEW c \in 1..Len(own),
             \A j \in Span(w) : j <= c => TermAt(w, j) = own[j].term
      PROVE  c <= Len(new) /\ \A j \in 1..c : new[j] = own[j]
    <2>1. ASSUME NEW k \in 1..Len(entries), prev + k <= c
          PROVE  entries[k].term = own[prev + k].term
        <3>0. /\ prev + k \in Nat /\ 0 < prev + k /\ prev <= prev + k
              /\ prev + k <= prev + Len(entries)
            BY <1>1
        <3>1. prev + k \in Span(w)
            BY <1>4, <3>0
        <3>2. TermAt(w, prev + k) = own[prev + k].term
            BY <1>9, <2>1, <3>1
        <3> QED BY <1>4, <3>2
    <2>2. c \in 0..Len(own)
        OBVIOUS
    <2> QED BY <1>1, <1>2, <1>3, <2>1, <2>2, MergeKeeps
<1>10. ASSUME NEW j \in 1..Len(new)
       PROVE  \/ j \in 1..Len(own) /\ new[j] = own[j]
              \/ j \in Span(w) /\ prev < j
    <2>1. CASE new = own
        BY <2>1
    <2>2. CASE new # own
        <3>1. j \in Nat /\ 0 < j /\ j <= prev + Len(entries)
            BY <1>6, <2>2
        <3>2. CASE j <= prev
            <4>1. j \in 1..prev
                BY <1>1, <3>1, <3>2
            <4>2. j <= Len(own) /\ new[j] = own[j]
                BY <1>8, <4>1
            <4> QED BY <1>1, <3>1, <4>2
        <3>3. CASE prev < j
            BY <1>1, <1>4, <3>1, <3>3
        <3> QED BY <1>1, <3>1, <3>2, <3>3
    <2> QED BY <2>1, <2>2
<1>11. prev + Len(entries) <= Len(new)
    BY <1>1, <1>6
<1>12. new = own \/ Len(new) = prev + Len(entries)
    BY <1>6
<1> QED BY <1>7, <1>8, <1>9, <1>10, <1>11, <1>12 DEF q, w, prev, entries, own, new
-----------------------------------------------------------------------------
(***************************************************************************)
(* What a step does to each part of the state.                             *)
(***************************************************************************)

(* What was proved before. *)
Known ==
    /\ TypeOK /\ VoteInv /\ ElectionInv /\ ElectionSafety
    /\ MatchingInv /\ LogMatching

(* What the other modules prove goes on to hold. *)
LEMMA KnownKept ==
    ASSUME Calm, Known, [Next]_vars PROVE Known'
<1>1. TypeOK' /\ VoteInv' /\ ElectionInv'
    BY NextTypeOK, NextVoteInv, NextElectionInv DEF Known
<1>2. ElectionSafety'
    <2>1. (TypeOK /\ ElectionInv => ElectionSafety)'
        BY OneLeaderPerTerm, PTL
    <2> QED BY <1>1, <2>1
<1>3. MatchingInv'
    BY <1>1, <1>2, NextMatchingInv DEF Known
<1>4. LogMatching'
    <2>1. (TypeOK /\ MatchingInv => LogMatching)'
        BY LogsMatch, PTL
    <2> QED BY <1>1, <1>3, <2>1
<1> QED BY <1>1, <1>2, <1>3, <1>4 DEF Known

(* Nobody crashes. *)
LEMMA NoCrash ==
    ASSUME Calm, TypeOK, [Next]_vars
    PROVE  ~CrashStep /\ crashes' = crashes
<1>1. ~CrashStep
    BY CalmNeverCrashes
<1>2. Step => crashes' = crashes
    BY DEF Step, StartElection, SendRequestVote, RequestVoteHelper, RequestVoteReply,
           StartLeader, LeaderSendAEs, SendAppendEntries, AppendEntriesHelper,
           AppendEntriesReply, SaveCapture, SaveWrite, CommitChanSender
<1> QED BY <1>1, <1>2 DEF Next, Submit, SubmitToLeader, vars

(* No server goes back to an earlier term. *)
LEMMA TermsRise ==
    ASSUME Calm, TypeOK, [Next]_vars, NEW p \in Server
    PROVE  currentTerm'[p] \in Nat /\ currentTerm'[p] >= currentTerm[p]
<1>1. TypeOK'
    BY NextTypeOK
<1>2. currentTerm' \in [Server -> Nat]
    BY <1>1 DEF TypeOK, CMTypeOK, Term
<1> QED BY <1>2, NoCrash, StepTermsGrow DEF Calm

(* Who stands for election stood for it, or begins to; who leads led, or   *)
(* stood for election in its term.                                         *)
LEMMA Roles ==
    ASSUME Calm, TypeOK, [Next]_vars, NEW p \in Server
    PROVE  /\ state'[p] = Candidate =>
                  \/ state[p] = Candidate /\ currentTerm'[p] = currentTerm[p]
                  \/ StartElection(p)
           /\ state'[p] = Leader => currentTerm'[p] = currentTerm[p]
           /\ state'[p] = Leader /\ state[p] # Leader =>
                  \E s \in starting : s.src = p /\ StartLeader(s)
<1> DEFINE Stays == state'[p] = state[p] /\ currentTerm'[p] = currentTerm[p]
           Follows == state'[p] = Follower
<1>1. /\ currentTerm \in [Server -> Nat] /\ state \in [Server -> CMState]
      /\ Follower # Leader /\ Follower # Candidate /\ Candidate # Leader
    BY DEF TypeOK, CMTypeOK, Term, Follower, Leader, Candidate
<1>2. SUFFICES \/ Stays \/ Follows \/ StartElection(p)
               \/ \E s \in starting : s.src = p /\ StartLeader(s)
    <2>1. ASSUME StartElection(p) PROVE state'[p] = Candidate
        BY <1>1, <2>1 DEF StartElection
    <2>2. ASSUME NEW s \in starting, s.src = p, StartLeader(s)
          PROVE  state'[p] = Leader /\ currentTerm'[p] = currentTerm[p]
        BY <1>1, <2>2 DEF StartLeader, BecomeLeader
    <2> QED BY <1>1, <1>2, <2>1, <2>2
<1>3. ASSUME NEW n \in Server, StartElection(n), n # p PROVE Stays
    BY <1>1, <1>3 DEF StartElection
<1>4. ASSUME NEW m \in voteRequests, RequestVoteHelper(m) PROVE Stays \/ Follows
    BY <1>1, <1>4 DEF RequestVoteHelper
<1>5. ASSUME NEW r \in voteReplies, RequestVoteReply(r) PROVE Stays \/ Follows
    <2>1. CASE VoteReplyToLeader(r)
        BY <1>1, <2>1 DEF VoteReplyToLeader, BecomeLeader
    <2>2. CASE VoteReplyNewer(r)
        BY <1>1, <2>2 DEF VoteReplyNewer, BecomeFollower
    <2>3. CASE VoteReplyToFollower(r) \/ VoteReplyGranted(r) \/ VoteReplyRefused(r)
        BY <2>3 DEF VoteReplyToFollower, VoteReplyGranted, VoteReplyRefused
    <2> QED BY <1>5, <2>1, <2>2, <2>3 DEF RequestVoteReply
<1>6. ASSUME NEW s \in starting, StartLeader(s), s.src # p PROVE Stays
    BY <1>1, <1>6 DEF StartLeader, BecomeLeader
<1>7. ASSUME NEW m \in appendRequests, AppendEntriesHelper(m) PROVE Stays \/ Follows
    <2>1. /\ m.dst \in Server
          /\ m.dst # p => state'[p] = state[p]
          /\ state'[m.dst] \in {Follower, state[m.dst]}
          /\ m.term > currentTerm[m.dst] => state'[m.dst] = Follower
          /\ currentTerm' = [currentTerm EXCEPT ![m.dst] =
                                 IF m.term > currentTerm[m.dst] THEN m.term ELSE @]
        BY <1>7, TakenOrRefused
    <2> QED BY <1>1, <2>1
<1>8. ASSUME NEW r \in appendReplies, AppendEntriesReply(r) PROVE Stays \/ Follows
    <2>1. CASE AppendReplyNewer(r)
        BY <1>1, <2>1 DEF AppendReplyNewer, BecomeFollower
    <2>2. CASE AppendReplySuccess(r) \/ AppendReplyConflict(r) \/ AppendReplyIgnored(r)
        BY <2>2 DEF AppendReplySuccess, AppendReplyConflict, AppendReplyIgnored
    <2> QED BY <1>8, <2>1, <2>2 DEF AppendEntriesReply
<1>9. CASE \/ \E c \in voteCalls : SendRequestVote(c)
           \/ \E n \in Server : LeaderSendAEs(n) \/ CommitChanSender(n) \/ Submit(n)
           \/ \E c \in appendCalls : SendAppendEntries(c)
           \/ \E u \in unsaved : SaveCapture(u)
           \/ \E w \in saving : SaveWrite(w)
           \/ UNCHANGED vars
    BY <1>9 DEF SendRequestVote, LeaderSendAEs, CommitChanSender, Submit,
                SubmitToLeader, SendAppendEntries, SaveCapture, SaveWrite,
                vars, raftVars
<1> QED BY <1>3, <1>4, <1>5, <1>6, <1>7, <1>8, <1>9, NoCrash DEF Next, Step

(* A log stays, or takes the entries of a request, or the leader it is     *)
(* appends to it.                                                          *)
LEMMA LogSteps ==
    ASSUME Calm, TypeOK, [Next]_vars, NEW p \in Server
    PROVE  \/ log'[p] = log[p]
           \/ \E m \in appendRequests : m.dst = p /\ Taken(m) /\ AppendEntriesHelper(m)
           \/ Submit(p)
<1>1. log \in [Server -> Seq(LogEntry)]
    BY Types
<1>2. ASSUME NEW m \in appendRequests, AppendEntriesHelper(m)
      PROVE  log'[p] = log[p] \/ (m.dst = p /\ Taken(m))
    BY <1>2, TakenOrRefused DEF Refused
<1>3. ASSUME NEW n \in Server, Submit(n), n # p PROVE log'[p] = log[p]
    BY <1>1, <1>3 DEF Submit, SubmitToLeader
<1>4. CASE \/ \E n \in Server : StartElection(n) \/ LeaderSendAEs(n) \/ CommitChanSender(n)
           \/ \E c \in voteCalls : SendRequestVote(c)
           \/ \E m \in voteRequests : RequestVoteHelper(m)
           \/ \E r \in voteReplies : RequestVoteReply(r)
           \/ \E s \in starting : StartLeader(s)
           \/ \E c \in appendCalls : SendAppendEntries(c)
           \/ \E r \in appendReplies : AppendEntriesReply(r)
           \/ \E u \in unsaved : SaveCapture(u)
           \/ \E w \in saving : SaveWrite(w)
           \/ UNCHANGED vars
    BY <1>4 DEF StartElection, SendRequestVote, RequestVoteHelper, RequestVoteReply,
                StartLeader, LeaderSendAEs, SendAppendEntries, AppendEntriesReply,
                SaveCapture, SaveWrite, CommitChanSender, vars, raftVars
<1> QED BY <1>2, <1>3, <1>4, NoCrash DEF Next, Step

(* A leader appends an entry of its term. *)
LEMMA Submitted ==
    ASSUME TypeOK, NEW n \in Server, Submit(n)
    PROVE  /\ state[n] = Leader /\ Len(log'[n]) = Len(log[n]) + 1
           /\ log'[n][Len(log[n]) + 1].term = currentTerm[n]
           /\ \A j \in 1..Len(log[n]) : log'[n][j] = log[n][j]
           /\ \A p \in Server : p # n => log'[p] = log[p]
           /\ UNCHANGED <<state, currentTerm, appendRequests, appendReplies, matchIndex,
                          leaders, grants, voteRequests, commitIndex>>
<1> DEFINE new == [term |-> currentTerm[n], command |-> submitted + 1]
<1>1. /\ log \in [Server -> Seq(LogEntry)] /\ log[n] \in Seq(LogEntry)
      /\ log' = [log EXCEPT ![n] = Append(log[n], new)] /\ state[n] = Leader
      /\ UNCHANGED <<state, currentTerm, appendRequests, appendReplies, matchIndex,
                     leaders, grants, voteRequests, commitIndex>>
    BY Types DEF Submit, SubmitToLeader, appendVars, historyVars, leaderVars, voteVars,
                 commitVars
<1>2. new.term = currentTerm[n]
    OBVIOUS
<1> HIDE DEF new
<1>3. log'[n] = Append(log[n], new) /\ \A p \in Server : p # n => log'[p] = log[p]
    BY <1>1
<1> QED BY <1>1, <1>2, <1>3, AppendProperties

(* A request is a new one only when it is sent. *)
LEMMA RequestSteps ==
    ASSUME Calm, TypeOK, [Next]_vars, NEW m \in appendRequests'
    PROVE  m \in appendRequests \/ \E c \in appendCalls : SendAppendEntries(c) /\ SentBy(m, c)
<1>1. ASSUME NEW c \in appendCalls, SendAppendEntries(c)
      PROVE  m \in appendRequests \/ SentBy(m, c)
    BY <1>1, SentIsPart
<1>2. ASSUME NEW k \in appendRequests, AppendEntriesHelper(k) PROVE m \in appendRequests
    BY <1>2 DEF AppendEntriesHelper
<1>3. CASE \/ \E n \in Server : \/ StartElection(n) \/ LeaderSendAEs(n)
                                \/ CommitChanSender(n) \/ Submit(n)
           \/ \E c \in voteCalls : SendRequestVote(c)
           \/ \E k \in voteRequests : RequestVoteHelper(k)
           \/ \E r \in voteReplies : RequestVoteReply(r)
           \/ \E s \in starting : StartLeader(s)
           \/ \E r \in appendReplies : AppendEntriesReply(r)
           \/ \E u \in unsaved : SaveCapture(u)
           \/ \E w \in saving : SaveWrite(w)
           \/ UNCHANGED vars
    BY <1>3 DEF StartElection, SendRequestVote, RequestVoteHelper, RequestVoteReply,
                StartLeader, LeaderSendAEs, AppendEntriesReply, Submit, SubmitToLeader,
                SaveCapture, SaveWrite, CommitChanSender, vars, appendVars
<1> QED BY <1>1, <1>2, <1>3, NoCrash DEF Next, Step

(* Votes and leaderships stay on record; a vote is new when a server       *)
(* stands for election, or grants it to one whose log is up to date.       *)
LEMMA GrantSteps ==
    ASSUME Calm, TypeOK, [Next]_vars
    PROVE  /\ grants \subseteq grants'
           /\ \A g \in grants' :
                  \/ g \in grants
                  \/ g.candidate = g.voter /\ StartElection(g.voter) /\ log' = log
                  \/ \E m \in voteRequests :
                         /\ RequestVoteHelper(m) /\ g.voter = m.dst /\ g.term = m.term
                         /\ g.candidate = m.src
                         /\ UpToDate(m.lastLogTerm, m.lastLogIndex, log[m.dst])
<1>1. ASSUME NEW n \in Server, StartElection(n)
      PROVE  /\ grants \subseteq grants' /\ log' = log
             /\ \A g \in grants' : g \in grants \/ (g.candidate = n /\ g.voter = n)
    BY <1>1 DEF StartElection
<1>2. ASSUME NEW m \in voteRequests, RequestVoteHelper(m)
      PROVE  /\ grants \subseteq grants'
             /\ \A g \in grants' :
                    \/ g \in grants
                    \/ /\ g.voter = m.dst /\ g.term = m.term /\ g.candidate = m.src
                       /\ UpToDate(m.lastLogTerm, m.lastLogIndex, log[m.dst])
    <2> DEFINE n == m.dst
               newer == Newer(n, m.term)
               term == IF newer THEN m.term ELSE currentTerm[n]
               vote == IF newer THEN Nil ELSE votedFor[n]
               granted == GrantsVote(m, term, vote, log[n])
               new == [voter |-> n, term |-> m.term, candidate |-> m.src]
    <2>1. grants' = grants \cup {g \in {new} : granted}
        BY <1>2 DEF RequestVoteHelper
    <2>2. granted => UpToDate(m.lastLogTerm, m.lastLogIndex, log[n])
        BY DEF GrantsVote
    <2> HIDE DEF granted
    <2> QED BY <2>1, <2>2
<1>3. CASE \/ \E n \in Server : LeaderSendAEs(n) \/ CommitChanSender(n) \/ Submit(n)
           \/ \E c \in voteCalls : SendRequestVote(c)
           \/ \E r \in voteReplies : RequestVoteReply(r)
           \/ \E s \in starting : StartLeader(s)
           \/ \E c \in appendCalls : SendAppendEntries(c)
           \/ \E m \in appendRequests : AppendEntriesHelper(m)
           \/ \E r \in appendReplies : AppendEntriesReply(r)
           \/ \E u \in unsaved : SaveCapture(u)
           \/ \E w \in saving : SaveWrite(w)
           \/ UNCHANGED vars
    BY <1>3 DEF SendRequestVote, RequestVoteReply, StartLeader, LeaderSendAEs,
                SendAppendEntries, AppendEntriesHelper, AppendEntriesReply, Submit,
                SubmitToLeader, SaveCapture, SaveWrite, CommitChanSender, vars,
                historyVars
<1> QED BY <1>1, <1>2, <1>3, NoCrash DEF Next, Step

(* A leadership is new when a candidate begins to lead; nothing but its    *)
(* state changes then.                                                     *)
LEMMA LeaderSteps ==
    ASSUME Calm, Known, [Next]_vars
    PROVE  /\ leaders \subseteq leaders'
           /\ \A l \in leaders' : l \in leaders \/
                  /\ l.server \in Server /\ l.term = currentTerm[l.server]
                  /\ state[l.server] = Candidate
                  /\ UNCHANGED <<currentTerm, log, appendRequests, grants>>
<1> USE DEF Known
<1>1. ASSUME NEW s \in starting, StartLeader(s)
      PROVE  /\ leaders \subseteq leaders'
             /\ UNCHANGED <<currentTerm, log, appendRequests, grants>>
             /\ \A l \in leaders' : l \in leaders \/
                    /\ l.server \in Server /\ l.term = currentTerm[l.server]
                    /\ state[l.server] = Candidate
    <2>1. /\ s.src \in Server /\ state[s.src] \in {Candidate, Leader}
          /\ leaders' = leaders \cup {[server |-> s.src, term |-> currentTerm[s.src]]}
          /\ UNCHANGED <<currentTerm, log, appendRequests, grants>>
        BY <1>1 DEF StartLeader, BecomeLeader, Calm, TypeOK, VoteTypeOK, VoteCall,
                    CMTypeOK, CMState, appendVars
    <2>2. state[s.src] = Leader => [server |-> s.src, term |-> currentTerm[s.src]] \in leaders
        BY <2>1 DEF ElectionInv, LeadersAreOnRecord
    <2> QED BY <2>1, <2>2
<1>2. ASSUME NEW r \in voteReplies, RequestVoteReply(r) PROVE leaders' = leaders
    <2>1. CASE VoteReplyToLeader(r)
        <3>1. [server |-> r.src, term |-> currentTerm[r.src]] \in leaders
            BY <2>1 DEF VoteReplyToLeader, TypeOK, VoteTypeOK, VoteReply, ElectionInv,
                        LeadersAreOnRecord
        <3> QED BY <2>1, <3>1 DEF VoteReplyToLeader, BecomeLeader
    <2>2. CASE ~VoteReplyToLeader(r)
        BY <1>2, <2>2 DEF RequestVoteReply, VoteReplyToFollower, VoteReplyNewer,
                          VoteReplyGranted, VoteReplyRefused
    <2> QED BY <2>1, <2>2
<1>3. CASE \/ \E n \in Server : \/ StartElection(n) \/ LeaderSendAEs(n)
                                \/ CommitChanSender(n) \/ Submit(n)
           \/ \E c \in voteCalls : SendRequestVote(c)
           \/ \E m \in voteRequests : RequestVoteHelper(m)
           \/ \E c \in appendCalls : SendAppendEntries(c)
           \/ \E m \in appendRequests : AppendEntriesHelper(m)
           \/ \E r \in appendReplies : AppendEntriesReply(r)
           \/ \E u \in unsaved : SaveCapture(u)
           \/ \E w \in saving : SaveWrite(w)
           \/ UNCHANGED vars
    BY <1>3 DEF StartElection, SendRequestVote, RequestVoteHelper, LeaderSendAEs,
                SendAppendEntries, AppendEntriesHelper, AppendEntriesReply, Submit,
                SubmitToLeader, SaveCapture, SaveWrite, CommitChanSender, vars,
                historyVars
<1> QED BY <1>1, <1>2, <1>3, NoCrash DEF Next, Step

(* Who leads led before, with a log it may have appended to; or begins to, *)
(* with nothing acknowledged and in a term nobody led.                     *)
LEMMA LeadersStep ==
    ASSUME Calm, Known, [Next]_vars, NEW n \in Server, state'[n] = Leader
    PROVE  /\ currentTerm'[n] = currentTerm[n]
           /\ \/ state[n] = Leader /\ (log'[n] = log[n] \/ Submit(n))
              \/ /\ \A l \in leaders : l.term # currentTerm[n]
                 /\ UNCHANGED <<log, appendRequests, appendReplies>>
                 /\ \A p \in Server : p # n => matchIndex'[n][p] = 0
<1> USE DEF Known
<1>1. currentTerm'[n] = currentTerm[n]
    BY Roles
<1>2. CASE state[n] = Leader
    <2>1. ASSUME NEW m \in appendRequests, m.dst = n, AppendEntriesHelper(m)
          PROVE  log'[n] = log[n]
        BY <1>1, <2>1, AppendEntriesHelperRisesNot DEF NobodyRises
    <2> QED BY <1>1, <1>2, <2>1, LogSteps
<1>3. CASE state[n] # Leader
    <2>1. PICK s \in starting : s.src = n /\ StartLeader(s)
        BY <1>3, Roles
    <2>2. /\ UNCHANGED <<log, appendRequests, appendReplies>>
          /\ matchIndex' = [matchIndex EXCEPT ![n] =
                                [p \in Server |-> IF p = n THEN @[p] ELSE 0]]
          /\ matchIndex \in [Server -> [Server -> Nat]]
          /\ [server |-> n, term |-> currentTerm[n]] \in leaders'
          /\ leaders \subseteq leaders'
        BY <2>1 DEF StartLeader, BecomeLeader, appendVars, TypeOK, CMTypeOK
    <2>3. ASSUME NEW l \in leaders, l.term = currentTerm[n] PROVE FALSE
        <3>1. l.server = n
            BY <2>2, <2>3, KnownKept DEF ElectionSafety
        <3> QED BY <1>3, <2>3, <3>1 DEF MatchingInv, LeadersLead
    <2> QED BY <1>1, <2>2, <2>3
<1> QED BY <1>2, <1>3

(* A successful response is new when its follower has taken the request.   *)
LEMMA ReplySteps ==
    ASSUME Calm, TypeOK, [Next]_vars, NEW r \in appendReplies', r.success
    PROVE  \/ r \in appendReplies
           \/ \E m \in appendRequests :
                  /\ AppendEntriesHelper(m) /\ Taken(m)
                  /\ r.src = m.src /\ r.dst = m.dst /\ r.term = m.term
                  /\ LastSent(r) = m.prevLogIndex + Len(m.entries)
<1>1. ASSUME NEW m \in appendRequests, AppendEntriesHelper(m)
      PROVE  \/ r \in appendReplies
             \/ /\ Taken(m) /\ r.src = m.src /\ r.dst = m.dst /\ r.term = m.term
                /\ LastSent(r) = m.prevLogIndex + Len(m.entries)
    <2>1. CASE Taken(m)
        BY <2>1 DEF Taken
    <2>2. CASE Refused
        BY <2>2 DEF Refused
    <2> QED BY <1>1, <2>1, <2>2, TakenOrRefused
<1>2. ASSUME NEW k \in appendReplies, AppendEntriesReply(k) PROVE r \in appendReplies
    BY <1>2 DEF AppendEntriesReply
<1>3. CASE \/ \E n \in Server : \/ StartElection(n) \/ LeaderSendAEs(n)
                                \/ CommitChanSender(n) \/ Submit(n)
           \/ \E c \in voteCalls : SendRequestVote(c)
           \/ \E m \in voteRequests : RequestVoteHelper(m)
           \/ \E v \in voteReplies : RequestVoteReply(v)
           \/ \E s \in starting : StartLeader(s)
           \/ \E c \in appendCalls : SendAppendEntries(c)
           \/ \E u \in unsaved : SaveCapture(u)
           \/ \E w \in saving : SaveWrite(w)
           \/ UNCHANGED vars
    BY <1>3 DEF StartElection, SendRequestVote, RequestVoteHelper, RequestVoteReply,
                StartLeader, LeaderSendAEs, SendAppendEntries, Submit, SubmitToLeader,
                SaveCapture, SaveWrite, CommitChanSender, vars, appendVars
<1> QED BY <1>1, <1>2, <1>3, NoCrash DEF Next, Step

(* matchIndex moves on a response, or is set back when a server begins to  *)
(* lead.                                                                   *)
LEMMA MatchSteps ==
    ASSUME Calm, TypeOK, [Next]_vars, NEW n \in Server, NEW p \in Server, p # n
    PROVE  \/ matchIndex'[n][p] \in {matchIndex[n][p], 0}
           \/ \E r \in appendReplies :
                  /\ AppendEntriesReply(r) /\ AppendReplySuccess(r)
                  /\ r.src = n /\ r.dst = p /\ matchIndex'[n][p] = LastSent(r)
<1>1. matchIndex \in [Server -> [Server -> Nat]]
    BY DEF TypeOK, CMTypeOK
<1>2. ASSUME NEW q, BecomeLeader(q) PROVE matchIndex'[n][p] \in {matchIndex[n][p], 0}
    <2>1. matchIndex' = [matchIndex EXCEPT ![q] =
                             [k \in Server |-> IF k = q THEN @[k] ELSE 0]]
        BY <1>2 DEF BecomeLeader
    <2> QED BY <1>1, <2>1
<1>3. ASSUME NEW v \in voteReplies, RequestVoteReply(v)
      PROVE  matchIndex'[n][p] \in {matchIndex[n][p], 0}
    <2>1. CASE VoteReplyToLeader(v)
        BY <1>2, <2>1 DEF VoteReplyToLeader
    <2>2. CASE ~VoteReplyToLeader(v)
        BY <1>3, <2>2 DEF RequestVoteReply, VoteReplyToFollower, VoteReplyNewer,
                          VoteReplyGranted, VoteReplyRefused, leaderVars
    <2> QED BY <2>1, <2>2
<1>4. ASSUME NEW s \in starting, StartLeader(s)
      PROVE  matchIndex'[n][p] \in {matchIndex[n][p], 0}
    BY <1>2, <1>4 DEF StartLeader
<1>5. ASSUME NEW r \in appendReplies, AppendEntriesReply(r)
      PROVE  \/ matchIndex'[n][p] = matchIndex[n][p]
             \/ /\ AppendReplySuccess(r) /\ r.src = n /\ r.dst = p
                /\ matchIndex'[n][p] = LastSent(r)
    <2>1. CASE AppendReplySuccess(r)
        <3>1. matchIndex' = [matchIndex EXCEPT ![r.src] =
                                 [matchIndex[r.src] EXCEPT ![r.dst] = LastSent(r)]]
            BY <2>1 DEF AppendReplySuccess
        <3> QED BY <1>1, <2>1, <3>1
    <2>2. CASE ~AppendReplySuccess(r)
        BY <1>5, <2>2 DEF AppendEntriesReply, AppendReplyNewer, AppendReplyConflict,
                          AppendReplyIgnored, leaderVars
    <2> QED BY <2>1, <2>2
<1>6. CASE \/ \E q \in Server : \/ StartElection(q) \/ LeaderSendAEs(q)
                                \/ CommitChanSender(q) \/ Submit(q)
           \/ \E c \in voteCalls : SendRequestVote(c)
           \/ \E m \in voteRequests : RequestVoteHelper(m)
           \/ \E c \in appendCalls : SendAppendEntries(c)
           \/ \E m \in appendRequests : AppendEntriesHelper(m)
           \/ \E u \in unsaved : SaveCapture(u)
           \/ \E w \in saving : SaveWrite(w)
           \/ UNCHANGED vars
    BY <1>6 DEF StartElection, SendRequestVote, RequestVoteHelper, LeaderSendAEs,
                SendAppendEntries, AppendEntriesHelper, Submit, SubmitToLeader,
                SaveCapture, SaveWrite, CommitChanSender, vars, leaderVars
<1> QED BY <1>3, <1>4, <1>5, <1>6, NoCrash DEF Next, Step

(* A leader that stays one learns nothing that was not under way, and what *)
(* is under way was, or is what a follower answers now.                    *)
LEMMA AckSteps ==
    ASSUME Calm, TypeOK, [Next]_vars, CountsInTerm, NEW n \in Server, NEW p \in Server,
           NEW i \in Nat \ {0}, currentTerm'[n] = currentTerm[n], Ack(n, p, i)'
    PROVE  \/ Ack(n, p, i)
           \/ \E m \in appendRequests :
                  /\ AppendEntriesHelper(m) /\ Taken(m) /\ m.src = n /\ m.dst = p
                  /\ m.term = currentTerm[n] /\ i <= m.prevLogIndex + Len(m.entries)
<1>1. p # n
    BY DEF Ack
<1>2. CASE i <= matchIndex'[n][p]
    <2>1. CASE matchIndex'[n][p] \in {matchIndex[n][p], 0}
        BY <1>1, <1>2, <2>1 DEF Ack
    <2>2. ASSUME NEW r \in appendReplies, AppendEntriesReply(r), AppendReplySuccess(r),
                 r.src = n, r.dst = p, matchIndex'[n][p] = LastSent(r)
          PROVE  Ack(n, p, i)
        <3>1. r.term = currentTerm[n] /\ r.success /\ r.replyTerm = r.term
            BY <2>2 DEF CountsInTerm, AppendReplySuccess, Counts
        <3> QED BY <1>1, <1>2, <2>2, <3>1 DEF Ack, AckUnderWay
    <2> QED BY <1>1, <2>1, <2>2, MatchSteps
<1>3. CASE AckUnderWay(n, p, i)'
    <2>1. PICK r \in appendReplies' :
              /\ r.src = n /\ r.dst = p /\ r.success
              /\ r.term = currentTerm[n] /\ r.replyTerm = r.term /\ i <= LastSent(r)
        BY <1>3 DEF AckUnderWay
    <2>2. CASE r \in appendReplies
        BY <1>1, <2>1, <2>2 DEF Ack, AckUnderWay
    <2>3. ASSUME NEW m \in appendRequests, AppendEntriesHelper(m), Taken(m),
                 r.src = m.src, r.dst = m.dst, r.term = m.term,
                 LastSent(r) = m.prevLogIndex + Len(m.entries)
          PROVE  /\ m.src = n /\ m.dst = p /\ m.term = currentTerm[n]
                 /\ i <= m.prevLogIndex + Len(m.entries)
        BY <2>1, <2>3
    <2> QED BY <2>1, <2>2, <2>3, ReplySteps
<1> QED BY <1>2, <1>3 DEF Ack

(* commitIndex moves when a follower takes a request that says so, or when *)
(* a leader hears of a majority.                                           *)
LEMMA CommitSteps ==
    ASSUME Calm, TypeOK, [Next]_vars, NEW p \in Server
    PROVE  \/ commitIndex'[p] = commitIndex[p]
           \/ \E m \in appendRequests :
                  /\ AppendEntriesHelper(m) /\ Taken(m) /\ m.dst = p
                  /\ m.leaderCommit > commitIndex[p]
                  /\ commitIndex'[p] = intMin(m.leaderCommit, Len(log'[p]))
           \/ \E r \in appendReplies :
                  AppendEntriesReply(r) /\ AppendReplySuccess(r) /\ r.src = p
<1>1. commitIndex \in [Server -> Nat]
    BY Types
<1>2. ASSUME NEW m \in appendRequests, AppendEntriesHelper(m),
             commitIndex'[p] # commitIndex[p]
      PROVE  /\ Taken(m) /\ m.dst = p /\ m.leaderCommit > commitIndex[p]
             /\ commitIndex'[p] = intMin(m.leaderCommit, Len(log'[p]))
    <2>1. m.dst = p /\ Taken(m)
        BY <1>2, TakenOrRefused DEF Refused
    <2> QED BY <1>2, <2>1 DEF Taken
<1>3. ASSUME NEW r \in appendReplies, AppendEntriesReply(r),
             commitIndex'[p] # commitIndex[p]
      PROVE  AppendReplySuccess(r) /\ r.src = p
    <2>1. AppendReplySuccess(r)
        BY <1>3 DEF AppendEntriesReply, AppendReplyNewer, AppendReplyConflict,
                    AppendReplyIgnored
    <2> QED BY <1>1, <1>3, <2>1 DEF AppendReplySuccess
<1>4. CASE \/ \E n \in Server : \/ StartElection(n) \/ LeaderSendAEs(n)
                                \/ CommitChanSender(n) \/ Submit(n)
           \/ \E c \in voteCalls : SendRequestVote(c)
           \/ \E m \in voteRequests : RequestVoteHelper(m)
           \/ \E v \in voteReplies : RequestVoteReply(v)
           \/ \E s \in starting : StartLeader(s)
           \/ \E c \in appendCalls : SendAppendEntries(c)
           \/ \E u \in unsaved : SaveCapture(u)
           \/ \E w \in saving : SaveWrite(w)
           \/ UNCHANGED vars
    BY <1>4 DEF StartElection, SendRequestVote, RequestVoteHelper, RequestVoteReply,
                StartLeader, LeaderSendAEs, SendAppendEntries, Submit, SubmitToLeader,
                SaveCapture, SaveWrite, CommitChanSender, vars, commitVars
<1> QED BY <1>2, <1>3, <1>4, NoCrash DEF Next, Step

(* Vote requests come of an election that begins; each is sent with the    *)
(* log as it is.                                                           *)
LEMMA BallotSteps ==
    ASSUME Calm, TypeOK, [Next]_vars
    PROVE  /\ \A c \in voteCalls' \cup voteRequests' :
                  \/ \E b \in voteCalls \cup voteRequests : b.src = c.src /\ b.term = c.term
                  \/ c.src \in Server /\ StartElection(c.src) /\ c.term = currentTerm'[c.src]
           /\ \A m \in voteRequests' :
                  \/ m \in voteRequests
                  \/ /\ UNCHANGED log /\ m.lastLogIndex = Len(log[m.src])
                     /\ m.lastLogTerm = LastLogTerm(log[m.src])
<1>1. ASSUME NEW n \in Server, StartElection(n)
      PROVE  /\ \A c \in voteCalls' :
                    c \in voteCalls \/ (c.src = n /\ c.term = currentTerm'[n])
             /\ voteRequests' = voteRequests
    <2>1. currentTerm'[n] = currentTerm[n] + 1
        BY <1>1 DEF StartElection, TypeOK, CMTypeOK
    <2> QED BY <1>1, <2>1 DEF StartElection
<1>2. ASSUME NEW c \in voteCalls, SendRequestVote(c)
      PROVE  /\ voteCalls' \subseteq voteCalls /\ UNCHANGED log
             /\ \A m \in voteRequests' :
                    \/ m \in voteRequests
                    \/ /\ m.src = c.src /\ m.term = c.term
                       /\ m.lastLogIndex = Len(log[m.src])
                       /\ m.lastLogTerm = LastLogTerm(log[m.src])
    BY <1>2 DEF SendRequestVote, raftVars, LastLogIndex
<1>3. ASSUME NEW m \in voteRequests, RequestVoteHelper(m)
      PROVE  voteCalls' \subseteq voteCalls /\ voteRequests' \subseteq voteRequests
    BY <1>3 DEF RequestVoteHelper
<1>4. ASSUME NEW m \in appendRequests, AppendEntriesHelper(m)
      PROVE  voteCalls' \subseteq voteCalls /\ voteRequests' \subseteq voteRequests
    BY <1>4, TakenOrRefused
<1>5. CASE \/ \E n \in Server : LeaderSendAEs(n) \/ CommitChanSender(n) \/ Submit(n)
           \/ \E v \in voteReplies : RequestVoteReply(v)
           \/ \E s \in starting : StartLeader(s)
           \/ \E c \in appendCalls : SendAppendEntries(c)
           \/ \E r \in appendReplies : AppendEntriesReply(r)
           \/ \E u \in unsaved : SaveCapture(u)
           \/ \E w \in saving : SaveWrite(w)
           \/ UNCHANGED vars
    BY <1>5 DEF RequestVoteReply, StartLeader, LeaderSendAEs, SendAppendEntries,
                AppendEntriesReply, Submit, SubmitToLeader, SaveCapture, SaveWrite,
                CommitChanSender, vars, voteVars
<1> QED BY <1>1, <1>2, <1>3, <1>4, <1>5, NoCrash DEF Next, Step
-----------------------------------------------------------------------------
(***************************************************************************)
(* What is sent and acknowledged stays true.                               *)
(***************************************************************************)

(* The stretches after a step: those of before, a log that has changed, a  *)
(* request that is sent.                                                   *)
LEMMA StretchSteps ==
    ASSUME Calm, TypeOK, [Next]_vars, NEW w \in Stretches'
    PROVE  \/ w \in Stretches
           \/ \E p \in Server : w = [prev |-> 0, prevTerm |-> 0, entries |-> log'[p]]
                                /\ log'[p] # log[p]
           \/ \E m \in appendRequests' : \E c \in appendCalls :
                  w = OfRequest(m) /\ SendAppendEntries(c) /\ SentBy(m, c)
<1>1. CASE w \in {OfRequest(m) : m \in appendRequests'}
    BY <1>1, RequestSteps DEF Stretches
<1>2. ASSUME NEW p \in Server, w = [prev |-> 0, prevTerm |-> 0, entries |-> log'[p]]
      PROVE  w \in Stretches \/ log'[p] # log[p]
    BY <1>2 DEF Stretches, OfLog
<1> QED BY <1>1, <1>2 DEF Stretches, OfLog

(* A leader appends in its own term, and a request brings its term along.  *)
LEMMA NextEntriesOfThePast ==
    ASSUME Calm, Known, SendsInTerm, EntriesOfThePast, [Next]_vars
    PROVE  EntriesOfThePast'
<1> USE DEF Known
<1>1. ASSUME NEW p \in Server, NEW i \in 1..Len(log'[p])
      PROVE  log'[p][i].term <= currentTerm'[p]
    <2>1. /\ currentTerm[p] \in Nat /\ currentTerm'[p] \in Nat
          /\ currentTerm'[p] >= currentTerm[p]
        BY Types, TermsRise
    <2>2. /\ \A j \in 1..Len(log[p]) : log[p][j].term \in Nat
                                       /\ log[p][j].term <= currentTerm[p]
          /\ Len(log[p]) \in Nat
        BY Types DEF EntriesOfThePast
    <2>3. CASE i \in 1..Len(log[p]) /\ log'[p][i] = log[p][i]
        BY <2>1, <2>2, <2>3
    <2>4. CASE log'[p] = log[p]
        BY <2>3, <2>4
    <2>5. ASSUME NEW m \in appendRequests, m.dst = p, Taken(m)
          PROVE  log'[p][i].term <= currentTerm'[p]
        <3>1. \/ i \in 1..Len(log[p]) /\ log'[p][i] = log[p][i]
              \/ i \in Span(OfRequest(m)) /\ log'[p][i].term = TermAt(OfRequest(m), i)
            BY <2>5, TakenLog
        <3>2. currentTerm'[p] = m.term
            BY <2>5 DEF Taken
        <3> QED BY <2>3, <3>1, <3>2 DEF EntriesOfThePast
    <2>6. CASE Submit(p)
        <3>1. i \in 1..Len(log[p]) \/ i = Len(log[p]) + 1
            BY <2>2, <2>6, Submitted
        <3>2. i = Len(log[p]) + 1 => log'[p][i].term = currentTerm[p]
            BY <2>6, Submitted
        <3>3. i \in 1..Len(log[p]) => log'[p][i] = log[p][i]
            BY <2>6, Submitted
        <3> QED BY <2>1, <2>3, <3>1, <3>2, <3>3
    <2> QED BY <2>4, <2>5, <2>6, LogSteps
<1>2. ASSUME NEW m \in appendRequests', NEW i \in Span(OfRequest(m))
      PROVE  TermAt(OfRequest(m), i) <= m.term
    <2>1. ASSUME NEW c \in appendCalls, SendAppendEntries(c), SentBy(m, c)
          PROVE  TermAt(OfRequest(m), i) <= m.term
        <3>1. c.src \in Server /\ m.term = currentTerm[c.src]
            BY <2>1, SentIsPart DEF SendsInTerm, SentBy
        <3>2. i \in Span(OfLog(c.src)) /\ TermAt(OfRequest(m), i) = TermAt(OfLog(c.src), i)
            BY <2>1 DEF SentBy, PartOf
        <3> QED BY <3>1, <3>2, OwnStretch DEF EntriesOfThePast
    <2> QED BY <2>1, RequestSteps DEF EntriesOfThePast
<1> QED BY <1>1, <1>2 DEF EntriesOfThePast

(* A part of a stretch along which terms do not go down.                   *)
LEMMA PartAscends ==
    ASSUME NEW v, NEW w, PartOf(v, w), Ascends(w) PROVE Ascends(v)
BY DEF PartOf, Ascends

(* A log is appended to in a term no earlier than its last, and joined     *)
(* with a part of another where they agree.                                *)
LEMMA NextTermsAscend ==
    ASSUME Calm, Known, EntriesOfThePast, TermsAscend, [Next]_vars
    PROVE  TermsAscend'
<1> USE DEF Known
<1> SUFFICES ASSUME NEW w \in Stretches' PROVE Ascends(w)
    BY DEF TermsAscend
<1>1. ASSUME NEW p \in Server, w = [prev |-> 0, prevTerm |-> 0, entries |-> log'[p]]
      PROVE  Ascends(w)
    <2>1. /\ Span(w) = 1..Len(log'[p])
          /\ \A i \in 1..Len(log'[p]) : TermAt(w, i) = log'[p][i].term
        <3>1. log'[p] \in Seq(LogEntry)
            BY KnownKept DEF TypeOK, CMTypeOK
        <3> QED BY <1>1, <3>1, LogStretch
    <2>2. SUFFICES ASSUME NEW i \in 1..Len(log'[p]), NEW j \in 1..Len(log'[p]), i <= j
                   PROVE  log'[p][i].term <= log'[p][j].term
        BY <2>1 DEF Ascends
    <2>3. \A k, l \in 1..Len(log[p]) : k <= l => log[p][k].term <= log[p][l].term
        BY OwnStretch DEF TermsAscend, Ascends
    <2>4. CASE log'[p] = log[p]
        BY <2>2, <2>3, <2>4
    <2>5. ASSUME NEW m \in appendRequests, m.dst = p, Taken(m), log'[p] # log[p]
          PROVE  log'[p][i].term <= log'[p][j].term
        <3> DEFINE v == OfRequest(m)
                   prev == m.prevLogIndex
                   end == prev + Len(m.entries)
        <3>1. /\ Len(log'[p]) = end /\ prev \in Nat /\ Len(m.entries) \in Nat
              /\ \A k \in 1..prev : k \in 1..Len(log[p]) /\ log'[p][k] = log[p][k]
              /\ \A k \in Span(v) : log'[p][k].term = TermAt(v, k)
            BY <2>5, TakenLog, Types, SMTT(30)
        <3>2. \A k : k \in Span(v) <=> k \in Nat /\ 0 < k /\ prev <= k /\ k <= end
            BY RequestStretch
        <3>3. /\ \A k, l \in Span(v) : k <= l => TermAt(v, k) <= TermAt(v, l)
              /\ \A k \in Span(v) : TermAt(v, k) \in Nat
            BY RequestStretch DEF TermsAscend, Ascends
        <3>4. \A k \in 1..Len(log[p]) : log[p][k].term \in Nat
            BY Types
        <3> HIDE DEF v, prev, end
        <3>5. /\ i \in Nat /\ j \in Nat /\ 0 < i /\ 0 < j /\ i <= end /\ j <= end
              /\ end \in Nat /\ prev \in Nat
            BY <2>5, <3>1 DEF end
        <3>6. CASE j <= prev
            <4>1. i \in 1..prev /\ j \in 1..prev
                BY <2>2, <3>1, <3>5, <3>6
            <4> QED BY <2>2, <2>3, <3>1, <4>1
        <3>7. CASE prev <= i
            <4>1. i \in Span(v) /\ j \in Span(v)
                BY <2>2, <3>1, <3>2, <3>5, <3>7
            <4> QED BY <2>2, <3>1, <3>3, <4>1
        <3>8. CASE i < prev /\ prev < j
            <4>0. i \in 1..prev /\ prev \in 1..prev /\ prev <= end
                BY <3>5, <3>8
            <4>1. i \in 1..prev /\ prev \in 1..prev /\ prev \in Span(v) /\ j \in Span(v)
                BY <3>2, <3>5, <3>8, <4>0
            <4>2. log'[p][i].term <= log'[p][prev].term
                BY <2>3, <3>1, <3>8, <4>1
            <4>3. log'[p][prev].term <= log'[p][j].term
                BY <3>1, <3>3, <3>8, <4>1
            <4>4. /\ log'[p][i].term \in Nat /\ log'[p][prev].term \in Nat
                  /\ log'[p][j].term \in Nat
                BY <3>1, <3>3, <3>4, <4>1
            <4> QED BY <4>2, <4>3, <4>4
        <3> QED BY <3>1, <3>5, <3>6, <3>7, <3>8
    <2>6. CASE Submit(p)
        <3>1. /\ Len(log[p]) \in Nat /\ currentTerm[p] \in Nat
              /\ \A k \in 1..Len(log[p]) : log[p][k].term \in Nat
                                           /\ log[p][k].term <= currentTerm[p]
            BY Types DEF EntriesOfThePast
        <3>2. /\ Len(log'[p]) = Len(log[p]) + 1
              /\ log'[p][Len(log[p]) + 1].term = currentTerm[p]
              /\ \A k \in 1..Len(log[p]) : log'[p][k] = log[p][k]
            BY <2>6, Submitted
        <3>3. /\ i \in 1..Len(log[p]) \/ i = Len(log[p]) + 1
              /\ j \in 1..Len(log[p]) \/ j = Len(log[p]) + 1
            BY <3>1, <3>2
        <3>4. CASE j \in 1..Len(log[p])
            <4>1. i \in 1..Len(log[p])
                BY <2>2, <3>1, <3>3, <3>4
            <4>2. log[p][i].term <= log[p][j].term
                BY <2>2, <2>3, <3>4, <4>1
            <4> QED BY <3>2, <3>4, <4>1, <4>2
        <3>5. CASE j = Len(log[p]) + 1
            BY <3>1, <3>2, <3>3, <3>5
        <3> QED BY <3>3, <3>4, <3>5
    <2> QED BY <2>4, <2>5, <2>6, LogSteps
<1>2. ASSUME NEW m \in appendRequests', NEW c \in appendCalls, w = OfRequest(m),
             SendAppendEntries(c), SentBy(m, c)
      PROVE  Ascends(w)
    <2>1. Ascends(OfLog(c.src))
        BY <1>2, SentIsPart, OwnStretch DEF TermsAscend
    <2> QED BY <1>2, <2>1, PartAscends DEF SentBy
<1> QED BY <1>1, <1>2, StretchSteps DEF TermsAscend

(* A leader's log only grows, so what it sent stays a part of it. *)
LEMMA NextLeaderSentParts ==
    ASSUME Calm, Known, LeaderSentParts, [Next]_vars PROVE LeaderSentParts'
<1> USE DEF Known
<1> SUFFICES ASSUME NEW n \in Server, state'[n] = Leader, NEW m \in appendRequests',
                    m.term = currentTerm'[n]
             PROVE  /\ m.prevLogIndex + Len(m.entries) <= Len(log'[n])
                    /\ \A i \in Span(OfRequest(m)) :
                           TermAt(OfRequest(m), i) = log'[n][i].term
    BY DEF LeaderSentParts
<1>1. Known' /\ m.term = currentTerm[n]
    BY KnownKept, LeadersStep
<1>2. CASE m \in appendRequests
    <2>1. state[n] = Leader /\ (log'[n] = log[n] \/ Submit(n))
        <3>1. [server |-> m.src, term |-> m.term] \in leaders
            BY <1>2 DEF ElectionInv, AppendsAreFromLeaders
        <3> QED BY <1>1, <3>1, LeadersStep
    <2>2. /\ m.prevLogIndex + Len(m.entries) <= Len(log[n])
          /\ \A i \in Span(OfRequest(m)) : TermAt(OfRequest(m), i) = log[n][i].term
        BY <1>1, <1>2, <2>1 DEF LeaderSentParts
    <2>3. CASE log'[n] = log[n]
        BY <2>2, <2>3
    <2>4. CASE Submit(n)
        <3>1. /\ Len(log'[n]) = Len(log[n]) + 1
              /\ \A j \in 1..Len(log[n]) : log'[n][j] = log[n][j]
            BY <2>4, Submitted
        <3>2. /\ Len(log[n]) \in Nat /\ m.prevLogIndex \in Nat /\ Len(m.entries) \in Nat
              /\ \A i \in Span(OfRequest(m)) : i \in Nat /\ 0 < i
                     /\ i <= m.prevLogIndex + Len(m.entries)
            BY <1>2, Types, RequestStretch
        <3>3. \A i \in Span(OfRequest(m)) : i \in 1..Len(log[n])
            BY <2>2, <3>2
        <3> QED BY <2>2, <3>1, <3>2, <3>3
    <2> QED BY <2>1, <2>3, <2>4
<1>3. ASSUME NEW c \in appendCalls, SendAppendEntries(c), SentBy(m, c)
      PROVE  /\ m.prevLogIndex + Len(m.entries) <= Len(log'[n])
             /\ \A i \in Span(OfRequest(m)) : TermAt(OfRequest(m), i) = log'[n][i].term
    <2>1. m.src = n /\ c.src = n
        <3> DEFINE k == [server |-> m.src, term |-> m.term]
                   l == [server |-> n, term |-> currentTerm'[n]]
        <3>1. k \in leaders'
            BY <1>1 DEF ElectionInv, AppendsAreFromLeaders
        <3>2. l \in leaders'
            BY <1>1 DEF ElectionInv, LeadersAreOnRecord
        <3>3. k.term = l.term /\ k.server = m.src /\ l.server = n
            OBVIOUS
        <3> HIDE DEF k, l
        <3>4. m.src = n
            BY <1>1, <3>1, <3>2, <3>3 DEF ElectionSafety
        <3> QED BY <1>3, <3>4 DEF SentBy
    <2>2. log' = log
        BY <1>3 DEF SendAppendEntries, raftVars
    <2>3. /\ m.prevLogIndex + Len(m.entries) = Len(log[n]) /\ Len(log[n]) \in Nat
          /\ \A i \in Span(OfRequest(m)) :
                 /\ i \in Span(OfLog(n))
                 /\ TermAt(OfRequest(m), i) = TermAt(OfLog(n), i)
        BY <1>3, <2>1, Types DEF SentBy, PartOf
    <2> QED BY <2>2, <2>3, OwnStretch
<1> QED BY <1>2, <1>3, RequestSteps

(* Only a request of a leader is accepted. *)
LEMMA NextRepliesAreToLeaders ==
    ASSUME Calm, Known, RepliesAreToLeaders, [Next]_vars PROVE RepliesAreToLeaders'
<1> USE DEF Known
<1> SUFFICES ASSUME NEW r \in appendReplies', r.success
             PROVE  [server |-> r.src, term |-> r.term] \in leaders
    BY LeaderSteps DEF RepliesAreToLeaders
<1> QED BY ReplySteps DEF RepliesAreToLeaders, ElectionInv, AppendsAreFromLeaders

(* A follower that stays in the leader's term keeps what it has            *)
(* acknowledged, and takes what it acknowledges.                           *)
LEMMA NextAcksHold ==
    ASSUME Calm, Known, CountsInTerm, LeaderSentParts, RepliesAreToLeaders, AcksHold,
           [Next]_vars
    PROVE  AcksHold'
<1> USE DEF Known
<1> SUFFICES ASSUME NEW n \in Server, state'[n] = Leader, NEW p \in Server,
                    NEW i \in Nat \ {0}, Ack(n, p, i)'
             PROVE  /\ i <= Len(log'[n])
                    /\ currentTerm'[n] <= currentTerm'[p]
                    /\ currentTerm'[p] = currentTerm'[n] =>
                           i <= Len(log'[p]) /\ log'[p][i].term = log'[n][i].term
    BY DEF AcksHold
<1>1. /\ currentTerm'[n] = currentTerm[n] /\ p # n
      /\ currentTerm[n] \in Nat /\ currentTerm[p] \in Nat /\ currentTerm'[p] \in Nat
      /\ currentTerm'[p] >= currentTerm[p]
      /\ Len(log[n]) \in Nat /\ Len(log[p]) \in Nat
    BY LeadersStep, TermsRise, Types DEF Ack
<1>2. state[n] = Leader /\ (log'[n] = log[n] \/ Submit(n))
    <2>1. SUFFICES ASSUME UNCHANGED <<log, appendRequests, appendReplies>>,
                          \A l \in leaders : l.term # currentTerm[n],
                          matchIndex'[n][p] = 0
                   PROVE  FALSE
        BY <1>1, LeadersStep
    <2>2. PICK r \in appendReplies : r.success /\ r.term = currentTerm[n]
        BY <1>1, <2>1 DEF Ack, AckUnderWay
    <2>3. [server |-> r.src, term |-> r.term] \in leaders
        BY <2>2 DEF RepliesAreToLeaders
    <2> QED BY <2>1, <2>2, <2>3
<1>3. Len(log'[n]) >= Len(log[n]) /\ \A j \in 1..Len(log[n]) : log'[n][j] = log[n][j]
    BY <1>1, <1>2, Submitted
<1>4. Len(log'[n]) \in Nat /\ Len(log'[p]) \in Nat
    <2>1. log'[n] \in Seq(LogEntry) /\ log'[p] \in Seq(LogEntry)
        BY KnownKept DEF TypeOK, CMTypeOK
    <2> QED BY <2>1
<1>5. CASE Ack(n, p, i)
    <2>1. /\ i <= Len(log[n]) /\ currentTerm[n] <= currentTerm[p]
          /\ currentTerm[p] = currentTerm[n] =>
                 i <= Len(log[p]) /\ log[p][i].term = log[n][i].term
        BY <1>2, <1>5 DEF AcksHold
    <2>2. log'[n][i] = log[n][i] /\ i <= Len(log'[n])
        <3>1. i \in 1..Len(log[n])
            BY <2>1
        <3> QED BY <1>1, <1>3, <1>4, <2>1, <3>1
    <2>3. currentTerm'[n] <= currentTerm'[p]
        BY <1>1, <2>1
    <2>4. ASSUME currentTerm'[p] = currentTerm'[n]
          PROVE  i <= Len(log'[p]) /\ log'[p][i] = log[p][i]
        <3>1. /\ currentTerm[p] = currentTerm[n] /\ i \in 1..Len(log[p])
              /\ log[p][i].term = log[n][i].term
            BY <1>1, <2>1, <2>4
        <3>2. CASE log'[p] = log[p]
            BY <3>1, <3>2
        <3>3. CASE Submit(p)
            <4>1. /\ Len(log'[p]) = Len(log[p]) + 1
                  /\ \A j \in 1..Len(log[p]) : log'[p][j] = log[p][j]
                BY <3>3, Submitted
            <4> QED BY <1>1, <3>1, <4>1
        <3>4. ASSUME NEW m \in appendRequests, m.dst = p, Taken(m)
              PROVE  i <= Len(log'[p]) /\ log'[p][i] = log[p][i]
            <4>1. m.term = currentTerm[n]
                BY <1>1, <2>4, <3>4 DEF Taken
            <4>2. \A j \in Span(OfRequest(m)) : TermAt(OfRequest(m), j) = log[n][j].term
                BY <1>2, <4>1 DEF LeaderSentParts
            <4>3. ASSUME NEW j \in Span(OfRequest(m)), j <= i
                  PROVE  TermAt(OfRequest(m), j) = log[p][j].term
                <5>1. j \in 1..i
                    BY <4>3, RequestStretch
                <5>2. log[p][j] = log[n][j]
                    BY <2>1, <3>1, <5>1, LogsAgree
                <5> QED BY <4>2, <5>2
            <4>4. i \in 1..i
                OBVIOUS
            <4> QED BY <3>1, <3>4, <4>3, <4>4, TakenLog
        <3> QED BY <3>2, <3>3, <3>4, LogSteps
    <2>5. currentTerm'[p] = currentTerm'[n] => log[p][i].term = log[n][i].term
        BY <1>1, <2>1
    <2> QED BY <2>2, <2>3, <2>4, <2>5
<1>6. ASSUME NEW m \in appendRequests, AppendEntriesHelper(m), Taken(m), m.src = n,
             m.dst = p, m.term = currentTerm[n], i <= m.prevLogIndex + Len(m.entries)
      PROVE  /\ i <= Len(log'[n]) /\ currentTerm'[p] = currentTerm'[n]
             /\ i <= Len(log'[p]) /\ log'[p][i].term = log'[n][i].term
    <2> DEFINE prev == m.prevLogIndex
               v == OfRequest(m)
    <2>1. /\ prev + Len(m.entries) <= Len(log[n])
          /\ \A j \in Span(v) : TermAt(v, j) = log[n][j].term
        BY <1>2, <1>6 DEF LeaderSentParts
    <2>2. /\ prev + Len(m.entries) <= Len(log'[p])
          /\ \A j \in Span(v) : log'[p][j].term = TermAt(v, j)
          /\ \A j \in 1..prev : j <= Len(log[p]) /\ log'[p][j] = log[p][j]
        BY <1>6, TakenLog
    <2>3. /\ prev \in Nat /\ Len(m.entries) \in Nat
          /\ \A j : j \in Span(v) <=>
                 j \in Nat /\ 0 < j /\ prev <= j /\ j <= prev + Len(m.entries)
        BY Types, RequestStretch
    <2>4. currentTerm'[p] = currentTerm'[n]
        BY <1>1, <1>6 DEF Taken
    <2> HIDE DEF v, prev
    <2>6. i <= prev + Len(m.entries)
        BY <1>6 DEF prev
    <2>7. i <= Len(log[n]) /\ i <= Len(log'[n]) /\ i <= Len(log'[p])
        <3>1. i <= Len(log[n]) /\ i <= Len(log'[p])
            BY <1>1, <2>1, <2>2, <2>3, <2>6
        <3> QED BY <1>1, <1>3, <1>4, <3>1
    <2>8. log'[n][i] = log[n][i]
        BY <1>1, <1>3, <2>7
    <2>9. CASE prev <= i
        <3>1. i \in Span(v)
            BY <2>3, <2>6, <2>9
        <3> QED BY <2>1, <2>2, <2>4, <2>7, <2>8, <3>1
    <2>10. CASE i < prev
        <3>0. /\ prev \in Nat /\ 0 < prev /\ prev \in 1..prev /\ i \in 1..prev
              /\ prev <= prev + Len(m.entries)
            BY <2>3, <2>10
        <3>1. prev \in Span(v) /\ prev \in 1..prev /\ i \in 1..prev /\ prev <= Len(log[n])
            <4>1. prev \in Span(v)
                BY <2>3, <3>0
            <4>2. prev <= Len(log[n])
                BY <1>1, <2>1, <2>3
            <4> QED BY <3>0, <4>1, <4>2
        <3>2. prev <= Len(log[p]) /\ log[p][prev].term = log[n][prev].term
            BY <2>1, <2>2, <3>1
        <3>3. log[p][i] = log[n][i]
            BY <2>3, <3>1, <3>2, LogsAgree
        <3> QED BY <2>2, <2>4, <2>7, <2>8, <3>1, <3>3
    <2> QED BY <2>3, <2>9, <2>10
<1>7. currentTerm'[p] = currentTerm'[n] => currentTerm'[n] <= currentTerm'[p]
    BY <1>1
<1> QED BY <1>1, <1>5, <1>6, <1>7, AckSteps

(* A candidate's log does not change. *)
LEMMA CandidateLogStays ==
    ASSUME Calm, Known, [Next]_vars, NEW p \in Server, state'[p] = Candidate
    PROVE  log'[p] = log[p]
<1>1. Follower # Candidate /\ Leader # Candidate
    BY DEF Follower, Candidate, Leader
<1>2. ASSUME NEW m \in appendRequests, m.dst = p, Taken(m) PROVE FALSE
    BY <1>1, <1>2 DEF Taken
<1>3. ~Submit(p)
    <2>1. Submit(p) => state[p] = Leader /\ state' = state
        BY Submitted DEF Known
    <2> QED BY <1>1, <2>1
<1> QED BY <1>2, <1>3, LogSteps DEF Known

(* A candidate asks in its own term, and describes the log it then has.    *)
LEMMA NextBallots ==
    ASSUME Calm, Known, BallotsReached, CandidatesTell, [Next]_vars
    PROVE  BallotsReached' /\ CandidatesTell'
<1> USE DEF Known
<1>1. \A p \in Server : /\ currentTerm[p] \in Nat /\ currentTerm'[p] \in Nat
                        /\ currentTerm'[p] >= currentTerm[p]
    BY Types, TermsRise
<1>2. /\ \A c \in voteCalls \cup voteRequests : c.src \in Server /\ c.term \in Nat
      /\ \A g \in grants : g.candidate \in Server /\ g.term \in Nat
      /\ \A g \in grants' : g.candidate \in Server
      /\ \A m \in voteRequests' : m.src \in Server
    BY KnownKept DEF TypeOK, VoteTypeOK, VoteCall, VoteRequest, ElectionTypeOK, Grant, Term
<1>3. ASSUME NEW n \in Server, StartElection(n)
      PROVE  currentTerm'[n] = currentTerm[n] + 1
             /\ \A g \in grants' : g \in grants \/ (g.candidate = n /\ g.term = currentTerm'[n])
    BY <1>3 DEF StartElection, TypeOK, CMTypeOK
<1>4. ASSUME NEW c \in voteCalls' \cup voteRequests' PROVE c.term <= currentTerm'[c.src]
    <2>1. CASE \E b \in voteCalls \cup voteRequests : b.src = c.src /\ b.term = c.term
        <3>1. PICK b \in voteCalls \cup voteRequests : b.src = c.src /\ b.term = c.term
            BY <2>1
        <3>2. b.term <= currentTerm[b.src] /\ b.src \in Server /\ b.term \in Nat
            BY <1>2 DEF BallotsReached
        <3> QED BY <1>1, <3>1, <3>2
    <2>2. CASE c.src \in Server /\ c.term = currentTerm'[c.src]
        BY <1>1, <2>2
    <2> QED BY <2>1, <2>2, BallotSteps
<1>5. ASSUME NEW g \in grants' PROVE g.term <= currentTerm'[g.candidate]
    <2>1. CASE g \in grants
        BY <1>1, <1>2, <2>1 DEF BallotsReached
    <2>2. CASE g \notin grants /\ g.candidate = g.voter /\ StartElection(g.voter)
        BY <1>1, <1>2, <1>3, <2>2
    <2>3. ASSUME NEW m \in voteRequests, g.term = m.term, g.candidate = m.src
          PROVE  g.term <= currentTerm'[g.candidate]
        BY <1>1, <1>2, <2>3 DEF BallotsReached
    <2> QED BY <2>1, <2>2, <2>3, GrantSteps
<1>6. ASSUME NEW m \in voteRequests', state'[m.src] = Candidate, currentTerm'[m.src] = m.term
      PROVE  /\ m.lastLogIndex = Len(log'[m.src])
             /\ m.lastLogTerm = LastLogTerm(log'[m.src])
    <2>1. m.src \in Server /\ log'[m.src] = log[m.src]
        BY <1>2, <1>6, CandidateLogStays
    <2>2. CASE m \in voteRequests
        <3>1. ~StartElection(m.src)
            <4>1. m.term <= currentTerm[m.src]
                BY <2>2 DEF BallotsReached
            <4> QED BY <1>1, <1>3, <1>6, <2>1, <4>1
        <3>2. state[m.src] = Candidate /\ currentTerm[m.src] = m.term
            BY <1>6, <2>1, <3>1, Roles
        <3> QED BY <2>1, <2>2, <3>2 DEF CandidatesTell
    <2> QED BY <2>1, <2>2, BallotSteps
<1> QED BY <1>4, <1>5, <1>6 DEF BallotsReached, CandidatesTell

PastInv ==
    /\ EntriesOfThePast /\ TermsAscend
    /\ LeaderSentParts /\ RepliesAreToLeaders /\ AcksHold
    /\ BallotsReached /\ CandidatesTell

(* So every step keeps what is known of the past. *)
LEMMA NextPastInv ==
    ASSUME Calm, Known, SendsInTerm, CountsInTerm, PastInv, [Next]_vars
    PROVE  PastInv'
BY NextEntriesOfThePast, NextTermsAscend, NextLeaderSentParts, NextRepliesAreToLeaders,
   NextAcksHold, NextBallots
DEF PastInv
-----------------------------------------------------------------------------
(***************************************************************************)
(* What is safe stays safe, as long as no majority votes past it.          *)
(***************************************************************************)

(* A log that agrees with a safe entry at index c keeps what it has up to  *)
(* there.                                                                  *)
LEMMA PrefixKept ==
    ASSUME Calm, Known, [Next]_vars, NEW i \in Nat, NEW t \in Nat, Covered(i, t),
           NEW h \in Server, Has(h, i, t), NEW q \in Server, currentTerm[q] >= t,
           NEW c \in 1..i, c <= Len(log[q]), log[q][c].term = log[h][c].term
    PROVE  c <= Len(log'[q]) /\ \A j \in 1..c : log'[q][j] = log[q][j]
<1> USE DEF Known
<1>1. /\ c \in 1..Len(log[q]) /\ Len(log[q]) \in Nat /\ currentTerm[q] \in Nat
    BY Types
<1>2. CASE log'[q] = log[q]
    BY <1>1, <1>2
<1>3. CASE Submit(q)
    <2>1. /\ Len(log'[q]) = Len(log[q]) + 1
          /\ \A j \in 1..Len(log[q]) : log'[q][j] = log[q][j]
        BY <1>3, Submitted
    <2> QED BY <1>1, <2>1
<1>4. ASSUME NEW m \in appendRequests, m.dst = q, Taken(m)
      PROVE  c <= Len(log'[q]) /\ \A j \in 1..c : log'[q][j] = log[q][j]
    <2>1. m.term >= t
        BY <1>1, <1>4, Types DEF Taken
    <2>2. \A j \in Span(OfRequest(m)) : j <= c => TermAt(OfRequest(m), j) = log[q][j].term
        BY <2>1, RequestAgrees
    <2> QED BY <1>1, <1>4, <2>2, TakenLog
<1> QED BY <1>2, <1>3, <1>4, LogSteps

(* So who has the entry keeps it, and what is below it. *)
LEMMA HasKept ==
    ASSUME Calm, Known, [Next]_vars, NEW i \in Nat, NEW t \in Nat, Covered(i, t),
           NEW q \in Server, Has(q, i, t), currentTerm[q] >= t
    PROVE  Has(q, i, t)' /\ \A j \in 1..i : log'[q][j] = log[q][j]
<1>1. /\ i \in 1..i /\ i \in 1..Len(log[q]) /\ i <= Len(log[q]) /\ log[q][i].term = t
    BY DEF Has
<1>2. i <= Len(log'[q]) /\ \A j \in 1..i : log'[q][j] = log[q][j]
    BY <1>1, PrefixKept
<1>3. Len(log'[q]) \in Nat
    <2>1. log'[q] \in Seq(LogEntry)
        BY KnownKept DEF Known, TypeOK, CMTypeOK
    <2> QED BY <2>1
<1>4. i \in 1..Len(log'[q])
    BY <1>1, <1>2, <1>3
<1> QED BY <1>1, <1>2, <1>4 DEF Has

(* A log as recent as a covered entry has it. *)
LEMMA RecentHas ==
    ASSUME TypeOK, NEW i \in Nat \ {0}, NEW t \in Nat, RecentCover(i, t), NEW q \in Server,
           NEW j \in 1..Len(log[q]), AsRecent(log[q][j].term, j, t, i)
    PROVE  Has(q, i, t)
<1>1. Covers(OfLog(q), i, t)
    BY OwnStretch DEF RecentCover
<1>2. i <= 0 + Len(log[q]) /\ Len(log[q]) \in Nat
    BY <1>1, OwnStretch, Types DEF Covers
<1>3. i \in 1..Len(log[q])
    BY <1>2
<1> QED BY <1>1, <1>3, OwnStretch DEF Covers, Has

(* The end of a log that has the entry covers it. *)
LEMMA SentCovers ==
    ASSUME Calm, Known, TermsAscend, [Next]_vars, NEW i \in Nat \ {0}, NEW t \in Nat,
           NEW m \in appendRequests', NEW c \in appendCalls, SendAppendEntries(c),
           SentBy(m, c), Has(c.src, i, t)
    PROVE  Covers(OfRequest(m), i, t)
<1> USE DEF Known
<1> DEFINE q == c.src
           w == OfRequest(m)
<1>1. /\ q \in Server /\ PartOf(w, OfLog(q))
      /\ m.prevLogIndex + Len(m.entries) = Len(log[q])
      /\ w.prev = m.prevLogIndex /\ w.entries = m.entries
    BY SentIsPart DEF SentBy, OfRequest
<1>2. /\ \A k \in Span(w) : k \in 1..Len(log[q]) /\ TermAt(w, k) = log[q][k].term
      /\ \A k, l \in 1..Len(log[q]) : k <= l => log[q][k].term <= log[q][l].term
      /\ Len(log[q]) \in Nat
    <2> DEFINE o == OfLog(q)
    <2>1. /\ o \in Stretches /\ Span(o) = 1..Len(log[q]) /\ PartOf(w, o)
          /\ \A k \in 1..Len(log[q]) : TermAt(o, k) = log[q][k].term
        BY <1>1, OwnStretch
    <2> HIDE DEF o, q, w
    <2>2. \A k \in Span(w) : k \in 1..Len(log[q]) /\ TermAt(w, k) = log[q][k].term
        BY <2>1 DEF PartOf
    <2>3. \A k, l \in 1..Len(log[q]) : k <= l => log[q][k].term <= log[q][l].term
        BY <2>1 DEF TermsAscend, Ascends
    <2>4. Len(log[q]) \in Nat
        BY <1>1, Types
    <2> QED BY <2>2, <2>3, <2>4
<1>3. m \in AppendRequest
    <2>1. TypeOK'
        BY KnownKept
    <2> QED BY <2>1 DEF TypeOK, AppendTypeOK
<1>4. w.prev \in Nat /\ Len(w.entries) \in Nat
    BY <1>1, <1>3 DEF AppendRequest
<1>5. i \in 1..Len(log[q]) /\ log[q][i].term = t
    BY DEF Has
<1>6. ASSUME i < w.prev PROVE w.prevTerm >= t
    <2>1. w.prev \in w.prev..(w.prev + Len(w.entries)) /\ w.prev > 0
        BY <1>4, <1>6
    <2>2. w.prev \in Span(w)
        BY <2>1 DEF Span
    <2>3. w.prevTerm = log[q][w.prev].term /\ w.prev \in 1..Len(log[q])
        BY <1>2, <2>2 DEF TermAt
    <2>4. t <= w.prevTerm
        BY <1>2, <1>5, <1>6, <2>3
    <2>5. w.prevTerm \in Nat
        BY <1>1, <2>3, Types
    <2> QED BY <2>4, <2>5
<1>7. i \in Span(w) => TermAt(w, i) = t
    BY <1>2, <1>5
<1>8. i <= w.prev + Len(w.entries)
    BY <1>1, <1>5
<1> QED BY <1>6, <1>7, <1>8 DEF Covers

(* Every log as recent as the entry has it after the step. *)
LEMMA RecentCoverKept ==
    ASSUME Calm, Known, EntriesOfThePast, TermsAscend, [Next]_vars,
           NEW i \in Nat \ {0}, NEW t \in Nat, Covered(i, t)
    PROVE  RecentCover(i, t)'
<1> USE DEF Known
<1>0. RecentCover(i, t)
    BY DEF Covered
<1> SUFFICES ASSUME NEW w \in Stretches', NEW j \in Span(w), AsRecent(TermAt(w, j), j, t, i)
             PROVE  Covers(w, i, t)
    BY DEF RecentCover
<1>1. ASSUME NEW p \in Server, w = [prev |-> 0, prevTerm |-> 0, entries |-> log'[p]],
             log'[p] # log[p]
      PROVE  Covers(w, i, t)
    <2>1. log'[p] \in Seq(LogEntry) /\ Len(log'[p]) \in Nat
        <3>1. log'[p] \in Seq(LogEntry)
            BY KnownKept DEF TypeOK, CMTypeOK
        <3> QED BY <3>1
    <2>2. /\ Span(w) = 1..Len(log'[p]) /\ j \in 1..Len(log'[p])
          /\ \A k \in 1..Len(log'[p]) : TermAt(w, k) = log'[p][k].term
        BY <1>1, <2>1, LogStretch
    <2>3. SUFFICES i <= Len(log'[p]) /\ log'[p][i].term = t
        <3>1. w.prev = 0 /\ w.entries = log'[p]
            BY <1>1
        <3>2. i <= w.prev + Len(w.entries) /\ ~(i < w.prev)
            BY <2>1, <2>3, <3>1
        <3> QED BY <2>2, <2>3, <3>2 DEF Covers
    <2>4. AsRecent(log'[p][j].term, j, t, i)
        BY <2>2
    <2>5. ASSUME NEW m \in appendRequests, m.dst = p, Taken(m)
          PROVE  i <= Len(log'[p]) /\ log'[p][i].term = t
        <3> DEFINE v == OfRequest(m)
                   prev == m.prevLogIndex
                   end == prev + Len(m.entries)
        <3>1. /\ Len(log'[p]) = end /\ prev \in Nat /\ Len(m.entries) \in Nat
              /\ \A k \in 1..prev : k \in 1..Len(log[p]) /\ log'[p][k] = log[p][k]
              /\ \A k \in Span(v) : log'[p][k].term = TermAt(v, k)
            BY <1>1, <2>5, TakenLog, Types
        <3>2. /\ \A k : k \in Span(v) <=> k \in Nat /\ 0 < k /\ prev <= k /\ k <= end
              /\ v \in Stretches /\ v.prev = prev /\ v.entries = m.entries
              /\ TermAt(v, prev) = v.prevTerm
            BY RequestStretch DEF TermAt
        <3>3. \A k \in 1..Len(log[p]) : log[p][k].term \in Nat
            BY Types
        <3>4. /\ \A k \in Span(v) : TermAt(v, k) \in Nat
              /\ \A k, l \in 1..Len(log[p]) : k <= l => log[p][k].term <= log[p][l].term
            BY RequestStretch, OwnStretch DEF TermsAscend, Ascends
        <3> HIDE DEF v, prev, end
        <3>5. end \in Nat /\ j \in Nat /\ 0 < j /\ j <= end
            BY <2>2, <3>1 DEF end
        <3>6. \E k \in Span(v) : AsRecent(TermAt(v, k), k, t, i)
            <4>1. CASE prev <= j
                <5>1. j \in Span(v)
                    BY <3>2, <3>5, <4>1
                <5> QED BY <2>4, <3>1, <5>1
            <4>2. CASE j < prev
                <5>1. j \in 1..prev /\ prev \in 1..prev /\ prev \in Span(v)
                    <6>1. prev \in Nat /\ prev <= end
                        BY <3>1 DEF end
                    <6>2. j \in 1..prev /\ prev \in 1..prev /\ 0 < prev
                        BY <3>5, <4>2, <6>1
                    <6> QED BY <3>2, <6>1, <6>2
                <5>2. /\ log'[p][j] = log[p][j] /\ log'[p][prev] = log[p][prev]
                      /\ j \in 1..Len(log[p]) /\ prev \in 1..Len(log[p]) /\ j <= prev
                    BY <3>1, <3>5, <4>2, <5>1
                <5>3. /\ log'[p][j].term <= log'[p][prev].term
                      /\ log'[p][j].term \in Nat /\ log'[p][prev].term \in Nat
                    BY <3>3, <3>4, <5>2
                <5>4. AsRecent(log'[p][prev].term, prev, t, i)
                    BY <2>4, <3>1, <3>5, <4>2, <5>3 DEF AsRecent
                <5> QED BY <3>1, <5>1, <5>4
            <4> QED BY <3>1, <3>5, <4>1, <4>2
        <3>7. Covers(v, i, t)
            BY <1>0, <3>2, <3>6 DEF RecentCover
        <3>8. i <= end
            BY <3>2, <3>7 DEF Covers, end
        <3>9. CASE prev <= i
            <4>1. i \in Span(v)
                BY <3>2, <3>8, <3>9
            <4> QED BY <3>1, <3>7, <3>8, <4>1 DEF Covers
        <3>10. CASE i < prev
            <4>1. v.prevTerm >= t
                BY <3>2, <3>7, <3>10 DEF Covers
            <4>2. prev \in 1..prev /\ prev \in Span(v) /\ i \in 1..prev
                BY <3>1, <3>2, <3>10 DEF end
            <4>3. log[p][prev].term = v.prevTerm /\ prev \in 1..Len(log[p])
                  /\ log[p][prev].term \in Nat
                BY <3>1, <3>2, <3>3, <4>2
            <4>4. AsRecent(log[p][prev].term, prev, t, i)
                BY <3>1, <3>10, <4>1, <4>3 DEF AsRecent
            <4>5. Has(p, i, t)
                BY <1>0, <4>3, <4>4, RecentHas
            <4> QED BY <3>1, <3>8, <4>2, <4>5 DEF Has
        <3> QED BY <3>1, <3>9, <3>10
    <2>6. CASE Submit(p)
        <3>1. /\ Len(log'[p]) = Len(log[p]) + 1 /\ state[p] = Leader
              /\ log'[p][Len(log[p]) + 1].term = currentTerm[p]
              /\ \A k \in 1..Len(log[p]) : log'[p][k] = log[p][k]
              /\ Len(log[p]) \in Nat /\ currentTerm[p] \in Nat
            BY <2>6, Submitted, Types
        <3>2. Has(p, i, t)
            <4>1. CASE j \in 1..Len(log[p])
                <5>1. AsRecent(log[p][j].term, j, t, i)
                    BY <2>4, <3>1, <4>1
                <5> QED BY <1>0, <4>1, <5>1, RecentHas
            <4>2. CASE j = Len(log[p]) + 1
                <5>1. currentTerm[p] >= t
                    BY <2>4, <3>1, <4>2 DEF AsRecent
                <5>2. [server |-> p, term |-> currentTerm[p]] \in leaders
                    BY <3>1 DEF ElectionInv, LeadersAreOnRecord
                <5>3. PICK l \in leaders : l.server = p /\ l.term = currentTerm[p]
                    BY <5>2
                <5> QED BY <5>1, <5>3 DEF Covered, LeadersCover
            <4> QED BY <2>2, <3>1, <4>1, <4>2
        <3>3. i \in 1..Len(log[p]) /\ log[p][i].term = t
            BY <3>2 DEF Has
        <3> QED BY <2>1, <3>1, <3>3
    <2> QED BY <1>1, <2>5, <2>6, LogSteps
<1>2. ASSUME NEW m \in appendRequests', NEW c \in appendCalls, w = OfRequest(m),
             SendAppendEntries(c), SentBy(m, c)
      PROVE  Covers(w, i, t)
    <2> DEFINE q == c.src
    <2>1. /\ q \in Server /\ PartOf(w, OfLog(q))
          /\ m.prevLogIndex + Len(m.entries) = Len(log[q])
          /\ w.prev = m.prevLogIndex /\ w.entries = m.entries
        BY <1>2, SentIsPart DEF SentBy, OfRequest
    <2>2. \A k \in Span(w) : k \in 1..Len(log[q]) /\ TermAt(w, k) = log[q][k].term
        BY <2>1, OwnStretch DEF PartOf
    <2>3. Has(q, i, t)
        BY <1>0, <2>1, <2>2, RecentHas
    <2> QED BY <1>2, <2>1, <2>3, SentCovers
<1> QED BY <1>0, <1>1, <1>2, StretchSteps DEF RecentCover

(* A majority that has acknowledged nothing is past term t now. *)
Outvoted(t, A) ==
    \E V \in SUBSET Server :
        /\ Majority(V, Server)
        /\ \A v \in V : v \notin A /\ currentTerm'[v] > t

(* A server that begins to lead term t or a later one has the entry, if    *)
(* one of the servers that hold it voted for it.                           *)
LEMMA NewLeaderHas ==
    ASSUME Calm, Known, [Next]_vars, NEW i \in Nat, NEW t \in Nat, NEW A \in SUBSET Server,
           Safe(i, t, A), NEW h \in A,
           NEW l \in leaders', l \notin leaders, l.term >= t
    PROVE  Has(l.server, i, t) \/ Outvoted(t, A)
<1> USE DEF Known
<1> DEFINE n == l.server
           V == {v \in Server : Granted(v, l.term, n)}
<1>1. /\ n \in Server /\ l.term = currentTerm[n] /\ state[n] = Candidate
      /\ UNCHANGED <<currentTerm, log, appendRequests, grants>>
      /\ leaders \subseteq leaders'
    BY LeaderSteps
<1>2. Majority(V, Server)
    <2>1. LeadersHadMajority'
        BY KnownKept DEF ElectionInv
    <2>2. {v \in Server : Granted(v, l.term, n)'} = V
        BY <1>1 DEF Granted
    <2> QED BY <2>1, <2>2 DEF LeadersHadMajority
<1>3. l.term # t
    <2> SUFFICES ASSUME l.term = t PROVE FALSE
        OBVIOUS
    <2>1. i \in 1..Len(log[h]) /\ log[h][i].term = t
        BY DEF Safe, HeldBy, Has
    <2>2. PICK k \in leaders : k.term = t
        BY <2>1, OwnStretch DEF MatchingInv, EntriesHaveLeaders
    <2>3. k.server = n
        BY <1>1, <2>2, KnownKept DEF ElectionSafety
    <2>4. state[n] = Leader
        BY <1>1, <2>2, <2>3 DEF MatchingInv, LeadersLead
    <2> QED BY <1>1, <2>4 DEF Candidate, Leader
<1>4. l.term \in Nat /\ l.term > t
    BY <1>1, <1>3, Types
<1>5. ASSUME NEW v \in V
      PROVE  \E g \in grants : g.voter = v /\ g.term = l.term /\ g.candidate = n
    BY DEF Granted
<1>6. ASSUME NEW v \in V, v \in A PROVE Has(n, i, t)
    <2>1. PICK g \in grants : g.voter = v /\ g.term = l.term /\ g.candidate = n
        BY <1>5
    <2> QED BY <1>1, <1>4, <1>6, <2>1 DEF Safe, VotersSaw
<1>7. ASSUME NEW v \in V PROVE currentTerm'[v] > t
    <2>1. PICK g \in grants : g.voter = v /\ g.term = l.term
        BY <1>5
    <2>2. g.term <= currentTerm[v] /\ currentTerm[v] \in Nat
        BY <2>1, Types DEF ElectionInv, GrantsAreOfThePast
    <2> QED BY <1>1, <1>4, <2>1, <2>2
<1>8. V \in SUBSET Server
    OBVIOUS
<1> HIDE DEF V
<1>9. (\A v \in V : v \notin A) => Outvoted(t, A)
    BY <1>2, <1>7, <1>8 DEF Outvoted
<1> QED BY <1>6, <1>9

(* What the requests and the leaders have stays covered. *)
LEMMA LeadersCoverKept ==
    ASSUME Calm, Known, [Next]_vars, NEW i \in Nat, NEW t \in Nat, NEW A \in SUBSET Server,
           Safe(i, t, A), NEW h \in A, ~Outvoted(t, A)
    PROVE  LeadersCover(i, t)'
<1> USE DEF Known
<1> SUFFICES ASSUME NEW l \in leaders', l.term >= t PROVE Has(l.server, i, t)'
    BY DEF LeadersCover
<1>1. l.server \in Server /\ l.term \in Nat
    BY KnownKept, HistoryFields DEF ElectionTypeOK, TypeOK, Leadership, Term
<1>2. Has(l.server, i, t)
    BY NewLeaderHas DEF Safe, Covered, LeadersCover
<1>3. currentTerm[l.server] >= t
    <2>1. l.term <= currentTerm[l.server]
        <3>1. CASE l \in leaders
            BY <3>1 DEF ElectionInv, LeadersKeepTheirVote
        <3>2. CASE l \notin leaders
            BY <1>1, <3>2, LeaderSteps, Types
        <3> QED BY <3>1, <3>2
    <2> QED BY <1>1, <2>1, Types
<1> QED BY <1>1, <1>2, <1>3, HasKept DEF Safe

(* A safe entry stays safe in the requests: a new one is a part of a       *)
(* leader's log (leaderSendAEs).                                           *)
LEMMA RequestsCoverKept ==
    ASSUME Calm, Known, SendsInTerm, TermsAscend, [Next]_vars,
           NEW i \in Nat \ {0}, NEW t \in Nat, NEW A \in SUBSET Server,
           Safe(i, t, A), NEW h \in A, ~Outvoted(t, A)
    PROVE  RequestsCover(i, t)'
<1> USE DEF Known
<1> SUFFICES ASSUME NEW m \in appendRequests'
             PROVE  /\ m.term > t => Covers(OfRequest(m), i, t)
                    /\ m.term = t =>
                           /\ i < m.prevLogIndex => m.prevLogTerm >= t
                           /\ \A l \in leaders' : l.term = t =>
                                  \A j \in Span(OfRequest(m)) : j <= i =>
                                      TermAt(OfRequest(m), j) = log'[l.server][j].term
    BY DEF RequestsCover
<1>1. ASSUME NEW l \in leaders', l.term = t
      PROVE  l \in leaders /\ Has(l.server, i, t)
             /\ \A j \in 1..i : log'[l.server][j] = log[l.server][j]
    <2>1. l.term >= t
        BY <1>1
    <2>2. Has(l.server, i, t)
        BY <2>1, NewLeaderHas DEF Safe, Covered, LeadersCover
    <2>3. l \in leaders
        <3> SUFFICES ASSUME l \notin leaders PROVE FALSE
            OBVIOUS
        <3>1. l.server \in Server /\ l.term = currentTerm[l.server]
              /\ state[l.server] = Candidate /\ leaders \subseteq leaders'
            BY LeaderSteps
        <3>2. i \in 1..Len(log[l.server]) /\ log[l.server][i].term = t
            BY <2>2 DEF Has
        <3>3. PICK k \in leaders : k.term = t
            BY <3>1, <3>2, OwnStretch DEF MatchingInv, EntriesHaveLeaders
        <3>4. k.server = l.server
            BY <1>1, <3>1, <3>3, KnownKept DEF ElectionSafety
        <3>5. state[l.server] = Leader
            BY <1>1, <3>1, <3>3, <3>4 DEF MatchingInv, LeadersLead
        <3> QED BY <3>1, <3>5 DEF Candidate, Leader
    <2>4. l.server \in Server /\ l.term <= currentTerm[l.server]
        BY <2>3, HistoryFields DEF ElectionInv, LeadersKeepTheirVote
    <2>5. currentTerm[l.server] >= t
        BY <1>1, <2>4, Types
    <2> QED BY <2>2, <2>3, <2>4, <2>5, HasKept DEF Safe
<1>2. CASE m \in appendRequests
    <2>1. RequestsCover(i, t)
        BY DEF Safe, Covered
    <2>2. m.term > t => Covers(OfRequest(m), i, t)
        BY <1>2, <2>1 DEF RequestsCover
    <2>3. m.term = t /\ i < m.prevLogIndex => m.prevLogTerm >= t
        BY <1>2, <2>1 DEF RequestsCover
    <2>4. ASSUME m.term = t, NEW l \in leaders', l.term = t,
                 NEW j \in Span(OfRequest(m)), j <= i
          PROVE  TermAt(OfRequest(m), j) = log'[l.server][j].term
        <3>1. TermAt(OfRequest(m), j) = log[l.server][j].term
            BY <1>1, <1>2, <2>1, <2>4 DEF RequestsCover
        <3>2. j \in 1..i
            BY <1>2, <2>4, RequestStretch
        <3> QED BY <1>1, <2>4, <3>1, <3>2
    <2> QED BY <2>2, <2>3, <2>4
<1>3. ASSUME NEW c \in appendCalls, SendAppendEntries(c), SentBy(m, c)
      PROVE  /\ m.term > t => Covers(OfRequest(m), i, t)
             /\ m.term = t =>
                    /\ i < m.prevLogIndex => m.prevLogTerm >= t
                    /\ \A l \in leaders' : l.term = t =>
                           \A j \in Span(OfRequest(m)) : j <= i =>
                               TermAt(OfRequest(m), j) = log'[l.server][j].term
    <2>1. c.src \in Server /\ m.term \in Nat
        BY <1>3, SentIsPart DEF TypeOK, AppendTypeOK, AppendCall, SentBy, Term
    <2>2. PICK l \in leaders : l.server = c.src /\ l.term = m.term
        <3>1. [server |-> c.src, term |-> c.term] \in leaders
            BY DEF ElectionInv, AppendsAreFromLeaders
        <3> QED BY <1>3, <3>1 DEF SentBy
    <2>3. ASSUME m.term >= t PROVE Covers(OfRequest(m), i, t)
        <3>1. Has(c.src, i, t)
            BY <2>2, <2>3 DEF Safe, Covered, LeadersCover
        <3> QED BY <1>3, <3>1, SentCovers
    <2>4. ASSUME m.term = t, i < m.prevLogIndex PROVE m.prevLogTerm >= t
        <3>1. Covers(OfRequest(m), i, t)
            BY <2>1, <2>3, <2>4
        <3> QED BY <2>4, <3>1 DEF Covers, OfRequest
    <2>5. ASSUME m.term = t, NEW k \in leaders', k.term = t,
                 NEW j \in Span(OfRequest(m)), j <= i
          PROVE  TermAt(OfRequest(m), j) = log'[k.server][j].term
        <3>1. k.server = c.src /\ log' = log
            BY <1>1, <1>3, <2>2, <2>5 DEF ElectionSafety, SendAppendEntries, raftVars
        <3>2. /\ j \in Span(OfLog(c.src))
              /\ TermAt(OfRequest(m), j) = TermAt(OfLog(c.src), j)
            BY <1>3, <2>5 DEF SentBy, PartOf
        <3> QED BY <2>1, <3>1, <3>2, OwnStretch
    <2>6. m.term > t => m.term >= t
        BY <2>1
    <2> QED BY <2>3, <2>4, <2>5, <2>6
<1> QED BY <1>2, <1>3, RequestSteps

(* Whoever is voted for in a later term has the entry: its log is as up to *)
(* date as the voter's.                                                    *)
LEMMA VotersSawKept ==
    ASSUME Calm, Known, TermsAscend, BallotsReached, CandidatesTell, [Next]_vars,
           NEW i \in Nat \ {0}, NEW t \in Nat, NEW A \in SUBSET Server, Safe(i, t, A)
    PROVE  VotersSaw(i, t, A)'
<1> USE DEF Known
<1> SUFFICES ASSUME NEW g \in grants', g.voter \in A, g.term > t,
                    state'[g.candidate] = Candidate, currentTerm'[g.candidate] = g.term
             PROVE  Has(g.candidate, i, t)'
    BY DEF VotersSaw
<1> DEFINE n == g.candidate
<1>1. n \in Server /\ log'[n] = log[n] /\ currentTerm[n] \in Nat
    <2>1. n \in Server
        BY KnownKept, HistoryFields DEF TypeOK, ElectionTypeOK, Grant
    <2> QED BY <2>1, CandidateLogStays, Types
<1>2. SUFFICES Has(n, i, t)
    BY <1>1 DEF Has
<1>3. \/ state[n] = Candidate /\ currentTerm[n] = g.term
      \/ StartElection(n) /\ currentTerm'[n] = currentTerm[n] + 1
    <2>1. StartElection(n) => currentTerm'[n] = currentTerm[n] + 1
        BY <1>1 DEF StartElection, TypeOK, CMTypeOK
    <2> QED BY <1>1, <2>1, Roles
<1>4. CASE g \in grants
    <2>1. g.term <= currentTerm[n]
        BY <1>4 DEF BallotsReached
    <2>2. state[n] = Candidate /\ currentTerm[n] = g.term
        BY <1>1, <1>3, <2>1
    <2> QED BY <1>4, <2>2 DEF Safe, VotersSaw
<1>5. CASE n = g.voter
    BY <1>5 DEF Safe, HeldBy
<1>6. ASSUME NEW m \in voteRequests, RequestVoteHelper(m), g.voter = m.dst, g.term = m.term,
             n = m.src, UpToDate(m.lastLogTerm, m.lastLogIndex, log[m.dst])
      PROVE  Has(n, i, t)
    <2> DEFINE q == m.dst
    <2>1. ~StartElection(n)
        <3>1. m.term <= currentTerm[m.src]
            BY DEF BallotsReached
        <3> QED BY <1>1, <1>6, <3>1 DEF StartElection, TypeOK, CMTypeOK
    <2>2. /\ m.lastLogIndex = Len(log[n]) /\ m.lastLogTerm = LastLogTerm(log[n])
        BY <1>3, <1>6, <2>1 DEF CandidatesTell
    <2>3. /\ q \in Server /\ i \in 1..Len(log[q]) /\ log[q][i].term = t
          /\ Len(log[q]) \in Nat /\ Len(log[n]) \in Nat
        BY <1>1, <1>6, Types DEF Safe, HeldBy, Has
    <2>4. /\ LastLogTerm(log[q]) \in Nat /\ LastLogTerm(log[q]) >= t
        <3>1. \A k, l \in 1..Len(log[q]) : k <= l => log[q][k].term <= log[q][l].term
            BY <2>3, OwnStretch DEF TermsAscend, Ascends
        <3>2. Len(log[q]) > 0 /\ Len(log[q]) \in 1..Len(log[q]) /\ i <= Len(log[q])
            BY <2>3
        <3>3. t <= log[q][Len(log[q])].term /\ log[q][Len(log[q])].term \in Nat
            BY <2>3, <3>1, <3>2, Types
        <3> QED BY <3>2, <3>3 DEF LastLogTerm
    <2>5. LastLogTerm(log[n]) \in Nat /\ (LastLogTerm(log[n]) > 0 => Len(log[n]) > 0)
          /\ (Len(log[n]) > 0 => LastLogTerm(log[n]) = log[n][Len(log[n])].term)
        <3>1. CASE Len(log[n]) > 0
            <4>1. Len(log[n]) \in 1..Len(log[n])
                BY <2>3, <3>1
            <4>2. log[n][Len(log[n])].term \in Nat
                BY <1>1, <4>1, Types
            <4> QED BY <3>1, <4>2 DEF LastLogTerm
        <3>2. CASE ~(Len(log[n]) > 0)
            BY <3>2 DEF LastLogTerm
        <3> QED BY <3>1, <3>2
    <2>6. \/ LastLogTerm(log[n]) > LastLogTerm(log[q])
          \/ LastLogTerm(log[n]) = LastLogTerm(log[q]) /\ Len(log[n]) >= Len(log[q])
        BY <1>6, <2>2 DEF UpToDate, LastLogIndex
    <2>7. Len(log[n]) > 0 /\ AsRecent(LastLogTerm(log[n]), Len(log[n]), t, i)
        BY <2>3, <2>4, <2>5, <2>6 DEF AsRecent
    <2>8. Len(log[n]) \in 1..Len(log[n])
        BY <2>3, <2>7
    <2> QED BY <1>1, <2>5, <2>7, <2>8, RecentHas DEF Safe, Covered
<1> QED BY <1>4, <1>5, <1>6, GrantSteps

(* So an entry that is safe with some servers stays safe with them, unless *)
(* a majority of others passes it.                                         *)
LEMMA SafeKept ==
    ASSUME Calm, Known, SendsInTerm, PastInv, [Next]_vars,
           NEW i \in Nat \ {0}, NEW t \in Nat, NEW A \in SUBSET Server, Safe(i, t, A),
           NEW h \in A
    PROVE  Safe(i, t, A)' \/ Outvoted(t, A)
<1> SUFFICES ASSUME ~Outvoted(t, A) PROVE Safe(i, t, A)'
    OBVIOUS
<1>1. Covered(i, t)'
    BY RecentCoverKept, LeadersCoverKept, RequestsCoverKept DEF PastInv, Safe, Covered
<1>2. HeldBy(i, t, A)'
    <2> SUFFICES ASSUME NEW p \in A PROVE Has(p, i, t)' /\ currentTerm'[p] >= t
        BY DEF HeldBy
    <2>1. Has(p, i, t) /\ currentTerm[p] >= t /\ p \in Server
        BY DEF Safe, HeldBy
    <2>2. currentTerm'[p] >= t
        BY <2>1, TermsRise, Types DEF Known
    <2> QED BY <2>1, <2>2, HasKept DEF Safe
<1>3. VotersSaw(i, t, A)'
    BY VotersSawKept DEF PastInv
<1> QED BY <1>1, <1>2, <1>3 DEF Safe

(* Nothing passes what is safe with a majority. *)
LEMMA AnchorKept ==
    ASSUME Calm, Known, SendsInTerm, PastInv, [Next]_vars,
           NEW i \in Nat \ {0}, NEW t \in Nat, NEW A \in SUBSET Server, Safe(i, t, A),
           Majority(A, Server)
    PROVE  Safe(i, t, A)'
<1>1. ASSUME NEW V \in SUBSET Server, Majority(V, Server) PROVE \E v \in V : v \in A
    <2>1. V \cap A # {}
        BY <1>1, MajoritiesIntersect, ServerAssumption
    <2> QED BY <2>1
<1>2. ~Outvoted(t, A)
    BY <1>1 DEF Outvoted
<1>3. \E h \in A : TRUE
    BY <1>1
<1> QED BY <1>2, <1>3, SafeKept
-----------------------------------------------------------------------------
(***************************************************************************)
(* What a leader takes is safe with those that have it, or hopeless.       *)
(***************************************************************************)

(* An entry it has had. *)
LEMMA OldEntryStays ==
    ASSUME Calm, Known, SendsInTerm, CountsInTerm, PastInv, [Next]_vars,
           NEW n \in Server, state[n] = Leader, state'[n] = Leader,
           NEW i \in Nat \ {0}, NEW t \in Nat, t = currentTerm[n], currentTerm'[n] = t,
           Has(n, i, t)', Hopeless(n, i) \/ Safe(i, t, Acked(n, i)),
           NEW B \in SUBSET Server, B = Acked(n, i)'
    PROVE  Hopeless(n, i)' \/ Safe(i, t, B)'
<1> USE DEF Known
<1>1. Known' /\ PastInv'
    BY KnownKept, NextPastInv
<1>2. PICK A \in SUBSET Server : A = Acked(n, i)
    BY DEF Acked
<1>3. ASSUME NEW p \in B, p \notin A
      PROVE  currentTerm[p] <= t /\ currentTerm'[p] = t /\ Has(p, i, t)'
    <2>1. p \in Server /\ p # n /\ Ack(n, p, i)' /\ ~Ack(n, p, i)
        BY <1>2, <1>3 DEF Acked
    <2>2. PICK m \in appendRequests : Taken(m) /\ m.dst = p /\ m.term = currentTerm[n]
        BY <2>1, AckSteps
    <2>3. m.term >= currentTerm[p] /\ currentTerm'[p] = m.term /\ m.term \in Nat
          /\ currentTerm[p] \in Nat
        BY <2>1, <2>2, Types DEF Taken
    <2>4. i <= Len(log'[p]) /\ log'[p][i].term = log'[n][i].term
        BY <1>1, <2>1, <2>2, <2>3 DEF PastInv, AcksHold
    <2>5. log'[p] \in Seq(LogEntry)
        BY <1>1, <2>1 DEF TypeOK, CMTypeOK
    <2>6. Len(log'[p]) \in Nat
        BY <2>5
    <2> QED BY <2>2, <2>3, <2>4, <2>6 DEF Has
<1>4. ASSUME NEW V \in SUBSET Server, Majority(V, Server),
             \A v \in V : v \notin A /\ currentTerm'[v] > t
      PROVE  Hopeless(n, i)'
    <2>1. ASSUME NEW v \in V PROVE v \notin Acked(n, i)' /\ currentTerm'[v] > currentTerm'[n]
        BY <1>3, <1>4
    <2> QED BY <1>4, <2>1 DEF Hopeless
<1>5. CASE Hopeless(n, i)
    <2>1. PICK V \in SUBSET Server : /\ Majority(V, Server)
                                     /\ \A v \in V : v \notin A /\ currentTerm[v] > t
        BY <1>2, <1>5 DEF Hopeless
    <2>2. \A v \in V : currentTerm'[v] > t
        BY <2>1, TermsRise, Types
    <2> QED BY <1>4, <2>1, <2>2
<1>6. CASE Safe(i, t, Acked(n, i))
    <2>1. Safe(i, t, A) /\ n \in A
        BY <1>2, <1>6 DEF Acked
    <2>2. CASE Outvoted(t, A)
        BY <1>4, <2>2 DEF Outvoted
    <2>3. CASE Safe(i, t, A)'
        <3>1. HeldBy(i, t, B)'
            BY <1>3, <2>3 DEF Safe, HeldBy
        <3>2. VotersSaw(i, t, B)'
            <4>1. ASSUME NEW g \in grants', g.voter \in B, g.voter \notin A, g.term > t
                  PROVE  FALSE
                <5>1. g.term <= currentTerm'[g.voter]
                    BY <1>1 DEF ElectionInv, GrantsAreOfThePast
                <5>2. currentTerm'[g.voter] = t /\ g.term \in Nat
                    BY <1>1, <1>3, <4>1, HistoryFields DEF TypeOK, ElectionTypeOK, Grant, Term
                <5> QED BY <4>1, <5>1, <5>2
            <4> QED BY <2>3, <4>1 DEF Safe, VotersSaw
        <3> QED BY <2>3, <3>1, <3>2 DEF Safe
    <2> QED BY <2>1, <2>2, <2>3, SafeKept
<1> QED BY <1>5, <1>6

(* An entry it takes now: only the leader has it, and nobody leads a later *)
(* term, or those who elected that one make it hopeless.                   *)
LEMMA NewEntryIsSafe ==
    ASSUME Calm, Known, SendsInTerm, CountsInTerm, PastInv, [Next]_vars,
           NEW n \in Server, Submit(n),
           NEW i \in Nat \ {0}, i = Len(log[n]) + 1, NEW t \in Nat, t = currentTerm[n],
           NEW A \in SUBSET Server, A = Acked(n, i)'
    PROVE  Hopeless(n, i)' \/ Safe(i, t, A)'
<1> USE DEF Known
<1>1. Known' /\ PastInv'
    BY KnownKept, NextPastInv
<1>2. /\ state[n] = Leader /\ Len(log'[n]) = i /\ log'[n][i].term = t
      /\ \A j \in 1..Len(log[n]) : log'[n][j] = log[n][j]
      /\ UNCHANGED <<state, currentTerm, appendRequests, appendReplies, matchIndex,
                     leaders, grants>>
    BY Submitted
<1>3. A = {n}
    <2>1. ASSUME NEW p \in Server, p # n, Ack(n, p, i)' PROVE FALSE
        <3>1. Ack(n, p, i)
            BY <1>2, <2>1 DEF Ack, AckUnderWay
        <3>2. i <= Len(log[n])
            BY <1>2, <2>1, <3>1 DEF PastInv, AcksHold
        <3> QED BY <3>2, Types
    <2>2. ~Ack(n, n, i)'
        BY DEF Ack
    <2> QED BY <2>1, <2>2 DEF Acked
<1>4. Has(n, i, t)'
    BY <1>2 DEF Has
<1>5. CASE \E l \in leaders : l.term > t
    <2>1. PICK l \in leaders : l.term > t
        BY <1>5
    <2> DEFINE V == {v \in Server : Granted(v, l.term, l.server)}
    <2>2. Majority(V, Server)
        BY DEF ElectionInv, LeadersHadMajority
    <2>3. ASSUME NEW v \in V PROVE v \notin A /\ currentTerm'[v] > currentTerm'[n]
        <3>1. [voter |-> v, term |-> l.term, candidate |-> l.server] \in grants
            BY DEF Granted
        <3>2. l.term <= currentTerm[v]
            BY <3>1 DEF ElectionInv, GrantsAreOfThePast
        <3>3. l.term \in Nat /\ currentTerm[v] \in Nat
            BY HistoryFields, Types
        <3> QED BY <1>2, <1>3, <2>1, <3>2, <3>3
    <2> QED BY <2>2, <2>3 DEF Hopeless
<1>6. CASE \A l \in leaders : ~(l.term > t)
    <2>1. [server |-> n, term |-> t] \in leaders
        BY <1>2 DEF ElectionInv, LeadersAreOnRecord
    <2>2. ASSUME NEW l \in leaders, l.term = t PROVE l.server = n
        BY <2>1, <2>2 DEF ElectionSafety
    <2>3. RecentCover(i, t)'
        <3> SUFFICES ASSUME NEW w \in Stretches', NEW j \in Span(w),
                            AsRecent(TermAt(w, j), j, t, i)
                     PROVE  Covers(w, i, t)
            BY DEF RecentCover
        <3>1. PICK l \in leaders : l.term = TermAt(w, j)
            BY <1>1, <1>2 DEF MatchingInv, EntriesHaveLeaders
        <3>2. TermAt(w, j) = t /\ j >= i
            BY <1>6, <3>1, HistoryFields DEF AsRecent
        <3>3. j <= i
            BY <1>1, <1>2, <3>2 DEF MatchingInv, LeaderIsAhead
        <3>4. w \in Stretch
            <4>1. (TypeOK => Stretches \subseteq Stretch)'
                BY StretchesType, PTL
            <4> QED BY <1>1, <4>1
        <3>5. /\ w.prev \in Nat /\ Len(w.entries) \in Nat
              /\ j \in Nat /\ w.prev <= j /\ j <= w.prev + Len(w.entries)
            BY <3>4, StretchIndices DEF Stretch
        <3>6. j = i
            BY <3>2, <3>3, <3>5
        <3> QED BY <3>2, <3>5, <3>6 DEF Covers
    <2>4. LeadersCover(i, t)'
        <3> SUFFICES ASSUME NEW l \in leaders, l.term >= t PROVE Has(l.server, i, t)'
            BY <1>2 DEF LeadersCover
        <3>1. l.term = t
            BY <1>6, HistoryFields
        <3> QED BY <1>4, <2>2, <3>1
    <2>5. RequestsCover(i, t)'
        <3> SUFFICES ASSUME NEW m \in appendRequests
                     PROVE  /\ m.term > t => Covers(OfRequest(m), i, t)
                            /\ m.term = t =>
                                /\ i < m.prevLogIndex => m.prevLogTerm >= t
                                /\ \A l \in leaders : l.term = t =>
                                    \A j \in Span(OfRequest(m)) : j <= i =>
                                        TermAt(OfRequest(m), j) = log'[l.server][j].term
            BY <1>2 DEF RequestsCover
        <3>1. ~(m.term > t)
            <4>1. [server |-> m.src, term |-> m.term] \in leaders
                BY DEF ElectionInv, AppendsAreFromLeaders
            <4> QED BY <1>6, <4>1
        <3>2. ASSUME m.term = t PROVE ~(i < m.prevLogIndex)
            <4>1. m.prevLogIndex + Len(m.entries) <= Len(log[n])
                BY <1>2, <3>2 DEF PastInv, LeaderSentParts
            <4> QED BY <4>1, Types
        <3>3. ASSUME m.term = t, NEW l \in leaders, l.term = t, NEW j \in Span(OfRequest(m))
              PROVE  TermAt(OfRequest(m), j) = log'[l.server][j].term
            <4>1. l.server = n
                BY <2>2, <3>3
            <4> QED BY <1>1, <1>2, <3>3, <4>1 DEF PastInv, LeaderSentParts
        <3> QED BY <3>1, <3>2, <3>3
    <2>6. HeldBy(i, t, A)'
        BY <1>2, <1>3, <1>4 DEF HeldBy
    <2>7. VotersSaw(i, t, A)'
        <3>1. ASSUME NEW g \in grants, g.voter = n, g.term > t PROVE FALSE
            <4>1. g.term <= currentTerm[n] /\ g.term \in Nat
                BY <3>1, HistoryFields DEF ElectionInv, GrantsAreOfThePast
            <4> QED BY <3>1, <4>1
        <3> QED BY <1>2, <1>3, <3>1 DEF VotersSaw
    <2> QED BY <2>3, <2>4, <2>5, <2>6, <2>7 DEF Safe, Covered
<1> QED BY <1>5, <1>6

(* What a leader took in its term is safe with those who have              *)
(* acknowledged it, or a majority has left for later terms without it.     *)
LEMMA NextEntriesOfLeaders ==
    ASSUME Calm, Known, SendsInTerm, CountsInTerm, PastInv, EntriesOfLeaders, [Next]_vars
    PROVE  EntriesOfLeaders'
<1> USE DEF Known
<1> SUFFICES ASSUME NEW n \in Server, state'[n] = Leader, NEW i \in Nat, NEW t \in Nat,
                    NEW B \in SUBSET Server, Has(n, i, t)', t = currentTerm'[n],
                    B = Acked(n, i)'
             PROVE  Hopeless(n, i)' \/ Safe(i, t, B)'
    BY DEF EntriesOfLeaders
<1>1. currentTerm[n] = t /\ i \in Nat \ {0}
    BY LeadersStep DEF Has
<1>2. ASSUME state[n] = Leader, Has(n, i, t) PROVE Hopeless(n, i)' \/ Safe(i, t, B)'
    <2>1. PICK A \in SUBSET Server : A = Acked(n, i)
        BY DEF Acked
    <2>2. Hopeless(n, i) \/ Safe(i, t, Acked(n, i))
        BY <1>1, <1>2, <2>1 DEF EntriesOfLeaders
    <2> QED BY <1>1, <1>2, <2>2, OldEntryStays
<1>3. CASE state[n] = Leader /\ log'[n] = log[n]
    BY <1>2, <1>3 DEF Has
<1>4. CASE Submit(n)
    <2>1. /\ state[n] = Leader /\ Len(log'[n]) = Len(log[n]) + 1 /\ Len(log[n]) \in Nat
          /\ \A j \in 1..Len(log[n]) : log'[n][j] = log[n][j]
        BY <1>4, Submitted, Types
    <2>2. i \in 1..Len(log[n]) \/ i = Len(log[n]) + 1
        BY <2>1 DEF Has
    <2>3. CASE i \in 1..Len(log[n])
        BY <1>2, <2>1, <2>3 DEF Has
    <2>4. CASE i = Len(log[n]) + 1
        BY <1>1, <1>4, <2>4, NewEntryIsSafe
    <2> QED BY <2>2, <2>3, <2>4
<1>5. CASE log' = log /\ \A l \in leaders : l.term # currentTerm[n]
    <2>1. i \in 1..Len(log[n]) /\ log[n][i].term = t
        BY <1>5 DEF Has
    <2>2. i \in Span(OfLog(n)) /\ TermAt(OfLog(n), i) = t /\ OfLog(n) \in Stretches
        BY <2>1, OwnStretch
    <2> QED BY <1>1, <1>5, <2>2 DEF MatchingInv, EntriesHaveLeaders
<1> QED BY <1>3, <1>4, <1>5, LeadersStep
-----------------------------------------------------------------------------
(***************************************************************************)
(* What is committed is safe with a majority.                              *)
(***************************************************************************)

(* What is committed stays so, and stays in the log as it is. *)
LEMMA CommitKept ==
    ASSUME Calm, Known, SendsInTerm, PastInv, CommitsAreSafe, [Next]_vars,
           NEW n \in Server, NEW c \in Nat, c > 0, c = commitIndex[n]
    PROVE  /\ c <= Len(log[n]) /\ c <= Len(log'[n])
           /\ \A j \in 1..c : log'[n][j] = log[n][j]
           /\ \E i, t \in Nat, A \in SUBSET Server :
                  /\ Anchored(c, i, t, A)' /\ t <= currentTerm'[n]
                  /\ \A h \in A : log'[n][c].term = log'[h][c].term
<1> USE DEF Known
<1>1. PICK i, t \in Nat, A \in SUBSET Server :
          /\ Anchored(c, i, t, A) /\ t <= currentTerm[n]
          /\ \A h \in A : log[n][c].term = log[h][c].term
    BY DEF CommitsAreSafe
<1>2. c <= Len(log[n])
    BY DEF CommitsAreSafe
<1>3. /\ Majority(A, Server) /\ c <= i /\ i \in Nat \ {0} /\ c \in 1..i
      /\ Safe(i, t, A) /\ Covered(i, t)
    BY <1>1 DEF Anchored, Safe
<1>4. Safe(i, t, A)'
    BY <1>3, AnchorKept
<1>5. ASSUME NEW h \in A PROVE h \in Server /\ Has(h, i, t) /\ currentTerm[h] >= t
    BY <1>3 DEF Safe, HeldBy
<1>6. \E h \in A : TRUE
    <2>1. A \cap A # {}
        BY <1>3, MajoritiesIntersect, ServerAssumption
    <2> QED BY <2>1
<1>7. c <= Len(log'[n]) /\ \A j \in 1..c : log'[n][j] = log[n][j]
    <2>1. currentTerm[n] >= t
        BY <1>1, Types
    <2> QED BY <1>1, <1>2, <1>3, <1>5, <1>6, <2>1, PrefixKept, SMTT(30)
<1>8. ASSUME NEW h \in A PROVE log'[n][c].term = log'[h][c].term
    <2>1. log'[h][c] = log[h][c]
        BY <1>3, <1>5, HasKept
    <2> QED BY <1>1, <1>3, <1>7, <2>1
<1>9. t <= currentTerm'[n]
    BY <1>1, TermsRise, Types
<1>10. Anchored(c, i, t, A)'
    BY <1>3, <1>4 DEF Anchored
<1> QED BY <1>2, <1>7, <1>8, <1>9, <1>10

(* A follower takes what a request says is committed. *)
LEMMA TakenCommit ==
    ASSUME Calm, Known, SendsInTerm, PastInv, SentCommitsAreSafe, [Next]_vars,
           NEW m \in appendRequests, Taken(m), NEW c \in Nat, c > 0, c = m.leaderCommit
    PROVE  /\ c <= Len(log'[m.dst])
           /\ \E i, t \in Nat, A \in SUBSET Server :
                  /\ Anchored(c, i, t, A)' /\ t <= currentTerm'[m.dst]
                  /\ \A h \in A : log'[m.dst][c].term = log'[h][c].term
<1> USE DEF Known
<1> DEFINE n == m.dst
           prev == m.prevLogIndex
<1>1. /\ n \in Server /\ prev \in Nat /\ Len(m.entries) \in Nat /\ m.term \in Nat
      /\ m.prevLogTerm \in Nat /\ Len(log[n]) \in Nat
    BY Types
<1>2. c <= prev + Len(m.entries)
    BY DEF SentCommitsAreSafe
<1>3. PICK i, t \in Nat, A \in SUBSET Server : Anchored(c, i, t, A) /\ t <= m.term
    BY DEF SentCommitsAreSafe
<1>4. /\ Majority(A, Server) /\ c <= i /\ i \in Nat \ {0} /\ c \in 1..i /\ i \in 1..i
      /\ Safe(i, t, A) /\ Covered(i, t) /\ m.term >= t
    BY <1>1, <1>3 DEF Anchored, Safe
<1>5. Safe(i, t, A)'
    BY <1>4, AnchorKept
<1>6. currentTerm'[n] = m.term
    BY DEF Taken
<1>7. c <= Len(log'[n])
    <2>1. log'[n] \in Seq(LogEntry)
        BY <1>1, KnownKept DEF TypeOK, CMTypeOK
    <2>2. Len(log'[n]) \in Nat
        BY <2>1
    <2>3. prev + Len(m.entries) <= Len(log'[n])
        BY TakenLog
    <2> QED BY <1>1, <1>2, <2>2, <2>3
<1>8. ASSUME NEW h \in A PROVE log'[n][c].term = log'[h][c].term
    <2>1. /\ h \in Server /\ Has(h, i, t) /\ currentTerm[h] >= t
          /\ i <= Len(log[h]) /\ Len(log[h]) \in Nat /\ log[h][i].term = t
        BY <1>4, Types DEF Safe, HeldBy, Has
    <2>2. log'[h][c] = log[h][c]
        BY <1>4, <2>1, HasKept
    <2>3. ASSUME NEW j \in Span(OfRequest(m)), j <= i
          PROVE  TermAt(OfRequest(m), j) = log[h][j].term
        BY <1>4, <2>1, <2>3, RequestAgrees
    <2>4. CASE c \in Span(OfRequest(m))
        <3>1. log'[n][c].term = TermAt(OfRequest(m), c)
            BY <2>4, TakenLog
        <3> QED BY <1>4, <2>2, <2>3, <2>4, <3>1
    <2>5. CASE c \notin Span(OfRequest(m))
        <3>1. c < prev
            BY <1>1, <1>2, <2>5, RequestStretch
        <3>2. prev <= Len(log[n]) /\ log'[n][c] = log[n][c]
            <4>1. prev \in 1..prev /\ c \in 1..prev
                BY <1>1, <3>1
            <4> QED BY <4>1, TakenLog
        <3>3. m.prevLogTerm = log[n][prev].term
            BY <1>1, <3>1 DEF Taken, PrevMatches
        <3>4. log[n][c] = log[h][c]
            <4>1. CASE prev <= i
                <5>1. prev \in Span(OfRequest(m))
                    BY <1>1, <3>1, RequestStretch
                <5>2. TermAt(OfRequest(m), prev) = m.prevLogTerm
                    BY RequestStretch DEF TermAt
                <5>3. log[n][prev].term = log[h][prev].term
                    BY <2>3, <3>3, <4>1, <5>1, <5>2
                <5>4. prev <= Len(log[h]) /\ c \in 1..prev
                    BY <1>1, <2>1, <3>1, <4>1
                <5> QED BY <1>1, <2>1, <3>2, <5>3, <5>4, LogsAgree
            <4>2. CASE i < prev
                <5>1. m.prevLogTerm >= t
                    <6>1. CASE m.term > t
                        BY <1>4, <4>2, <6>1, RequestStretch DEF Covered, RequestsCover, Covers
                    <6>2. CASE m.term = t
                        BY <1>4, <4>2, <6>2 DEF Covered, RequestsCover
                    <6> QED BY <1>1, <1>4, <6>1, <6>2
                <5>2. prev \in 1..Len(log[n]) /\ AsRecent(log[n][prev].term, prev, t, i)
                    BY <1>1, <3>1, <3>2, <3>3, <4>2, <5>1 DEF AsRecent
                <5>3. Has(n, i, t)
                    BY <1>1, <1>4, <5>2, RecentHas DEF Covered
                <5>4. i <= Len(log[n]) /\ log[n][i].term = log[h][i].term
                    BY <2>1, <5>3 DEF Has
                <5>5. TypeOK /\ LogMatching /\ n \in Server /\ h \in Server
                    BY <1>1, <2>1
                <5>6. i \in Nat /\ c \in 1..i /\ i <= Len(log[h])
                    BY <1>4, <2>1
                <5> HIDE DEF n
                <5> QED BY ONLY <5>4, <5>5, <5>6, LogsAgree
            <4> QED BY <1>1, <4>1, <4>2
        <3> QED BY <2>2, <3>2, <3>4
    <2> QED BY <2>4, <2>5
<1>9. Anchored(c, i, t, A)'
    BY <1>4, <1>5 DEF Anchored
<1> QED BY <1>3, <1>6, <1>7, <1>8, <1>9

(* What a leader counts a majority for is safe with it. *)
LEMMA CountedCommit ==
    ASSUME Calm, Known, SendsInTerm, CountsInTerm, PastInv, EntriesOfLeaders, [Next]_vars,
           NEW r \in appendReplies, AppendEntriesReply(r), AppendReplySuccess(r),
           NEW c \in Nat, c = commitIndex'[r.src], c # commitIndex[r.src]
    PROVE  /\ c > commitIndex[r.src] /\ c <= Len(log'[r.src])
           /\ \E i, t \in Nat, A \in SUBSET Server :
                  /\ Anchored(c, i, t, A)' /\ t <= currentTerm'[r.src]
                  /\ \A h \in A : log'[r.src][c].term = log'[h][c].term
<1> USE DEF Known
<1> DEFINE n == r.src
           t == currentTerm[n]
           match == [matchIndex[n] EXCEPT ![r.dst] = LastSent(r)]
           S == {n} \cup {p \in Server \ {n} : match[p] >= c}
<1>1. /\ n \in Server /\ r.dst \in Server /\ log[n] \in Seq(LogEntry) /\ Len(log[n]) \in Nat
      /\ commitIndex \in [Server -> Nat] /\ commitIndex[n] \in Nat /\ t \in Nat
      /\ matchIndex[n] \in [Server -> Nat]
    BY Types DEF TypeOK, CMTypeOK, AppendTypeOK, AppendReply
<1>2. /\ state[n] = Leader /\ r.success /\ r.replyTerm = r.term /\ r.term = t
    BY DEF AppendReplySuccess, Counts, CountsInTerm
<1>3. UNCHANGED <<log, currentTerm>>
    BY DEF AppendEntriesReply, AppendReplySuccess
<1>4. c = AdvanceCommit(log[n], commitIndex[n], t, match, n, Server)
    BY <1>1 DEF AppendReplySuccess
<1>5. c >= commitIndex[n]
      /\ c \in Committable(log[n], commitIndex[n], t, match, n, Server)
    <2> HIDE DEF n, t, match
    <2> QED BY <1>1, <1>4, AdvanceCommitSound DEF n
<1>6. c > commitIndex[n] /\ c \in 1..Len(log[n]) /\ log[n][c].term = t /\ Majority(S, Server)
    <2> DEFINE d == commitIndex[n]
               l == log[n]
    <2>1. /\ c \in (d + 1)..Len(l) /\ l[c].term = t
          /\ Majority(S, Server)
        <3> HIDE DEF n, t, match, d, l
        <3>1. c \in Committable(l, d, t, match, n, Server)
            BY <1>5 DEF d, l
        <3> QED BY <3>1 DEF Committable
    <2>2. d \in Nat /\ Len(l) \in Nat
        BY <1>1
    <2> HIDE DEF d, l
    <2>3. c > d /\ c \in 1..Len(l)
        BY <2>1, <2>2
    <2> QED BY <2>1, <2>3 DEF d, l
<1> HIDE DEF t
<1>7. PICK A \in SUBSET Server : A = Acked(n, c)
    BY <1>1 DEF Acked
<1>8. S \subseteq A
    <2>1. ASSUME NEW p \in Server, p # n, match[p] >= c PROVE Ack(n, p, c)
        <3>1. CASE p = r.dst
            <4>1. match[p] = LastSent(r)
                BY <1>1, <3>1
            <4>2. LastSent(r) \in Nat
                BY DEF TypeOK, AppendTypeOK, AppendReply, LastSent
            <4>3. AckUnderWay(n, p, c)
                BY <1>2, <2>1, <3>1, <4>1, <4>2 DEF AckUnderWay, t
            <4> QED BY <2>1, <4>3 DEF Ack
        <3>2. CASE p # r.dst
            <4>1. match[p] = matchIndex[n][p] /\ matchIndex[n][p] \in Nat
                BY <1>1, <3>2
            <4> QED BY <2>1, <4>1 DEF Ack
        <3> QED BY <3>1, <3>2
    <2> QED BY <1>7, <2>1 DEF Acked
<1>9. Majority(A, Server)
    BY <1>6, <1>8, MajorityGrows
<1>10. Safe(c, t, A)
    <2>1. Hopeless(n, c) \/ Safe(c, t, A)
        <3>1. Has(n, c, t) /\ t = currentTerm[n] /\ t \in Nat
            BY <1>1, <1>6 DEF Has, t
        <3> QED BY <1>1, <1>2, <1>7, <3>1 DEF EntriesOfLeaders
    <2>2. ~Hopeless(n, c)
        <3> SUFFICES ASSUME NEW V \in SUBSET Server, Majority(V, Server),
                            \A v \in V : v \notin A
                     PROVE  FALSE
            BY <1>7 DEF Hopeless
        <3>1. V \cap A # {}
            BY <1>9, MajoritiesIntersect, ServerAssumption
        <3> QED BY <3>1
    <2> QED BY <2>1, <2>2
<1>11. t \in Nat /\ c \in Nat \ {0} /\ t <= currentTerm'[n] /\ c <= Len(log'[n])
    BY <1>1, <1>3, <1>6 DEF t
<1>12. PICK u \in Nat : u = t
    BY <1>11
<1>13. Safe(c, u, A)'
    BY <1>9, <1>10, <1>11, <1>12, AnchorKept
<1>14. Anchored(c, c, u, A)'
    BY <1>9, <1>11, <1>13 DEF Anchored
<1>15. ASSUME NEW h \in A PROVE log'[n][c].term = log'[h][c].term
    BY <1>3, <1>6, <1>10 DEF Safe, HeldBy, Has
<1> QED BY <1>6, <1>11, <1>12, <1>14, <1>15

(* So commitIndex only moves forward, and onto what is safe. *)
LEMMA NextCommitsAreSafe ==
    ASSUME Calm, Known, SendsInTerm, CountsInTerm, PastInv, EntriesOfLeaders,
           CommitsAreSafe, SentCommitsAreSafe, [Next]_vars, NEW n \in Server
    PROVE  /\ commitIndex'[n] >= commitIndex[n]
           /\ commitIndex'[n] > 0 =>
                  /\ commitIndex'[n] <= Len(log'[n])
                  /\ \E i, t \in Nat, A \in SUBSET Server :
                         /\ Anchored(commitIndex[n], i, t, A)' /\ t <= currentTerm'[n]
                         /\ \A h \in A :
                                log'[n][commitIndex'[n]].term = log'[h][commitIndex'[n]].term
<1> USE DEF Known
<1>1. commitIndex[n] \in Nat /\ commitIndex'[n] \in Nat
    BY KnownKept DEF TypeOK, CMTypeOK
<1>2. PICK c \in Nat : c = commitIndex'[n]
    BY <1>1
<1> SUFFICES /\ c >= commitIndex[n]
             /\ c > 0 =>
                    /\ c <= Len(log'[n])
                    /\ \E i, t \in Nat, A \in SUBSET Server :
                           /\ Anchored(c, i, t, A)' /\ t <= currentTerm'[n]
                           /\ \A h \in A : log'[n][c].term = log'[h][c].term
    BY <1>2 DEF Anchored
<1>3. CASE c = commitIndex[n]
    BY <1>1, <1>3, CommitKept
<1>4. ASSUME NEW m \in appendRequests, Taken(m), m.dst = n, m.leaderCommit > commitIndex[n],
             c = intMin(m.leaderCommit, Len(log'[n]))
      PROVE  /\ c >= commitIndex[n]
             /\ c > 0 =>
                    /\ c <= Len(log'[n])
                    /\ \E i, t \in Nat, A \in SUBSET Server :
                           /\ Anchored(c, i, t, A)' /\ t <= currentTerm'[n]
                           /\ \A h \in A : log'[n][c].term = log'[h][c].term
    <2>1. m.leaderCommit \in Nat /\ m.leaderCommit > 0
        BY <1>1, <1>4, Types
    <2>2. m.leaderCommit <= Len(log'[n])
        BY <1>4, <2>1, TakenCommit
    <2>3. c = m.leaderCommit
        <3>1. log'[n] \in Seq(LogEntry)
            BY KnownKept DEF TypeOK, CMTypeOK
        <3>2. Len(log'[n]) \in Nat
            BY <3>1
        <3> QED BY <1>4, <2>1, <2>2, <3>2 DEF intMin
    <2> QED BY <1>1, <1>4, <2>1, <2>3, TakenCommit
<1>5. ASSUME NEW r \in appendReplies, AppendEntriesReply(r), AppendReplySuccess(r), r.src = n,
             c # commitIndex[n]
      PROVE  /\ c >= commitIndex[n]
             /\ c <= Len(log'[n])
             /\ \E i, t \in Nat, A \in SUBSET Server :
                    /\ Anchored(c, i, t, A)' /\ t <= currentTerm'[n]
                    /\ \A h \in A : log'[n][c].term = log'[h][c].term
    <2>1. c = commitIndex'[r.src] /\ c # commitIndex[r.src]
        BY <1>2, <1>5
    <2>2. /\ c > commitIndex[r.src] /\ c <= Len(log'[r.src])
          /\ \E i, t \in Nat, A \in SUBSET Server :
                 /\ Anchored(c, i, t, A)' /\ t <= currentTerm'[r.src]
                 /\ \A h \in A : log'[r.src][c].term = log'[h][c].term
        BY <1>5, <2>1, CountedCommit
    <2>3. c > commitIndex[n] => c >= commitIndex[n]
        BY <1>1
    <2> QED BY <1>5, <2>2, <2>3
<1> QED BY <1>2, <1>3, <1>4, <1>5, CommitSteps

(* A request tells of commits only what its sender knows. *)
LEMMA NextSentCommitsAreSafe ==
    ASSUME Calm, Known, SendsInTerm, PastInv, CommitsAreSafe, SentCommitsAreSafe, [Next]_vars
    PROVE  SentCommitsAreSafe'
<1> USE DEF Known
<1> SUFFICES ASSUME NEW m \in appendRequests', NEW k \in Nat, k = m.leaderCommit, k > 0
             PROVE  /\ k <= m.prevLogIndex + Len(m.entries)
                    /\ \E i, t \in Nat, A \in SUBSET Server :
                           Anchored(k, i, t, A)' /\ t <= m.term
    <2>1. \A m \in appendRequests' : m.leaderCommit \in Nat
        BY KnownKept DEF TypeOK, AppendTypeOK, AppendRequest
    <2> QED BY <2>1 DEF SentCommitsAreSafe, Anchored
<1>1. ASSUME NEW i \in Nat, NEW t \in Nat, NEW A \in SUBSET Server, Anchored(k, i, t, A)
      PROVE  Anchored(k, i, t, A)'
    <2>1. i \in Nat \ {0}
        BY <1>1 DEF Anchored
    <2> QED BY <1>1, <2>1, AnchorKept DEF Anchored
<1>2. CASE m \in appendRequests
    BY <1>1, <1>2 DEF SentCommitsAreSafe
<1>3. ASSUME NEW c \in appendCalls, SendAppendEntries(c), SentBy(m, c)
      PROVE  /\ k <= m.prevLogIndex + Len(m.entries)
             /\ \E i, t \in Nat, A \in SUBSET Server : Anchored(k, i, t, A)' /\ t <= m.term
    <2>1. /\ c.src \in Server /\ k = commitIndex[c.src] /\ currentTerm[c.src] = m.term
          /\ m.prevLogIndex + Len(m.entries) = Len(log[c.src])
        BY <1>3, SentIsPart DEF SentBy, SendsInTerm
    <2>2. k <= Len(log[c.src])
        BY <2>1 DEF CommitsAreSafe
    <2>3. PICK i, t \in Nat, A \in SUBSET Server : Anchored(k, i, t, A) /\ t <= m.term
        BY <2>1 DEF CommitsAreSafe
    <2> QED BY <1>1, <2>1, <2>2, <2>3
<1> QED BY <1>2, <1>3, RequestSteps

(* Only commitChanSender hands entries to the application. *)
LEMMA AppliedSteps ==
    ASSUME Calm, TypeOK, [Next]_vars, NEW n \in Server
    PROVE  \/ applied'[n] = applied[n] /\ lastApplied'[n] = lastApplied[n]
           \/ CommitChanSender(n)
<1>1. applied \in [Server -> Seq(CommitEntry)] /\ lastApplied \in [Server -> Nat]
    BY DEF TypeOK, CMTypeOK, StoreTypeOK
<1>2. ASSUME NEW p \in Server, CommitChanSender(p), p # n
      PROVE  applied'[n] = applied[n] /\ lastApplied'[n] = lastApplied[n]
    BY <1>1, <1>2 DEF CommitChanSender
<1>3. CASE \/ \E p \in Server : StartElection(p)
           \/ \E c \in voteCalls : SendRequestVote(c)
           \/ \E m \in voteRequests : RequestVoteHelper(m)
           \/ \E v \in voteReplies : RequestVoteReply(v)
           \/ \E s \in starting : StartLeader(s)
    BY <1>3 DEF StartElection, SendRequestVote, RequestVoteHelper, RequestVoteReply,
                StartLeader, commitVars
<1>4. CASE \/ \E p \in Server : LeaderSendAEs(p)
           \/ \E c \in appendCalls : SendAppendEntries(c)
           \/ \E m \in appendRequests : AppendEntriesHelper(m)
           \/ \E r \in appendReplies : AppendEntriesReply(r)
    BY <1>4 DEF LeaderSendAEs, SendAppendEntries, AppendEntriesHelper,
                AppendEntriesReply, commitVars
<1>5. CASE \/ \E p \in Server : Submit(p)
           \/ \E u \in unsaved : SaveCapture(u)
           \/ \E w \in saving : SaveWrite(w)
           \/ UNCHANGED vars
    BY <1>5 DEF Submit, SubmitToLeader, SaveCapture, SaveWrite, vars, commitVars
<1>6. \/ Step \/ \E p \in Server : Submit(p) \/ UNCHANGED vars
    BY NoCrash DEF Next
<1> QED BY <1>2, <1>3, <1>4, <1>5, <1>6 DEF Step

(* commitChanSender hands over what is in the log, if all that is          *)
(* committed is.                                                           *)
LEMMA HandedOver ==
    ASSUME TypeOK, NEW n \in Server, CommitChanSender(n), commitIndex[n] <= Len(log[n]),
           Len(applied[n]) = lastApplied[n], lastApplied[n] <= commitIndex[n],
           AppliedFrom(applied[n], log[n])
    PROVE  /\ log' = log /\ commitIndex' = commitIndex
           /\ Len(applied'[n]) = lastApplied'[n] /\ lastApplied'[n] = commitIndex[n]
           /\ AppliedFrom(applied'[n], log[n])
<1> DEFINE l == lastApplied[n]
           c == commitIndex[n]
           w == log[n]
           a == applied[n]
<1>1. /\ l \in Nat /\ c \in Nat /\ Len(w) \in Nat /\ a \in Seq(CommitEntry)
      /\ lastApplied \in [Server -> Nat] /\ applied \in [Server -> Seq(CommitEntry)]
    BY Types DEF TypeOK, CMTypeOK, StoreTypeOK
<1>2. log' = log /\ commitIndex' = commitIndex
    BY DEF CommitChanSender, raftVars
<1>3. CASE ~(c > l)
    <2>1. applied'[n] = applied[n] /\ lastApplied'[n] = lastApplied[n]
        BY <1>3 DEF CommitChanSender
    <2> QED BY <1>1, <1>2, <1>3, <2>1
<1>4. CASE c > l
    <2>1. lastApplied'[n] = c
        BY <1>1, <1>4 DEF CommitChanSender
    <2>2. PICK stale \in 1..submitted :
              applied' = [applied EXCEPT ![n] = @ \o
                    [k \in 1..(c - l) |->
                        [command |-> IF l + k <= Len(w) THEN w[l + k].command ELSE stale,
                         index |-> l + k, term |-> currentTerm[n]]]]
        <3>1. ~(c <= l)
            BY <1>1, <1>4
        <3> QED BY <3>1, Zenon DEF CommitChanSender
    <2> DEFINE e(k) == [command |-> IF l + k <= Len(w) THEN w[l + k].command ELSE stale,
                        index |-> l + k, term |-> currentTerm[n]]
               more == [k \in 1..(c - l) |-> e(k)]
    <2>3. applied'[n] = a \o more
        BY <1>1, <2>2
    <2>4. c - l \in Nat /\ more \in Seq({e(k) : k \in 1..(c - l)}) /\ Len(more) = c - l
        <3>1. c - l \in Nat
            BY <1>1, <1>4
        <3>2. more \in [1..(c - l) -> {e(k) : k \in 1..(c - l)}]
            OBVIOUS
        <3> HIDE DEF more, e
        <3> QED BY <3>1, <3>2
    <2>5. ASSUME NEW k \in 1..(c - l)
          PROVE  more[k].index = l + k /\ more[k].command = w[l + k].command
        <3>1. l + k <= Len(w)
            BY <1>1
        <3>2. more[k] = e(k)
            OBVIOUS
        <3> QED BY <3>1, <3>2
    <2> HIDE DEF more, e
    <2>6. /\ Len(a \o more) = l + (c - l)
          /\ \A k \in 1..(l + (c - l)) :
                 (a \o more)[k] = IF k <= l THEN a[k] ELSE more[k - l]
        <3> DEFINE X == CommitEntry \cup {e(k) : k \in 1..(c - l)}
        <3>1. a \in Seq(X) /\ more \in Seq(X) /\ Len(a) = l
            BY <1>1, <2>4
        <3>2. Len(more) = c - l
            BY <2>4
        <3> HIDE DEF X, a, l, c
        <3>3. /\ Len(a \o more) = Len(a) + Len(more)
              /\ \A k \in 1..(Len(a) + Len(more)) :
                     (a \o more)[k] = IF k <= Len(a) THEN a[k] ELSE more[k - Len(a)]
            BY <3>1, ConcatProperties, ZenonT(30)
        <3> QED BY <3>1, <3>2, <3>3
    <2>7. l + (c - l) = c
        BY <1>1
    <2>8. ASSUME NEW k \in 1..c
          PROVE  (a \o more)[k].index = k /\ (a \o more)[k].command = w[k].command
        <3>1. CASE k <= l
            <4>1. k \in 1..Len(a)
                BY <1>1, <3>1
            <4> QED BY <2>6, <2>7, <3>1, <4>1 DEF AppliedFrom
        <3>2. CASE ~(k <= l)
            <4>1. k - l \in 1..(c - l) /\ l + (k - l) = k
                BY <1>1, <3>2
            <4> QED BY <2>5, <2>6, <2>7, <3>2, <4>1
        <3> QED BY <3>1, <3>2
    <2> QED BY <1>2, <2>1, <2>3, <2>6, <2>7, <2>8 DEF AppliedFrom
<1> QED BY <1>3, <1>4

(* commitChanSender hands over what is committed, and nobody cuts that.    *)
LEMMA NextAppliedIsCommitted ==
    ASSUME Calm, Known, SendsInTerm, CountsInTerm, PastInv, EntriesOfLeaders,
           CommitsAreSafe, SentCommitsAreSafe, AppliedIsCommitted, [Next]_vars
    PROVE  AppliedIsCommitted'
<1> USE DEF Known
<1> SUFFICES ASSUME NEW n \in Server
             PROVE  /\ Len(applied'[n]) = lastApplied'[n]
                    /\ lastApplied'[n] <= commitIndex'[n]
                    /\ AppliedFrom(applied'[n], log'[n])
    BY DEF AppliedIsCommitted
<1>1. /\ Len(applied[n]) = lastApplied[n] /\ lastApplied[n] <= commitIndex[n]
      /\ AppliedFrom(applied[n], log[n])
    BY DEF AppliedIsCommitted
<1>2. /\ commitIndex[n] \in Nat /\ lastApplied[n] \in Nat /\ commitIndex'[n] \in Nat
    BY KnownKept DEF TypeOK, CMTypeOK
<1>3. CASE applied'[n] = applied[n] /\ lastApplied'[n] = lastApplied[n]
    <2>1. lastApplied[n] <= commitIndex'[n]
        BY <1>1, <1>2, NextCommitsAreSafe
    <2>2. ASSUME NEW k \in 1..Len(applied[n]) PROVE log'[n][k] = log[n][k]
        <3>1. commitIndex[n] > 0 /\ k \in 1..commitIndex[n]
            BY <1>1, <1>2
        <3> QED BY <1>2, <3>1, CommitKept
    <2> QED BY <1>1, <1>3, <2>1, <2>2 DEF AppliedFrom
<1>4. CASE CommitChanSender(n)
    <2>1. commitIndex[n] <= Len(log[n])
        <3>1. CASE commitIndex[n] > 0
            BY <3>1 DEF CommitsAreSafe
        <3>2. CASE ~(commitIndex[n] > 0)
            BY <1>2, <3>2, Types
        <3> QED BY <3>1, <3>2
    <2> QED BY <1>1, <1>2, <1>4, <2>1, HandedOver
<1> QED BY <1>3, <1>4, AppliedSteps
-----------------------------------------------------------------------------
(***************************************************************************)
(* The inductive invariant, and what follows from it.                      *)
(***************************************************************************)
SafetyInv ==
    /\ PastInv /\ EntriesOfLeaders
    /\ CommitsAreSafe /\ SentCommitsAreSafe /\ AppliedIsCommitted

(* At first there is nothing to lose. *)
LEMMA InitSafetyInv ==
    ASSUME Init PROVE SafetyInv
<1>1. /\ appendRequests = {} /\ appendReplies = {} /\ voteCalls = {} /\ voteRequests = {}
      /\ grants = {} /\ \A n \in Server : Len(log[n]) = 0 /\ state[n] # Leader
      /\ \A n \in Server : /\ commitIndex[n] = 0 /\ lastApplied[n] = 0
                           /\ applied[n] = <<>>
    BY DEF Init, Follower, Leader
<1>2. PastInv
    BY <1>1, InitMatchingInv
       DEF PastInv, EntriesOfThePast, TermsAscend, Ascends, LeaderSentParts,
           RepliesAreToLeaders, AcksHold, BallotsReached, CandidatesTell
<1>3. EntriesOfLeaders /\ CommitsAreSafe /\ SentCommitsAreSafe
    BY <1>1 DEF EntriesOfLeaders, CommitsAreSafe, SentCommitsAreSafe
<1>4. AppliedIsCommitted
    BY <1>1 DEF AppliedIsCommitted, AppliedFrom
<1> QED BY <1>2, <1>3, <1>4 DEF SafetyInv

(* Every step within its term keeps the invariant. *)
LEMMA NextSafetyInv ==
    ASSUME Calm, Known, SafetyInv, [Next]_vars, [SendsInTerm]_vars, [CountsInTerm]_vars
    PROVE  SafetyInv' /\ SendsInTerm /\ CountsInTerm
<1>1. UNCHANGED vars => SendsInTerm
    BY DEF vars, appendVars, SendsInTerm, SendAppendEntries
<1>2. UNCHANGED vars => CountsInTerm
    BY DEF vars, appendVars, CountsInTerm, AppendEntriesReply
<1>3. SendsInTerm /\ CountsInTerm
    BY <1>1, <1>2
<1>4. PastInv' /\ EntriesOfLeaders' /\ SentCommitsAreSafe' /\ AppliedIsCommitted'
    BY <1>3, NextPastInv, NextEntriesOfLeaders, NextSentCommitsAreSafe,
       NextAppliedIsCommitted
       DEF SafetyInv
<1>5. CommitsAreSafe'
    BY <1>3, NextCommitsAreSafe DEF SafetyInv, CommitsAreSafe, Anchored
<1> QED BY <1>3, <1>4, <1>5 DEF SafetyInv

(* So it holds throughout. *)
LEMMA SafetyHolds ==
    ASSUME Calm
    PROVE  Spec /\ RequestsInTerm /\ AnswersInTerm => [](Known /\ SafetyInv)
<1>1. Init => Known /\ SafetyInv
    <2> SUFFICES ASSUME Init PROVE Known /\ SafetyInv
        OBVIOUS
    <2>1. TypeOK /\ VoteInv /\ ElectionInv /\ MatchingInv /\ SafetyInv
        BY InitTypeOK, InitElectionInv, InitMatchingInv, InitSafetyInv
    <2> QED BY <2>1, OneLeaderPerTerm, LogsMatch DEF Known
<1>2. Known /\ [Next]_vars => Known'
    BY KnownKept
<1>3. /\ Known /\ SafetyInv /\ [Next]_vars /\ [SendsInTerm]_vars /\ [CountsInTerm]_vars
      => SafetyInv'
    BY NextSafetyInv
<1> QED BY <1>1, <1>2, <1>3, PTL DEF Spec, RequestsInTerm, AnswersInTerm

(* What is committed is safe with some majority. *)
LEMMA CommittedIn ==
    ASSUME Known, SafetyInv, NEW n \in Server, NEW c \in 1..commitIndex[n]
    PROVE  /\ c <= Len(log[n])
           /\ \E i, t \in Nat, A \in SUBSET Server :
                  /\ A \subseteq Server /\ Majority(A, Server) /\ c \in 1..i
                  /\ LeadersCover(i, t) /\ t <= currentTerm[n]
                  /\ \A h \in A : Has(h, i, t) /\ log[h][c] = log[n][c]
<1>1. commitIndex[n] \in Nat /\ Len(log[n]) \in Nat /\ commitIndex[n] > 0 /\ c \in Nat
    BY Types DEF Known
<1>2. PICK i, t \in Nat, A \in SUBSET Server :
          /\ Anchored(commitIndex[n], i, t, A) /\ t <= currentTerm[n]
          /\ \A h \in A : log[n][commitIndex[n]].term = log[h][commitIndex[n]].term
    BY <1>1 DEF SafetyInv, CommitsAreSafe
<1>3. commitIndex[n] <= Len(log[n])
    BY <1>1 DEF SafetyInv, CommitsAreSafe
<1>4. ASSUME NEW h \in A PROVE Has(h, i, t) /\ log[h][c] = log[n][c]
    <2>1. Has(h, i, t) /\ commitIndex[n] <= i
        BY <1>2 DEF Anchored, Safe, HeldBy
    <2>2. commitIndex[n] <= Len(log[h])
        BY <1>1, <2>1, Types DEF Has, Known
    <2> QED BY <1>1, <1>2, <1>3, <2>1, <2>2, LogsAgree DEF Known
<1>5. Majority(A, Server) /\ c \in 1..i /\ LeadersCover(i, t)
    BY <1>1, <1>2 DEF Anchored, Safe, Covered
<1> QED BY <1>1, <1>2, <1>3, <1>4, <1>5

(* Leader completeness: what any server considers committed is in the log  *)
(* of every leader of the same or a later term, in a cluster of any size   *)
(* and however the AppendEntries and their answers overtake one another,   *)
(* as long as no vote response is late, nobody crashes, and a deposed      *)
(* leader neither sends what it had begun to send nor counts answers       *)
(* (leaderSendAEs looks at neither).                                       *)
THEOREM CalmLeadersAreComplete ==
    ASSUME Calm
    PROVE  Spec /\ RequestsInTerm /\ AnswersInTerm => []LeaderCompleteness
<1>1. Known /\ SafetyInv => LeaderCompleteness
    <2> SUFFICES ASSUME Known, SafetyInv, NEW n \in Server, NEW l \in Server,
                        state[l] = Leader, currentTerm[l] >= currentTerm[n],
                        NEW c \in 1..commitIndex[n]
                 PROVE  c <= Len(log[l]) /\ log[l][c] = log[n][c]
        BY DEF LeaderCompleteness
    <2>1. PICK i, t \in Nat, A \in SUBSET Server :
              /\ Majority(A, Server) /\ c \in 1..i
              /\ LeadersCover(i, t) /\ t <= currentTerm[n]
              /\ \A h \in A : Has(h, i, t) /\ log[h][c] = log[n][c]
        BY CommittedIn
    <2>2. Has(l, i, t)
        <3>1. [server |-> l, term |-> currentTerm[l]] \in leaders
            BY DEF Known, ElectionInv, LeadersAreOnRecord
        <3>2. currentTerm[l] >= t
            BY <2>1, Types DEF Known
        <3> QED BY <2>1, <3>1, <3>2 DEF LeadersCover
    <2>3. PICK h \in A : TRUE
        <3>1. A \cap A # {}
            BY <2>1, MajoritiesIntersect, ServerAssumption
        <3> QED BY <3>1
    <2>4. /\ i <= Len(log[l]) /\ i <= Len(log[h]) /\ log[l][i].term = log[h][i].term
          /\ Len(log[l]) \in Nat /\ h \in Server
        BY <2>1, <2>2, <2>3, Types DEF Has, Known
    <2>5. log[l][c] = log[h][c]
        BY <2>1, <2>4, LogsAgree DEF Known
    <2> QED BY <2>1, <2>3, <2>4, <2>5
<1> QED BY <1>1, SafetyHolds, PTL

(* What the application of a server was handed. *)
LEMMA Handed ==
    ASSUME Known, SafetyInv, NEW n \in Server
    PROVE  /\ applied[n] \in Seq(CommitEntry) /\ Len(applied[n]) = lastApplied[n]
           /\ lastApplied[n] \in Nat /\ DOMAIN applied[n] = 1..lastApplied[n]
           /\ \A k \in 1..lastApplied[n] :
                  /\ applied[n][k].index = k /\ applied[n][k].command = log[n][k].command
                  /\ applied[n][k].command \in Command /\ k \in 1..commitIndex[n]
<1>1. /\ applied[n] \in Seq(CommitEntry) /\ lastApplied[n] \in Nat /\ commitIndex[n] \in Nat
    BY DEF Known, TypeOK, StoreTypeOK, CMTypeOK
<1>2. /\ Len(applied[n]) = lastApplied[n] /\ lastApplied[n] <= commitIndex[n]
      /\ AppliedFrom(applied[n], log[n])
    BY DEF SafetyInv, AppliedIsCommitted
<1>3. DOMAIN applied[n] = 1..lastApplied[n]
    BY <1>1, <1>2
<1>4. ASSUME NEW k \in 1..lastApplied[n]
      PROVE  /\ applied[n][k].index = k /\ applied[n][k].command = log[n][k].command
             /\ applied[n][k].command \in Command /\ k \in 1..commitIndex[n]
    <2>1. applied[n][k] \in CommitEntry
        BY <1>1, <1>2
    <2>2. applied[n][k].command \in Command
        BY <2>1 DEF CommitEntry
    <2> QED BY <1>1, <1>2, <2>2 DEF AppliedFrom
<1> QED BY <1>1, <1>2, <1>3, <1>4

(* Two servers were handed the same command at an index: both had it       *)
(* committed, with majorities that share a server.                         *)
LEMMA StateMachinesAgree ==
    ASSUME Known, SafetyInv PROVE StateMachineSafety
<1> SUFFICES ASSUME NEW m \in Server, NEW n \in Server,
                    NEW i \in DOMAIN applied[m], NEW j \in DOMAIN applied[n],
                    applied[m][i].index = applied[n][j].index
             PROVE  applied[m][i].command = applied[n][j].command
    BY DEF StateMachineSafety
<1>1. i \in 1..lastApplied[m] /\ j \in 1..lastApplied[n] /\ i = j
    BY Handed
<1>2. /\ i \in 1..commitIndex[m] /\ i \in 1..commitIndex[n]
      /\ applied[m][i].command = log[m][i].command
      /\ applied[n][j].command = log[n][i].command
    BY <1>1, Handed
<1>3. PICK A \in SUBSET Server : Majority(A, Server) /\ \A h \in A : log[h][i] = log[m][i]
    BY <1>2, CommittedIn
<1>4. PICK B \in SUBSET Server : Majority(B, Server) /\ \A h \in B : log[h][i] = log[n][i]
    BY <1>2, CommittedIn
<1>5. A \cap B # {}
    BY <1>3, <1>4, MajoritiesIntersect, ServerAssumption
<1> QED BY <1>2, <1>3, <1>4, <1>5

(* State machine safety: no two servers hand different commands to the     *)
(* application for the same index, under the same conditions               *)
(* (commitChanSender).                                                     *)
THEOREM CalmStateMachinesAgree ==
    ASSUME Calm
    PROVE  Spec /\ RequestsInTerm /\ AnswersInTerm => []StateMachineSafety
BY SafetyHolds, StateMachinesAgree, PTL

(* Committed is stable: what a server considers committed stays committed  *)
(* and stays in its log as it is; under the same conditions no request     *)
(* cuts it, and no answer moves commitIndex back (AppendEntriesHelper,     *)
(* leaderSendAEs).                                                         *)
THEOREM CalmCommitsAreStable ==
    ASSUME Calm
    PROVE  Spec /\ RequestsInTerm /\ AnswersInTerm => CommittedIsStable
<1> DEFINE Stays == \A n \in Server : crashes' = crashes =>
                        /\ commitIndex'[n] >= commitIndex[n]
                        /\ \A i \in 1..commitIndex[n] :
                               i <= Len(log'[n]) /\ log'[n][i] = log[n][i]
<1>1. ASSUME Known, SafetyInv, [Next]_vars, [SendsInTerm]_vars, [CountsInTerm]_vars
      PROVE  Stays
    <2> SUFFICES ASSUME NEW n \in Server
                 PROVE  /\ commitIndex'[n] >= commitIndex[n]
                        /\ \A i \in 1..commitIndex[n] :
                               i <= Len(log'[n]) /\ log'[n][i] = log[n][i]
        OBVIOUS
    <2>1. SendsInTerm /\ CountsInTerm
        BY <1>1, NextSafetyInv
    <2>2. commitIndex'[n] >= commitIndex[n]
        BY <1>1, <2>1, NextCommitsAreSafe DEF SafetyInv
    <2>3. ASSUME NEW i \in 1..commitIndex[n]
          PROVE  i <= Len(log'[n]) /\ log'[n][i] = log[n][i]
        <3>1. commitIndex[n] \in Nat /\ commitIndex[n] > 0
            BY <1>1, Types DEF Known
        <3>2. /\ commitIndex[n] <= Len(log'[n])
              /\ \A j \in 1..commitIndex[n] : log'[n][j] = log[n][j]
            BY <1>1, <2>1, <3>1, CommitKept DEF SafetyInv
        <3>3. log'[n] \in Seq(LogEntry)
            BY <1>1, KnownKept DEF Known, TypeOK, CMTypeOK
        <3>4. Len(log'[n]) \in Nat
            BY <3>3
        <3> QED BY <3>1, <3>2, <3>4
    <2> QED BY <2>2, <2>3
<1>2. /\ Known /\ SafetyInv /\ [Next]_vars /\ [SendsInTerm]_vars /\ [CountsInTerm]_vars
      => [Stays]_vars
    BY <1>1
<1> HIDE DEF Stays
<1>3. Spec /\ RequestsInTerm /\ AnswersInTerm => [][Stays]_vars
    BY <1>2, SafetyHolds, PTL DEF Spec, RequestsInTerm, AnswersInTerm
<1> QED BY <1>3 DEF Stays, CommittedIsStable

(* matchIndex tells the truth: under the same conditions a peer that is    *)
(* not in a later term holds the leader's log up to there, in whatever     *)
(* order requests and answers came (the success branch of leaderSendAEs).  *)
THEOREM CalmMatchIndexIsHeld ==
    ASSUME Calm
    PROVE  Spec /\ RequestsInTerm /\ AnswersInTerm => []MatchIndexIsHeld
<1>1. Known /\ SafetyInv => MatchIndexIsHeld
    <2> SUFFICES ASSUME Known, SafetyInv, NEW n \in Server, NEW p \in Peers(n),
                        state[n] = Leader, currentTerm[p] <= currentTerm[n],
                        NEW i \in 1..matchIndex[n][p]
                 PROVE  i <= Len(log[n]) /\ i <= Len(log[p]) /\ log[n][i] = log[p][i]
        BY DEF MatchIndexIsHeld
    <2>1. p \in Server /\ p # n /\ matchIndex[n][p] \in Nat
        BY DEF Peers, Known, TypeOK, CMTypeOK
    <2>2. i \in Nat \ {0} /\ i <= matchIndex[n][p] /\ i \in 1..i
        BY <2>1
    <2>3. Ack(n, p, i)
        BY <2>1, <2>2 DEF Ack
    <2>4. i <= Len(log[n]) /\ currentTerm[n] <= currentTerm[p]
        BY <2>1, <2>2, <2>3 DEF SafetyInv, PastInv, AcksHold
    <2>5. currentTerm[p] = currentTerm[n]
        BY <2>1, <2>4, Types DEF Known
    <2>6. i <= Len(log[p]) /\ log[p][i].term = log[n][i].term
        BY <2>1, <2>2, <2>3, <2>5 DEF SafetyInv, PastInv, AcksHold
    <2> QED BY <2>1, <2>2, <2>4, <2>6, LogsAgree DEF Known
<1> QED BY <1>1, SafetyHolds, PTL
-----------------------------------------------------------------------------
(***************************************************************************)
(* The consensus module implements the replicated log.                     *)
(***************************************************************************)

(* Sequence s is a prefix of t. *)
LEMMA PrefixOf ==
    ASSUME NEW S, NEW s \in Seq(S), NEW t \in Seq(S), Len(s) <= Len(t),
           \A k \in 1..Len(s) : s[k] = t[k]
    PROVE  Log!Prefix(s, t) /\ s = SubSeq(t, 1, Len(s))
<1>1. Len(s) \in Nat /\ Len(t) \in Nat
    OBVIOUS
<1>2. s = SubSeq(t, 1, Len(s))
    <2> DEFINE l == Len(s)
               u == SubSeq(t, 1, l)
    <2>1. /\ u \in Seq(S) /\ Len(u) = l /\ \A i \in 1..l : u[i] = t[i]
        <3>1. 1 \in 1..(Len(t) + 1) /\ l \in (1 - 1)..Len(t) /\ l - 1 + 1 = l
            BY <1>1
        <3>2. /\ u \in Seq(S) /\ Len(u) = l - 1 + 1
              /\ \A i \in 1..(l - 1 + 1) : u[i] = t[1 + i - 1]
            <4> HIDE DEF l
            <4> QED BY <3>1, PartOfSeq
        <3>3. \A i \in 1..l : 1 + i - 1 = i
            BY <1>1
        <3> HIDE DEF u, l
        <3> QED BY <3>1, <3>2, <3>3
    <2> HIDE DEF u
    <2> QED BY <1>1, <2>1 DEF u
<1> QED BY <1>2 DEF Log!Prefix

(* What is decided is what any server was handed, without a gap. *)
LEMMA DecidedIsSequence ==
    ASSUME Known, SafetyInv
    PROVE  /\ Decided \in Seq(Command)
           /\ \A n \in Server : /\ lastApplied[n] \in 0..Len(Decided)
                                /\ \A k \in 1..lastApplied[n] :
                                       Decided[k] = applied[n][k].command
           /\ \A k \in 1..Len(Decided) : \E n \in Server : k \in 1..lastApplied[n]
<1> DEFINE handed == UNION {{applied[n][i] : i \in DOMAIN applied[n]} : n \in Server}
           D == {e.index : e \in handed}
           T == {1..lastApplied[n] : n \in Server}
           one(i) == CHOOSE e \in handed : e.index = i
<1>1. Decided = [i \in D |-> one(i).command]
    BY DEF Decided
<1>2. ASSUME NEW n \in Server, NEW k \in 1..lastApplied[n]
      PROVE  applied[n][k] \in handed /\ applied[n][k].index = k /\ k \in D
    <2>1. k \in DOMAIN applied[n] /\ applied[n][k].index = k
        BY Handed
    <2>2. applied[n][k] \in handed
        BY <2>1
    <2> QED BY <2>1, <2>2
<1>3. ASSUME NEW e \in handed
      PROVE  \E n \in Server : e.index \in 1..lastApplied[n] /\ e = applied[n][e.index]
    <2>1. PICK n \in Server : \E k \in DOMAIN applied[n] : e = applied[n][k]
        OBVIOUS
    <2> QED BY <2>1, Handed
<1> HIDE DEF handed
<1>4. D = UNION T
    BY <1>2, <1>3
<1>5. ASSUME NEW n \in Server, NEW k \in 1..lastApplied[n]
      PROVE  Decided[k] = applied[n][k].command
    <2>1. one(k) \in handed /\ one(k).index = k
        BY <1>2
    <2> HIDE DEF one
    <2>2. PICK m \in Server : k \in 1..lastApplied[m] /\ one(k) = applied[m][k]
        BY <1>3, <2>1
    <2>3. /\ k \in DOMAIN applied[m] /\ k \in DOMAIN applied[n]
          /\ applied[m][k].index = applied[n][k].index
        BY <2>2, Handed
    <2>4. applied[m][k].command = applied[n][k].command
        BY <2>3, StateMachinesAgree DEF StateMachineSafety
    <2>5. k \in D
        BY <1>2
    <2> HIDE DEF D
    <2> QED BY <1>1, <2>2, <2>4, <2>5
<1> HIDE DEF D
<1>6. IsFiniteSet(D)
    <2> DEFINE f == [n \in Server |-> 1..lastApplied[n]]
    <2>1. f \in Surjection(Server, T)
        BY DEF Surjection
    <2>2. IsFiniteSet(T)
        BY <2>1, ServerAssumption, FS_Surjection
    <2>3. \A s \in T : IsFiniteSet(s)
        <3> SUFFICES ASSUME NEW n \in Server PROVE IsFiniteSet(1..lastApplied[n])
            OBVIOUS
        <3>1. lastApplied[n] \in Int /\ 1 \in Int
            BY Handed
        <3> QED BY <3>1, FS_Interval
    <2> HIDE DEF T
    <2> QED BY <1>4, <2>2, <2>3, FS_UNION
<1> DEFINE M == Cardinality(D)
<1>7. M \in Nat
    BY <1>6, FS_CardinalityType
<1>8. ASSUME NEW k \in D PROVE k \in 1..M /\ 1..k \subseteq D
    <2>1. PICK n \in Server : k \in 1..lastApplied[n]
        BY <1>4
    <2>2. lastApplied[n] \in Nat
        BY Handed
    <2>3. 1..k \subseteq D /\ k \in Nat /\ k > 0
        BY <1>4, <2>1, <2>2
    <2>4. Cardinality(1..k) <= Cardinality(D)
        BY <1>6, <2>3, FS_Subset
    <2>5. Cardinality(1..k) = k
        BY <2>3, FS_Interval
    <2> QED BY <1>7, <2>3, <2>4, <2>5
<1>9. D = 1..M
    <2>1. D \subseteq 1..M
        BY <1>8
    <2>2. IsFiniteSet(1..M) /\ Cardinality(1..M) = M
        BY <1>7, FS_Interval
    <2> QED BY <2>1, <2>2, FS_Subset
<1>10. ASSUME NEW k \in D PROVE Decided[k] \in Command
    <2>1. PICK n \in Server : k \in 1..lastApplied[n]
        BY <1>4
    <2> QED BY <1>5, <2>1, Handed
<1>11. Decided \in Seq(Command) /\ Len(Decided) = M
    <2>1. DOMAIN Decided = 1..M /\ Decided = [k \in 1..M |-> Decided[k]]
        BY <1>1, <1>9
    <2>2. Decided \in [1..M -> Command]
        BY <1>9, <1>10, <2>1
    <2> HIDE DEF M
    <2> QED BY <1>7, <2>2
<1>12. ASSUME NEW n \in Server PROVE lastApplied[n] \in 0..M
    <2>1. lastApplied[n] \in Nat
        BY Handed
    <2>2. CASE lastApplied[n] > 0
        BY <1>4, <1>9, <2>1, <2>2
    <2> QED BY <1>7, <2>1, <2>2
<1> QED BY <1>4, <1>5, <1>9, <1>11, <1>12

(* A server has been handed a prefix of it. *)
LEMMA DeliveredIsPrefix ==
    ASSUME Known, SafetyInv
    PROVE  /\ DOMAIN Delivered = Server
           /\ \A n \in Server :
                  /\ Delivered[n] \in Seq(Command) /\ Len(Delivered[n]) = lastApplied[n]
                  /\ \A k \in 1..lastApplied[n] : Delivered[n][k] = applied[n][k].command
                  /\ Log!Prefix(Delivered[n], Decided)
                  /\ Delivered[n] = SubSeq(Decided, 1, lastApplied[n])
<1>1. DOMAIN Delivered = Server
    BY DEF Delivered
<1>2. ASSUME NEW n \in Server
      PROVE  /\ Delivered[n] \in Seq(Command) /\ Len(Delivered[n]) = lastApplied[n]
             /\ \A k \in 1..lastApplied[n] : Delivered[n][k] = applied[n][k].command
    <2> DEFINE l == lastApplied[n]
    <2>1. l \in Nat /\ \A k \in 1..l : Len(applied[n]) - l + k = k
        BY Handed
    <2>2. Delivered[n] = [k \in 1..l |-> applied[n][k].command]
        BY <2>1 DEF Delivered
    <2>3. Delivered[n] \in [1..l -> Command]
        BY <2>2, Handed
    <2> HIDE DEF l
    <2>4. Delivered[n] \in Seq(Command) /\ Len(Delivered[n]) = l
        BY <2>1, <2>3
    <2> QED BY <2>2, <2>4 DEF l
<1>3. ASSUME NEW n \in Server
      PROVE  /\ Log!Prefix(Delivered[n], Decided)
             /\ Delivered[n] = SubSeq(Decided, 1, lastApplied[n])
    <2>1. /\ Decided \in Seq(Command) /\ lastApplied[n] <= Len(Decided)
          /\ \A k \in 1..lastApplied[n] : Decided[k] = applied[n][k].command
        BY DecidedIsSequence
    <2> QED BY <1>2, <2>1, PrefixOf
<1> QED BY <1>1, <1>2, <1>3

(* At first nothing is decided and nobody was handed anything. *)
LEMMA InitImplementsLog ==
    ASSUME Init, Known, SafetyInv PROVE Log!Init
<1>1. <<>> \in Seq(Command) /\ Len(<<>>) = 0 /\ Decided \in Seq(Command)
    BY DecidedIsSequence
<1>2. 0 <= Len(Decided) /\ \A k \in 1..0 : <<>>[k] = Decided[k]
    BY <1>1
<1>3. Log!Prefix(<<>>, Decided)
    BY <1>1, <1>2, PrefixOf
<1> QED BY <1>3, DeliveredIsPrefix DEF Log!Init

(* A server is handed more, or nothing happens that the log would show.    *)
LEMMA NextImplementsLog ==
    ASSUME Calm, Known, SafetyInv, Known', SafetyInv', [Next]_vars
    PROVE  [Log!Next]_(Log!vars)
<1> USE DEF Known
<1>1. /\ (Known /\ SafetyInv => Decided \in Seq(Command))'
      /\ (Known /\ SafetyInv =>
              /\ \A n \in Server : /\ lastApplied[n] \in 0..Len(Decided)
                                   /\ \A k \in 1..lastApplied[n] :
                                          Decided[k] = applied[n][k].command
              /\ \A k \in 1..Len(Decided) : \E n \in Server : k \in 1..lastApplied[n])'
    BY DecidedIsSequence, PTL
<1>2. (Known /\ SafetyInv =>
           /\ DOMAIN Delivered = Server
           /\ \A n \in Server :
                  /\ Delivered[n] \in Seq(Command) /\ Len(Delivered[n]) = lastApplied[n]
                  /\ \A k \in 1..lastApplied[n] : Delivered[n][k] = applied[n][k].command
                  /\ Log!Prefix(Delivered[n], Decided)
                  /\ Delivered[n] = SubSeq(Decided, 1, lastApplied[n]))'
    BY DeliveredIsPrefix, PTL
<1> DEFINE Same(n) == applied'[n] = applied[n] /\ lastApplied'[n] = lastApplied[n]
<1>3. CASE \A n \in Server : Same(n)
    <2>1. applied' = applied /\ lastApplied' = lastApplied
        <3>1. /\ DOMAIN applied = Server /\ DOMAIN lastApplied = Server
              /\ DOMAIN applied' = Server /\ DOMAIN lastApplied' = Server
              /\ applied = [n \in Server |-> applied[n]]
              /\ applied' = [n \in Server |-> applied'[n]]
              /\ lastApplied = [n \in Server |-> lastApplied[n]]
              /\ lastApplied' = [n \in Server |-> lastApplied'[n]]
            BY DEF TypeOK, CMTypeOK, StoreTypeOK
        <3> QED BY <1>3, <3>1
    <2> QED BY <2>1 DEF Log!vars, Decided, Delivered
<1>4. ASSUME NEW n \in Server, CommitChanSender(n), ~Same(n)
      PROVE  Log!Deliver(n)
    <2> DEFINE a == lastApplied[n]
               b == lastApplied'[n]
    <2>1. ASSUME NEW p \in Server, p # n PROVE Same(p)
        <3>1. applied \in [Server -> Seq(CommitEntry)] /\ lastApplied \in [Server -> Nat]
            BY DEF TypeOK, CMTypeOK, StoreTypeOK
        <3> QED BY <1>4, <2>1, <3>1 DEF CommitChanSender
    <2>2. /\ a \in Nat /\ b \in Nat /\ a < b
          /\ \A p \in Server : /\ lastApplied[p] \in Nat /\ lastApplied'[p] \in Nat
                               /\ lastApplied[p] <= lastApplied'[p]
        <3>1. commitIndex[n] > lastApplied[n] /\ lastApplied'[n] = commitIndex[n]
            BY <1>4 DEF CommitChanSender, TypeOK, CMTypeOK
        <3>2. \A p \in Server : /\ lastApplied[p] \in Nat /\ lastApplied'[p] \in Nat
                                /\ commitIndex[p] \in Nat
            BY DEF TypeOK, CMTypeOK
        <3> QED BY <2>1, <3>1, <3>2
    <2>3. ASSUME NEW p \in Server, NEW k \in 1..lastApplied[p]
          PROVE  applied'[p][k].command = applied[p][k].command
        <3>1. CASE p # n
            BY <2>1, <3>1
        <3>2. CASE p = n
            <4>1. log' = log
                BY <1>4 DEF CommitChanSender, raftVars
            <4>2. AppliedFrom(applied[n], log[n]) /\ AppliedFrom(applied'[n], log'[n])
                BY DEF SafetyInv, AppliedIsCommitted
            <4>3. Len(applied[n]) = lastApplied[n] /\ Len(applied'[n]) = lastApplied'[n]
                BY DEF SafetyInv, AppliedIsCommitted
            <4>4. k \in 1..Len(applied[n]) /\ k \in 1..Len(applied'[n])
                BY <2>2, <3>2, <4>3
            <4> QED BY <3>2, <4>1, <4>2, <4>4 DEF AppliedFrom
        <3> QED BY <3>1, <3>2
    <2>4. Decided \in Seq(Command) /\ Decided' \in Seq(Command)
        BY <1>1, DecidedIsSequence
    <2>5. Len(Decided) \in Nat /\ Len(Decided') \in Nat
        BY <2>4
    <2>6. ASSUME NEW k \in 1..Len(Decided)
          PROVE  k <= Len(Decided') /\ Decided[k] = Decided'[k]
        <3>1. PICK p \in Server : k \in 1..lastApplied[p]
            BY DecidedIsSequence
        <3>2. Decided[k] = applied[p][k].command
            BY <3>1, DecidedIsSequence
        <3>3. lastApplied'[p] \in 0..Len(Decided')
            BY <1>1
        <3>4. k \in 1..lastApplied'[p] /\ k <= Len(Decided')
            BY <2>2, <2>5, <3>1, <3>3
        <3>5. Decided'[k] = applied'[p][k].command
            BY <1>1, <3>4
        <3> QED BY <2>3, <3>1, <3>2, <3>4, <3>5
    <2>7. Log!Prefix(Decided, Decided')
        <3>1. Len(Decided) <= Len(Decided')
            <4>1. CASE Len(Decided) = 0
                BY <2>5, <4>1
            <4>2. CASE Len(Decided) > 0
                <5>1. Len(Decided) \in 1..Len(Decided)
                    BY <2>5, <4>2
                <5> QED BY <2>6, <5>1
            <4> QED BY <2>5, <4>1, <4>2
        <3> QED BY <2>4, <2>6, <3>1, PrefixOf
    <2>8. b \in (Len(Delivered[n]) + 1)..Len(Decided')
        <3>1. Len(Delivered[n]) = a
            BY DeliveredIsPrefix
        <3>2. b \in 0..Len(Decided')
            BY <1>1
        <3> QED BY <2>2, <2>5, <3>1, <3>2
    <2>9. Delivered' = [Delivered EXCEPT ![n] = SubSeq(Decided', 1, b)]
        <3>1. Delivered'[n] = SubSeq(Decided', 1, b)
            BY <1>2
        <3>2. ASSUME NEW p \in Server, p # n PROVE Delivered'[p] = Delivered[p]
            BY <2>1, <3>2 DEF Delivered
        <3>3. /\ Delivered = [p \in Server |-> Delivered[p]]
              /\ Delivered' = [p \in Server |-> Delivered'[p]]
            BY DEF Delivered
        <3> HIDE DEF b
        <3> QED BY <3>1, <3>2, <3>3
    <2> QED BY <2>7, <2>8, <2>9 DEF Log!Deliver
<1>5. CASE \E n \in Server : ~Same(n)
    <2>1. PICK n \in Server : ~Same(n)
        BY <1>5
    <2>2. CommitChanSender(n)
        BY <2>1, AppliedSteps
    <2> QED BY <1>4, <2>1, <2>2 DEF Log!Next
<1> QED BY <1>3, <1>5

(* The consensus module implements the replicated log: there is one        *)
(* sequence of commands, it only grows, and every server is handed a       *)
(* prefix of it, in order and without gaps; under the same conditions      *)
(* (commitChanSender, leaderSendAEs, AppendEntriesHelper).                 *)
THEOREM CalmImplementsLog ==
    ASSUME Calm
    PROVE  Spec /\ RequestsInTerm /\ AnswersInTerm => ImplementsLog
<1>1. Init /\ Known /\ SafetyInv => Log!Init
    BY InitImplementsLog
<1>2. /\ Known /\ SafetyInv /\ Known' /\ SafetyInv' /\ [Next]_vars
      => [Log!Next]_(Log!vars)
    BY NextImplementsLog
<1> QED BY <1>1, <1>2, SafetyHolds, PTL DEF Spec, ImplementsLog, Log!Spec
=============================================================================
