----------------------------- MODULE RaftProofs -----------------------------
(***************************************************************************)
(* Theorems about Raft, for every cluster and every value of the bounds.   *)
(***************************************************************************)
EXTENDS Raft, TLAPS, WellFoundedInduction, FiniteSetTheorems, SequenceTheorems

(***************************************************************************)
(* What the operators of RaftLog compute, for every log.                   *)
(***************************************************************************)

(* A set of natural numbers that is not empty has a least element.         *)
LEMMA LeastElement ==
    ASSUME NEW S \in SUBSET Nat, S # {}
    PROVE  \E k \in S : \A j \in S : k <= j
<1> DEFINE R == OpToRel(<, Nat)
<1>1. IsWellFoundedOn(R, Nat)
    BY NatLessThanWellFounded
<1>2. PICK k \in S : \A j \in S : ~ (<<j, k>> \in R)
    <2> HIDE DEF R
    <2> QED BY <1>1, WFMin
<1>3. \A j \in S : ~ (j < k)
    BY <1>2 DEF OpToRel
<1> QED BY <1>3

(* A bounded set of natural numbers that is not empty has a greatest one.  *)
LEMMA GreatestElement ==
    ASSUME NEW n \in Nat, NEW S \in SUBSET (0..n), S # {}
    PROVE  \E k \in S : \A j \in S : j <= k
<1> DEFINE T == {n - i : i \in S}
<1>1. T \in SUBSET Nat /\ T # {}
    <2>1. \A i \in S : n - i \in Nat
        OBVIOUS
    <2>2. PICK i \in S : TRUE
        OBVIOUS
    <2>3. n - i \in T
        BY <2>2
    <2> QED BY <2>1, <2>3
<1>2. PICK t \in T : \A u \in T : t <= u
    <2> HIDE DEF T
    <2> QED BY <1>1, LeastElement
<1>3. PICK k \in S : t = n - k
    OBVIOUS
<1>4. ASSUME NEW j \in S PROVE j <= k
    <2>1. n - j \in T
        OBVIOUS
    <2>2. n - k <= n - j
        BY <2>1, <1>2, <1>3
    <2> QED BY <2>2
<1> QED BY <1>4

(* The first mismatch that the comparison loop of AppendEntriesHelper      *)
(* finds is well defined.                                                  *)
LEMMA FirstMismatch ==
    ASSUME NEW Entry, NEW own \in Seq(Entry), NEW entries \in Seq(Entry),
           NEW prev \in 0..Len(own), Mismatches(own, prev, entries) # {}
    PROVE  LET stops == Mismatches(own, prev, entries)
               first == CHOOSE k \in stops : \A j \in stops : k <= j
           IN /\ first \in stops
              /\ \A j \in stops : first <= j
              /\ first \in 1..Len(entries)
              /\ prev + first - 1 \in 0..Len(own)
<1> DEFINE stops == Mismatches(own, prev, entries)
           first == CHOOSE k \in stops : \A j \in stops : k <= j
<1>1. stops \in SUBSET (1..Len(entries))
    BY DEF Mismatches
<1>2. \E k \in stops : \A j \in stops : k <= j
    <2>1. stops \in SUBSET Nat
        BY <1>1
    <2> QED BY <2>1, LeastElement
<1>3. first \in stops /\ \A j \in stops : first <= j
    <2> HIDE DEF stops
    <2> QED BY <1>2
<1>4. first \in 1..Len(entries)
    BY <1>1, <1>3
<1>5. prev + first - 1 <= Len(own)
    <2>1. CASE first = 1
        <3>1. prev <= Len(own) /\ prev + first - 1 = prev
            <4> HIDE DEF first
            <4> QED BY <2>1
        <3> QED BY <3>1
    <2>2. CASE first # 1
        <3>1. first - 1 \in 1..Len(entries) /\ ~ (first <= first - 1)
            BY <1>4, <2>2
        <3>2. first - 1 \notin stops
            <4> HIDE DEF stops, first
            <4> QED BY <1>3, <3>1
        <3>3. ~ (prev + (first - 1) > Len(own))
            <4> HIDE DEF first
            <4> QED BY <3>1, <3>2 DEF Mismatches
        <3> QED BY <3>3, <1>4
    <2> QED BY <2>1, <2>2
<1> QED BY <1>3, <1>4, <1>5

(* The log AppendEntriesHelper leaves behind is a log.                     *)
LEMMA MergeEntriesType ==
    ASSUME NEW Entry, NEW own \in Seq(Entry), NEW entries \in Seq(Entry),
           NEW prev \in 0..Len(own)
    PROVE  MergeEntries(own, prev, entries) \in Seq(Entry)
<1> DEFINE stops == Mismatches(own, prev, entries)
           first == CHOOSE k \in stops : \A j \in stops : k <= j
<1>1. CASE stops = {}
    BY <1>1 DEF MergeEntries
<1>2. CASE stops # {}
    <2>1. first \in 1..Len(entries) /\ prev + first - 1 \in 0..Len(own)
        BY <1>2, FirstMismatch
    <2>2. MergeEntries(own, prev, entries) =
              SubSeq(own, 1, prev + first - 1) \o SubSeq(entries, first, Len(entries))
        BY <1>2 DEF MergeEntries
    <2> HIDE DEF first, stops
    <2>3. /\ SubSeq(own, 1, prev + first - 1) \in Seq(Entry)
          /\ SubSeq(entries, first, Len(entries)) \in Seq(Entry)
        BY <2>1
    <2> QED BY <2>2, <2>3
<1> QED BY <1>1, <1>2

(* A part of a sequence. *)
LEMMA PartOfSeq ==
    ASSUME NEW Entry, NEW seq \in Seq(Entry),
           NEW m \in 1..(Len(seq) + 1), NEW n \in (m - 1)..Len(seq)
    PROVE  /\ SubSeq(seq, m, n) \in Seq(Entry)
           /\ Len(SubSeq(seq, m, n)) = n - m + 1
           /\ \A i \in 1..(n - m + 1) : SubSeq(seq, m, n)[i] = seq[m + i - 1]
<1>1. \A i \in m..n : seq[i] \in Entry
    BY LenProperties
<1>2. m \in Int /\ n \in Int
    OBVIOUS
<1>3. /\ SubSeq(seq, m, n) \in Seq(Entry)
      /\ Len(SubSeq(seq, m, n)) = IF m <= n THEN n - m + 1 ELSE 0
      /\ \A i \in 1..(n - m + 1) : SubSeq(seq, m, n)[i] = seq[m + i - 1]
    BY <1>1, <1>2, SubSeqProperties
<1> QED BY <1>3

(* What a splice leaves: up to prevLogIndex the log as it was, and from     *)
(* there on an entry with the term of each entry sent, which is the one    *)
(* sent or the one held before; nothing follows them if it has changed.    *)
MergedFrom(merged, own, prev, entries) ==
    /\ Len(merged) >= prev + Len(entries)
    /\ \A i \in 1..prev : merged[i] = own[i]
    /\ \A k \in 1..Len(entries) : merged[prev + k].term = entries[k].term
    /\ merged # own => Len(merged) = prev + Len(entries)
    /\ \A k \in 1..Len(entries) :
           \/ merged[prev + k] = entries[k]
           \/ prev + k <= Len(own) /\ merged[prev + k] = own[prev + k]

(* What a successful AppendEntries means to the leader that sent it, and   *)
(* relies on when it sets matchIndex.                                      *)
THEOREM MergeEntriesHolds ==
    ASSUME NEW Entry, NEW own \in Seq(Entry), NEW entries \in Seq(Entry),
           NEW prev \in 0..Len(own)
    PROVE  MergedFrom(MergeEntries(own, prev, entries), own, prev, entries)
<1> DEFINE stops == Mismatches(own, prev, entries)
           first == CHOOSE k \in stops : \A j \in stops : k <= j
           merged == MergeEntries(own, prev, entries)
<1>1. /\ Len(own) \in Nat /\ Len(entries) \in Nat
      /\ prev \in Nat /\ prev <= Len(own)
    OBVIOUS
<1>2. ASSUME NEW k \in 1..Len(entries), k \notin stops
      PROVE  prev + k <= Len(own) /\ own[prev + k].term = entries[k].term
    <2>1. ~ (prev + k > Len(own)) /\ ~ (own[prev + k].term # entries[k].term)
        BY <1>2 DEF Mismatches
    <2> QED BY <1>1, <2>1
<1> SUFFICES /\ Len(merged) >= prev + Len(entries)
             /\ \A i \in 1..prev : merged[i] = own[i]
             /\ \A k \in 1..Len(entries) : merged[prev + k].term = entries[k].term
             /\ merged # own => Len(merged) = prev + Len(entries)
             /\ \A k \in 1..Len(entries) :
                    \/ merged[prev + k] = entries[k]
                    \/ prev + k <= Len(own) /\ merged[prev + k] = own[prev + k]
    BY DEF MergedFrom
<1>3. CASE stops = {}
    <2>1. merged = own
        BY <1>3 DEF MergeEntries
    <2> HIDE DEF merged, stops
    <2>2. Len(own) >= prev + Len(entries)
        <3>1. CASE Len(entries) = 0
            BY <1>1, <3>1
        <3>2. CASE Len(entries) # 0
            <4>1. Len(entries) \in 1..Len(entries)
                BY <1>1, <3>2
            <4>2. prev + Len(entries) <= Len(own)
                BY <1>2, <1>3, <4>1
            <4> QED BY <1>1, <4>2
        <3> QED BY <3>1, <3>2
    <2>3. \A k \in 1..Len(entries) : own[prev + k].term = entries[k].term
        BY <1>2, <1>3
    <2>4. \A k \in 1..Len(entries) : prev + k <= Len(own)
        BY <1>2, <1>3
    <2> QED BY <2>1, <2>2, <2>3, <2>4
<1>4. CASE stops # {}
    <2> DEFINE kept == SubSeq(own, 1, prev + first - 1)
               added == SubSeq(entries, first, Len(entries))
    <2>1. /\ \A j \in stops : first <= j
          /\ first \in 1..Len(entries)
          /\ prev + first - 1 \in 0..Len(own)
        BY <1>4, FirstMismatch
    <2>2. merged = kept \o added
        BY <1>4 DEF MergeEntries
    <2> HIDE DEF first, stops, merged
    <2>3. \A k \in 1..(first - 1) : own[prev + k].term = entries[k].term
        <3> SUFFICES ASSUME NEW k \in 1..(first - 1)
                     PROVE  own[prev + k].term = entries[k].term
            OBVIOUS
        <3>1. k \in 1..Len(entries) /\ ~ (first <= k)
            BY <1>1, <2>1
        <3> QED BY <3>1, <2>1, <1>2
    <2>4. /\ kept \in Seq(Entry) /\ Len(kept) = prev + first - 1
          /\ \A i \in 1..(prev + first - 1) : kept[i] = own[i]
        <3>1. /\ 1 \in 1..(Len(own) + 1)
              /\ prev + first - 1 \in (1 - 1)..Len(own)
              /\ (prev + first - 1) - 1 + 1 = prev + first - 1
              /\ \A i \in 1..(prev + first - 1) : 1 + i - 1 = i
            BY <1>1, <2>1
        <3> QED BY <3>1, PartOfSeq
    <2>5. /\ added \in Seq(Entry) /\ Len(added) = Len(entries) - first + 1
          /\ \A i \in 1..(Len(entries) - first + 1) : added[i] = entries[first + i - 1]
        <3>1. /\ first \in 1..(Len(entries) + 1)
              /\ Len(entries) \in (first - 1)..Len(entries)
            BY <1>1, <2>1
        <3> QED BY <3>1, PartOfSeq
    <2> HIDE DEF kept, added
    <2>6. /\ Len(merged) = Len(kept) + Len(added)
          /\ \A i \in 1..(Len(kept) + Len(added)) :
                 merged[i] = IF i <= Len(kept) THEN kept[i] ELSE added[i - Len(kept)]
        BY <2>2, <2>4, <2>5, ConcatProperties
    <2>7. Len(merged) = prev + Len(entries)
        BY <1>1, <2>1, <2>4, <2>5, <2>6
    <2>8. \A i \in 1..(prev + first - 1) : merged[i] = own[i]
        <3> SUFFICES ASSUME NEW i \in 1..(prev + first - 1)
                     PROVE  merged[i] = own[i]
            OBVIOUS
        <3>1. i <= Len(kept) /\ i \in 1..(Len(kept) + Len(added))
            BY <1>1, <2>1, <2>4, <2>5
        <3> QED BY <3>1, <2>4, <2>6
    <2>9. \A k \in first..Len(entries) : merged[prev + k] = entries[k]
        <3> SUFFICES ASSUME NEW k \in first..Len(entries)
                     PROVE  merged[prev + k] = entries[k]
            OBVIOUS
        <3>1. /\ prev + k \in 1..(Len(kept) + Len(added))
              /\ ~ (prev + k <= Len(kept))
              /\ prev + k - Len(kept) = k - first + 1
              /\ k - first + 1 \in 1..(Len(entries) - first + 1)
              /\ first + (k - first + 1) - 1 = k
            BY <1>1, <2>1, <2>4, <2>5
        <3>2. merged[prev + k] = added[k - first + 1]
            BY <2>6, <3>1
        <3>3. added[k - first + 1] = entries[k]
            BY <2>5, <3>1
        <3> QED BY <3>2, <3>3
    <2>10. ASSUME NEW k \in 1..Len(entries)
           PROVE  merged[prev + k].term = entries[k].term
        <3>1. CASE k < first
            <4>1. k \in 1..(first - 1) /\ prev + k \in 1..(prev + first - 1)
                BY <1>1, <2>1, <3>1
            <4> QED BY <2>3, <2>8, <4>1
        <3>2. CASE k >= first
            <4>1. k \in first..Len(entries)
                BY <1>1, <2>1, <3>2
            <4> QED BY <2>9, <4>1
        <3> QED BY <1>1, <2>1, <3>1, <3>2
    <2>11. \A i \in 1..prev : merged[i] = own[i]
        BY <1>1, <2>1, <2>8
    <2>12. Len(merged) >= prev + Len(entries)
        BY <1>1, <2>7
    <2>13. ASSUME NEW k \in 1..Len(entries)
           PROVE  \/ merged[prev + k] = entries[k]
                  \/ prev + k <= Len(own) /\ merged[prev + k] = own[prev + k]
        <3>1. CASE k < first
            <4>1. prev + k \in 1..(prev + first - 1) /\ prev + k <= Len(own)
                BY <1>1, <2>1, <3>1
            <4> QED BY <2>8, <4>1
        <3>2. CASE k >= first
            <4>1. k \in first..Len(entries)
                BY <1>1, <2>1, <3>2
            <4> QED BY <2>9, <4>1
        <3> QED BY <1>1, <2>1, <3>1, <3>2
    <2> QED BY <2>7, <2>10, <2>11, <2>12, <2>13
<1> QED BY <1>3, <1>4

(* The merge keeps a log up to an index where nothing sent disagrees with  *)
(* it.                                                                     *)
LEMMA MergeKeeps ==
    ASSUME NEW Entry, NEW own \in Seq(Entry), NEW entries \in Seq(Entry),
           NEW prev \in 0..Len(own), NEW c \in 0..Len(own),
           \A k \in 1..Len(entries) : prev + k <= c => entries[k].term = own[prev + k].term
    PROVE  LET merged == MergeEntries(own, prev, entries)
           IN c <= Len(merged) /\ \A i \in 1..c : merged[i] = own[i]
<1> DEFINE stops == Mismatches(own, prev, entries)
           first == CHOOSE k \in stops : \A j \in stops : k <= j
           merged == MergeEntries(own, prev, entries)
<1>1. /\ Len(own) \in Nat /\ Len(entries) \in Nat /\ prev \in Nat /\ c \in Nat
      /\ prev <= Len(own) /\ c <= Len(own)
    OBVIOUS
<1> SUFFICES c <= Len(merged) /\ \A i \in 1..c : merged[i] = own[i]
    OBVIOUS
<1>2. CASE stops = {}
    BY <1>1, <1>2 DEF MergeEntries
<1>3. CASE stops # {}
    <2> DEFINE kept == SubSeq(own, 1, prev + first - 1)
               added == SubSeq(entries, first, Len(entries))
    <2>1. /\ first \in stops /\ first \in 1..Len(entries)
          /\ prev + first - 1 \in 0..Len(own)
        BY <1>3, FirstMismatch
    <2>2. merged = kept \o added
        BY <1>3 DEF MergeEntries
    <2>3. prev + first > Len(own) \/ own[prev + first].term # entries[first].term
        <3> HIDE DEF first
        <3> QED BY <2>1 DEF Mismatches
    <2> HIDE DEF first, stops, merged
    <2>4. c <= prev + first - 1
        BY <1>1, <2>1, <2>3
    <2>5. /\ kept \in Seq(Entry) /\ Len(kept) = prev + first - 1
          /\ \A i \in 1..(prev + first - 1) : kept[i] = own[i]
        <3>1. /\ 1 \in 1..(Len(own) + 1)
              /\ prev + first - 1 \in (1 - 1)..Len(own)
              /\ (prev + first - 1) - 1 + 1 = prev + first - 1
              /\ \A i \in 1..(prev + first - 1) : 1 + i - 1 = i
            BY <1>1, <2>1
        <3> QED BY <3>1, PartOfSeq
    <2>6. added \in Seq(Entry)
        <3>1. first \in 1..(Len(entries) + 1) /\ Len(entries) \in (first - 1)..Len(entries)
            BY <1>1, <2>1
        <3> QED BY <3>1, PartOfSeq
    <2> HIDE DEF kept, added
    <2>7. /\ Len(merged) = Len(kept) + Len(added)
          /\ \A i \in 1..(Len(kept) + Len(added)) :
                 merged[i] = IF i <= Len(kept) THEN kept[i] ELSE added[i - Len(kept)]
        BY <2>2, <2>5, <2>6, ConcatProperties
    <2>8. Len(added) \in Nat
        BY <2>6
    <2>9. ASSUME NEW i \in 1..c PROVE merged[i] = own[i]
        <3>1. i \in 1..(Len(kept) + Len(added)) /\ i <= Len(kept) /\ i \in 1..(prev + first - 1)
            BY <1>1, <2>1, <2>4, <2>5, <2>8
        <3> QED BY <2>5, <2>7, <3>1
    <2> QED BY <1>1, <2>1, <2>4, <2>5, <2>7, <2>8, <2>9
<1> QED BY <1>2, <1>3

(* The commit loop of the leader moves commitIndex forward, within the     *)
(* log, and only onto an entry of the current term that a majority holds.  *)
THEOREM AdvanceCommitSound ==
    ASSUME NEW Entry, NEW own \in Seq(Entry), NEW commit \in Nat,
           NEW term, NEW match, NEW self, NEW servers
    PROVE  LET ok == Committable(own, commit, term, match, self, servers)
               new == AdvanceCommit(own, commit, term, match, self, servers)
           IN /\ new \in Nat
              /\ new >= commit
              /\ new # commit => new \in ok /\ new <= Len(own)
              /\ \A i \in ok : i <= new
<1> DEFINE ok == Committable(own, commit, term, match, self, servers)
           new == AdvanceCommit(own, commit, term, match, self, servers)
<1>1. ok \in SUBSET ((commit + 1)..Len(own))
    BY DEF Committable
<1> SUFFICES /\ new \in Nat /\ new >= commit
             /\ new # commit => new \in ok /\ new <= Len(own)
             /\ \A i \in ok : i <= new
    OBVIOUS
<1>2. CASE ok = {}
    BY <1>2 DEF AdvanceCommit
<1>3. CASE ok # {}
    <2>1. ok \in SUBSET (0..Len(own)) /\ Len(own) \in Nat
        BY <1>1
    <2>2. \E i \in ok : \A j \in ok : j <= i
        <3> HIDE DEF ok
        <3> QED BY <1>3, <2>1, GreatestElement
    <2>3. new = CHOOSE i \in ok : \A j \in ok : j <= i
        BY <1>3 DEF AdvanceCommit
    <2>4. new \in ok /\ \A j \in ok : j <= new
        <3> HIDE DEF ok, new
        <3> QED BY <2>2, <2>3
    <2> HIDE DEF ok, new
    <2> QED BY <1>1, <2>1, <2>4
<1> QED BY <1>2, <1>3

(* After a refusal the leader starts from an index of its own log.         *)
LEMMA NextIndexAfterRejectType ==
    ASSUME NEW Entry, NEW own \in Seq(Entry)
    PROVE  NextIndexAfterReject(own) \in Nat \ {0}
<1> DEFINE ofTerm == {i \in 1..Len(own) : own[i].term = ConflictTerm}
<1>1. CASE ofTerm = {}
    BY <1>1 DEF NextIndexAfterReject, ConflictIndex
<1>2. CASE ofTerm # {}
    <2>1. ofTerm \in SUBSET (0..Len(own)) /\ Len(own) \in Nat
        OBVIOUS
    <2>2. \E i \in ofTerm : \A j \in ofTerm : j <= i
        <3> HIDE DEF ofTerm
        <3> QED BY <1>2, <2>1, GreatestElement
    <2> DEFINE last == CHOOSE i \in ofTerm : \A j \in ofTerm : j <= i
    <2>3. NextIndexAfterReject(own) = last + 1
        BY <1>2 DEF NextIndexAfterReject
    <2>4. last \in ofTerm
        <3> HIDE DEF ofTerm
        <3> QED BY <2>2
    <2> HIDE DEF ofTerm, last
    <2> QED BY <2>1, <2>3, <2>4
<1> QED BY <1>1, <1>2

(* Two majorities of a finite cluster have a server in common.             *)
LEMMA MajoritiesIntersect ==
    ASSUME NEW S, IsFiniteSet(S), NEW A \in SUBSET S, NEW B \in SUBSET S,
           Majority(A, S), Majority(B, S)
    PROVE  A \cap B # {}
<1>1. Cardinality(A) \in Nat /\ Cardinality(B) \in Nat /\ Cardinality(S) \in Nat
    BY FS_Subset, FS_CardinalityType
<1>2. Cardinality(A) + Cardinality(B) > Cardinality(S)
    BY <1>1 DEF Majority
<1> QED BY <1>2, FS_MajoritiesIntersect
-----------------------------------------------------------------------------

-----------------------------------------------------------------------------
(***************************************************************************)
(* Type correctness, action by action.                                     *)
(***************************************************************************)

(* The initial state is well typed. *)
LEMMA InitTypeOK ==
    ASSUME Init PROVE TypeOK
<1>1. CMTypeOK
    BY DEF Init, CMTypeOK, CMState, Follower, Term
<1>2. ElectionTypeOK
    BY BoundsAssumption DEF Init, ElectionTypeOK, Election, Term
<1>3. VoteTypeOK
    BY DEF Init, VoteTypeOK
<1>4. AppendTypeOK
    BY BoundsAssumption DEF Init, AppendTypeOK
<1>5. StoreTypeOK
    BY BoundsAssumption DEF Init, StoreTypeOK, Snapshot, Term
<1> QED BY <1>1, <1>2, <1>3, <1>4, <1>5 DEF TypeOK

(* A step that changes nothing preserves the types. *)
LEMMA StutterTypeOK ==
    ASSUME TypeOK, UNCHANGED vars PROVE TypeOK'
BY DEF TypeOK, CMTypeOK, ElectionTypeOK, VoteTypeOK, AppendTypeOK, StoreTypeOK,
       vars, raftVars, commitVars, leaderVars, electionVars, voteVars, appendVars,
       saveVars, historyVars

(* A signal for commitChanSender keeps the counts natural numbers. *)
LEMMA NotifyTypeOK ==
    ASSUME newCommitReady \in [Server -> Nat], NEW n \in Server, NEW moved,
           Notify(n, moved)
    PROVE  newCommitReady' \in [Server -> Nat]
<1> DEFINE count == IF moved THEN newCommitReady[n] + 1 ELSE newCommitReady[n]
<1>1. count \in Nat
    OBVIOUS
<1>2. newCommitReady' = [newCommitReady EXCEPT ![n] = count]
    BY DEF Notify
<1> HIDE DEF count
<1> QED BY <1>1, <1>2

(* startElection. *)
LEMMA StartElectionTypeOK ==
    ASSUME TypeOK, NEW n \in Server, StartElection(n) PROVE TypeOK'
<1> USE DEF TypeOK
<1>0. /\ currentTerm[n] + 1 \in Term /\ elections + 1 \in 0..MaxElections
      /\ elections + 1 \in Election
    BY BoundsAssumption, SMTT(30) DEF StartElection, CMTypeOK, ElectionTypeOK, Election, Term
<1>1. CMTypeOK'
    BY <1>0 DEF StartElection, CMTypeOK, CMState, Candidate, commitVars, leaderVars
<1>2. ElectionTypeOK'
    <2>1. elections' \in 0..MaxElections
        BY <1>0 DEF StartElection
    <2>2. /\ electionTerm' \in [Election -> Term]
          /\ votesReceived' \in [Election -> SUBSET Server]
        BY <1>0 DEF StartElection, ElectionTypeOK
    <2>3. grants' \in SUBSET Grant
        BY <1>0 DEF StartElection, ElectionTypeOK, Grant
    <2>4. leaders' \in SUBSET Leadership
        BY DEF StartElection, ElectionTypeOK
    <2> QED BY <2>1, <2>2, <2>3, <2>4 DEF ElectionTypeOK
<1>3. VoteTypeOK'
    <2> DEFINE call(p) == [src |-> n, dst |-> p, eid |-> elections + 1,
                           term |-> currentTerm[n] + 1]
    <2>2. \A p \in Peers(n) : call(p) \in VoteCall
        BY <1>0 DEF VoteCall, Peers
    <2>3. voteCalls' = voteCalls \cup {call(p) : p \in Peers(n)}
        BY DEF StartElection
    <2> HIDE DEF call
    <2>4. voteCalls' \in SUBSET VoteCall
        BY <2>2, <2>3 DEF VoteTypeOK
    <2> QED BY <2>4 DEF StartElection, VoteTypeOK
<1>4. AppendTypeOK'
    BY DEF StartElection, AppendTypeOK, appendVars
<1>5. StoreTypeOK'
    BY DEF StartElection, StoreTypeOK, saveVars
<1> QED BY <1>1, <1>2, <1>3, <1>4, <1>5

(* The goroutine of startElection sends its request. *)
LEMMA SendRequestVoteTypeOK ==
    ASSUME TypeOK, NEW c \in voteCalls, SendRequestVote(c) PROVE TypeOK'
<1> USE DEF TypeOK
<1>1. CMTypeOK'
    BY DEF SendRequestVote, CMTypeOK, raftVars, commitVars, leaderVars
<1>2. ElectionTypeOK'
    BY DEF SendRequestVote, ElectionTypeOK, electionVars, historyVars
<1>3. VoteTypeOK'
    <2>1. c \in VoteCall
        BY DEF VoteTypeOK
    <2>2. LastLogIndex(log[c.src]) \in Nat /\ LastLogTerm(log[c.src]) \in Nat
        <3>1. log[c.src] \in Seq(LogEntry)
            BY <2>1 DEF CMTypeOK, VoteCall
        <3>2. Len(log[c.src]) > 0 => log[c.src][Len(log[c.src])] \in LogEntry
            BY <3>1, LenProperties
        <3> QED BY <3>1, <3>2 DEF LastLogIndex, LastLogTerm, LogEntry, Term
    <2> DEFINE request == [src |-> c.src, dst |-> c.dst, eid |-> c.eid,
                           term |-> c.term,
                           lastLogIndex |-> LastLogIndex(log[c.src]),
                           lastLogTerm |-> LastLogTerm(log[c.src]), live |-> TRUE]
    <2>3. request \in VoteRequest
        BY <2>1, <2>2 DEF VoteCall, VoteRequest
    <2>4. voteRequests' = voteRequests \cup {request}
        BY DEF SendRequestVote
    <2> HIDE DEF request
    <2> QED BY <2>3, <2>4 DEF SendRequestVote, VoteTypeOK
<1>4. AppendTypeOK'
    BY DEF SendRequestVote, AppendTypeOK, appendVars
<1>5. StoreTypeOK'
    BY DEF SendRequestVote, StoreTypeOK, saveVars
<1> QED BY <1>1, <1>2, <1>3, <1>4, <1>5

(* RequestVoteHelper. *)
LEMMA RequestVoteHelperTypeOK ==
    ASSUME TypeOK, NEW m \in voteRequests, RequestVoteHelper(m) PROVE TypeOK'
<1> USE DEF TypeOK
<1>0. m \in VoteRequest
    BY DEF VoteTypeOK
<1>1. CMTypeOK'
    BY <1>0 DEF RequestVoteHelper, CMTypeOK, CMState, Follower, Term, commitVars,
                leaderVars, VoteRequest
<1>2. ElectionTypeOK'
    BY <1>0 DEF RequestVoteHelper, ElectionTypeOK, electionVars, Grant, VoteRequest
<1>3. VoteTypeOK'
    <2> DEFINE newer == Newer(m.dst, m.term)
               term == IF newer THEN m.term ELSE currentTerm[m.dst]
               vote == IF newer THEN Nil ELSE votedFor[m.dst]
               granted == GrantsVote(m, term, vote, log[m.dst])
               reply == [src |-> m.src, dst |-> m.dst, eid |-> m.eid, term |-> m.term,
                         replyTerm |-> term, granted |-> granted]
    <2>1. granted \in BOOLEAN
        BY DEF GrantsVote
    <2>2. term \in Term
        BY <1>0 DEF CMTypeOK, VoteRequest, Term
    <2>3. voteReplies' = voteReplies \cup {r \in {reply} : m.live}
        BY DEF RequestVoteHelper
    <2> HIDE DEF granted, term
    <2>4. reply \in VoteReply
        BY <1>0, <2>1, <2>2 DEF VoteReply, VoteRequest
    <2> HIDE DEF reply
    <2>5. voteReplies' \in SUBSET VoteReply
        BY <2>3, <2>4 DEF VoteTypeOK
    <2> QED BY <2>5 DEF RequestVoteHelper, VoteTypeOK
<1>4. AppendTypeOK'
    BY DEF RequestVoteHelper, AppendTypeOK, appendVars
<1>5. StoreTypeOK'
    BY <1>0 DEF RequestVoteHelper, CMTypeOK, StoreTypeOK, saveVars, Saved, Snapshot,
                VoteRequest, Term
<1> QED BY <1>1, <1>2, <1>3, <1>4, <1>5

(* startLeader leaves the variables it writes well typed. *)
LEMMA BecomeLeaderTypeOK ==
    ASSUME CMTypeOK, leaders \in SUBSET Leadership, NEW n \in Server, BecomeLeader(n)
    PROVE  /\ state' \in [Server -> CMState]
           /\ leaderid' \in [Server -> Server \cup {Nil}]
           /\ nextIndex' \in [Server -> [Server -> Nat \ {0}]]
           /\ matchIndex' \in [Server -> [Server -> Nat]]
           /\ leaders' \in SUBSET Leadership
<1>1. Len(log[n]) + 1 \in Nat \ {0}
    BY DEF CMTypeOK
<1>2. state' \in [Server -> CMState] /\ leaderid' \in [Server -> Server \cup {Nil}]
    BY DEF CMTypeOK, BecomeLeader, CMState, Leader
<1>3. nextIndex' \in [Server -> [Server -> Nat \ {0}]]
    BY <1>1 DEF CMTypeOK, BecomeLeader
<1>4. matchIndex' \in [Server -> [Server -> Nat]]
    BY DEF CMTypeOK, BecomeLeader
<1>5. leaders' \in SUBSET Leadership
    BY DEF CMTypeOK, BecomeLeader, Leadership
<1> QED BY <1>2, <1>3, <1>4, <1>5

(* The five ways a response to a vote request is handled. *)
LEMMA RequestVoteReplyTypeOK ==
    ASSUME TypeOK, NEW r \in voteReplies, RequestVoteReply(r) PROVE TypeOK'
<1> USE DEF TypeOK
<1>0. r \in VoteReply /\ r.src \in Server /\ r.dst \in Server /\ r.eid \in Election
    BY DEF VoteTypeOK, VoteReply
<1>1. /\ state' \in [Server -> CMState]
      /\ currentTerm' \in [Server -> Term]
      /\ votedFor' \in [Server -> Server \cup {Nil}]
      /\ leaderid' \in [Server -> Server \cup {Nil}]
      /\ nextIndex' \in [Server -> [Server -> Nat \ {0}]]
      /\ matchIndex' \in [Server -> [Server -> Nat]]
      /\ leaders' \in SUBSET Leadership
      /\ votesReceived' \in [Election -> SUBSET Server]
      /\ starting' \in SUBSET VoteCall
    <2>1. CASE VoteReplyToLeader(r)
        <3>1. BecomeLeader(r.src)
            BY <2>1 DEF VoteReplyToLeader
        <3> QED BY <1>0, <2>1, <3>1, BecomeLeaderTypeOK
                DEF VoteReplyToLeader, CMTypeOK, ElectionTypeOK, VoteTypeOK
    <2>2. CASE VoteReplyToFollower(r)
        BY <2>2 DEF VoteReplyToFollower, leaderVars, CMTypeOK, ElectionTypeOK, VoteTypeOK
    <2>3. CASE VoteReplyNewer(r)
        BY <1>0, <2>3 DEF VoteReplyNewer, BecomeFollower, leaderVars, CMTypeOK, CMState,
                          Follower, ElectionTypeOK, VoteTypeOK, VoteReply
    <2>4. CASE VoteReplyGranted(r)
        <3>1. votesReceived' \in [Election -> SUBSET Server]
            BY <1>0, <2>4 DEF VoteReplyGranted, ElectionTypeOK
        <3>2. starting' \in SUBSET VoteCall
            BY <1>0, <2>4 DEF VoteReplyGranted, VoteTypeOK, VoteCall, VoteReply
        <3> QED BY <2>4, <3>1, <3>2
                DEF VoteReplyGranted, leaderVars, CMTypeOK, ElectionTypeOK
    <2>5. CASE VoteReplyRefused(r)
        BY <2>5 DEF VoteReplyRefused, leaderVars, CMTypeOK, ElectionTypeOK, VoteTypeOK
    <2> QED BY <2>1, <2>2, <2>3, <2>4, <2>5 DEF RequestVoteReply
<1>2. CMTypeOK'
    BY <1>1 DEF RequestVoteReply, CMTypeOK, commitVars
<1>3. ElectionTypeOK'
    BY <1>1 DEF RequestVoteReply, ElectionTypeOK
<1>4. VoteTypeOK'
    BY <1>1 DEF RequestVoteReply, VoteTypeOK
<1>5. AppendTypeOK'
    BY DEF RequestVoteReply, AppendTypeOK, appendVars
<1>6. StoreTypeOK'
    BY DEF RequestVoteReply, StoreTypeOK, saveVars
<1> QED BY <1>2, <1>3, <1>4, <1>5, <1>6

(* The goroutine of startLeader. *)
LEMMA StartLeaderTypeOK ==
    ASSUME TypeOK, NEW s \in starting, StartLeader(s) PROVE TypeOK'
<1> USE DEF TypeOK
<1>0. s.src \in Server /\ BecomeLeader(s.src)
    BY DEF VoteTypeOK, VoteCall, StartLeader
<1>1. /\ state' \in [Server -> CMState]
      /\ leaderid' \in [Server -> Server \cup {Nil}]
      /\ nextIndex' \in [Server -> [Server -> Nat \ {0}]]
      /\ matchIndex' \in [Server -> [Server -> Nat]]
      /\ leaders' \in SUBSET Leadership
    BY <1>0, BecomeLeaderTypeOK DEF ElectionTypeOK
<1>2. CMTypeOK'
    BY <1>1 DEF StartLeader, CMTypeOK, commitVars
<1>3. ElectionTypeOK'
    BY <1>1 DEF StartLeader, ElectionTypeOK, electionVars
<1>4. VoteTypeOK'
    BY DEF StartLeader, VoteTypeOK
<1>5. AppendTypeOK'
    BY DEF StartLeader, AppendTypeOK, appendVars
<1>6. StoreTypeOK'
    BY DEF StartLeader, StoreTypeOK, saveVars
<1> QED BY <1>2, <1>3, <1>4, <1>5, <1>6

(* leaderSendAEs. *)
LEMMA LeaderSendAEsTypeOK ==
    ASSUME TypeOK, NEW n \in Server, LeaderSendAEs(n) PROVE TypeOK'
<1> USE DEF TypeOK
<1>1. CMTypeOK'
    BY DEF LeaderSendAEs, CMTypeOK, raftVars, commitVars, leaderVars
<1>2. ElectionTypeOK'
    BY DEF LeaderSendAEs, ElectionTypeOK, electionVars, historyVars
<1>3. VoteTypeOK'
    BY DEF LeaderSendAEs, VoteTypeOK, voteVars
<1>4. AppendTypeOK'
    <2> DEFINE call(p) == [src |-> n, dst |-> p, round |-> rounds + 1,
                           term |-> currentTerm[n]]
    <2>1. rounds + 1 \in 1..MaxRounds /\ currentTerm[n] \in Term
        BY BoundsAssumption DEF LeaderSendAEs, CMTypeOK, AppendTypeOK
    <2>2. \A p \in Peers(n) : call(p) \in AppendCall
        BY <2>1 DEF AppendCall, Peers
    <2>3. appendCalls' = appendCalls \cup {call(p) : p \in Peers(n)}
        BY DEF LeaderSendAEs
    <2> HIDE DEF call
    <2>4. appendCalls' \in SUBSET AppendCall
        BY <2>2, <2>3 DEF AppendTypeOK
    <2>5. rounds' \in 0..MaxRounds
        BY <2>1, BoundsAssumption DEF LeaderSendAEs
    <2> QED BY <2>4, <2>5 DEF LeaderSendAEs, AppendTypeOK
<1>5. StoreTypeOK'
    BY DEF LeaderSendAEs, StoreTypeOK, saveVars
<1> QED BY <1>1, <1>2, <1>3, <1>4, <1>5

(* The goroutine of leaderSendAEs sends its request. *)
LEMMA SendAppendEntriesTypeOK ==
    ASSUME TypeOK, NEW c \in appendCalls, SendAppendEntries(c) PROVE TypeOK'
<1> USE DEF TypeOK
<1>0. c \in AppendCall
    BY DEF AppendTypeOK
<1>1. CMTypeOK'
    BY DEF SendAppendEntries, CMTypeOK, raftVars, commitVars, leaderVars
<1>2. ElectionTypeOK'
    BY DEF SendAppendEntries, ElectionTypeOK, electionVars, historyVars
<1>3. VoteTypeOK'
    BY DEF SendAppendEntries, VoteTypeOK, voteVars
<1>4. AppendTypeOK'
    <2> DEFINE n == c.src
               ni == nextIndex[n][c.dst]
               prev == ni - 1
               prevTerm == IF prev > 0 THEN log[n][prev].term ELSE 0
               rest == SubSeq(log[n], ni, Len(log[n]))
               request == [src |-> n, dst |-> c.dst, round |-> c.round,
                           term |-> c.term, prevLogIndex |-> prev,
                           prevLogTerm |-> prevTerm, entries |-> rest,
                           leaderCommit |-> commitIndex[n], live |-> TRUE]
    <2>1. n \in Server /\ c.dst \in Server
        BY <1>0 DEF AppendCall
    <2>2. /\ log[n] \in Seq(LogEntry) /\ commitIndex[n] \in Nat
          /\ ni \in Nat \ {0} /\ Len(log[n]) \in Nat
        <3>1. log[n] \in Seq(LogEntry) /\ commitIndex[n] \in Nat
            BY <2>1 DEF CMTypeOK
        <3>2. ni \in Nat \ {0}
            BY <2>1 DEF CMTypeOK
        <3>3. Len(log[n]) \in Nat
            BY <3>1, LenProperties
        <3> QED BY <3>1, <3>2, <3>3
    <2>3. prev \in 0..Len(log[n])
        <3>1. prev <= Len(log[n])
            BY Zenon DEF SendAppendEntries
        <3> QED BY <2>2, <3>1
    <2> HIDE DEF n, ni
    <2>4. prevTerm \in Nat
        <3>1. prev > 0 => log[n][prev] \in LogEntry
            BY <2>2, <2>3, LenProperties
        <3> QED BY <3>1 DEF LogEntry, Term
    <2>5. rest \in Seq(LogEntry)
        <3>1. ni \in 1..(Len(log[n]) + 1) /\ Len(log[n]) \in (ni - 1)..Len(log[n])
            BY <2>2, <2>3
        <3> QED BY <2>2, <3>1, PartOfSeq
    <2>6. appendRequests' = appendRequests \cup {request}
        BY DEF SendAppendEntries, n, ni
    <2> HIDE DEF prevTerm, rest, prev
    <2>7. request \in AppendRequest
        BY <1>0, <2>1, <2>2, <2>3, <2>4, <2>5 DEF AppendCall, AppendRequest
    <2> HIDE DEF request
    <2>8. appendRequests' \in SUBSET AppendRequest
        BY <2>6, <2>7 DEF AppendTypeOK
    <2> QED BY <2>8 DEF SendAppendEntries, AppendTypeOK
<1>5. StoreTypeOK'
    BY DEF SendAppendEntries, StoreTypeOK, saveVars
<1> QED BY <1>1, <1>2, <1>3, <1>4, <1>5

(* AppendEntriesHelper. *)
LEMMA AppendEntriesHelperTypeOK ==
    ASSUME TypeOK, NEW m \in appendRequests, AppendEntriesHelper(m) PROVE TypeOK'
<1> USE DEF TypeOK
<1> DEFINE n == m.dst
           newer == Newer(n, m.term)
           term == IF newer THEN m.term ELSE currentTerm[n]
           current == InTerm(m, term)
           stepDown == newer \/ (current /\ state[n] # Follower)
           vote == IF stepDown THEN Nil ELSE votedFor[n]
           success == current /\ PrevMatches(log[n], m.prevLogIndex, m.prevLogTerm)
           newLog == IF success THEN MergeEntries(log[n], m.prevLogIndex, m.entries)
                                ELSE log[n]
           commit == success /\ m.leaderCommit > commitIndex[n]
           reply == [src |-> m.src, dst |-> n, round |-> m.round, term |-> m.term,
                     ni |-> m.prevLogIndex + 1, sent |-> Len(m.entries),
                     replyTerm |-> term, success |-> success]
<1>0. m \in AppendRequest /\ n \in Server /\ m.src \in Server
    BY DEF AppendTypeOK, AppendRequest
<1>1. term \in Term /\ vote \in Server \cup {Nil}
    BY <1>0 DEF CMTypeOK, AppendRequest
<1>2. log[n] \in Seq(LogEntry) /\ m.entries \in Seq(LogEntry) /\ m.prevLogIndex \in Nat
    BY <1>0 DEF CMTypeOK, AppendRequest
<1>3. newLog \in Seq(LogEntry)
    <2>1. CASE success
        <3>1. m.prevLogIndex \in 0..Len(log[n])
            BY <1>2, <2>1 DEF PrevMatches
        <3>2. newLog = MergeEntries(log[n], m.prevLogIndex, m.entries)
            BY <2>1
        <3> HIDE DEF newLog
        <3> QED BY <1>2, <3>1, <3>2, MergeEntriesType
    <2>2. CASE ~success
        BY <1>2, <2>2
    <2> QED BY <2>1, <2>2
<1>4. success \in BOOLEAN
    BY DEF InTerm, PrevMatches
<1>5. /\ leaderid' = [leaderid EXCEPT ![n] = m.src]
      /\ state' = [state EXCEPT ![n] = IF stepDown THEN Follower ELSE @]
      /\ currentTerm' = [currentTerm EXCEPT ![n] = term]
      /\ votedFor' = [votedFor EXCEPT ![n] = vote]
      /\ log' = [log EXCEPT ![n] = newLog]
      /\ commitIndex' = [commitIndex EXCEPT ![n] =
                             IF commit THEN intMin(m.leaderCommit, Len(newLog)) ELSE @]
      /\ Notify(n, commit)
      /\ disk' = [disk EXCEPT ![n] = Saved(term, vote, newLog)]
      /\ appendReplies' = appendReplies \cup {r \in {reply} : m.live}
    BY DEF AppendEntriesHelper
<1> HIDE DEF term, vote, newLog, success, stepDown, commit, reply
<1>6. CMTypeOK'
    <2>1. intMin(m.leaderCommit, Len(newLog)) \in Nat
        BY <1>0, <1>3 DEF intMin, AppendRequest
    <2> HIDE DEF n
    <2>2. /\ state' \in [Server -> CMState]
          /\ currentTerm' \in [Server -> Term]
          /\ votedFor' \in [Server -> Server \cup {Nil}]
          /\ log' \in [Server -> Seq(LogEntry)]
          /\ leaderid' \in [Server -> Server \cup {Nil}]
        BY <1>0, <1>1, <1>3, <1>5 DEF CMTypeOK, CMState, Follower
    <2>3. commitIndex' \in [Server -> Nat]
        BY <1>0, <1>5, <2>1 DEF CMTypeOK
    <2>4. newCommitReady' \in [Server -> Nat]
        BY <1>0, <1>5, NotifyTypeOK DEF CMTypeOK
    <2> QED BY <2>2, <2>3, <2>4 DEF AppendEntriesHelper, CMTypeOK, leaderVars
<1>7. ElectionTypeOK'
    BY DEF AppendEntriesHelper, ElectionTypeOK, electionVars, historyVars
<1>8. VoteTypeOK'
    BY DEF AppendEntriesHelper, VoteTypeOK, voteVars
<1>9. AppendTypeOK'
    <2>1. m.prevLogIndex + 1 \in Nat \ {0} /\ Len(m.entries) \in Nat
        BY <1>2
    <2>2. reply \in AppendReply
        BY <1>0, <1>1, <1>4, <2>1 DEF reply, AppendRequest, AppendReply
    <2>3. appendReplies' \in SUBSET AppendReply
        BY <1>5, <2>2 DEF AppendTypeOK
    <2> QED BY <2>3 DEF AppendEntriesHelper, AppendTypeOK
<1>10. StoreTypeOK'
    <2>1. Saved(term, vote, newLog) \in Snapshot
        BY <1>1, <1>3 DEF Saved, Snapshot
    <2>2. disk' \in [Server -> Snapshot]
        BY <1>0, <1>5, <2>1 DEF StoreTypeOK
    <2> QED BY <2>2 DEF AppendEntriesHelper, StoreTypeOK, saveVars
<1> QED BY <1>6, <1>7, <1>8, <1>9, <1>10

(* The four ways a response to AppendEntries is handled. *)
LEMMA AppendEntriesReplyTypeOK ==
    ASSUME TypeOK, NEW r \in appendReplies, AppendEntriesReply(r) PROVE TypeOK'
<1> USE DEF TypeOK
<1>0. r \in AppendReply /\ r.src \in Server /\ r.dst \in Server
    BY DEF AppendTypeOK, AppendReply
<1>1. /\ state' \in [Server -> CMState]
      /\ currentTerm' \in [Server -> Term]
      /\ votedFor' \in [Server -> Server \cup {Nil}]
      /\ nextIndex' \in [Server -> [Server -> Nat \ {0}]]
      /\ matchIndex' \in [Server -> [Server -> Nat]]
      /\ commitIndex' \in [Server -> Nat]
      /\ newCommitReady' \in [Server -> Nat]
    <2>1. CASE AppendReplyNewer(r)
        BY <1>0, <2>1 DEF AppendReplyNewer, BecomeFollower, leaderVars, CMTypeOK, CMState,
                          Follower, AppendReply
    <2>2. CASE AppendReplySuccess(r)
        <3> DEFINE n == r.src
                   match == [matchIndex[n] EXCEPT ![r.dst] = LastSent(r)]
                   commit == AdvanceCommit(log[n], commitIndex[n], currentTerm[n],
                                           match, n, Server)
        <3>1. LastSent(r) \in Nat /\ LastSent(r) + 1 \in Nat \ {0}
            BY <1>0 DEF AppendReply, LastSent
        <3>2. /\ nextIndex' = [nextIndex EXCEPT ![n][r.dst] = LastSent(r) + 1]
              /\ matchIndex' = [matchIndex EXCEPT ![n] = match]
              /\ commitIndex' = [commitIndex EXCEPT ![n] = commit]
              /\ Notify(n, commit # commitIndex[n])
              /\ UNCHANGED <<state, currentTerm, votedFor>>
            BY <2>2 DEF AppendReplySuccess
        <3>3. match \in [Server -> Nat]
            BY <1>0, <3>1 DEF CMTypeOK
        <3>4. commit \in Nat
            <4>1. log[n] \in Seq(LogEntry) /\ commitIndex[n] \in Nat
                BY <1>0 DEF CMTypeOK
            <4> HIDE DEF match
            <4> QED BY <4>1, AdvanceCommitSound
        <3> HIDE DEF match, commit
        <3>5. nextIndex' \in [Server -> [Server -> Nat \ {0}]]
            BY <1>0, <3>1, <3>2 DEF CMTypeOK
        <3>6. matchIndex' \in [Server -> [Server -> Nat]]
            BY <1>0, <3>2, <3>3 DEF CMTypeOK
        <3>7. commitIndex' \in [Server -> Nat]
            BY <1>0, <3>2, <3>4 DEF CMTypeOK
        <3>8. newCommitReady' \in [Server -> Nat]
            BY <1>0, <3>2, NotifyTypeOK DEF CMTypeOK
        <3> QED BY <3>2, <3>5, <3>6, <3>7, <3>8 DEF CMTypeOK
    <2>3. CASE AppendReplyConflict(r)
        <3>1. NextIndexAfterReject(log[r.src]) \in Nat \ {0}
            BY <1>0, NextIndexAfterRejectType DEF CMTypeOK
        <3> QED BY <1>0, <2>3, <3>1 DEF AppendReplyConflict, CMTypeOK
    <2>4. CASE AppendReplyIgnored(r)
        BY <2>4 DEF AppendReplyIgnored, leaderVars, CMTypeOK
    <2> QED BY <2>1, <2>2, <2>3, <2>4 DEF AppendEntriesReply
<1>2. CMTypeOK'
    BY <1>1 DEF AppendEntriesReply, CMTypeOK
<1>3. ElectionTypeOK'
    BY DEF AppendEntriesReply, ElectionTypeOK, electionVars, historyVars
<1>4. VoteTypeOK'
    BY DEF AppendEntriesReply, VoteTypeOK, voteVars
<1>5. AppendTypeOK'
    BY DEF AppendEntriesReply, AppendTypeOK
<1>6. StoreTypeOK'
    BY DEF AppendEntriesReply, StoreTypeOK, saveVars
<1> QED BY <1>2, <1>3, <1>4, <1>5, <1>6

(* The leader's branch of Submit. *)
LEMMA SubmitToLeaderTypeOK ==
    ASSUME TypeOK, NEW n \in Server, NEW command \in Command,
           SubmitToLeader(n, command), submitted' \in 0..MaxSubmits
    PROVE  TypeOK'
<1> USE DEF TypeOK
<1> DEFINE entry == [term |-> currentTerm[n], command |-> command]
           record == [server |-> n, command |-> command]
<1>1. entry \in LogEntry /\ record \in [server : Server, command : Command]
    BY DEF CMTypeOK, LogEntry
<1>2. /\ log' = [log EXCEPT ![n] = Append(log[n], entry)]
      /\ unsaved' = unsaved \cup {record}
      /\ UNCHANGED <<state, currentTerm, votedFor, leaderid, commitVars, leaderVars,
                     electionVars, voteVars, appendVars, saving, disk, applied,
                     crashes, historyVars>>
    BY DEF SubmitToLeader
<1> HIDE DEF entry, record
<1>3. CMTypeOK'
    <2>1. log' \in [Server -> Seq(LogEntry)]
        <3>1. Append(log[n], entry) \in Seq(LogEntry)
            BY <1>1, AppendProperties DEF CMTypeOK
        <3> QED BY <1>2, <3>1 DEF CMTypeOK
    <2> QED BY <1>2, <2>1 DEF CMTypeOK, commitVars, leaderVars
<1>4. ElectionTypeOK'
    BY <1>2 DEF ElectionTypeOK, electionVars, historyVars
<1>5. VoteTypeOK'
    BY <1>2 DEF VoteTypeOK, voteVars
<1>6. AppendTypeOK'
    BY <1>2 DEF AppendTypeOK, appendVars
<1>7. StoreTypeOK'
    BY <1>1, <1>2 DEF StoreTypeOK
<1> QED BY <1>3, <1>4, <1>5, <1>6, <1>7

(* Submit. *)
LEMMA SubmitTypeOK ==
    ASSUME TypeOK, NEW n \in Server, Submit(n) PROVE TypeOK'
<1>1. submitted + 1 \in Command /\ submitted' \in 0..MaxSubmits
    BY BoundsAssumption DEF Submit, TypeOK, StoreTypeOK, Command
<1> QED BY <1>1, SubmitToLeaderTypeOK DEF Submit

(* Submit reads what it is going to save. *)
LEMMA SaveCaptureTypeOK ==
    ASSUME TypeOK, NEW u \in unsaved, SaveCapture(u) PROVE TypeOK'
<1> USE DEF TypeOK
<1> DEFINE n == u.server
           data == Saved(currentTerm[n], votedFor[n], log[n])
           record == [server |-> n, command |-> u.command, data |-> data]
<1>0. u \in [server : Server, command : Command]
    BY DEF StoreTypeOK
<1>1. data \in Snapshot
    BY <1>0 DEF Saved, Snapshot, CMTypeOK
<1>2. saving' = saving \cup {record}
    BY DEF SaveCapture
<1> HIDE DEF data
<1>3. record \in [server : Server, command : Command, data : Snapshot]
    BY <1>0, <1>1
<1> HIDE DEF record
<1>4. StoreTypeOK'
    BY <1>2, <1>3 DEF SaveCapture, StoreTypeOK
<1>5. CMTypeOK'
    BY DEF SaveCapture, CMTypeOK, raftVars, commitVars, leaderVars
<1>6. ElectionTypeOK'
    BY DEF SaveCapture, ElectionTypeOK, electionVars, historyVars
<1>7. VoteTypeOK' /\ AppendTypeOK'
    BY DEF SaveCapture, VoteTypeOK, voteVars, AppendTypeOK, appendVars
<1> QED BY <1>4, <1>5, <1>6, <1>7

(* SetState writes it. *)
LEMMA SaveWriteTypeOK ==
    ASSUME TypeOK, NEW w \in saving, SaveWrite(w) PROVE TypeOK'
<1> USE DEF TypeOK
<1>0. w.server \in Server /\ w.data \in Snapshot
    BY DEF StoreTypeOK
<1>1. StoreTypeOK'
    BY <1>0 DEF SaveWrite, StoreTypeOK
<1>2. CMTypeOK'
    BY DEF SaveWrite, CMTypeOK, raftVars, commitVars, leaderVars
<1>3. ElectionTypeOK'
    BY DEF SaveWrite, ElectionTypeOK, electionVars, historyVars
<1>4. VoteTypeOK' /\ AppendTypeOK'
    BY DEF SaveWrite, VoteTypeOK, voteVars, AppendTypeOK, appendVars
<1> QED BY <1>1, <1>2, <1>3, <1>4

(* commitChanSender. *)
LEMMA CommitChanSenderTypeOK ==
    ASSUME TypeOK, NEW n \in Server, CommitChanSender(n) PROVE TypeOK'
<1> USE DEF TypeOK
<1>0. /\ newCommitReady[n] \in Nat /\ commitIndex[n] \in Nat /\ lastApplied[n] \in Nat
      /\ currentTerm[n] \in Term /\ log[n] \in Seq(LogEntry)
      /\ applied[n] \in Seq(CommitEntry)
    BY DEF CMTypeOK, StoreTypeOK
<1>1. newCommitReady' \in [Server -> Nat]
    <2>1. newCommitReady[n] - 1 \in Nat
        <3>1. newCommitReady[n] > 0
            BY Zenon DEF CommitChanSender
        <3> QED BY <1>0, <3>1
    <2> QED BY <2>1 DEF CommitChanSender, CMTypeOK
<1>2. lastApplied' \in [Server -> Nat] /\ applied' \in [Server -> Seq(CommitEntry)]
    <2>1. CASE commitIndex[n] > lastApplied[n]
        <3>1. PICK stale \in 1..submitted :
                applied' = [applied EXCEPT ![n] = @ \o
                    [k \in 1..(commitIndex[n] - lastApplied[n]) |->
                        [command |-> IF lastApplied[n] + k <= Len(log[n])
                                     THEN log[n][lastApplied[n] + k].command
                                     ELSE stale,
                         index |-> lastApplied[n] + k,
                         term |-> currentTerm[n]]]]
            <4>1. ~(commitIndex[n] <= lastApplied[n])
                BY <1>0, <2>1
            <4> QED BY <4>1, Zenon DEF CommitChanSender
        <3> DEFINE count == commitIndex[n] - lastApplied[n]
                   command(k) == IF lastApplied[n] + k <= Len(log[n])
                                 THEN log[n][lastApplied[n] + k].command
                                 ELSE stale
                   entry(k) == [command |-> command(k), index |-> lastApplied[n] + k,
                                term |-> currentTerm[n]]
                   entries == [k \in 1..count |-> entry(k)]
        <3>2. count \in Nat
            BY <1>0, <2>1
        <3>3. \A k \in 1..count : entry(k) \in CommitEntry
            <4> SUFFICES ASSUME NEW k \in 1..count PROVE entry(k) \in CommitEntry
                OBVIOUS
            <4>1. k \in Nat \ {0} /\ lastApplied[n] + k \in Nat \ {0}
                BY <1>0, <3>2
            <4>2. command(k) \in Command
                <5>1. CASE lastApplied[n] + k <= Len(log[n])
                    <6>1. log[n][lastApplied[n] + k] \in LogEntry
                        BY <1>0, <4>1, <5>1, LenProperties
                    <6> QED BY <5>1, <6>1 DEF LogEntry
                <5>2. CASE ~(lastApplied[n] + k <= Len(log[n]))
                    <6>1. stale \in Command
                        BY BoundsAssumption DEF StoreTypeOK, Command
                    <6> QED BY <5>2, <6>1
                <5> QED BY <5>1, <5>2
            <4> HIDE DEF command
            <4> QED BY <1>0, <4>1, <4>2 DEF CommitEntry
        <3> HIDE DEF count, entry
        <3>4. entries \in Seq(CommitEntry)
            BY <3>2, <3>3, SeqDef
        <3>5. applied' = [applied EXCEPT ![n] = applied[n] \o entries]
            BY <3>1 DEF count, entry
        <3> HIDE DEF entries
        <3>6. applied[n] \o entries \in Seq(CommitEntry)
            BY <1>0, <3>4, ConcatProperties
        <3>7. applied' \in [Server -> Seq(CommitEntry)]
            BY <3>5, <3>6 DEF StoreTypeOK
        <3>8. lastApplied' = [lastApplied EXCEPT ![n] = commitIndex[n]]
            <4>1. ~(commitIndex[n] <= lastApplied[n])
                BY <1>0, <2>1
            <4> QED BY <4>1, Zenon DEF CommitChanSender
        <3> QED BY <1>0, <3>7, <3>8 DEF CMTypeOK
    <2>2. CASE commitIndex[n] <= lastApplied[n]
        BY <1>0, <2>2 DEF CommitChanSender, CMTypeOK, StoreTypeOK
    <2> QED BY <1>0, <2>1, <2>2
<1>3. CMTypeOK'
    BY <1>1, <1>2 DEF CommitChanSender, CMTypeOK, raftVars, leaderVars
<1>4. ElectionTypeOK'
    BY DEF CommitChanSender, ElectionTypeOK, electionVars, historyVars
<1>5. VoteTypeOK' /\ AppendTypeOK'
    BY DEF CommitChanSender, VoteTypeOK, voteVars, AppendTypeOK, appendVars
<1>6. StoreTypeOK'
    BY <1>2 DEF CommitChanSender, StoreTypeOK, saveVars
<1> QED BY <1>3, <1>4, <1>5, <1>6

(* A crash or a panic, and the restart. *)
LEMMA RestartTypeOK ==
    ASSUME TypeOK, NEW n \in Server, NEW d \in Snapshot, NEW handled,
           Restart(n, d, handled)
    PROVE  TypeOK'
<1> USE DEF TypeOK
<1>1. CMTypeOK'
    <2>1. /\ state' \in [Server -> CMState]
          /\ leaderid' \in [Server -> Server \cup {Nil}]
        BY DEF Restart, CMTypeOK, CMState, Follower
    <2>2. /\ currentTerm' \in [Server -> Term]
          /\ votedFor' \in [Server -> Server \cup {Nil}]
          /\ log' \in [Server -> Seq(LogEntry)]
        <3> DEFINE term == IF HasData(d) THEN d.term ELSE 0
                   vote == IF HasData(d) THEN d.votedFor ELSE Nil
                   entries == IF HasData(d) THEN d.log ELSE <<>>
        <3>1. d.term \in Term /\ d.votedFor \in Server \cup {Nil} /\ d.log \in Seq(LogEntry)
            BY DEF Snapshot
        <3>2. term \in Term /\ vote \in Server \cup {Nil} /\ entries \in Seq(LogEntry)
            BY <3>1 DEF Term
        <3>3. /\ currentTerm' = [currentTerm EXCEPT ![n] = term]
              /\ votedFor' = [votedFor EXCEPT ![n] = vote]
              /\ log' = [log EXCEPT ![n] = entries]
            BY DEF Restart
        <3> HIDE DEF term, vote, entries
        <3> QED BY <3>2, <3>3 DEF CMTypeOK
    <2>3. /\ commitIndex' \in [Server -> Nat]
          /\ lastApplied' \in [Server -> Nat]
          /\ newCommitReady' \in [Server -> Nat]
        BY DEF Restart, CMTypeOK
    <2>4. /\ nextIndex' \in [Server -> [Server -> Nat \ {0}]]
          /\ matchIndex' \in [Server -> [Server -> Nat]]
        BY DEF Restart, CMTypeOK
    <2> QED BY <2>1, <2>2, <2>3, <2>4 DEF CMTypeOK
<1>2. ElectionTypeOK'
    BY DEF Restart, ElectionTypeOK, electionVars, historyVars
<1>3. VoteTypeOK'
    <2>1. Orphan(n, voteRequests \ handled) \in SUBSET VoteRequest
        <3> SUFFICES ASSUME NEW m \in voteRequests \ handled
                     PROVE  (IF m.src = n THEN [m EXCEPT !.live = FALSE] ELSE m)
                                \in VoteRequest
            BY DEF Orphan
        <3>1. m \in VoteRequest
            BY DEF VoteTypeOK
        <3> QED BY <3>1 DEF VoteRequest
    <2> QED BY <2>1 DEF Restart, VoteTypeOK, Not
<1>4. AppendTypeOK'
    <2>1. Orphan(n, appendRequests \ handled) \in SUBSET AppendRequest
        <3> SUFFICES ASSUME NEW m \in appendRequests \ handled
                     PROVE  (IF m.src = n THEN [m EXCEPT !.live = FALSE] ELSE m)
                                \in AppendRequest
            BY DEF Orphan
        <3>1. m \in AppendRequest
            BY DEF AppendTypeOK
        <3> QED BY <3>1 DEF AppendRequest
    <2> QED BY <2>1 DEF Restart, AppendTypeOK, Not
<1>5. StoreTypeOK'
    <2>1. crashes' \in 0..MaxCrashes
        BY BoundsAssumption DEF Restart, StoreTypeOK
    <2>2. disk' \in [Server -> Snapshot]
        BY DEF Restart, StoreTypeOK
    <2> QED BY <2>1, <2>2 DEF Restart, StoreTypeOK
<1> QED BY <1>1, <1>2, <1>3, <1>4, <1>5

(* What a crash in the middle of SetState leaves is of the right type. *)
LEMMA TornTypeOK ==
    ASSUME NEW e \in Snapshot, NEW s, s.term \in Term, s.votedFor \in Server \cup {Nil},
           NEW d \in Torn(e, s)
    PROVE  d \in Snapshot
BY DEF Torn, Snapshot

(* Every crash is a restart from a disk that holds a snapshot. *)
LEMMA CrashRestarts ==
    ASSUME TypeOK, CrashStep
    PROVE  \E n \in Server, d \in Snapshot : \E handled : Restart(n, d, handled)
<1> USE DEF TypeOK
<1>0. \A n \in Server : disk[n] \in Snapshot /\ currentTerm[n] \in Term
                           /\ votedFor[n] \in Server \cup {Nil}
    BY DEF StoreTypeOK, CMTypeOK
<1>1. ASSUME NEW n \in Server, Crash(n)
      PROVE  \E d \in Snapshot : \E handled : Restart(n, d, handled)
    BY <1>0, <1>1 DEF Crash
<1>2. ASSUME NEW c \in appendCalls, AppendPanic(c) PROVE c.src \in Server /\ Crash(c.src)
    BY <1>2 DEF AppendPanic, AppendTypeOK, AppendCall
<1>3. ASSUME NEW m \in voteRequests, CrashVoting(m)
      PROVE  m.dst \in Server /\ \E d \in Snapshot : Restart(m.dst, d, {m})
    <2>1. m.dst \in Server /\ m.src \in Server /\ m.term \in Term
        BY DEF VoteTypeOK, VoteRequest
    <2>2. VoteSaving(m).term \in Term /\ VoteSaving(m).votedFor \in Server \cup {Nil}
        BY <1>0, <2>1 DEF VoteSaving
    <2> QED BY <1>0, <1>3, <2>1, <2>2, TornTypeOK DEF CrashVoting
<1>4. ASSUME NEW m \in appendRequests, CrashAppending(m)
      PROVE  m.dst \in Server /\ \E d \in Snapshot : Restart(m.dst, d, {m})
    <2>1. m.dst \in Server /\ m.term \in Term
        BY DEF AppendTypeOK, AppendRequest
    <2>2. AppendSaving(m).term \in Term /\ AppendSaving(m).votedFor \in Server \cup {Nil}
        BY <1>0, <2>1 DEF AppendSaving
    <2> QED BY <1>0, <1>4, <2>1, <2>2, TornTypeOK DEF CrashAppending
<1>5. ASSUME NEW w \in saving, CrashSaving(w)
      PROVE  w.server \in Server /\ \E d \in Snapshot : Restart(w.server, d, {})
    <2>1. w.server \in Server /\ w.data.term \in Term
              /\ w.data.votedFor \in Server \cup {Nil}
        BY DEF StoreTypeOK, Snapshot
    <2> QED BY <1>0, <1>5, <2>1, TornTypeOK DEF CrashSaving
<1> QED BY <1>1, <1>2, <1>3, <1>4, <1>5 DEF CrashStep

(* Every step preserves the types. *)
LEMMA NextTypeOK ==
    ASSUME TypeOK, [Next]_vars PROVE TypeOK'
<1>1. CASE Step
    BY <1>1, StartElectionTypeOK, SendRequestVoteTypeOK, RequestVoteHelperTypeOK,
       RequestVoteReplyTypeOK, StartLeaderTypeOK, LeaderSendAEsTypeOK,
       SendAppendEntriesTypeOK, AppendEntriesHelperTypeOK, AppendEntriesReplyTypeOK,
       SaveCaptureTypeOK, SaveWriteTypeOK, CommitChanSenderTypeOK
    DEF Step
<1>2. CASE \E n \in Server : Submit(n)
    BY <1>2, SubmitTypeOK
<1>3. CASE CrashStep
    BY <1>3, CrashRestarts, RestartTypeOK
<1>4. CASE UNCHANGED vars
    BY <1>4, StutterTypeOK
<1> QED BY <1>1, <1>2, <1>3, <1>4 DEF Next

(* Type correctness: whatever the cluster and the bounds, every variable   *)
(* of the consensus module holds a value of its type in every reachable    *)
(* state; in particular nextIndex never falls below the first entry.       *)
THEOREM TypeCorrect == Spec => []TypeOK
<1>1. Init => TypeOK
    BY InitTypeOK
<1>2. TypeOK /\ [Next]_vars => TypeOK'
    BY NextTypeOK
<1> QED BY <1>1, <1>2, PTL DEF Spec

-----------------------------------------------------------------------------
(***************************************************************************)
(* Delivery of what is committed.                                          *)
(***************************************************************************)

(* A move of commitIndex[n] that Notify(n, TRUE) accompanies keeps the     *)
(* wake-up of every server.                                                *)
LEMMA NotifyKeepsWakeup ==
    ASSUME CMTypeOK, NoLostWakeup, NEW n \in Server, NEW commit, NEW moved,
           commitIndex' = [commitIndex EXCEPT ![n] = commit],
           ~moved => commit = commitIndex[n],
           Notify(n, moved), lastApplied' = lastApplied
    PROVE  NoLostWakeup'
<1> SUFFICES ASSUME NEW p \in Server, commitIndex'[p] > lastApplied'[p]
             PROVE  newCommitReady'[p] > 0
    BY DEF NoLostWakeup
<1>1. newCommitReady[p] \in Nat
    BY DEF CMTypeOK
<1>2. CASE p = n /\ moved
    <2>1. newCommitReady'[p] = newCommitReady[p] + 1
        BY <1>2 DEF Notify, CMTypeOK
    <2> QED BY <1>1, <2>1
<1>3. CASE p # n \/ ~moved
    <2>1. commitIndex'[p] = commitIndex[p]
        BY <1>3 DEF CMTypeOK
    <2>2. newCommitReady'[p] = newCommitReady[p]
        BY <1>3 DEF Notify, CMTypeOK
    <2> QED BY <2>1, <2>2 DEF NoLostWakeup
<1> QED BY <1>2, <1>3

(* Every step keeps the wake-up of every server.                           *)
LEMMA NextNoLostWakeup ==
    ASSUME TypeOK, NoLostWakeup, [Next]_vars PROVE NoLostWakeup'
<1>0. CMTypeOK
    BY DEF TypeOK
<1>1. CASE UNCHANGED commitVars
    BY <1>1 DEF commitVars, NoLostWakeup
<1>2. ASSUME NEW m \in appendRequests, AppendEntriesHelper(m) PROVE NoLostWakeup'
    <2> DEFINE n == m.dst
               term == IF Newer(n, m.term) THEN m.term ELSE currentTerm[n]
               success == /\ InTerm(m, term)
                          /\ PrevMatches(log[n], m.prevLogIndex, m.prevLogTerm)
               newLog == IF success
                         THEN MergeEntries(log[n], m.prevLogIndex, m.entries)
                         ELSE log[n]
               moved == success /\ m.leaderCommit > commitIndex[n]
               commit == IF moved THEN intMin(m.leaderCommit, Len(newLog))
                                  ELSE commitIndex[n]
    <2>1. n \in Server
        BY DEF TypeOK, AppendTypeOK, AppendRequest
    <2>2. /\ commitIndex' = [commitIndex EXCEPT ![n] = commit]
          /\ Notify(n, moved)
          /\ lastApplied' = lastApplied
        BY <1>2 DEF AppendEntriesHelper
    <2>3. ~moved => commit = commitIndex[n]
        OBVIOUS
    <2> HIDE DEF n, moved, commit
    <2> QED BY <1>0, <2>1, <2>2, <2>3, NotifyKeepsWakeup
<1>3. ASSUME NEW r \in appendReplies, AppendEntriesReply(r) PROVE NoLostWakeup'
    <2>1. lastApplied' = lastApplied /\ r.src \in Server
        BY <1>3 DEF AppendEntriesReply, TypeOK, AppendTypeOK, AppendReply
    <2>2. CASE AppendReplySuccess(r)
        <3> DEFINE n == r.src
                   match == [matchIndex[n] EXCEPT ![r.dst] = LastSent(r)]
                   commit == AdvanceCommit(log[n], commitIndex[n], currentTerm[n],
                                           match, n, Server)
                   moved == commit # commitIndex[n]
        <3>1. /\ commitIndex' = [commitIndex EXCEPT ![n] = commit]
              /\ Notify(n, moved)
            BY <2>2 DEF AppendReplySuccess
        <3>2. ~moved => commit = commitIndex[n]
            OBVIOUS
        <3> HIDE DEF moved, commit
        <3> QED BY <1>0, <2>1, <3>1, <3>2, NotifyKeepsWakeup
    <2>3. CASE AppendReplyNewer(r) \/ AppendReplyConflict(r) \/ AppendReplyIgnored(r)
        <3>1. UNCHANGED commitVars
            BY <2>1, <2>3 DEF AppendReplyNewer, AppendReplyConflict, AppendReplyIgnored,
                              commitVars
        <3> QED BY <1>1, <3>1
    <2> QED BY <1>3, <2>2, <2>3 DEF AppendEntriesReply
<1>4. ASSUME NEW n \in Server, CommitChanSender(n) PROVE NoLostWakeup'
    <2> SUFFICES ASSUME NEW p \in Server, commitIndex'[p] > lastApplied'[p]
                 PROVE  newCommitReady'[p] > 0
        BY DEF NoLostWakeup
    <2>1. /\ commitIndex[n] \in Nat /\ lastApplied[n] \in Nat
          /\ commitIndex' = commitIndex
        BY <1>0, <1>4 DEF CMTypeOK, CommitChanSender
    <2>2. CASE p = n
        <3>1. \/ lastApplied'[n] = commitIndex[n]
              \/ lastApplied'[n] = lastApplied[n] /\ commitIndex[n] <= lastApplied[n]
            BY <1>0, <1>4 DEF CommitChanSender, CMTypeOK
        <3>2. lastApplied'[n] \in Nat /\ ~(commitIndex[n] > lastApplied'[n])
            BY <2>1, <3>1
        <3> QED BY <2>1, <2>2, <3>2
    <2>3. CASE p # n
        <3>1. lastApplied'[p] = lastApplied[p]
            BY <1>0, <1>4, <2>3 DEF CommitChanSender, CMTypeOK
        <3>2. newCommitReady'[p] = newCommitReady[p]
            BY <1>0, <1>4, <2>3 DEF CommitChanSender, CMTypeOK
        <3> QED BY <2>1, <3>1, <3>2 DEF NoLostWakeup
    <2> QED BY <2>2, <2>3
<1>5. ASSUME NEW n \in Server, NEW d \in Snapshot, NEW handled, Restart(n, d, handled)
      PROVE  NoLostWakeup'
    <2> SUFFICES ASSUME NEW p \in Server, commitIndex'[p] > lastApplied'[p]
                 PROVE  newCommitReady'[p] > 0
        BY DEF NoLostWakeup
    <2>1. p # n
        BY <1>0, <1>5 DEF Restart, CMTypeOK
    <2> QED BY <1>0, <1>5, <2>1 DEF Restart, CMTypeOK, NoLostWakeup
<1>6. CASE Step
    <2>1. CASE \E n \in Server : StartElection(n) \/ LeaderSendAEs(n)
        BY <1>1, <2>1 DEF StartElection, LeaderSendAEs
    <2>2. CASE \/ \E c \in voteCalls : SendRequestVote(c)
               \/ \E m \in voteRequests : RequestVoteHelper(m)
               \/ \E r \in voteReplies : RequestVoteReply(r)
               \/ \E s \in starting : StartLeader(s)
        BY <1>1, <2>2 DEF SendRequestVote, RequestVoteHelper, RequestVoteReply, StartLeader
    <2>3. CASE \/ \E c \in appendCalls : SendAppendEntries(c)
               \/ \E u \in unsaved : SaveCapture(u)
               \/ \E w \in saving : SaveWrite(w)
        BY <1>1, <2>3 DEF SendAppendEntries, SaveCapture, SaveWrite
    <2> QED BY <1>2, <1>3, <1>4, <1>6, <2>1, <2>2, <2>3 DEF Step
<1>7. CASE \E n \in Server : Submit(n)
    BY <1>1, <1>7 DEF Submit, SubmitToLeader
<1>8. CASE CrashStep
    BY <1>5, <1>8, CrashRestarts
<1>9. CASE UNCHANGED vars
    BY <1>1, <1>9 DEF vars
<1> QED BY <1>6, <1>7, <1>8, <1>9 DEF Next

(* No lost wakeup: in every reachable state a server that considers        *)
(* entries committed it has not applied has a signal waiting for           *)
(* commitChanSender, whichever handler moved commitIndex and whatever      *)
(* crashed since.                                                          *)
THEOREM WakeupNotLost == Spec => []NoLostWakeup
<1>1. Init => NoLostWakeup
    BY DEF Init, NoLostWakeup
<1>2. TypeOK /\ NoLostWakeup /\ [Next]_vars => NoLostWakeup'
    BY NextNoLostWakeup
<1> QED BY <1>1, <1>2, TypeCorrect, PTL DEF Spec
=============================================================================
