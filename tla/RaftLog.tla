------------------------------- MODULE RaftLog -------------------------------
(***************************************************************************)
(* The pure computations of server/raft.go on a replicated log.            *)
(*                                                                         *)
(* The code indexes a log from 0 and writes -1 for "no entry"; here a log  *)
(* is a sequence, index i of the code is i + 1 and "no entry" is 0.  The   *)
(* term reported for an empty log, -1 in the code, is 0: every entry has   *)
(* a term of at least 1, so the comparisons have the same outcome.         *)
(***************************************************************************)
EXTENDS Naturals, Sequences, FiniteSets

intMin(a, b) == IF a < b THEN a ELSE b

(* lastLogIndexAndTerm *)
LastLogIndex(log) == Len(log)
LastLogTerm(log) == IF Len(log) > 0 THEN log[Len(log)].term ELSE 0

(* Mistaken variant: the lengths of the logs are not compared. *)
UpToDateByTerm(lastLogTerm, lastLogIndex, log) ==
    lastLogTerm >= LastLogTerm(log)

(* The candidate's log is at least as up to date as the voter's. *)
UpToDate(lastLogTerm, lastLogIndex, log) ==
    \/ lastLogTerm > LastLogTerm(log)
    \/ lastLogTerm = LastLogTerm(log) /\ lastLogIndex >= LastLogIndex(log)

(* The consistency check of AppendEntries. *)
PrevMatches(log, prevLogIndex, prevLogTerm) ==
    \/ prevLogIndex = 0
    \/ prevLogIndex <= Len(log) /\ prevLogTerm = log[prevLogIndex].term

(* Mistaken variant: the terms are not compared. *)
BeyondEnd(log, prevLogIndex, entries) ==
    {k \in 1..Len(entries) : prevLogIndex + k > Len(log)}

(* The entries k for which the comparison loop of AppendEntriesHelper      *)
(* stops: the log ends before entry k, or disagrees with it.               *)
Mismatches(log, prevLogIndex, entries) ==
    {k \in 1..Len(entries) : \/ prevLogIndex + k > Len(log)
                             \/ log[prevLogIndex + k].term # entries[k].term}

(* Mistaken variants: what is behind the entries is always cut off; the    *)
(* entries the log holds already are appended again.                       *)
MergeTruncating(log, prevLogIndex, entries) ==
    SubSeq(log, 1, prevLogIndex) \o entries
MergeAtEnd(log, prevLogIndex, entries) == log \o entries

(* Splice the entries in at the first mismatch; a log that already holds   *)
(* all of them, and possibly more, stays as it is.                         *)
MergeEntries(log, prevLogIndex, entries) ==
    LET stops == Mismatches(log, prevLogIndex, entries)
        first == CHOOSE k \in stops : \A j \in stops : k <= j
    IN IF stops = {}
       THEN log
       ELSE SubSeq(log, 1, prevLogIndex + first - 1)
              \o SubSeq(entries, first, Len(entries))

(* Strict majority of a cluster of servers. *)
Majority(votes, servers) == Cardinality(votes) * 2 > Cardinality(servers)

(* The leader's commit loop: of the indices above commitIndex whose entry  *)
(* is of the current term and which a majority (itself included) holds,    *)
(* the last one.                                                           *)
Committable(log, commitIndex, term, match, self, servers) ==
    {i \in (commitIndex + 1)..Len(log) :
        /\ log[i].term = term
        /\ Majority({self} \cup {p \in servers \ {self} : match[p] >= i},
                    servers)}

AdvanceCommit(log, commitIndex, term, match, self, servers) ==
    LET ok == Committable(log, commitIndex, term, match, self, servers)
    IN IF ok = {} THEN commitIndex
                  ELSE CHOOSE i \in ok : \A j \in ok : j <= i

(* AppendEntriesHelper never fills in the two conflict fields of its       *)
(* reply, so the leader always receives their zero values.                 *)
ConflictTerm == 0
ConflictIndex == 1

(* Mistaken variant: "no entry" instead of the first index. *)
NextIndexBelowFirst(log) == 0

(* nextIndex after a refused AppendEntries. *)
NextIndexAfterReject(log) ==
    LET ofTerm == {i \in 1..Len(log) : log[i].term = ConflictTerm}
    IN IF ofTerm # {}
       THEN (CHOOSE i \in ofTerm : \A j \in ofTerm : j <= i) + 1
       ELSE ConflictIndex
=============================================================================
