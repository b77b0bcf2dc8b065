--------------------------- MODULE PipelineProofs ---------------------------
(***************************************************************************)
(* Theorems about CommitPipeline, for any number of heartbeat loops, any   *)
(* length of the log and any capacity of the channels.                     *)
(***************************************************************************)
EXTENDS CommitPipeline, SequenceTheorems, TLAPS

-----------------------------------------------------------------------------
(***************************************************************************)
(* Counting sequences.                                                     *)
(***************************************************************************)

(* The sequence 1, 2, ..., n. *)
Count(n) == [i \in 1..n |-> i]

(* Count(n) is a sequence of length n. *)
LEMMA CountSeq ==
    ASSUME NEW n \in Nat
    PROVE  /\ Count(n) \in Seq(1..n) /\ Len(Count(n)) = n
           /\ \A i \in 1..n : Count(n)[i] = i
BY DEF Count

(* The first k of 1, 2, ..., n are 1, 2, ..., k. *)
LEMMA CountPrefix ==
    ASSUME NEW n \in Nat, NEW k \in 0..n
    PROVE  SubSeq(Count(n), 1, k) = Count(k)
<1>1. /\ Count(n) \in Seq(1..n) /\ Len(Count(n)) = n
      /\ \A i \in 1..n : Count(n)[i] = i
    BY CountSeq
<1> QED BY <1>1, SubSeqProperties DEF Count

(* The front of a counting sequence that has been cut in two counts too. *)
LEMMA CountFront ==
    ASSUME NEW S, NEW s \in Seq(S), NEW t \in Seq(S), NEW n \in Nat,
           s \o t = Count(n)
    PROVE  Len(s) <= n /\ s = Count(Len(s)) /\ Len(t) = n - Len(s)
<1>1. /\ Len(s \o t) = Len(s) + Len(t)
      /\ \A i \in 1..Len(s) : (s \o t)[i] = s[i]
    BY ConcatProperties
<1>2. Len(Count(n)) = n /\ \A i \in 1..n : Count(n)[i] = i
    BY CountSeq
<1>3. Len(s) \in Nat /\ Len(t) \in Nat /\ Len(s) <= n /\ Len(t) = n - Len(s)
    BY <1>1, <1>2, LenProperties
<1>4. \A i \in 1..Len(s) : s[i] = i
    BY <1>1, <1>2, <1>3
<1>5. Count(Len(s)) \in Seq(1..Len(s)) /\ Len(Count(Len(s))) = Len(s)
      /\ \A i \in 1..Len(s) : Count(Len(s))[i] = i
    BY <1>3, CountSeq
<1>6. s = Count(Len(s))
    BY <1>4, <1>3, LenProperties DEF Count
<1> QED BY <1>3, <1>6

(* 1, ..., m followed by m + 1, ..., n is 1, ..., n. *)
LEMMA CountOn ==
    ASSUME NEW n \in Nat, NEW m \in 0..n
    PROVE  Count(m) \o [k \in 1..(n - m) |-> m + k] = Count(n)
<1> DEFINE rest == [k \in 1..(n - m) |-> m + k]
<1>1. Count(m) \in Seq(Nat) /\ Len(Count(m)) = m
      /\ \A i \in 1..m : Count(m)[i] = i
    BY CountSeq DEF Count
<1>2. rest \in Seq(Nat) /\ Len(rest) = n - m
    OBVIOUS
<1>3. \A k \in 1..(n - m) : rest[k] = m + k
    OBVIOUS
<1> HIDE DEF rest
<1>4. /\ Count(m) \o rest \in Seq(Nat)
      /\ Len(Count(m) \o rest) = n
      /\ \A i \in 1..n : (Count(m) \o rest)[i] = i
    <2> HIDE DEF Count
    <2>1. /\ Count(m) \o rest \in Seq(Nat)
          /\ Len(Count(m) \o rest) = n
        BY <1>1, <1>2, ConcatProperties
    <2>2. ASSUME NEW i \in 1..n PROVE (Count(m) \o rest)[i] = i
        BY <1>1, <1>2, <1>3
    <2> QED BY <2>1, <2>2
<1>5. Count(n) \in Seq(Nat) /\ Len(Count(n)) = n
      /\ \A i \in 1..n : Count(n)[i] = i
    BY CountSeq DEF Count
<1>6. Count(m) \o rest = Count(n)
    BY <1>4, <1>5, SeqEqual
<1> QED BY <1>6 DEF rest

(* Taking the head of t to the end of s does not change s \o t. *)
LEMMA ShiftConcat ==
    ASSUME NEW S, NEW s \in Seq(S), NEW t \in Seq(S), t # <<>>
    PROVE  Append(s, Head(t)) \o Tail(t) = s \o t
<1>1. Head(t) \in S /\ Tail(t) \in Seq(S) /\ Append(s, Head(t)) \in Seq(S)
    BY HeadTailProperties, AppendProperties
<1>2. Len(Append(s, Head(t))) = Len(s) + 1 /\ Len(Tail(t)) = Len(t) - 1
    BY <1>1, HeadTailProperties, AppendProperties
<1>3. Len(s) \in Nat /\ Len(t) \in Nat \ {0}
    BY EmptySeq, LenProperties
<1>4. Len(Append(s, Head(t)) \o Tail(t)) = Len(s \o t)
    BY <1>1, <1>2, <1>3, ConcatProperties
<1>5. ASSUME NEW i \in 1..Len(s \o t)
      PROVE  (Append(s, Head(t)) \o Tail(t))[i] = (s \o t)[i]
    BY <1>1, <1>2, <1>3
<1>6. Append(s, Head(t)) \o Tail(t) \in Seq(S) /\ s \o t \in Seq(S)
    BY <1>1, ConcatProperties
<1> QED BY <1>4, <1>5, <1>6, SeqEqual

(* How three sequences are put together does not matter; the name keeps    *)
(* the provers from expanding it.                                          *)
Assoc(p, c, b) == (p \o c) \o b = p \o (c \o b)

(* Concatenation is associative. *)
LEMMA AllAssoc ==
    ASSUME NEW S, NEW p \in Seq(S), NEW c \in Seq(S), NEW b \in Seq(S)
    PROVE  Assoc(p, c, b)
BY ConcatAssociative, SMTT(30) DEF Assoc

(* The front of a count that has been cut in three counts too. *)
LEMMA FrontOfThree ==
    ASSUME NEW S, NEW p \in Seq(S), NEW c \in Seq(S), NEW b \in Seq(S), NEW n \in Nat,
           p \o c \o b = Count(n)
    PROVE  Len(p) \in 0..n /\ p = Count(Len(p))
<1> DEFINE t == c \o b
<1>1. p \o t = Count(n)
    <2>1. Assoc(p, c, b)
        BY AllAssoc, Zenon
    <2> QED BY <2>1, Zenon DEF Assoc
<1>2. t \in Seq(S)
    BY ConcatProperties
<1> HIDE DEF t
<1>3. Len(p) <= n /\ p = Count(Len(p))
    BY <1>1, <1>2, CountFront, ZenonT(60)
<1> QED BY <1>3, LenProperties
-----------------------------------------------------------------------------
(***************************************************************************)
(* The inductive invariant.  commitChanSender holds entries only while it  *)
(* hands them over; without that, what it collects would be lost or come   *)
(* behind what is left of an earlier batch.  A Submit that waits has       *)
(* appended an entry of its own.                                           *)
(***************************************************************************)
USE PipelineAssumption

HandsOver == sender # "deliver" => batch = <<>>

SubmitsAppended == submits <= logLen

PipelineInv ==
    /\ PipelineTypeOK
    /\ SubmitsAppended
    /\ HandsOver
    /\ InOrderOnce
    /\ WakeupOnItsWay

(* The invariant holds of a server that has just started. *)
LEMMA PipelineInit ==
    ASSUME Init PROVE PipelineInv
<1>1. PipelineTypeOK
    <2>1. <<>> \in Seq(1..MaxEntries)
        BY EmptySeq
    <2>2. leads \in BOOLEAN /\ loop \in [Loop -> {"unborn", "send", "select", "check", "exited"}]
        BY DEF Init
    <2> QED BY <2>1, <2>2 DEF Init, PipelineTypeOK
<1>2. InOrderOnce
    <2>1. Count(0) \in Seq(1..0) /\ Len(Count(0)) = 0
        BY CountSeq
    <2>2. Count(0) = <<>>
        BY <2>1, EmptySeq
    <2>3. persisted \o commitChan \o batch = <<>>
        BY DEF Init
    <2> QED BY <2>2, <2>3 DEF Init, InOrderOnce, Count
<1> QED BY <1>1, <1>2
    DEF Init, PipelineInv, SubmitsAppended, HandsOver, WakeupOnItsWay

(* No step of a leader, and none of a follower, touches the entries on     *)
(* their way; both keep the counts in their ranges and the wakeup.         *)
LEMMA HandlerStepInv ==
    ASSUME PipelineInv, LeaderStep \/ FollowerStep
    PROVE  /\ PipelineInv'
           /\ UNCHANGED <<persisted, lastApplied>>
           /\ commitIndex' \in Nat /\ commitIndex <= commitIndex'
<1> DEFINE Kept == /\ PipelineTypeOK' /\ SubmitsAppended' /\ WakeupOnItsWay'
                   /\ commitIndex <= commitIndex'
           OnTheirWay == UNCHANGED <<persisted, lastApplied, sender, batch, commitChan>>
<1>1. Kept /\ OnTheirWay
    <2> USE DEF PipelineInv, PipelineTypeOK, SubmitsAppended, WakeupOnItsWay,
                lockVars, loopVars, logVars, senderVars, applyVars
    <2>1. CASE \E l \in Loop : StartLeader(l)
        BY <2>1 DEF StartLeader
    <2>2. CASE \E l \in Loop : StartLeaderAgain(l)
        BY <2>2 DEF StartLeaderAgain
    <2>3. CASE StepDown
        <3>1. leads' \in BOOLEAN
            BY <2>3, Zenon DEF StepDown
        <3> QED BY <2>3, <3>1 DEF StepDown
    <2>4. CASE \E l \in Loop : HeartbeatTimeout(l)
        BY <2>4 DEF HeartbeatTimeout
    <2>5. CASE \E l \in Loop : LoopChecks(l)
        BY <2>5 DEF LoopChecks
    <2>6. CASE \E l \in Loop : LeaderSendAEs(l)
        BY <2>6 DEF LeaderSendAEs
    <2>7. CASE Submit
        BY <2>7 DEF Submit
    <2>8. CASE \E l \in Loop : SubmitTriggers(l)
        BY <2>8 DEF SubmitTriggers
    <2>9. CASE AppendEntriesReply
        BY <2>9 DEF AppendEntriesReply
    <2>10. CASE ReplySignals
        BY <2>10 DEF ReplySignals
    <2>11. CASE \E l \in Loop : ReplyTriggers(l)
        BY <2>11 DEF ReplyTriggers
    <2>12. CASE AppendEntriesHelper
        BY <2>12 DEF AppendEntriesHelper
    <2>13. CASE HelperSignals
        BY <2>13 DEF HelperSignals
    <2> QED BY <2>1, <2>2, <2>3, <2>4, <2>5, <2>6, <2>7, <2>8, <2>9, <2>10, <2>11,
               <2>12, <2>13 DEF LeaderStep, FollowerStep
<1>2. commitIndex' \in Nat
    BY <1>1 DEF PipelineTypeOK
<1> QED BY <1>1, <1>2 DEF PipelineInv, HandsOver, InOrderOnce

(* commitChanSender begins with an empty batch: what it collects follows   *)
(* on what it has handed over.                                             *)
LEMMA CollectInv ==
    ASSUME PipelineInv, CollectEntries PROVE PipelineInv'
<1> USE DEF PipelineInv
<1>1. /\ commitIndex \in 0..MaxEntries /\ lastApplied \in 0..commitIndex
      /\ batch = <<>> /\ sender' = "deliver"
    BY DEF CollectEntries, PipelineTypeOK, HandsOver
<1>2. NewEntries \in Seq(1..MaxEntries) /\ Len(NewEntries) = commitIndex - lastApplied
    BY <1>1 DEF NewEntries
<1>3. /\ batch' = NewEntries /\ lastApplied' = commitIndex /\ commitIndex' = commitIndex
      /\ UNCHANGED <<persisted, commitChan>>
    BY <1>1, <1>2 DEF CollectEntries, applyVars
<1>4. PipelineTypeOK' /\ SubmitsAppended'
    BY <1>1, <1>2, <1>3
    DEF CollectEntries, PipelineTypeOK, SubmitsAppended, lockVars, loopVars, logVars,
        applyVars
<1>5. InOrderOnce'
    <2>1. persisted \o commitChan \in Seq(1..MaxEntries)
        BY ConcatProperties DEF PipelineTypeOK
    <2>2. persisted \o commitChan = Count(lastApplied)
        BY <1>1, <2>1, ConcatEmptySeq DEF InOrderOnce, Count
    <2>3. Count(lastApplied) \o NewEntries = Count(commitIndex)
        <3>1. commitIndex \in Nat
            BY <1>1
        <3> QED BY <1>1, <3>1, CountOn, Zenon DEF NewEntries
    <2> QED BY <1>3, <2>2, <2>3 DEF InOrderOnce, Count
<1> QED BY <1>1, <1>3, <1>4, <1>5 DEF PipelineTypeOK, HandsOver, WakeupOnItsWay

(* Handing an entry over moves it from the batch to the channel. *)
LEMMA DeliverInv ==
    ASSUME PipelineInv, DeliverEntry PROVE PipelineInv'
<1> USE DEF PipelineInv
<1> DEFINE Entry == 1..MaxEntries
<1>1. /\ persisted \in Seq(Entry) /\ commitChan \in Seq(Entry)
      /\ batch \in Seq(Entry) /\ batch # <<>>
      /\ commitChan' = Append(commitChan, Head(batch)) /\ batch' = Tail(batch)
      /\ UNCHANGED <<persisted, lastApplied, sender>> /\ sender = "deliver"
    BY DEF DeliverEntry, PipelineTypeOK, applyVars
<1> HIDE DEF Entry
<1>2. commitChan' \in Seq(Entry) /\ batch' \in Seq(Entry)
    BY <1>1, HeadTailProperties, AppendProperties
<1>3. PipelineTypeOK' /\ SubmitsAppended' /\ WakeupOnItsWay'
    BY <1>1, <1>2
    DEF DeliverEntry, PipelineTypeOK, SubmitsAppended, WakeupOnItsWay, lockVars,
        loopVars, logVars, applyVars, Entry
<1>4. InOrderOnce'
    <2>1. commitChan' \o batch' = commitChan \o batch
        BY <1>1, ShiftConcat
    <2>2. Assoc(persisted, commitChan', batch')
        BY <1>1, <1>2, AllAssoc, Zenon
    <2>3. Assoc(persisted, commitChan, batch)
        BY <1>1, AllAssoc, Zenon
    <2> QED BY <1>1, <2>1, <2>2, <2>3, Zenon DEF InOrderOnce, Assoc
<1> QED BY <1>1, <1>3, <1>4 DEF HandsOver

(* persistData takes the oldest entry of the channel: it is called with    *)
(* the entry whose index is one more than the number of calls so far.      *)
LEMMA PersistInv ==
    ASSUME PipelineInv, PersistData
    PROVE  PipelineInv' /\ Len(persisted') = Len(persisted) + 1
<1> USE DEF PipelineInv
<1>1. /\ persisted \in Seq(1..MaxEntries) /\ commitChan \in Seq(1..MaxEntries)
      /\ batch \in Seq(1..MaxEntries) /\ commitChan # <<>>
      /\ persisted' = Append(persisted, Head(commitChan)) /\ commitChan' = Tail(commitChan)
      /\ UNCHANGED <<batch, lastApplied, sender>>
    BY DEF PersistData, PipelineTypeOK, senderVars
<1>2. /\ commitChan' \in Seq(1..MaxEntries) /\ persisted' \in Seq(1..MaxEntries)
      /\ Len(persisted') = Len(persisted) + 1
    BY <1>1, HeadTailProperties, AppendProperties
<1>3. PipelineTypeOK' /\ SubmitsAppended' /\ WakeupOnItsWay'
    BY <1>1, <1>2
    DEF PersistData, PipelineTypeOK, SubmitsAppended, WakeupOnItsWay, lockVars,
        loopVars, logVars, senderVars
<1>4. InOrderOnce'
    <2>1. persisted' \o commitChan' = persisted \o commitChan
        BY <1>1, ShiftConcat, Zenon
    <2> QED BY <1>1, <2>1 DEF InOrderOnce
<1> QED BY <1>1, <1>2, <1>3, <1>4 DEF HandsOver

(* The other steps of the delivery move no entry. *)
LEMMA SignalStepInv ==
    ASSUME PipelineInv,
           ForwardSucceeded \/ TakeSignal \/ BatchDone \/ Broadcast \/ StreamsSent
    PROVE  PipelineInv' /\ UNCHANGED <<persisted, commitIndex>>
<1> USE DEF PipelineInv
<1>1. /\ PipelineTypeOK' /\ SubmitsAppended' /\ WakeupOnItsWay'
      /\ UNCHANGED <<persisted, lastApplied, batch, commitChan, commitIndex>>
    <2> USE DEF PipelineTypeOK, SubmitsAppended, WakeupOnItsWay,
                lockVars, loopVars, logVars, senderVars, applyVars
    <2>1. CASE TakeSignal
        BY <2>1 DEF TakeSignal
    <2>2. CASE BatchDone
        BY <2>2 DEF BatchDone
    <2>3. CASE Broadcast
        BY <2>3 DEF Broadcast
    <2>4. CASE StreamsSent
        BY <2>4 DEF StreamsSent
    <2>5. CASE ForwardSucceeded
        BY <2>5 DEF ForwardSucceeded
    <2> QED BY <2>1, <2>2, <2>3, <2>4, <2>5
<1>2. HandsOver'
    BY <1>1 DEF HandsOver, ForwardSucceeded, TakeSignal, BatchDone, Broadcast,
                StreamsSent, senderVars
<1> QED BY <1>1, <1>2 DEF InOrderOnce

(* The invariant is inductive. *)
LEMMA PipelineStep ==
    ASSUME PipelineInv, [Next]_vars PROVE PipelineInv'
<1>1. CASE LeaderStep \/ FollowerStep
    BY <1>1, HandlerStepInv
<1>2. CASE DeliveryStep
    BY <1>2, CollectInv, DeliverInv, PersistInv, SignalStepInv DEF DeliveryStep
<1>3. CASE UNCHANGED vars
    BY <1>3
    DEF PipelineInv, PipelineTypeOK, SubmitsAppended, HandsOver, InOrderOnce,
        WakeupOnItsWay, vars, lockVars, loopVars, logVars, senderVars, applyVars
<1> QED BY <1>1, <1>2, <1>3 DEF Next

(* The counters, channels and goroutines of a server keep to their ranges: *)
(* the log never shrinks below commitIndex, nor commitIndex below          *)
(* lastApplied, however many loops run and handlers block.                 *)
THEOREM PipelineTypeCorrect == Spec => []PipelineTypeOK
<1>1. Init => PipelineInv
    BY PipelineInit
<1>2. PipelineInv /\ [Next]_vars => PipelineInv'
    BY PipelineStep
<1>3. PipelineInv => PipelineTypeOK
    BY DEF PipelineInv
<1> QED BY <1>1, <1>2, <1>3, PTL DEF Spec

(* Exactly once and in order, from commitChanSender through commitChan to  *)
(* persistData.                                                            *)
THEOREM DeliveredInOrder == Spec => []InOrderOnce
<1>1. Init => PipelineInv
    BY PipelineInit
<1>2. PipelineInv /\ [Next]_vars => PipelineInv'
    BY PipelineStep
<1>3. PipelineInv => InOrderOnce
    BY DEF PipelineInv
<1> QED BY <1>1, <1>2, <1>3, PTL DEF Spec

(* No wakeup of commitChanSender is lost. *)
THEOREM NoLostWakeup == Spec => []WakeupOnItsWay
<1>1. Init => PipelineInv
    BY PipelineInit
<1>2. PipelineInv /\ [Next]_vars => PipelineInv'
    BY PipelineStep
<1>3. PipelineInv => WakeupOnItsWay
    BY DEF PipelineInv
<1> QED BY <1>1, <1>2, <1>3, PTL DEF Spec
-----------------------------------------------------------------------------
(***************************************************************************)
(* The refinement.                                                         *)
(***************************************************************************)

(* The entries persistData was called with are the first of those          *)
(* committed.                                                              *)
LEMMA PersistedPrefix ==
    ASSUME PipelineInv
    PROVE  /\ commitIndex \in Nat /\ Len(persisted) \in 0..commitIndex
           /\ persisted = Count(Len(persisted))
<1> DEFINE Entry == 1..MaxEntries
<1>1. /\ persisted \in Seq(Entry) /\ commitChan \in Seq(Entry)
      /\ batch \in Seq(Entry)
      /\ commitIndex \in Nat /\ lastApplied \in Nat /\ lastApplied <= commitIndex
    BY DEF PipelineInv, PipelineTypeOK
<1> HIDE DEF Entry
<1>2. persisted \o commitChan \o batch = Count(lastApplied)
    BY DEF PipelineInv, InOrderOnce, Count
<1>3. Len(persisted) \in 0..lastApplied /\ persisted = Count(Len(persisted))
    BY ONLY <1>1, <1>2, FrontOfThree, ZenonT(60)
<1> QED BY <1>1, <1>3

(* The same after a step. *)
LEMMA PersistedPrefixNext ==
    ASSUME PipelineInv'
    PROVE  /\ commitIndex' \in Nat /\ Len(persisted') \in 0..commitIndex'
           /\ persisted' = Count(Len(persisted'))
<1> DEFINE Entry == 1..MaxEntries
<1>1. /\ persisted' \in Seq(Entry) /\ commitChan' \in Seq(Entry)
      /\ batch' \in Seq(Entry)
      /\ commitIndex' \in Nat /\ lastApplied' \in Nat /\ lastApplied' <= commitIndex'
    BY DEF PipelineInv, PipelineTypeOK
<1> HIDE DEF Entry
<1>2. persisted' \o commitChan' \o batch' = Count(lastApplied')
    BY DEF PipelineInv, InOrderOnce, Count
<1>3. Len(persisted') \in 0..lastApplied' /\ persisted' = Count(Len(persisted'))
    BY ONLY <1>1, <1>2, FrontOfThree, ZenonT(60)
<1> QED BY <1>1, <1>3

(* A shorter count is a prefix of a longer one. *)
LEMMA CountIsPrefix ==
    ASSUME NEW n \in Nat, NEW k \in 0..n
    PROVE  Log!Prefix(Count(k), Count(n))
BY CountSeq, CountPrefix DEF Log!Prefix

(* A server that starts is an initial state of the replicated log. *)
LEMMA DeliveryInit ==
    ASSUME Init PROVE Log!Init
<1>1. persisted = Count(0) /\ Count(commitIndex) = Count(0)
    BY EmptySeq, CountSeq DEF Init
<1>2. Log!Prefix(Count(0), Count(0)) /\ Count(0) = <<>>
    BY CountIsPrefix, EmptySeq, CountSeq
<1> QED BY <1>1, <1>2 DEF Log!Init, Count

(* Every step is a Decide, a Deliver or a stutter of the replicated log.   *)
LEMMA DeliveryStepRefines ==
    ASSUME PipelineInv, [Next]_vars PROVE [Log!Next]_(Log!vars)
<1> DEFINE decided == [i \in 1..commitIndex |-> i]
           delivered == [n \in {"this"} |-> persisted]
<1>1. ASSUME commitIndex' \in Nat, commitIndex <= commitIndex', UNCHANGED persisted
      PROVE  Log!Decide
    BY <1>1, PersistedPrefix, CountIsPrefix DEF Log!Decide, Count
<1>2. ASSUME UNCHANGED <<commitIndex, persisted>>
      PROVE  UNCHANGED Log!vars
    BY <1>2 DEF Log!vars
<1>3. CASE LeaderStep \/ FollowerStep
    BY <1>1, <1>3, HandlerStepInv DEF Log!Next
<1>4. CASE PersistData
    <2>1. /\ PipelineInv' /\ Len(persisted') = Len(persisted) + 1
          /\ commitIndex' = commitIndex
        BY <1>4, PersistInv DEF PersistData
    <2>2. /\ commitIndex' \in Nat /\ Len(persisted') \in 0..commitIndex'
          /\ persisted' = Count(Len(persisted'))
        BY <2>1, PersistedPrefixNext
    <2>3. /\ commitIndex \in Nat /\ Len(persisted) \in Nat
        BY PersistedPrefix
    <2>4. persisted' = SubSeq(Count(commitIndex'), 1, Len(persisted'))
        BY <2>2, CountPrefix
    <2>5. Log!Prefix(Count(commitIndex), Count(commitIndex'))
        BY <2>1, <2>3, CountIsPrefix
    <2>6. Len(Count(commitIndex')) = commitIndex'
        BY <2>2, CountSeq
    <2> DEFINE k == Len(persisted')
    <2>7. k \in (Len(delivered["this"]) + 1)..Len(Count(commitIndex'))
        BY <2>1, <2>2, <2>3, <2>6
    <2>8. delivered' = [delivered EXCEPT !["this"] = SubSeq(Count(commitIndex'), 1, k)]
        BY <2>4
    <2> QED BY <2>5, <2>7, <2>8 DEF Log!Next, Log!Deliver, Count
<1>5. CASE CollectEntries \/ DeliverEntry
    BY <1>2, <1>5 DEF CollectEntries, DeliverEntry, applyVars
<1>6. CASE ForwardSucceeded \/ TakeSignal \/ BatchDone \/ Broadcast \/ StreamsSent
    BY <1>2, <1>6, SignalStepInv
<1>7. CASE UNCHANGED vars
    BY <1>2, <1>7 DEF vars, applyVars
<1> QED BY <1>3, <1>4, <1>5, <1>6, <1>7 DEF Next, DeliveryStep

(* One server hands to persistData ever longer prefixes of what is         *)
(* committed: CommitPipeline implements its part of ReplicatedLog.         *)
THEOREM PipelineImplementsDelivery == Spec => ImplementsDelivery
<1>1. Init => PipelineInv /\ Log!Init
    BY PipelineInit, DeliveryInit
<1>2. PipelineInv /\ [Next]_vars => PipelineInv'
    BY PipelineStep
<1>3. PipelineInv /\ [Next]_vars => [Log!Next]_(Log!vars)
    BY DeliveryStepRefines
<1> QED BY <1>1, <1>2, <1>3, PTL DEF Spec, ImplementsDelivery, Log!Spec
=============================================================================
