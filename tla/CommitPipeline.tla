--------------------------- MODULE CommitPipeline ---------------------------
(***************************************************************************)
(* The goroutines of one server that share cm.mu and wait for one another  *)
(* on channels (server/raft.go, server/raft_server.go,                     *)
(* server/chat_service.go):                                                *)
(*                                                                         *)
(*   heartbeat loops  --AppendEntries-->  response handlers                *)
(*   Submit, response handlers  --triggerAEChan-->  heartbeat loops        *)
(*   handlers, forwardToLeader  --newCommitReadyChan-->  commitChanSender  *)
(*     --commitChan-->  commitEntries/persistData                          *)
(*     --broadcast-->  BroadCast  -->  the streams of the clients          *)
(*                                                                         *)
(* Raft takes what is done under the lock as one step.  This module opens  *)
(* the handlers that do not let go of cm.mu while they wait on a channel.  *)
(* The log is a number of entries; what is in them, and why an entry is    *)
(* committed, is left to Raft.                                             *)
(***************************************************************************)
EXTENDS Naturals, Sequences, FiniteSets

CONSTANTS
    Loop,          \* goroutines that startLeader may spawn
    MaxEntries,    \* bound: entries of the log
    MaxElected,    \* bound: times the server is elected
    Forwards,      \* does the server forward commands, and get answers?
    ReadyCap,      \* capacity of newCommitReadyChan, 16 in the code
    CommitCap      \* capacity of commitChan, 10 in the code

ASSUME PipelineAssumption ==
    /\ IsFiniteSet(Loop)
    /\ MaxEntries \in Nat /\ MaxElected \in Nat /\ Forwards \in BOOLEAN
    /\ ReadyCap \in Nat \ {0} /\ CommitCap \in Nat \ {0}

VARIABLES
    mu,            \* "free", or what its holder waits to do: "signal" (after
                   \* AppendEntries), "commit" (after a response), "trigger"
    leads, elected,
    loop,          \* where each heartbeat loop is
    logLen, sent,  \* entries of the log, and of the last round sent
    commitIndex, lastApplied,
    submits,       \* calls of Submit that wait to trigger a round
    ready,         \* signals in newCommitReadyChan
    sender, batch, \* commitChanSender, and what it still has to hand over
    commitChan,
    persisted,     \* entries persistData was called with, in that order
    casts,         \* broadcasts persistData has still to make
    caster         \* the BroadCast goroutine

lockVars == <<mu, leads, elected>>
loopVars == <<loop, sent>>
logVars == <<logLen, submits>>
senderVars == <<lastApplied, sender, batch>>
applyVars == <<persisted, casts, caster>>
vars == <<lockVars, loopVars, logVars, commitIndex, ready, senderVars, commitChan,
          applyVars>>

Init ==
    /\ mu = "free" /\ leads = FALSE /\ elected = 0
    /\ loop = [l \in Loop |-> "unborn"]
    /\ logLen = 0 /\ sent = 0
    /\ commitIndex = 0 /\ lastApplied = 0
    /\ submits = 0 /\ ready = 0
    /\ sender = "wait" /\ batch = <<>>
    /\ commitChan = <<>>
    /\ persisted = <<>> /\ casts = 0 /\ caster = "receive"
-----------------------------------------------------------------------------
(***************************************************************************)
(* Leading.                                                                *)
(***************************************************************************)

(* "go cm.startLeader()" does not take the lock; its loop begins with a    *)
(* round of AppendEntries.                                                 *)
StartLeader(l) ==
    /\ ~leads /\ elected < MaxElected
    /\ loop[l] = "unborn"
    /\ leads' = TRUE
    /\ elected' = elected + 1
    /\ loop' = [loop EXCEPT ![l] = "send"]
    /\ UNCHANGED <<mu, sent, logVars, commitIndex, ready, senderVars, commitChan,
                   applyVars>>

(* Under the lock, for a vote response that comes when the server leads.   *)
StartLeaderAgain(l) ==
    /\ mu = "free" /\ leads
    /\ loop[l] = "unborn"
    /\ loop' = [loop EXCEPT ![l] = "send"]
    /\ UNCHANGED <<lockVars, sent, logVars, commitIndex, ready, senderVars,
                   commitChan, applyVars>>

(* becomeFollower, in any handler. *)
StepDown ==
    /\ mu = "free" /\ leads
    /\ leads' = FALSE
    /\ UNCHANGED <<mu, elected, loopVars, logVars, commitIndex, ready, senderVars,
                   commitChan, applyVars>>

(* 50 ms have passed. *)
HeartbeatTimeout(l) ==
    /\ loop[l] = "select"
    /\ loop' = [loop EXCEPT ![l] = "check"]
    /\ UNCHANGED <<lockVars, sent, logVars, commitIndex, ready, senderVars,
                   commitChan, applyVars>>

(* A loop that has been woken takes the lock to see whether it still leads *)
(* and then, in leaderSendAEs, takes it again.                             *)
LoopChecks(l) ==
    /\ loop[l] = "check" /\ mu = "free"
    /\ loop' = [loop EXCEPT ![l] = IF leads THEN "send" ELSE "exited"]
    /\ UNCHANGED <<lockVars, sent, logVars, commitIndex, ready, senderVars,
                   commitChan, applyVars>>

LeaderSendAEs(l) ==
    /\ loop[l] = "send" /\ mu = "free"
    /\ loop' = [loop EXCEPT ![l] = "select"]
    /\ sent' = IF leads THEN logLen ELSE sent
    /\ UNCHANGED <<lockVars, logVars, commitIndex, ready, senderVars, commitChan,
                   applyVars>>

(* Submit of a leader appends and, with the lock released, waits for a     *)
(* loop to take its trigger.                                               *)
Submit ==
    /\ mu = "free" /\ leads
    /\ logLen < MaxEntries
    /\ logLen' = logLen + 1
    /\ submits' = submits + 1
    /\ UNCHANGED <<lockVars, loopVars, commitIndex, ready, senderVars, commitChan,
                   applyVars>>

SubmitTriggers(l) ==
    /\ submits > 0 /\ loop[l] = "select"
    /\ submits' = submits - 1
    /\ loop' = [loop EXCEPT ![l] = "check"]
    /\ UNCHANGED <<lockVars, sent, logLen, commitIndex, ready, senderVars,
                   commitChan, applyVars>>

(* A response that completes a majority; the handler keeps the lock.       *)
AppendEntriesReply ==
    /\ mu = "free" /\ leads
    /\ \E i \in (commitIndex + 1)..sent : commitIndex' = i
    /\ mu' = "commit"
    /\ UNCHANGED <<leads, elected, loopVars, logVars, ready, senderVars, commitChan,
                   applyVars>>

(* Still under the lock: signal commitChanSender ... *)
ReplySignals ==
    /\ mu = "commit" /\ ready < ReadyCap
    /\ ready' = ready + 1
    /\ mu' = "trigger"
    /\ UNCHANGED <<leads, elected, loopVars, logVars, commitIndex, senderVars,
                   commitChan, applyVars>>

(* ... and wait for a loop to take the trigger. *)
ReplyTriggers(l) ==
    /\ mu = "trigger" /\ loop[l] = "select"
    /\ mu' = "free"
    /\ loop' = [loop EXCEPT ![l] = "check"]
    /\ UNCHANGED <<leads, elected, sent, logVars, commitIndex, ready, senderVars,
                   commitChan, applyVars>>
-----------------------------------------------------------------------------
(***************************************************************************)
(* Following.                                                              *)
(***************************************************************************)

(* Mistaken variant: the handler is done without a signal. *)
CommitsSilently ==
    /\ mu = "free" /\ ~leads
    /\ \E k \in logLen..MaxEntries : \E i \in (commitIndex + 1)..k :
           logLen' = k /\ commitIndex' = i
    /\ UNCHANGED <<lockVars, loopVars, submits, ready, senderVars, commitChan,
                   applyVars>>

(* AppendEntriesHelper brings entries and a new commitIndex.               *)
AppendEntriesHelper ==
    /\ mu = "free" /\ ~leads
    /\ \E k \in logLen..MaxEntries : \E i \in (commitIndex + 1)..k :
           logLen' = k /\ commitIndex' = i
    /\ mu' = "signal"
    /\ UNCHANGED <<leads, elected, loopVars, submits, ready, senderVars, commitChan,
                   applyVars>>

HelperSignals ==
    /\ mu = "signal" /\ ready < ReadyCap
    /\ ready' = ready + 1
    /\ mu' = "free"
    /\ UNCHANGED <<leads, elected, loopVars, logVars, commitIndex, senderVars,
                   commitChan, applyVars>>
-----------------------------------------------------------------------------
(***************************************************************************)
(* Delivery.                                                               *)
(***************************************************************************)

(* The goroutine of forwardToLeader, whatever the server is by now, tells  *)
(* commitChanSender when its command has been accepted, although nothing   *)
(* has been committed; it holds no lock while it waits for room.  How      *)
(* often it does is not bounded here.                                      *)
ForwardSucceeded ==
    /\ Forwards /\ ready < ReadyCap
    /\ ready' = ready + 1
    /\ UNCHANGED <<lockVars, loopVars, logVars, commitIndex, senderVars, commitChan,
                   applyVars>>

(* commitChanSender takes a signal ... *)
TakeSignal ==
    /\ sender = "wait" /\ ready > 0
    /\ ready' = ready - 1
    /\ sender' = "lock"
    /\ UNCHANGED <<lockVars, loopVars, logVars, commitIndex, lastApplied, batch,
                   commitChan, applyVars>>

(* Mistaken variants: one entry for each signal; the entry that was        *)
(* applied last comes again.                                               *)
NextEntry == IF commitIndex > lastApplied THEN <<lastApplied + 1>> ELSE <<>>
FromLastApplied == [k \in 1..(commitIndex + 1 - lastApplied) |-> lastApplied + k - 1]

(* The entries committed and not yet applied. *)
NewEntries == [k \in 1..(commitIndex - lastApplied) |-> lastApplied + k]

(* ... and, under the lock, what is new. *)
CollectEntries ==
    /\ sender = "lock" /\ mu = "free"
    /\ batch' = NewEntries
    /\ lastApplied' = lastApplied + Len(NewEntries)
    /\ sender' = "deliver"
    /\ UNCHANGED <<lockVars, loopVars, logVars, commitIndex, ready, commitChan,
                   applyVars>>

DeliverEntry ==
    /\ sender = "deliver" /\ batch # <<>>
    /\ Len(commitChan) < CommitCap
    /\ commitChan' = Append(commitChan, Head(batch))
    /\ batch' = Tail(batch)
    /\ UNCHANGED <<lockVars, loopVars, logVars, commitIndex, ready, lastApplied,
                   sender, applyVars>>

BatchDone ==
    /\ sender = "deliver" /\ batch = <<>>
    /\ sender' = "wait"
    /\ UNCHANGED <<lockVars, loopVars, logVars, commitIndex, ready, lastApplied,
                   batch, commitChan, applyVars>>

(* commitEntries runs persistData, which broadcasts to two groups for a    *)
(* join, to none for a login and to one for any other command.             *)
PersistData ==
    /\ casts = 0 /\ commitChan # <<>>
    /\ persisted' = Append(persisted, Head(commitChan))
    /\ commitChan' = Tail(commitChan)
    /\ casts' \in 0..2
    /\ UNCHANGED <<lockVars, loopVars, logVars, commitIndex, ready, senderVars,
                   caster>>

Broadcast ==
    /\ casts > 0 /\ caster = "receive"
    /\ casts' = casts - 1
    /\ caster' = "send"
    /\ UNCHANGED <<lockVars, loopVars, logVars, commitIndex, ready, senderVars,
                   commitChan, persisted>>

(* The group has been sent to every stream that is in it. *)
StreamsSent ==
    /\ caster = "send"
    /\ caster' = "receive"
    /\ UNCHANGED <<lockVars, loopVars, logVars, commitIndex, ready, senderVars,
                   commitChan, persisted, casts>>

LeaderStep ==
    \/ \E l \in Loop : StartLeader(l)
    \/ \E l \in Loop : StartLeaderAgain(l)
    \/ StepDown
    \/ \E l \in Loop : HeartbeatTimeout(l)
    \/ \E l \in Loop : LoopChecks(l)
    \/ \E l \in Loop : LeaderSendAEs(l)
    \/ Submit
    \/ \E l \in Loop : SubmitTriggers(l)
    \/ AppendEntriesReply
    \/ ReplySignals
    \/ \E l \in Loop : ReplyTriggers(l)

FollowerStep == AppendEntriesHelper \/ HelperSignals

DeliveryStep ==
    \/ ForwardSucceeded \/ TakeSignal \/ CollectEntries \/ DeliverEntry \/ BatchDone
    \/ PersistData \/ Broadcast \/ StreamsSent

Next == LeaderStep \/ FollowerStep \/ DeliveryStep

Spec == Init /\ [][Next]_vars

(* A goroutine that can go on does, and no client stops reading its        *)
(* stream.  A sync.Mutex is handed to whoever waits longest once somebody  *)
(* has waited for a millisecond, so who keeps asking for it gets it.       *)
DeliveryFairness ==
    /\ WF_vars(TakeSignal \/ DeliverEntry \/ BatchDone) /\ SF_vars(CollectEntries)
    /\ WF_vars(PersistData \/ Broadcast) /\ WF_vars(StreamsSent)

HandlerFairness ==
    /\ WF_vars(ReplySignals \/ HelperSignals \/ \E l \in Loop : ReplyTriggers(l))
    /\ \A l \in Loop : WF_vars(HeartbeatTimeout(l)) /\ SF_vars(LoopChecks(l) \/ LeaderSendAEs(l))

(* What is delivered needs no fairness of the handlers, only that the lock *)
(* is free again and again.                                                *)
DeliverySpec == Spec /\ DeliveryFairness

FairSpec == DeliverySpec /\ HandlerFairness
-----------------------------------------------------------------------------
(* Type invariant; commitIndex never overtakes the log, nor lastApplied    *)
(* commitIndex.                                                            *)
PipelineTypeOK ==
    /\ mu \in {"free", "signal", "commit", "trigger"}
    /\ leads \in BOOLEAN /\ elected \in 0..MaxElected
    /\ loop \in [Loop -> {"unborn", "send", "select", "check", "exited"}]
    /\ logLen \in 0..MaxEntries /\ sent \in 0..logLen
    /\ commitIndex \in 0..logLen /\ lastApplied \in 0..commitIndex
    /\ submits \in 0..MaxEntries
    /\ ready \in 0..ReadyCap
    /\ sender \in {"wait", "lock", "deliver"}
    /\ batch \in Seq(1..MaxEntries) /\ commitChan \in Seq(1..MaxEntries)
    /\ persisted \in Seq(1..MaxEntries)
    /\ casts \in 0..2 /\ caster \in {"receive", "send"}

(* Exactly once, in order: the entries persistData was called with, those  *)
(* in commitChan and those commitChanSender holds are together the entries *)
(* 1, 2, ..., lastApplied, in this order, whoever blocks whom.             *)
InOrderOnce ==
    persisted \o commitChan \o batch = [i \in 1..lastApplied |-> i]

Log == INSTANCE ReplicatedLog
    WITH Server <- {"this"}, decided <- [i \in 1..commitIndex |-> i],
         delivered <- [n \in {"this"} |-> persisted]

(* One server's part of the replicated log: the application is handed a    *)
(* prefix of what is committed, and a longer one with every call, through  *)
(* whatever batches and channels the entries have come (commitChanSender,  *)
(* commitEntries, persistData).                                            *)
ImplementsDelivery == Log!Spec

(* No lost wakeup at the level of the goroutines: for an entry that is     *)
(* committed and not collected there is a signal in newCommitReadyChan, a  *)
(* handler about to send one, or commitChanSender on its way.              *)
WakeupOnItsWay ==
    commitIndex > lastApplied =>
        ready > 0 \/ mu \in {"signal", "commit"} \/ sender = "lock"

(* What is committed reaches persistData, through full channels and past   *)
(* handlers that wait for room with the lock held, unless some handler     *)
(* keeps the lock for ever (commitChanSender, commitEntries).              *)
CommittedIsPersisted ==
    []<>(mu = "free") =>
        \A i \in 1..MaxEntries : commitIndex >= i ~> Len(persisted) >= i

(* The loop "sends AEs to peers ... whenever something is sent on          *)
(* triggerAEChan ... or every 50 ms": once woken it sends and waits again, *)
(* or ends.                                                                *)
HeartbeatGoesOn ==
    \A l \in Loop : loop[l] = "check" ~> loop[l] \in {"select", "exited"}
=============================================================================
