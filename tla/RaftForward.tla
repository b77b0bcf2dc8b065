----------------------------- MODULE RaftForward ----------------------------
(***************************************************************************)
(* Raft with the other branch of Submit: a server that does not lead       *)
(* forwards a command to the server it believes to be the leader           *)
(* (forwardToLeader and ForwardLeaderHelper of server/raft.go).            *)
(*                                                                         *)
(*   forwardCalls      forwardToLeader called; spawned once it has seen    *)
(*                     that the server does not lead                       *)
(*   forwardRequests   ForwardLeader RPCs at their target; admitted once   *)
(*                     ForwardLeaderHelper has seen that it leads and is   *)
(*                     about to call Submit                                *)
(*   forwardReplies    responses on their way back                         *)
(***************************************************************************)
EXTENDS Raft

VARIABLES forwardCalls, forwardRequests, forwardReplies

forwardVars == <<forwardCalls, forwardRequests, forwardReplies>>

ForwardCall == [src : Server, command : Command, spawned : BOOLEAN]
ForwardRequest == [src : Server, dst : Server, command : Command,
                   admitted : BOOLEAN, live : BOOLEAN]
ForwardReply == [src : Server, dst : Server, command : Command,
                 success : BOOLEAN, leaderId : Server \cup {Nil}]

NoForward == forwardCalls = {} /\ forwardRequests = {} /\ forwardReplies = {}

FInit == Init /\ NoForward
-----------------------------------------------------------------------------
Called(n, command) == [src |-> n, command |-> command, spawned |-> FALSE]

(* Submit on a server that does not lead. *)
SubmitElsewhere(n, command) ==
    /\ state[n] # Leader
    /\ forwardCalls' = forwardCalls \cup {Called(n, command)}
    /\ UNCHANGED <<raftVars, commitVars, leaderVars, electionVars, voteVars,
                   appendVars, saveVars, disk, applied, crashes, historyVars>>

(* Submit. *)
SubmitHere(n, command) ==
    \/ SubmitToLeader(n, command) /\ UNCHANGED forwardCalls
    \/ SubmitElsewhere(n, command)

SubmitAnywhere(n) ==
    /\ submitted < MaxSubmits
    /\ submitted' = submitted + 1
    /\ SubmitHere(n, submitted + 1)
    /\ UNCHANGED <<forwardRequests, forwardReplies>>

(* forwardToLeader looks at the state again, without the lock.  If the     *)
(* server leads by now it does nothing; if not it spawns a goroutine.      *)
ForwardDropped(c) ==
    /\ c \in forwardCalls
    /\ ~c.spawned /\ state[c.src] = Leader
    /\ forwardCalls' = forwardCalls \ {c}
    /\ UNCHANGED <<vars, forwardRequests, forwardReplies>>

ForwardSpawned(c) ==
    /\ c \in forwardCalls
    /\ ~c.spawned /\ state[c.src] # Leader
    /\ forwardCalls' = (forwardCalls \ {c}) \cup {[c EXCEPT !.spawned = TRUE]}
    /\ UNCHANGED <<vars, forwardRequests, forwardReplies>>

(* The goroutine sends the command to the server it believes to lead.      *)
ForwardToLeader(c) ==
    /\ c \in forwardCalls
    /\ c.spawned /\ leaderid[c.src] \in Peers(c.src)
    /\ forwardCalls' = forwardCalls \ {c}
    /\ forwardRequests' = forwardRequests \cup
           {[src |-> c.src, dst |-> leaderid[c.src], command |-> c.command,
             admitted |-> FALSE, live |-> TRUE]}
    /\ UNCHANGED <<vars, forwardReplies>>

ReplyForward(m, success, leaderId) ==
    forwardReplies' = forwardReplies \cup
        {r \in {[src |-> m.src, dst |-> m.dst, command |-> m.command,
                 success |-> success, leaderId |-> leaderId]} : m.live}

(* ForwardLeaderHelper looks at the state without the lock: a leader goes  *)
(* on to Submit, another server answers with its own idea of the leader.   *)
ForwardAdmitted(m) ==
    /\ m \in forwardRequests
    /\ ~m.admitted
    /\ state[m.dst] = Leader
    /\ forwardRequests' = (forwardRequests \ {m}) \cup {[m EXCEPT !.admitted = TRUE]}
    /\ UNCHANGED <<vars, forwardCalls, forwardReplies>>

ForwardRefused(m) ==
    /\ m \in forwardRequests
    /\ ~m.admitted
    /\ state[m.dst] # Leader
    /\ forwardRequests' = forwardRequests \ {m}
    /\ ReplyForward(m, FALSE, leaderid[m.dst])
    /\ UNCHANGED <<vars, forwardCalls>>

(* Submit returns true in both of its branches, so the answer is a success *)
(* even if the server has stopped leading and forwards the command again.  *)
SubmitForwarded(m) ==
    /\ m \in forwardRequests
    /\ m.admitted
    /\ forwardRequests' = forwardRequests \ {m}
    /\ SubmitHere(m.dst, m.command)
    /\ ReplyForward(m, TRUE, m.dst)
    /\ UNCHANGED submitted

(* Mistaken variant: the answer is not looked at, the command is forwarded *)
(* again.                                                                  *)
ForwardAgain(r) ==
    /\ r \in forwardReplies
    /\ forwardReplies' = forwardReplies \ {r}
    /\ forwardCalls' = forwardCalls \cup {Called(r.src, r.command)}
    /\ UNCHANGED <<vars, forwardRequests>>

(* A success signals commitChanSender. *)
ForwardSucceeded(r) ==
    /\ r \in forwardReplies
    /\ r.success
    /\ forwardReplies' = forwardReplies \ {r}
    /\ newCommitReady' = [newCommitReady EXCEPT ![r.src] = @ + 1]
    /\ UNCHANGED <<raftVars, commitIndex, lastApplied, leaderVars, electionVars,
                   voteVars, appendVars, submitted, saveVars, disk, applied,
                   crashes, historyVars, forwardCalls, forwardRequests>>

(* Mistaken variant: the command is forwarded again, to the same server.   *)
ForwardRetriedBlindly(r) ==
    /\ r \in forwardReplies
    /\ ~r.success
    /\ forwardReplies' = forwardReplies \ {r}
    /\ forwardCalls' = forwardCalls \cup {Called(r.src, r.command)}
    /\ UNCHANGED <<vars, forwardRequests>>

(* A refusal overwrites leaderid without the lock and forwards the command *)
(* again.                                                                  *)
ForwardRetried(r) ==
    /\ r \in forwardReplies
    /\ ~r.success
    /\ forwardReplies' = forwardReplies \ {r}
    /\ leaderid' = [leaderid EXCEPT ![r.src] = r.leaderId]
    /\ forwardCalls' = forwardCalls \cup {Called(r.src, r.command)}
    /\ UNCHANGED <<state, currentTerm, votedFor, log, commitVars, leaderVars,
                   electionVars, voteVars, appendVars, submitted, saveVars, disk,
                   applied, crashes, historyVars, forwardRequests>>

(* A crash ends the forwarding goroutines of the server and the handlers   *)
(* it was running.                                                         *)
EndsForwards(n) ==
    /\ forwardCalls' = Not(n, forwardCalls)
    /\ forwardRequests' = Orphan(n, {m \in forwardRequests : m.dst # n \/ ~m.admitted})
    /\ forwardReplies' = Not(n, forwardReplies)

(* Any server may crash at any time, the AppendPanic of Raft included, or  *)
(* between two of the writes of SetState.                                  *)
FCrash ==
    \/ \E n \in Server : Crash(n) /\ EndsForwards(n)
    \/ \E m \in voteRequests : CrashVoting(m) /\ EndsForwards(m.dst)
    \/ \E m \in appendRequests : CrashAppending(m) /\ EndsForwards(m.dst)
    \/ \E w \in saving : CrashSaving(w) /\ EndsForwards(w.server)

(* forwardToLeader has no connection to "no leader" or to the server       *)
(* itself: calling Invoke on the missing *grpc.ClientConn panics.          *)
ForwardPanic(c) ==
    /\ c \in forwardCalls
    /\ c.spawned /\ leaderid[c.src] \notin Peers(c.src)
    /\ Crash(c.src) /\ EndsForwards(c.src)

ForwardStep ==
    \/ \E n \in Server : SubmitAnywhere(n)
    \/ \E c \in forwardCalls : ForwardDropped(c)
    \/ \E c \in forwardCalls : ForwardSpawned(c)
    \/ \E c \in forwardCalls : ForwardToLeader(c)
    \/ \E m \in forwardRequests : ForwardAdmitted(m)
    \/ \E m \in forwardRequests : ForwardRefused(m)
    \/ \E m \in forwardRequests : SubmitForwarded(m)
    \/ \E r \in forwardReplies : ForwardSucceeded(r)
    \/ \E r \in forwardReplies : ForwardRetried(r)

FNext ==
    \/ Step /\ UNCHANGED forwardVars
    \/ ForwardStep
    \/ FCrash
    \/ \E c \in forwardCalls : ForwardPanic(c)

FSpec == FInit /\ [][FNext]_<<vars, forwardVars>>

(* The goroutines of forwardToLeader and the handlers of ForwardLeader     *)
(* keep being scheduled, to the panic of one that has nowhere to send to,  *)
(* and their RPCs do not fail; this for every command of its own.  Of      *)
(* AppendEntries nothing is assumed: any of them may be lost.              *)
ForwardFairness ==
    \A k \in Command :
        /\ WF_<<vars, forwardVars>>(\E c \in forwardCalls : c.command = k /\
               (ForwardDropped(c) \/ ForwardSpawned(c) \/ ForwardToLeader(c) \/ ForwardPanic(c)))
        /\ WF_<<vars, forwardVars>>(\E m \in forwardRequests : m.command = k /\
               (ForwardAdmitted(m) \/ ForwardRefused(m) \/ SubmitForwarded(m)))
        /\ WF_<<vars, forwardVars>>(\E r \in forwardReplies : r.command = k /\
               (ForwardSucceeded(r) \/ ForwardRetried(r)))
-----------------------------------------------------------------------------
(* A command is in a log at most once, however often it was forwarded and  *)
(* whoever crashed on the way: no answer of ForwardLeader lets a command   *)
(* that has been appended be sent again.                                   *)
CommandOnce ==
    \A n \in Server : \A i, j \in DOMAIN log[n] :
        log[n][i].command = log[n][j].command => i = j

InLog(n, command) == \E i \in DOMAIN log[n] : log[n][i].command = command

(* All servers are in the term of a leader, and none has crashed. *)
Undisturbed ==
    /\ crashes = 0
    /\ \E l \in Server : state[l] = Leader /\ \A n \in Server : currentTerm[n] = currentTerm[l]

(* Whoever has led and does not lead any more has heard of another leader  *)
(* since: until then it names itself to whoever asks it.                   *)
NobodyNamesItself == \A n \in Server : state[n] # Leader => leaderid[n] # n

(* If the leader stays, nobody crashes and no deposed leader takes itself  *)
(* for the leader for ever, a command that has reached any server gets     *)
(* into the leader's log: it does not go back and forth for ever between   *)
(* servers of which one believes a deposed leader and the deposed leader   *)
(* itself, although every AppendEntries, however stale, overwrites what a  *)
(* server believes, the one that names the leader may never come, and each *)
(* refusal passes on what the refuser believes (forwardToLeader and        *)
(* ForwardLeaderHelper).                                                   *)
CommandReachesLeader ==
    []Undisturbed /\ <>[]NobodyNamesItself =>
        \A c \in Command : (submitted >= c) ~>
            (\E n \in Server : state[n] = Leader /\ InLog(n, c))
=============================================================================
