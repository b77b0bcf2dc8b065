# A verification of the group chat system

TLA+ modules, TLC configurations and TLAPS proofs for the replicated group chat
in `src/`: five servers keep one log of chat commands with a hand-written Raft,
apply it to a database on disk, and stream the groups to console clients.

## 1. The system

| component | source | state | operations |
|---|---|---|---|
| consensus module | `server/raft.go` | role, term, vote, log, `leaderid`, `commitIndex`, `lastApplied`, `nextIndex`, `matchIndex`; the goroutines of elections, heartbeats and forwarded commands | `runElectionTimer`/`startElection`, `RequestVoteHelper`, `startLeader`, `leaderSendAEs`, `AppendEntriesHelper`, `Submit`, `forwardToLeader`, `ForwardLeaderHelper`, `commitChanSender`, `persistToStorage`, `restoreFromStorage` |
| commit pipeline | `server/raft.go`, `server/raft_server.go`, `server/chat_service.go` | `cm.mu`, `triggerAEChan` (no buffer), `newCommitReadyChan` (16), `commitChan` (10), `broadcast` (no buffer) | handlers, heartbeat loops, `commitChanSender`, `commitEntries`/`persistData`, `BroadCast` |
| application state | `server/raft_server.go`, `server/storage.go` | users and groups (participants, numbered messages, likes) in Badger | `persistData`: `SaveUser`, `DeleteUser`, `JoinGroup`, `RemoveUserInGroup`, `AppendMessage`, `LikeMessage`, `UnLikeMessage` |
| Raft state on disk | `server/storage.go` | the keys `currentTerm`, `votedFor`, `log` | `SetState`, `GetState`, `HasData` |
| chat service | `server/chat_service.go`, `server/server_store.go` | open streams by (group, user name), active users | `Login`, `Logout`, `JoinGroupChat`, `ProcessRequest`, `BroadCast`, `RemoveActiveUsers` |
| chat client | `chat_client/*.go`, `main/client/client_main.go` | connections, for each the user and the group it was told it is in; the goroutines of the stream and of the health checks | `main`, `ConnectClient`, `UserLogin`, `UserLogout`, `JoinGroupChat`, `ProcessMessage`, `ConnectionHealthCheck`, `PrintRecent`, `PrintAll` |
| server connections | `server/raft_server.go` | one gRPC connection per peer | connect, reconnect, view of the active peers |

How they interact: a client's command becomes a `pb.Command`, given to `Submit`
of the server it is connected to.  A leader appends it; another server forwards
it to the leader it knows of.  The leader replicates the log with
`AppendEntries`, moves `commitIndex` when a majority holds an entry, and on
every server `commitChanSender` hands the committed entries to `persistData`,
which changes the groups on disk and asks `BroadCast` to send them to the
streams of the group.  All handlers of a server share `cm.mu`; most goroutines
release it while an RPC is under way and compare what they saved before with
what they find after.

What is hard here:

* goroutines that act on a term, an index or a role read before an RPC: late,
  reordered and duplicate responses;
* `go cm.startLeader()`, which takes no lock and checks nothing;
* writes of the Raft state outside the lock, or not at all; restarts;
* handlers that wait on channels while they hold `cm.mu`;
* a persistent application state under a log that is applied again after every
  restart, with commands that are two writes;
* clients that name the group they were in when they last heard of it, and
  learn after a fixed 200 ms, not when it has happened, that they are in another;
* stores of streams and users that are written and iterated over without locks;
* client goroutines that end without telling the one that waits for them.

What makes each component correct: one leader per term, logs that agree, a
`commitIndex` that only covers what a majority holds, votes and entries that
survive a crash (consensus); every committed entry to `persistData` exactly
once, in order, and eventually (pipeline); the state the log determines,
however often it is applied (application); every command into the log at most
once (forwarding); the answer to a join and the broadcasts reflecting the group
(service, client); a client program that logs out when it leaves and does not
outlive its server (client).

The list of hazards with their lines, and the properties aimed at each, is in
`PROJECT.json`.

## 2. The modules

| module | models | |
|---|---|---|
| `RaftLog` | the pure computations of `raft.go`: up-to-date check, consistency check, splice, commit loop, `nextIndex` after a refusal | no state |
| `Raft` | the consensus module of all servers, their messages and disks | extends `RaftLog` |
| `RaftForward` | `Raft` with forwarded commands | extends `Raft` |
| `CommitPipeline` | the lock and the channels of one server | |
| `ChatStore` | `persistData` on every server, clients, restarts, what is printed of a group | |
| `ChatService` | one server's gRPC handlers, stores of streams and users, `BroadCast`, and the clients connected to it | |
| `ChatClient` | one run of the client program: prompt, stream, health checks | |
| `ReplicatedLog` | abstract: one sequence of decided commands that only grows, servers that are handed prefixes of it and begin again after a restart | implemented by `Raft` and `CommitPipeline` |
| `RaftRefinement` | the refinement mapping from `Raft` to `ReplicatedLog` | extends `Raft` |
| `MCRaft`, `MCRaftForward`, `MCChatStore`, `MCChatService` | instances for TLC: symmetry, initial states some way into an execution | |
| `RaftProofs`, `RaftElectionProofs`, `RaftEntryProofs`, `RaftSafetyProofs` | theorems about `RaftLog` and `Raft`, elections, logs and `RaftForward`, what is committed and `RaftRefinement` | each extends the one before it |
| `PipelineProofs`, `StoreProofs`, `ServiceProofs`, `ClientProofs` | theorems about `CommitPipeline`, `ChatStore`, `ChatService`, `ChatClient` | each extends the module it is about |

A definition whose comment says "mistaken variant" is a plausible error in the
code it stands next to; the variants show that each property can fail.

### Raft

Index `i` of the code is `i + 1` in the model and every `-1` is `0` (an index or
a term) or `Nil` (a server), so that logs are sequences.  Everything the code
does between `cm.mu.Lock()` and `Unlock()` is one action, because nobody else
sees what is in between.  A goroutine is a record that carries what it captured:

| set | stands for | action that handles it |
|---|---|---|
| `voteCalls` | goroutine of `startElection` before it reads the log | `SendRequestVote` |
| `voteRequests` | `RequestVote` in flight | `RequestVoteHelper` |
| `voteReplies` | its response | `RequestVoteReply`, by cases |
| `starting` | `go cm.startLeader()` | `StartLeader` |
| `appendCalls`, `appendRequests`, `appendReplies` | the same for `leaderSendAEs` | `SendAppendEntries`, `AppendEntriesHelper`, `AppendEntriesReply` |
| `unsaved`, `saving` | `Submit` after it has released the lock | `SaveCapture`, `SaveWrite` |

A record may be handled at any time and in any order; one that never is handled
is a failed RPC, about which the code does nothing.  The connection survives a
restart of the other side (gRPC reconnects), so an old request may reach a
restarted server.  Timers may fire at any time.  `Crash` may happen at any time;
`AppendPanic` is the crash the code causes itself when `nextIndex` is beyond the
log.  `SetState` writes the term, the vote and the log one after the other:
`CrashVoting`, `CrashAppending` and `CrashSaving` are crashes after the first or
the second of these writes (`Torn`).  Nobody but a restart reads the disk, so
`SetState` is one step otherwise.  `grants` and `leaders` are history variables: votes given and leaderships
begun.

The constant `Late` says whether a vote response may be handled, and
`startLeader` run, after the server has left the term of the election.  The code
allows it, and with it two leaders of a term are possible (run `late_votes`).
`Late = FALSE` is a timing assumption: responses arrive before the next election
timeout, goroutines start at once.  `CalmElectionsAreSafe` and `CalmLogsMatch`
show that nothing else is wrong with elections and with the shape of the logs, and
the theorems of `RaftSafetyProofs` what else has to be on time for the rest of Raft;
`TypeCorrect`, `WakeupNotLost`, `LeadersAreElected` and `ForwardedCommandsOnce` do
not assume it.

Simplifications: `startLeader`'s unlocked assignments are one step; the entries
of an `AppendEntries` and of a batch for `commitChan` are copied when the lock is
released, whereas the code's slices share memory with `cm.log`; `Stop`, `Dead`
and `Report`, which nothing calls, are left out.

### ReplicatedLog and RaftRefinement

`ReplicatedLog` says what the chat relies on.  `decided` is the command some
server was handed at each index, `delivered` what each server was handed since it
started.  A step decides more, hands one server a longer prefix, or restarts a
server, which then begins with the first command again.  How many servers there
are, who leads and how a majority is found does not appear.  `RaftRefinement`
computes both variables from `applied` and `lastApplied` of `Raft`;
`CommitPipeline` computes them for one server from `commitIndex` and the calls of
`persistData`.

### RaftForward

`Submit` on a server that does not lead, `forwardToLeader` and
`ForwardLeaderHelper`.  The unlocked looks at `cm.state` are steps of their own,
so a server may change its role between `Submit`, `forwardToLeader` and the RPC.
Both branches of `Submit` return true, so an admitted request is answered as a
success even if the server has stopped leading.  A server that forwards to "no
leader" or to itself has no connection and panics (`ForwardPanic`).  Every crash of
`Raft`, between two writes of `SetState` too, ends the forwarding of its server as well
(`FCrash`, `EndsForwards`).  The answer is sent when the command is appended; the code
sends it after the save and the trigger.

### CommitPipeline

The handlers that send on a channel while they hold `cm.mu` are opened: `mu` is
free or says what its holder is waiting to do.  Heartbeat loops, `Submit`,
`commitChanSender`, `persistData` and `BroadCast` are processes with a program
counter.  The log is a number of entries.  A response that completes a majority
and a request that brings a new commit index may come whenever the role allows
it.  `forwardToLeader` signals `newCommitReadyChan` too, without the lock and although
nothing has been committed (`ForwardSucceeded`), as often as there is room; the constant
`Forwards` leaves it out of `heartbeat_stuck`, whose deadlock needs no channel to be
full.

### ChatStore

Raft is the log it commits: `pending` commands are committed in any order, or
never.  A join and a logout are two writes, `PersistFirst` and `PersistSecond`.
A crash sets `applied` to 0, as `lastApplied` is after a restart, and leaves the
store as it is.  A client names the group it was last told about; the answer to
a join comes when the group exists on some server (that it may come earlier, with no
group in it, is in `ChatService`).  A login makes a new user id,
so a user of the model logs in once; several users may share a name.  `PrintRecent`
counts back from the number of messages in unsigned numbers modulo `Word` (2^32
in the code, 256 in the run: more than any number of messages there) and skips
numbers that are not there; `Recent` is the 10 of the code.

### ChatService

One server, its gRPC goroutines and its clients.  A group's contents are those
`ChatStore` computes from the log, so a response carries the number of entries
that had been applied when the group was read.  The variables are the code's:
`clients` (connection store), `activeusers` and `activeusergroup`, `casts` and
`caster` (what `persistData` is waiting to send on `broadcast`, and the streams
`BroadCast` has still to visit), a `handler` per stream with the point it has
reached in `JoinGroupChat`, and the client's `group`, which is `Nil` after a join
was answered before it was applied.  `hasty` notes clients that did not wait for
a join, `seen` what a client has been shown, `interrupted` whether anybody was
joining when the server was interrupted.  `seen` keeps the latest a client has been
sent: that an older group may follow on its screen is not visible in it.

| code | actions |
|---|---|
| `Login`, `Logout` with `UserLogin`, `UserLogout` | `Login`, `Quit` |
| `ProcessMessage` | `Join`, `Chat`, `PrintChat`, `NilGroupPanic` |
| `JoinGroupChat` up to the sleep, `ProcessRequest`, `RemoveConn` | `ReceiveJoin`, `ReceiveChat`, `ReceivePrint`, `ReceiveOther`, `StreamEnds` |
| after the sleep: `AddConn`, `AddUser`; `GetGroup`; `Send` | `WakeJoined`; `AnswerReads`; `AnswerSent` |
| `persistData` | `PersistData` |
| `BroadCast` | `BroadCast`, then `CastTo` for each stream |
| `CheckServerHealth`, `RemoveActiveUsers` | `Interrupt` |

The maps are accessed without their locks: `AddUser` may lose an append to a
handler that is about to append (two logins that do this to each other are left out:
the one that loses is in no group yet, and its join adds it again), a broadcast may or may not meet an entry added meanwhile, and
`ConcurrentMapFault` is the Go runtime ending the process.  A response reaches
its client in the step that sends it, which loses nothing: what a client does
before it reads a response it could have done before it was sent.  Commands are
committed in any order or never; they may reach other servers, whose broadcasts
are their own.  An unlike that carries a nil group kills the server that
receives it, after it has been submitted; that it would also kill every server
that applies it is left to the hazards.

### ChatClient

One run of the program.  A connection is known by its number; only the `q` of the
menu closes one.  `main` says where the prompt loop is, `receiver` and `sender`
are the goroutines of a stream, a `watcher` is the pair of goroutines that one
menu starts, and `logouts` are the calls of `UserLogout` under way, which several
goroutines may make at once.  `account` is whom the server at the other end has
logged in.  Every panic, `log.Fatal` and `os.Exit` is an end of the program with a
reason and the connection whose goroutine caused it.  A server may be lost at any
time; the connection does not recover, as the health check would see it in any
state but READY first.

## 3. What TLC checks

Bounds are constants: `MaxTerm`, `MaxElections`, `MaxRounds` (of AppendEntries),
`MaxSubmits`, `MaxCrashes`, and so on.  All Raft runs have three servers, where a
majority is two and two majorities need only share one server.  With five one thing
is new, that a follower may hold an entry of a deposed leader that no majority will
ever hold, and lose it to a later leader; the theorems of section 4, which hold for any
cluster, cover it.  Runs about later terms start from states that an
execution from `Init` reaches (`Led`, `Stored`, `Deposed`, `SplitInit`,
`StaleAnswerInit`, described in `MCRaft`), in which part of the bounds is used up, so
that the steps they allow are spent where it matters; a run may begin with several
such states, one with a crash to come, another with more rounds.  Deadlock is not checked: with bounded timers and messages, and
no further commands, the model may stop.

Passing runs:

| run | starts from | shows |
|---|---|---|
| `elections` | `Init`, or a leader of term 1 in the middle of replication | `ElectionSafety`, `LeaderHasMandate`, `LeadsTermItWon`, `LeaderCompleteness` with elections in any interleaving (no late responses) |
| `replication` | a leader of term 1; or servers that all have data on disk; or a deposed leader with two entries nobody has, against a leader of term 4 with one of its own | `TypeOK`, `LogMatching`, `NoLostWakeup`, `StateMachineSafety`, `MatchIndexIsHeld`, `CommittedIsStable`, `VoteIsDurable` and the refinement `ImplementsLog`: with two overlapping rounds and a command; with a crash in the middle of a save and two elections, or one and a round; while the conflicting logs are reconciled, with another round or with a crash |
| `forwarding` | a leader that some servers know; or a leader of term 2 that nobody has heard of, next to that of term 1, which still takes itself for the leader | `CommandOnce` with a leader change and a crash; `CommandReachesLeader` if there is neither |
| `pipeline` | `Init` | `PipelineTypeOK`, `InOrderOnce`, `WakeupOnItsWay`, `CommittedIsPersisted` and the refinement `ImplementsDelivery` with channels of capacity 1, two heartbeat loops, three entries |
| `store` | three users, two of one name; two of them in a group | `MembershipConverges`, `NoMessageLost`, `LikesByLog`, `LatestOnScreen` with three further commands and a crash between any two writes |
| `service` | the same users, as clients of one server; or one of them, logged in | `ServiceTypeOK`, `NoChangeUnseen`, `MemberWhereTold`, `NobodyLeftBehind` with two requests, a client that dies and an interrupt |
| `client` | the prompt of a new client | `ClientTypeOK`, `DoneClosedOnce`, `LogsOutBeforeLeaving`, `JoinGroupChatReturns` with two connections, five lines of input, three menus and an interrupt |

The capacities 16 and 10 become 1: what matters is that a channel fills, and
with three entries both do.  Three commands are enough for a join, a message and
a like of it, or a like, an unlike and the message, in every order.  One server
is enough for `store`: servers apply the same log independently of one another.
`Recent` is 2 there, so that groups have fewer messages than lines, as many, and
more.  In `service` two requests on top of a joined group are a change and a join
that races it, two joins, or a join of each of two namesakes.  Five lines in
`client` are: connect, log in, join, quit, and connect again.

Runs that find a violation, each a disagreement between the code and what its
comments or the README say (`findings` in `PROJECT.json` quote the lines):

| run | property | what happens |
|---|---|---|
| `late_votes` | `StateMachineSafety` | votes of term 1, counted in term 2, make a second leader of term 2; two commands are applied at index 1 |
| `stale_answers` | `StateMachineSafety` | a success of term 3 counts for the same leader in term 5, whose log is another: it commits alone, and the leader of term 6 replaces what was applied |
| `forgetful` | `RestartKeepsTerm` | a saved term and vote are not restored without a log entry |
| `heartbeat_stuck` | `HeartbeatGoesOn` | `cm.mu` is held waiting on `triggerAEChan` while its receiver waits for `cm.mu` |
| `namesake` | `EverybodySeesChanges` | who leaves a group takes the stream of somebody of the same name along |

What the passing runs assume, and what TLC finds without it:

| property | assumes | otherwise |
|---|---|---|
| `ElectionSafety`, `StateMachineSafety` | `Late = FALSE` | two leaders of a term (`late_votes`) |
| `StateMachineSafety`, `LeaderCompleteness`, `MatchIndexIsHeld`, `CommittedIsStable`, `ImplementsLog` | `AnswersInTerm`: no leader is elected again while a response to its earlier AppendEntries is under way and its log has been replaced; the bounds allow four terms, with three servers this takes five | the response counts for entries the peer does not hold (`stale_answers`) |
| the same | `RequestsInTerm`: a goroutine of `leaderSendAEs` reads the log before its server is deposed and has its log replaced | the stale request, below |
| `MatchIndexIsHeld` | the peer is not in a later term than the leader (part of the property) | with five servers, a later leader cuts the peer's log while the deposed one has yet to hear of it |
| `LogMatching` | `Late = FALSE` and, in `CalmLogsMatch`, no crash | two leaders of a term make different entries of it at one index |
| `ElectionSafety` | no crash | `startElection` saves nothing; a candidate that restarts may vote again |
| `LeadsTermItWon` | `Late = FALSE` | votes of an earlier election count in a later term (`raft.go:422`), and `startLeader` runs in a term nobody voted in (`raft.go:427`) |
| `CommandReachesLeader` | `Undisturbed`: nobody is elected and nobody crashes; `NobodyNamesItself`: a deposed leader hears from the new one at last (parts of the property) | the command is dropped or the server panics (`raft.go:511`, `524`); a deposed leader refuses the command and names itself, and is sent it again, for ever (`raft.go:538`) |
| `MatchIndexIsHeld` | every server has an entry on disk before a crash | a server restarts in term 0 without its vote (`forgetful`), and takes entries from a leader it had left behind |
| `VoteIsDurable` | the voter had not led before that vote (part of the property); every server has an entry on disk before a crash, or, in `VotesAreDurable`, `RestartKeepsTerm` | the save of `Submit`, outside the lock, overwrites a newer vote (`raft.go:166`); a server restarts without its term (`forgetful`) and votes and saves anew |
| `CommittedIsPersisted` | the lock is released again and again (part of the property) | a handler waits for room in `newCommitReadyChan` (`raft.go:309`) or on `triggerAEChan` (`raft.go:621`) with `cm.mu` held, while the receiver waits for `cm.mu` |
| `LikesByLog` | no crash (part of the property) | a like is applied again to a message of another number |
| `NoMessageLost`, `LatestOnScreen` | only the last messages are compared (part of the property) | after a restart every message is appended again, so the older part of a group is there twice |
| `NoChangeUnseen` | nobody shares the name (part of the property) | `namesake` |
| `NoChangeUnseen` | it asks what a client has been sent, not in which order | an answer that has read the group before a broadcast and is sent after it leaves the older group on the screen until the next change (`chat_service.go:182`) |
| `MemberWhereTold`, `NobodyLeftBehind` | the client waited until its join was applied (part of the property) | joins and the logout are committed in another order, and the user stays in two groups or in one after having left; a client told no group, somebody joining at the interrupt, and an entry lost from the list (`server_store.go:42`) are outside as well |
| `LogsOutBeforeLeaving` | the server is there; one login per connection; an interrupt ends the program through a goroutine of that connection (part of the property) | the second login forgets the first user; a goroutine of an earlier connection has nobody to log out and exits at once |
| `JoinGroupChatReturns` | a logout is answered or fails; the input has not ended (part of the property) | after the end of the input the sender returns without closing `done`, and `main` waits as long as the server is there (`client_service.go:161`) |

The stale request: `leaderSendAEs` saves its term, and its goroutines read
`nextIndex`, the log and `commitIndex` later, without looking at the term again
(`raft.go:559`).  A leader of term 3 that was deposed in between, and whose log the
leader of term 4 has replaced and committed, sends the new entries and the new
`commitIndex` under term 3.  A follower still in term 3 takes and applies them;
then the request that the leader had sent in term 3 before arrives, is of the
follower's own term too, and cuts them (`AppendEntriesHelper` replaces from the
first conflict), so that another command is applied at that index.
`StaleRequestInit` in `MCRaft` is a state of such an execution; with
`StaleRequestSpec` for `StaleAnswerSpec` in `RaftStaleAnswers.cfg`, TLC finds
`StateMachineSafety` violated within five states.  It is the same disagreement with
the same comment as `stale_answers` and not a run of its own.

The first deadlock of `CommittedIsPersisted` needs a backlog in the code: while
`persistData` waits for a slow stream, sixteen signals pile up and two handlers
queue for the lock, and the second refills the channel between the signal
`commitChanSender` takes and the lock it asks for.

The models also reach states about which no document promises anything: a `Submit`
that waits on `triggerAEChan` after its server has stepped down and the heartbeat
loops have ended (`raft.go:168`); a command dropped by `forwardToLeader` because
the server has just become leader (`raft.go:511`); an end of input inside a stream,
after which the client neither logs out nor ends (`client_service.go:161`); a call
that fails and whose nil response is read (`client_service.go:90`, `101`).

### Fairness

`RaftForward` assumes, for each command, weak fairness of the forwarding goroutines and
of the handlers of `ForwardLeader`: Go keeps scheduling runnable goroutines, and these
RPCs do not fail.  `CommitPipeline` assumes for `CommittedIsPersisted` (`DeliverySpec`)
weak fairness of every step of `commitChanSender`, `persistData` and the broadcaster
that needs no lock, and strong fairness of taking `cm.mu`: a `sync.Mutex` on which
somebody has waited for a millisecond is handed over in the order of arrival.  It
assumes that clients read their streams (`StreamsSent`).  `HeartbeatGoesOn` fails even
if the handlers and the heartbeat loops are scheduled fairly too (`FairSpec`).  Nothing
is assumed about elections, messages of Raft, commands of users or crashes; that
`NobodyNamesItself` in the end is a premise of `CommandReachesLeader`, which one
heartbeat of the leader to the deposed one brings about.

`ChatClient` assumes weak fairness of the goroutines that poll the state of a
connection (a loop without any wait), of `main` when `done` is closed, and of a sender
that logs out, with the server's answer or the failure of the call: a server that
keeps a logout open for ever is excluded.  The user need not type anything, and no
server need answer on a stream.

## 4. What is proved

TLAPS checks every proof; the theorems hold for any finite cluster and any
bounds.

* `TypeCorrect` (`RaftProofs`): `Spec => []TypeOK`.  `TypeOK` is inductive; one
  lemma per action shows the conjuncts that the action changes.  It rests on
  lemmas about the type of a splice, of a part of a log and of the new `nextIndex`
  and `commitIndex`.
* `WakeupNotLost` (`RaftProofs`): `Spec => []NoLostWakeup`, inductive together
  with `TypeOK` and with crashes in the middle of a save: a step that raises
  `commitIndex` raises `newCommitReady`, and
  only `commitChanSender`, which sets `lastApplied` to `commitIndex`, and a
  restart, which sets all to zero, lower it.
* `LeadersAreElected` (`RaftElectionProofs`): `Spec => []LeaderHasMandate`, with
  late responses and crashes.  The invariant `VoteInv` ties every record of an
  election in flight to the election it belongs to: its number has one candidate
  and one term, the votes counted so far were granted to that candidate in that
  term, a response that counts reports a vote that was granted, and
  `startLeader` is called on a majority.  `LeaderHasMandate` alone is not
  inductive: nothing in it says where a vote that is about to be counted came
  from.
* `CalmElectionsAreSafe` (`RaftElectionProofs`): `Spec => []ElectionSafety` if
  `Late = FALSE` and nobody crashes, for clusters of any size and with any number
  of heartbeats.  A vote may be cleared in its own term (`AppendEntriesHelper`
  calls `becomeFollower` on a candidate), after which the server votes a second
  time, so "one vote per term" is false and the textbook argument does not apply.
  `ElectionInv` says instead that a server votes for one *other* server per term,
  that a leader has voted for nobody else in its term, and that an
  `AppendEntries` is from a leader other than the receiver, so that only a
  candidate that can no longer win loses its own vote.
* `LeadersLeadTheirTerm` (`RaftElectionProofs`): `Spec => []LeadsTermItWon` if
  `Late = FALSE`, with crashes.  `LeaderHasMandate` finds a majority for a leader in
  *some* term; this says that it is the term it leads.  `VoteInv` knows of the goroutine
  that calls `startLeader` which election it belongs to, and that it runs in that
  election's term; that no step takes a leader to another term without making it a
  follower is what the property itself adds.
* `VotesAreDurable` (`RaftElectionProofs`): `Spec /\ RestartKeepsTerm => []VoteIsDurable`
  if `Late = FALSE`, with crashes in the middle of a save and the stale saves of
  `Submit`.  `VoteIsDurable` is about the disk alone and says nothing of what the
  voter will save next or of a save under way.  `DurableInv` adds that the voter that
  runs still has the vote or a later term, that the disk is not ahead of it
  (`Kept`), and that a save of `Submit` is of a server that had led when it
  captured the data (`SavesAreOfLeaders`), so none can undo the vote of a server that
  had not.  That a torn save keeps the vote rests on the order of the writes in
  `SetState`.  The hypothesis is what the comment of `HasData` promises and
  `forgetful` refutes: a vote is lost in that way only.
* `CalmLogsMatch` (`RaftEntryProofs`): `Spec => []LogMatching` under the same two
  conditions, with logs of any length and any number of terms.  The logs alone are
  not inductive: an `AppendEntries` in flight is a part of a log that may have been
  replaced since, and its goroutine reads the log after its server was deposed, so
  it may even carry an old term with new entries.  `MatchingInv` therefore speaks of
  *stretches*, the logs and what the requests carry, from the entry before the first
  one: any two of them match (`StretchesMatch`).  That a leader may append needs
  three more parts: every entry's term had a leader, a leader is at least as long as
  anything of its term, and a leader leads as long as it stays in its term.  `MatchingInv` does
  not speak of the term of a request, so the stale goroutine does no harm here.
* `ForwardedCommandsOnce` (`RaftEntryProofs`): `FSpec => []CommandOnce` with late
  responses and crashes, and with the stale saves of `Submit`.  `CommandOnce` is
  about one log; a follower's log may be joined from its own entries and those of a
  request, and a restart brings back an old one.  `OnceInv` says that a command has
  one and the same index in every log, request, disk and save under way, and that a
  command still being forwarded is in none of them and under way once (the call, the
  request, or the refusal that makes it forwarded again).
* `MergeEntriesHolds` (`RaftProofs`): after the splice the follower's log has
  every entry's term as the leader sent it, is untouched before, ends where the
  message ends if it was changed, and holds nothing but what was sent or was there.
* `AdvanceCommitSound` (`RaftProofs`): the commit loop returns the largest
  index it may, never less than before, and one that a majority holds in the
  current term.

What is committed, for any cluster and logs of any length (`RaftSafetyProofs`), from
one invariant `SafetyInv` on top of those above:

* `CalmLeadersAreComplete`: `[]LeaderCompleteness`.
* `CalmStateMachinesAgree`: `[]StateMachineSafety`.
* `CalmCommitsAreStable`: `CommittedIsStable`.
* `CalmMatchIndexIsHeld`: `[]MatchIndexIsHeld`.
* `CalmImplementsLog`: `ImplementsLog`, the refinement of `ReplicatedLog`.  Init maps
  to Init; `CommitChanSender` maps to the step that decides more and delivers, because
  what it hands over continues what was decided or is part of it; everything else is a
  stutter.

Each has the form `Spec /\ RequestsInTerm /\ AnswersInTerm => ...` under `Calm`.  What
goes wrong with `StateMachineSafety`, or with what it rests on, where one fails:

| hypothesis | says | without it |
|---|---|---|
| `Calm` | `Late = FALSE`, nobody crashes | two leaders of a term (`late_votes`; after a crash, `raft.go:373`) |
| `RequestsInTerm` | a goroutine of `leaderSendAEs` reads the log in the term it was started in | the stale request (section 3) |
| `AnswersInTerm` | an answer counts only in the term of its request | `stale_answers` |

The last two are what two comparisons of `cm.currentTerm` with `savedCurrentTerm`
would ensure.  They are formulas about the steps, not changes of the model: every
execution in which goroutines and answers are on time satisfies them.  All orders of
requests and answers within a term, requests that arrive in a later one, votes cleared
in their own term and leaders that begin a second time remain.

The textbook argument (an entry that a majority acknowledged in its term is in every
later leader's log) is by induction over terms, which needs the whole history.  The
state of this model has no history of acknowledgements, so the argument is turned
into an invariant of single states:

* An entry `i` that a leader took in its term `t` is `Safe` with the servers that
  have acknowledged it (`matchIndex`, or an answer under way): they hold it; every log
  or request that is as recent as one ending with it has it (`RecentCover`); so has
  whoever led `t` or later (`LeadersCover`) and what they sent (`RequestsCover`); so has
  every candidate one of them voted for (`VotersSaw`).  A candidate with a majority has
  a vote from each majority, so a new leader has every entry that is safe with one.
* Until a majority has acknowledged it, an entry may be overtaken: a server that has
  not acknowledged it votes for somebody without it.  Then some majority is in later
  terms without having acknowledged (`Hopeless`), for ever, and the entry never commits
  by counting.  `EntriesOfLeaders` says that one or the other holds of every entry of
  every leader; neither alone is inductive.
* Every `commitIndex`, a server's or one sent, is at or below an entry that is safe with
  a majority (`Anchored`, `CommitsAreSafe`, `SentCommitsAreSafe`), and
  what was applied is the log up to `lastApplied` (`AppliedIsCommitted`).
* `PastInv` holds what these need to know: no entry is of a later term than its holder or
  its request, terms ascend along a log, what a leader sent is part of its log, who
  acknowledged holds the leader's log as long as it is in the leader's term
  (`AcksHold`), a candidate's request describes its log.

The commit pipeline, for channels of any capacity (`PipelineProofs`):

* `PipelineTypeCorrect`, `DeliveredInOrder`, `NoLostWakeup`: `PipelineTypeOK`,
  `InOrderOnce` and `WakeupOnItsWay`.  They are inductive together, with `HandsOver`
  (`commitChanSender` looks for entries only when it has handed over the last batch)
  and `SubmitsAppended` (a `Submit` that waits has appended).  Without `HandsOver` a
  second batch might come behind what is left of the first.
* `PipelineImplementsDelivery`: `Spec => ImplementsDelivery`.  Init maps to Init; a
  handler that moves `commitIndex` maps to the step that decides more, a call of
  `persistData` to the step that delivers, everything else to a stutter.

The application state, for any users, groups, servers and crashes (`StoreProofs`),
from one invariant `StoreInv`:

* `MembersConverge`: `Spec => []MembershipConverges`.  In the middle of a replay the
  members on disk are those of no prefix of the log, so the invariant is about each
  user and group: membership is what the last entry says that concerns them among
  those applied *since the restart*, or no such entry has been applied, or the second
  write of a join is still to come; and whoever is a member was taken there by some
  entry of the log.
* `EveryMessageKept`: `Spec => []NoMessageLost`; the appends applied since the restart
  are the last messages of the group, in order.  It needs `NamedInv`: a client names a
  group only when a join to it is committed, so no append finds its group missing.
* `LikesAsSaid`: `Spec => []LikesByLog`; while nobody has crashed the n-th append is
  message n, with the likes of those whose last word after it is a like.

`NoMessageLost` and `LikesByLog` count entries with `Cardinality` instead of
selecting a subsequence, which is a recursive function.

The chat service, for any clients, names and groups (`ServiceProofs`):

* `ServiceTypeCorrect`: `Spec => []ServiceTypeOK`.  That no nil group gets into the
  stores needs `ShapeInv`: only an unlike may be sent without a group, a handler
  sleeps only in a join, and commands with the nil group exist only once the server
  is down.
* `NothingGoesUnseen`: `Spec => []NoChangeUnseen`.  `SeenInv`: every applied entry
  that touches the group a stream is filed under has been shown to its client, or a
  broadcast of the group is queued, or under way and yet to visit it, or the answer
  to the join is yet to read the group or has read it after that entry.  `FiledInv`
  ties the group a client was told to the one its stream is filed under.
* `MembersWhereTold`: `Spec => []MemberWhereTold`.  `MemberInv` follows a join from
  the client's line through the stream, the handler and the log: there is one at a
  time, it leads from where the user is to where it will be told it is, and who quits
  has nothing under way but the logout.
* `InterruptLogsEverybodyOut`: `Spec => []NobodyLeftBehind`, from `MemberInv`, which
  says that `activeusergroup` is the group the user is in when nobody is joining.

The client, for any number of connections, lines and menus (`ClientProofs`), from
`ClientInv`:

* `ClientTypeCorrect` and `DoneNeverClosedTwice`: `ClientTypeOK` and `DoneClosedOnce`;
  `StreamInv` says that a sender runs only while `main` waits for it and that only a
  sender that has ended has closed `done`.
* `NobodyLeftLoggedIn`: `Spec => []LogsOutBeforeLeaving`.  Several goroutines may call
  `UserLogout` at once, one of them before the login is answered.  `LogoutInv` says
  that an empty store means an empty account but for the moment between the login and
  its answer, and that a call that has been served leaves an empty account;
  `NamesInv` says where a user's name can be.

Assumptions: `ServerAssumption` (a finite, non-empty cluster without `Nil`),
`BoundsAssumption` (bounds are natural numbers); for the pipeline finitely many
heartbeat loops and channels with room for one at least; for the store and the
service a name for every user and values apart for "no group" and the nil group.
`Late` and crashes are excluded only where a theorem says so, and the table above
says what happens otherwise.  The inductive invariants were checked with TLC before they were
proved, on the instances of the runs (`SafetyInv`, whose parts speak of all natural
numbers, with the indices and terms of the instance).

Left to TLC:

* Liveness under fairness (`CommandReachesLeader`, `CommittedIsPersisted`,
  `JoinGroupChatReturns`) and `ENABLED`, which TLAPS does not treat.
* `LatestOnScreen`: the printed lines are a subsequence selected by a recursive
  function, and what it computes for every input needs an induction that the installed
  provers cannot instantiate (no module uses `RECURSIVE`).
* The five properties of `RaftSafetyProofs` where a server crashes (`replication`, within
  its bounds).  They are false then in general, because a candidate that restarts may
  vote twice; what `replication` shows is that a crash in the middle of a save, with
  an entry on disk, does no harm by itself.

## 5. Not modelled

* gRPC connections between servers: `peerClients` is filled once, at the start, and
  never changed (`ReconnectToPeer` runs for a nil connection only, `DisconnectPeer`
  and `DisconnectAll` are never called).  Their state is shown by `ServerView` and
  decides nothing; whether a dead peer is listed as IDLE is up to the library.
* Several servers of the chat service at once: each has its own streams, and
  they meet only in the log (`Raft`, `ChatStore`).
* Logging, formatting, parsing of addresses and lines.  A reader is made anew for
  every line (`client_service.go:159`), so lines typed ahead may be lost; a line in
  `ChatClient` is one that arrives.
* A user or a group whose name clashes with a key of another kind in the database.
* Generated code in `pb/`; the storage demo `badger.go`; build and test scripts.
* Memory shared between slices, and torn reads of the unlocked accesses to
  `cm.state` and `cm.leaderid`.

## 6. Plan

1. Done: `RaftLog`, `Raft` with crashes in the middle of a save, `RaftForward`,
   `CommitPipeline`, `ChatStore`, `ChatService`, `ChatClient`; `ReplicatedLog` and
   the two refinements; the theorems of section 4, which cover every safety property
   of the runs but `LatestOnScreen`.
2. Left: the theorems of `RaftSafetyProofs` with crashes, which need a vote that is
   saved before it counts (`startElection` would have to write it) and `RestartKeepsTerm`;
   `LatestOnScreen`, if the induction over sequences it needs comes within reach.
