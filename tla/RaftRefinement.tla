--------------------------- MODULE RaftRefinement ---------------------------
(***************************************************************************)
(* The consensus module implements a replicated log: the commands any      *)
(* server has handed to its application are the decided ones, and a server *)
(* has been handed those it has applied since it started.                  *)
(***************************************************************************)
EXTENDS Raft

(* The command some server was handed at each index. *)
Decided ==
    LET handed == UNION {{applied[n][i] : i \in DOMAIN applied[n]} : n \in Server}
    IN [i \in {e.index : e \in handed} |->
           (CHOOSE e \in handed : e.index = i).command]

(* What commitChanSender has sent since the server started. *)
Delivered ==
    [n \in Server |->
        [i \in 1..lastApplied[n] |->
            applied[n][Len(applied[n]) - lastApplied[n] + i].command]]

Log == INSTANCE ReplicatedLog WITH decided <- Decided, delivered <- Delivered

(* The consensus module implements the replicated log: what has once been  *)
(* handed to some application at an index is what every server is handed   *)
(* there, also after its own restart and by later leaders, and nobody is   *)
(* handed an entry before or without the ones below it (commitChanSender,  *)
(* leaderSendAEs, AppendEntriesHelper, restoreFromStorage).                *)
ImplementsLog == Log!Spec
=============================================================================
