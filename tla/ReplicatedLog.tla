--------------------------- MODULE ReplicatedLog ----------------------------
(***************************************************************************)
(* What consensus promises to the chat: one sequence of decided commands   *)
(* that only ever grows, and servers that are each handed a prefix of it,  *)
(* in order and without gaps, beginning again with the first command after *)
(* a restart.  When a command is decided, and how many at a time, is left  *)
(* open; so is whether a server is ever handed all of them.                *)
(***************************************************************************)
EXTENDS Naturals, Sequences

CONSTANT Server

VARIABLES
    decided,      \* the commands decided so far, in their order
    delivered     \* what each server has been handed since it started

vars == <<decided, delivered>>

Prefix(s, t) == Len(s) <= Len(t) /\ s = SubSeq(t, 1, Len(s))

(* A cluster may be started on what an earlier one has decided. *)
Init ==
    /\ Prefix(<<>>, decided)
    /\ DOMAIN delivered = Server
    /\ \A n \in Server : Prefix(delivered[n], decided)

Decide ==
    /\ UNCHANGED delivered
    /\ Prefix(decided, decided')

(* Server n is handed more; what it is handed first is decided by that. *)
Deliver(n) ==
    /\ Prefix(decided, decided')
    /\ \E k \in (Len(delivered[n]) + 1)..Len(decided') :
           delivered' = [delivered EXCEPT ![n] = SubSeq(decided', 1, k)]

Restart(n) ==
    /\ delivered' = [delivered EXCEPT ![n] = <<>>]
    /\ UNCHANGED decided

Next == Decide \/ \E n \in Server : Deliver(n) \/ Restart(n)

Spec == Init /\ [][Next]_vars
=============================================================================
