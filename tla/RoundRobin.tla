----------------------------- MODULE RoundRobin -----------------------------
(***************************************************************************)
(* What PickAvailableServer promises about the order of servers, without   *)
(* counters, overflow or compare-and-swap: there is one turn, callers take *)
(* it one at a time, and each taking passes it to the next server.         *)
(***************************************************************************)
EXTENDS Integers

CONSTANTS Callers, N

VARIABLES
    turn,    \* the server the next caller is offered
    offer    \* offer[c]: the server caller c is offered, or NoOffer

vars == <<turn, offer>>

Servers == 0 .. N - 1
NoOffer == -1

Init ==
    /\ turn = 0
    /\ offer = [c \in Callers |-> NoOffer]

(* Caller c is offered the server whose turn it is.                        *)
Take(c) ==
    /\ offer[c] = NoOffer
    /\ offer' = [offer EXCEPT ![c] = turn]
    /\ turn' = IF turn = N - 1 THEN 0 ELSE turn + 1

(* Caller c has no more use for the offer: the server is not good, or the  *)
(* call that used it is over.                                              *)
Drop(c) ==
    /\ offer[c] # NoOffer
    /\ offer' = [offer EXCEPT ![c] = NoOffer]
    /\ UNCHANGED turn

Next == \E c \in Callers : Take(c) \/ Drop(c)

Spec == Init /\ [][Next]_vars
=============================================================================
