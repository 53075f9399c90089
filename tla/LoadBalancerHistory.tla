------------------------ MODULE LoadBalancerHistory ------------------------
(***************************************************************************)
(* LoadBalancer with history variables that record what happened during    *)
(* each call of PickAvailableServer. They are never read by an action.     *)
(***************************************************************************)
EXTENDS LoadBalancer

VARIABLES
    steady,    \* steady[c]: the servers good at every moment of the call
    seen,      \* seen[c]: the servers good at some moment of the call
    first,     \* first[c]: the server whose turn it was when the call began
    alone      \* alone[c]: no other caller's fetch_add, and no overflow of
               \*   the counter, happened during the call

history == <<steady, seen, first, alone>>
hvars   == <<vars, history>>

GoodNow == {s \in Servers : good[s]}

HInit ==
    /\ Init
    /\ steady = [c \in Callers |-> {}]
    /\ seen = [c \in Callers |-> {}]
    /\ first = [c \in Callers |-> 0]
    /\ alone = [c \in Callers |-> FALSE]

(* The history of c after a step: it starts with the call, follows the     *)
(* flags while the call is in progress and is frozen when it is over.      *)
Begins(c)   == ~InCall(c) /\ pc'[c] = "fetch"
Claims(c)   == pc[c] = "fetch" /\ pc'[c] = "load"
Disturbs(c) == \E d \in Callers : Claims(d) /\ (d # c \/ nextIdx + 1 = IdxMod)

Follow ==
    /\ steady' = [c \in Callers |->
                    IF Begins(c) THEN GoodNow'
                    ELSE IF InCall(c) THEN steady[c] \cap GoodNow'
                    ELSE steady[c]]
    /\ seen' = [c \in Callers |->
                    IF Begins(c) THEN GoodNow'
                    ELSE IF InCall(c) THEN seen[c] \cup GoodNow'
                    ELSE seen[c]]
    /\ first' = [c \in Callers |->
                    IF Begins(c) THEN nextIdx % N ELSE first[c]]
    /\ alone' = [c \in Callers |->
                    IF Begins(c) THEN TRUE
                    ELSE IF InCall(c) THEN alone[c] /\ ~Disturbs(c)
                    ELSE alone[c]]

HNext == Next /\ Follow
HSpec == HInit /\ [][HNext]_hvars

-----------------------------------------------------------------------------
(* The server a call returns was good at some moment of that call, however *)
(* often its compare_exchange was overtaken and idx reloaded before the    *)
(* return.                                                                 *)
ReturnedWasGood ==
    \A c \in Callers : pc[c] = "returned" => slot[c] \in seen[c]

(* A call that throws NoAvailableServer, and during which no other caller  *)
(* advanced the counter, tried every server: none was good throughout.     *)
(* Callers that are past their fetch_add may meanwhile swap the counter    *)
(* back into range.                                                        *)
SweepIsComplete ==
    \A c \in Callers : pc[c] = "thrown" /\ alone[c] => steady[c] = {}

(* The strengthening that makes both inductive. While a call is in         *)
(* progress, what was good throughout is good now and what is good now has *)
(* been seen; a call that is past its load has seen its server.            *)
HistoryInv ==
    \A c \in Callers :
        /\ first[c] \in Servers
        /\ InCall(c) => steady[c] \subseteq GoodNow /\ GoodNow \subseteq seen[c]
        /\ pc[c] \in {"cas", "returned"} => slot[c] \in seen[c]

(* The server j places after f.                                            *)
Rotated(f, j) == IF f + j < N THEN f + j ELSE f + j - N

(* An undisturbed call in round cnt has tried the cnt servers from first   *)
(* on, none of which was good throughout, and the turn is at the next one. *)
SweepInv ==
    \A c \in Callers : alone[c] =>
        /\ pc[c] = "fetch" => nextIdx % N = Rotated(first[c], cnt[c])
        /\ pc[c] = "load" => /\ slot[c] = Rotated(first[c], cnt[c])
                             /\ nextIdx % N = Rotated(first[c], cnt[c] + 1)
        /\ pc[c] \in {"fetch", "load"} =>
            \A j \in Servers : j < cnt[c] => Rotated(first[c], j) \notin steady[c]

(* What the concurrent test of PickAvailableServer expects (test/unit/     *)
(* impl/lb/LoadBalancer_Test.cpp:158-166): a call does not fail while a    *)
(* server is good all along.                                               *)
NoFalseUnavailable ==
    \A c \in Callers : pc[c] = "thrown" => steady[c] = {}
=============================================================================
