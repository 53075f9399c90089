------------------------------ MODULE Transport ------------------------------
(***************************************************************************)
(* What IHttpClient::SendRequest promises to the operations built on it,   *)
(* without connections, pools and retries. A request that returns has been *)
(* executed by a server. Nothing else is promised: one that throws may     *)
(* have been executed too, any request may be executed more than once      *)
(* (a used connection failed under it and it was sent again), and a server *)
(* may get to a copy of it after the caller has been answered.             *)
(***************************************************************************)
EXTENDS Naturals

CONSTANT Requests       \* the calls of SendRequest

VARIABLES
    phase,              \* phase[r]: where the caller of r is
    executed            \* executed[r]: how often servers executed r

vars == <<phase, executed>>

Phases == {"idle", "sending", "ok", "failed"}

TypeOK ==
    /\ phase \in [Requests -> Phases]
    /\ executed \in [Requests -> Nat]

Init ==
    /\ phase = [r \in Requests |-> "idle"]
    /\ executed = [r \in Requests |-> 0]

(* Get or Post calls SendRequest.                                          *)
Begin(r) ==
    /\ phase[r] = "idle"
    /\ phase' = [phase EXCEPT ![r] = "sending"]
    /\ UNCHANGED executed

(* A server executes a copy of the request, in time or late.               *)
Execute(r) ==
    /\ phase[r] # "idle"
    /\ executed' = [executed EXCEPT ![r] = @ + 1]
    /\ UNCHANGED phase

(* SendRequest returns a response, which is the one to this request.       *)
Return(r) ==
    /\ phase[r] = "sending"
    /\ executed[r] > 0
    /\ phase' = [phase EXCEPT ![r] = "ok"]
    /\ UNCHANGED executed

(* SendRequest throws, whatever became of the request.                     *)
Fail(r) ==
    /\ phase[r] = "sending"
    /\ phase' = [phase EXCEPT ![r] = "failed"]
    /\ UNCHANGED executed

Next == \E r \in Requests : Begin(r) \/ Execute(r) \/ Return(r) \/ Fail(r)

Spec == Init /\ [][Next]_vars
=============================================================================
