---------------------------- MODULE LoadBalancer ----------------------------
(***************************************************************************)
(* LoadBalancer (impl/lb/LoadBalancer.cpp): the servers of a client, the   *)
(* `good' flag of each, the shared counter nextIdx_ that user operations   *)
(* take their turn from, and the health-check coroutine that refreshes the *)
(* flags.                                                                  *)
(*                                                                         *)
(* A caller is one coroutine executing PickAvailableServer; every access   *)
(* to an atomic is a step of its own, so callers and the health check      *)
(* interleave between any two of them.                                     *)
(***************************************************************************)
EXTENDS Integers

CONSTANTS
    Callers,   \* the coroutines that pick a server
    N,         \* servers_.size()
    IdxMod     \* number of values of std::size_t (2^w)

ASSUME ServersAssumption == N \in Nat \ {0}
ASSUME CounterAssumption == IdxMod \in Nat /\ N < IdxMod

VARIABLES
    good,      \* good[s]: the flag of server s
    nextIdx,   \* nextIdx_
    pc,        \* pc[c]: the next atomic step of caller c
    cnt,       \* cnt[c], idx[c], slot[c]: locals of PickAvailableServer;
    idx,       \*   slot[c] is the server `endpoint' and `good' are bound to
    slot,
    hc,        \* where the health-check coroutine is
    hcIdx,     \* the server its inner loop is at
    hcError,   \* whether its Error object holds an error
    hcRsp      \* the status of the response to the last ping

callVars   == <<pc, cnt, idx, slot>>
healthVars == <<hc, hcIdx, hcError, hcRsp>>
vars       == <<good, nextIdx, callVars, healthVars>>

Servers == 0 .. N - 1
Indexes == 0 .. IdxMod - 1

(* What a ping comes to: SendRequest threw, a 204, any other status.       *)
Outcomes == {"thrown", "no_content", "other"}

TypeOK ==
    /\ good \in [Servers -> BOOLEAN]
    /\ nextIdx \in Indexes
    /\ pc \in [Callers -> {"idle", "fetch", "load", "cas", "returned", "thrown"}]
    /\ cnt \in [Callers -> Servers]
    /\ idx \in [Callers -> Indexes]
    /\ slot \in [Callers -> Servers]
    /\ hc \in {"absent", "spawned", "waiting", "expired", "probing", "storing",
              "ended"}
    /\ hcIdx \in Servers
    /\ hcError \in BOOLEAN
    /\ hcRsp \in {"none", "no_content", "other"}

-----------------------------------------------------------------------------
(* Construction: every flag starts true and nextIdx_ at zero.              *)

Init ==
    /\ good = [s \in Servers |-> TRUE]
    /\ nextIdx = 0
    /\ pc = [c \in Callers |-> "idle"]
    /\ cnt = [c \in Callers |-> 0]
    /\ idx = [c \in Callers |-> 0]
    /\ slot = [c \in Callers |-> 0]
    /\ hc = "absent"
    /\ hcIdx = 0
    /\ hcError = FALSE
    /\ hcRsp = "none"

-----------------------------------------------------------------------------
(* PickAvailableServer. Locals that go out of scope are reset to 0.        *)

InCall(c) == pc[c] \in {"fetch", "load", "cas"}

Call(c) ==
    /\ ~InCall(c)
    /\ pc' = [pc EXCEPT ![c] = "fetch"]
    /\ cnt' = [cnt EXCEPT ![c] = 0]
    /\ slot' = [slot EXCEPT ![c] = 0]
    /\ UNCHANGED <<good, nextIdx, idx, healthVars>>

(* Unsigned increment of the counter, and the defect of a wider one.       *)
UnboundedSucc(i) == i + 1

Succ(i) == (i + 1) % IdxMod

(* idx = nextIdx_.fetch_add(1), and the binding to servers_[idx % size].   *)
FetchAdd(c) ==
    /\ pc[c] = "fetch"
    /\ idx' = [idx EXCEPT ![c] = nextIdx]
    /\ slot' = [slot EXCEPT ![c] = nextIdx % N]
    /\ nextIdx' = Succ(nextIdx)
    /\ pc' = [pc EXCEPT ![c] = "load"]
    /\ UNCHANGED <<good, cnt, healthVars>>

(* good.load() is true: go on to put the counter back into 0 .. size - 1.  *)
LoadGood(c) ==
    /\ pc[c] = "load"
    /\ good[slot[c]]
    /\ pc' = [pc EXCEPT ![c] = "cas"]
    /\ UNCHANGED <<good, nextIdx, cnt, idx, slot, healthVars>>

(* The loop condition at the end of round cnt, and a loop one round short. *)
OneRoundShort(c) == cnt[c] + 2 < N

MoreRounds(c) == cnt[c] + 1 < N

(* good.load() is false: `continue', and throw NoAvailableServer once the  *)
(* loop has run size times.                                                *)
LoadBad(c) ==
    /\ pc[c] = "load"
    /\ ~good[slot[c]]
    /\ IF MoreRounds(c)
       THEN /\ pc' = [pc EXCEPT ![c] = "fetch"]
            /\ cnt' = [cnt EXCEPT ![c] = @ + 1]
       ELSE /\ pc' = [pc EXCEPT ![c] = "thrown"]
            /\ cnt' = [cnt EXCEPT ![c] = 0]
    /\ idx' = [idx EXCEPT ![c] = 0]
    /\ slot' = [slot EXCEPT ![c] = 0]
    /\ UNCHANGED <<good, nextIdx, healthVars>>

(* newVal, and two defects: newVal computed once before the loop, from the *)
(* index this call was served with; a counter moved past one more server.  *)
StaleNewVal(c) == slot[c]
SkippingNewVal(c) == (idx[c] + 1) % N

NewVal(c) == idx[c] % N

(* compare_exchange_weak finds idx: store idx % size and return.           *)
CasSucceeds(c) ==
    /\ pc[c] = "cas"
    /\ nextIdx = idx[c]
    /\ nextIdx' = NewVal(c)
    /\ pc' = [pc EXCEPT ![c] = "returned"]
    /\ cnt' = [cnt EXCEPT ![c] = 0]
    /\ idx' = [idx EXCEPT ![c] = 0]
    /\ UNCHANGED <<good, slot, healthVars>>

(* compare_exchange_weak finds another value and loads it into idx. (A     *)
(* spurious failure reloads the same value: a stuttering step.) Before it, *)
(* a loop that does not reload idx, and one that returns the server of the *)
(* reloaded idx.                                                           *)
CasDoesNotReload(c) ==
    /\ pc[c] = "cas"
    /\ nextIdx # idx[c]
    /\ UNCHANGED vars

CasRebindsEndpoint(c) ==
    /\ pc[c] = "cas"
    /\ nextIdx # idx[c]
    /\ idx' = [idx EXCEPT ![c] = nextIdx]
    /\ slot' = [slot EXCEPT ![c] = nextIdx % N]
    /\ UNCHANGED <<good, nextIdx, pc, cnt, healthVars>>

CasFails(c) ==
    /\ pc[c] = "cas"
    /\ nextIdx # idx[c]
    /\ idx' = [idx EXCEPT ![c] = nextIdx]
    /\ UNCHANGED <<good, nextIdx, pc, cnt, slot, healthVars>>

PickStep(c) ==
    \/ FetchAdd(c)
    \/ LoadGood(c)
    \/ LoadBad(c)
    \/ CasSucceeds(c)
    \/ CasFails(c)

-----------------------------------------------------------------------------
(* The health check. ClientImpl's constructor starts it, its destructor    *)
(* stops it.                                                               *)

StartHealthCheck ==
    /\ hc = "absent"
    /\ hc' = "spawned"
    /\ UNCHANGED <<good, nextIdx, callVars, hcIdx, hcError, hcRsp>>

(* The coroutine is entered; it arms the timer and waits.                  *)
HealthCheckBegin ==
    /\ hc = "spawned"
    /\ hc' = "waiting"
    /\ UNCHANGED <<good, nextIdx, callVars, hcIdx, hcError, hcRsp>>

(* The timer expires: the resumption of the coroutine is queued, and       *)
(* cancelling the timer no longer reaches it.                              *)
TimerExpires ==
    /\ hc = "waiting"
    /\ hc' = "expired"
    /\ UNCHANGED <<good, nextIdx, callVars, hcIdx, hcError, hcRsp>>

HealthCheckResume ==
    /\ hc = "expired"
    /\ hc' = "probing"
    /\ UNCHANGED <<good, nextIdx, callVars, hcIdx, hcError, hcRsp>>

(* Get clears the Error object, then sets it if SendRequest threw, in      *)
(* which case the response is a default one (200 OK). GetErrorKept is a    *)
(* Get that lacks the call of error.Clear().                               *)
GetErrorKept(outcome) == hcError \/ outcome = "thrown"

GetError(outcome) == outcome = "thrown"

Ping(s, outcome) ==
    /\ hc = "probing"
    /\ hcIdx = s
    /\ hcError' = GetError(outcome)
    /\ hcRsp' = IF outcome = "no_content" THEN "no_content" ELSE "other"
    /\ hc' = "storing"
    /\ UNCHANGED <<good, nextIdx, callVars, hcIdx>>

(* server.good.store(). After the last server the timer is armed again.    *)
StoreGood ==
    /\ hc = "storing"
    /\ good' = [good EXCEPT ![hcIdx] = ~hcError /\ hcRsp = "no_content"]
    /\ hcRsp' = "none"
    /\ hcIdx' = (hcIdx + 1) % N
    /\ hc' = IF hcIdx = N - 1 THEN "waiting" ELSE "probing"
    /\ UNCHANGED <<nextIdx, callVars, hcError>>

(* timer_.cancel(): only a wait that is pending fails, and its exception   *)
(* ends the coroutine. At any other moment the call has no effect.         *)
StopHealthCheck ==
    /\ hc' = IF hc = "waiting" THEN "ended" ELSE hc
    /\ UNCHANGED <<good, nextIdx, callVars, hcIdx, hcError, hcRsp>>

HealthStep ==
    \/ HealthCheckBegin
    \/ TimerExpires
    \/ HealthCheckResume
    \/ \E s \in Servers, outcome \in Outcomes : Ping(s, outcome)
    \/ StoreGood

-----------------------------------------------------------------------------
Next ==
    \/ \E c \in Callers : Call(c) \/ PickStep(c)
    \/ StartHealthCheck
    \/ HealthStep
    \/ StopHealthCheck

(* A thread that is inside PickAvailableServer keeps running, and so do    *)
(* the IO threads that resume the health check: its timer expires and      *)
(* every ping ends (the stream's timeouts bound it). Nobody is obliged to  *)
(* call, to start or to stop.                                              *)
Fairness ==
    /\ \A c \in Callers : WF_vars(PickStep(c))
    /\ WF_vars(HealthStep)

Spec     == Init /\ [][Next]_vars
FairSpec == Spec /\ Fairness

-----------------------------------------------------------------------------
(* A step may move the rotation nextIdx_ % size only by a fetch_add, and   *)
(* then by exactly one place (until the counter overflows): the CAS loop   *)
(* that normalises the counter, however often it is overtaken by other     *)
(* callers between the reload and the store, never skips or repeats a      *)
(* server for the calls that follow.                                       *)
RotationStep ==
    \/ nextIdx' % N = nextIdx % N
    \/ /\ \E c \in Callers : pc[c] = "fetch" /\ pc'[c] = "load"
       /\ nextIdx + 1 < IdxMod => nextIdx' % N = (nextIdx + 1) % N

RotationAdvances == [][RotationStep]_vars

(* The CAS loop is lock-free: as long as some call is in progress, calls   *)
(* keep completing. (One caller alone may starve: others can overtake its  *)
(* compare_exchange for ever.)                                             *)
Completes(c) ==
    /\ pc[c] \notin {"returned", "thrown"}
    /\ pc'[c] \in {"returned", "thrown"}

LockFree ==
    \/ []<>(\A c \in Callers : ~InCall(c))
    \/ []<><<\E c \in Callers : Completes(c)>>_vars

(* Once started and not stopped, the health check makes the flag follow    *)
(* the server: a flag that is not eventually up for good means that pings  *)
(* of that server keep failing, and one that is not eventually down means  *)
(* that they keep succeeding. In particular an error of one ping is not    *)
(* carried over to the next through the reused Error object.               *)
Pinged(s, outcomes) == \E o \in outcomes : Ping(s, o)

FlagsFollow ==
    \/ <>[](hc \in {"absent", "ended"})
    \/ \A s \in Servers :
        /\ []<><<Pinged(s, {"thrown", "other"})>>_vars \/ <>[]good[s]
        /\ []<><<Pinged(s, {"no_content"})>>_vars \/ <>[]~good[s]

-----------------------------------------------------------------------------
(* A caller holds an offer from its fetch_add until it finds the server    *)
(* bad or its next call begins.                                            *)
Offer ==
    [c \in Callers |->
        IF pc[c] \in {"load", "cas", "returned"} THEN slot[c] ELSE -1]

RR == INSTANCE RoundRobin WITH turn <- nextIdx % N, offer <- Offer

(* When the number of servers divides 2^w, so that the overflow of the     *)
(* counter does not show, the atomics of PickAvailableServer implement     *)
(* one turn that is passed on by one server per offer.                     *)
ImplementsRoundRobin == RR!Spec
=============================================================================
