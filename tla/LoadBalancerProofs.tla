------------------------- MODULE LoadBalancerProofs -------------------------
(***************************************************************************)
(* Proofs about LoadBalancer and LoadBalancerHistory, for every number of  *)
(* callers and servers and every width of the counter.                     *)
(***************************************************************************)
EXTENDS LoadBalancerHistory, TLAPS

-----------------------------------------------------------------------------
(* Remainders.                                                             *)

(* A number is its quotient times the divisor plus its remainder.          *)
LEMMA DivMod ==
    ASSUME NEW n \in Nat \ {0}, NEW x \in Nat
    PROVE  /\ x = n * (x \div n) + (x % n)
           /\ x \div n \in Nat
           /\ x % n \in 0 .. n - 1
OBVIOUS

(* Two ways to write a number as a multiple of n plus a remainder agree on *)
(* the remainder.                                                          *)
LEMMA RemainderUnique ==
    ASSUME NEW n \in Nat \ {0}, NEW a \in Int, NEW b \in Int,
           NEW r \in 0 .. n - 1, NEW s \in 0 .. n - 1,
           n * a + r = n * b + s
    PROVE  r = s
<1>1. n * (b - a) = r - s
  OBVIOUS
<1>2. CASE b - a >= 1
  <2>1. n * (b - a) >= n
    BY <1>2
  <2> QED BY <2>1, <1>1
<1>3. CASE b - a <= -1
  <2>1. n * (b - a) <= -n
    BY <1>3
  <2> QED BY <2>1, <1>1
<1>4. CASE b = a
  BY <1>4
<1> QED BY <1>2, <1>3, <1>4

(* The remainder of a multiple of n plus r is r.                           *)
LEMMA ModOfSum ==
    ASSUME NEW n \in Nat \ {0}, NEW q \in Nat, NEW r \in 0 .. n - 1
    PROVE  (n * q + r) % n = r
<1>1. PICK x \in Nat : x = n * q + r
  OBVIOUS
<1> DEFINE d == x \div n
           m == x % n
<1>2. x = n * d + m /\ d \in Int /\ m \in 0 .. n - 1
  BY DivMod
<1>3. m = r
  <2> HIDE DEF d, m
  <2>1. n * d + m = n * q + r
    BY <1>1, <1>2
  <2> QED BY <2>1, <1>2, RemainderUnique
<1> QED BY <1>3, <1>1

(* Adding one moves the remainder to the next place of a cycle of n.       *)
LEMMA ModSucc ==
    ASSUME NEW n \in Nat \ {0}, NEW x \in Nat
    PROVE  (x + 1) % n = IF x % n = n - 1 THEN 0 ELSE (x % n) + 1
<1> DEFINE q == x \div n
           r == x % n
<1>1. x = n * q + r /\ q \in Nat /\ r \in 0 .. n - 1
  BY DivMod
<1> HIDE DEF q, r
<1>2. CASE r = n - 1
  <2>1. x + 1 = n * (q + 1) + 0
    BY <1>1, <1>2
  <2>2. (n * (q + 1) + 0) % n = 0
    BY <1>1, ModOfSum
  <2> QED BY <2>1, <2>2, <1>2 DEF r
<1>3. CASE r # n - 1
  <2>1. x + 1 = n * q + (r + 1) /\ r + 1 \in 0 .. n - 1
    BY <1>1, <1>3
  <2>2. (n * q + (r + 1)) % n = r + 1
    BY <2>1, <1>1, ModOfSum
  <2> QED BY <2>1, <2>2, <1>3 DEF r
<1> QED BY <1>2, <1>3

(* If n divides m, the number before m ends a cycle of n.                  *)
LEMMA ModBeforeMultiple ==
    ASSUME NEW n \in Nat \ {0}, NEW m \in Nat, n < m, m % n = 0
    PROVE  (m - 1) % n = n - 1
<1>1. m - 1 \in Nat /\ (m - 1) + 1 = m
  OBVIOUS
<1>2. ((m - 1) + 1) % n = IF (m - 1) % n = n - 1 THEN 0 ELSE ((m - 1) % n) + 1
  BY <1>1, ModSucc
<1>3. (m - 1) % n \in 0 .. n - 1
  BY <1>1, DivMod
<1> QED BY <1>1, <1>2, <1>3

(* An index modulo size is a server and an index; a server is its own      *)
(* remainder, so that normalising a counter does not move its rotation.    *)
LEMMA IndexModSize ==
    ASSUME NEW i \in Indexes
    PROVE  /\ i % N \in Servers
           /\ i % N \in Indexes
           /\ (i % N) % N = i % N
           /\ Succ(i) \in Indexes
<1>1. i % N \in 0 .. N - 1 /\ (i + 1) % IdxMod \in 0 .. IdxMod - 1
  BY ServersAssumption, CounterAssumption DEF Indexes
<1>2. ASSUME NEW x \in 0 .. N - 1
      PROVE  x % N = x
  BY <1>2, ServersAssumption
<1> QED
  BY <1>1, <1>2, ServersAssumption, CounterAssumption
  DEF Servers, Indexes, Succ

(* There is a server and an index 0.                                       *)
LEMMA ZeroInRange == 0 \in Servers /\ 0 \in Indexes
BY ServersAssumption, CounterAssumption DEF Servers, Indexes

-----------------------------------------------------------------------------
(* The type invariant is inductive: in particular the counter stays within *)
(* std::size_t and every subscript of servers_ within the vector.          *)
THEOREM TypeCorrect == Spec => []TypeOK
<1>1. Init => TypeOK
  BY ZeroInRange DEF Init, TypeOK
<1>2. TypeOK /\ [Next]_vars => TypeOK'
  <2> SUFFICES ASSUME TypeOK, [Next]_vars
               PROVE  TypeOK'
    OBVIOUS
  <2> USE DEF TypeOK
  <2>1. ASSUME NEW c \in Callers, Call(c)
        PROVE  TypeOK'
    BY <2>1, ZeroInRange DEF Call, healthVars
  <2>2. ASSUME NEW c \in Callers, FetchAdd(c)
        PROVE  TypeOK'
    <3>1. nextIdx % N \in Servers /\ Succ(nextIdx) \in Indexes
      BY IndexModSize
    <3> QED BY <2>2, <3>1 DEF FetchAdd, healthVars
  <2>3. ASSUME NEW c \in Callers, LoadGood(c)
        PROVE  TypeOK'
    BY <2>3 DEF LoadGood, healthVars
  <2>4. ASSUME NEW c \in Callers, LoadBad(c)
        PROVE  TypeOK'
    <3>1. MoreRounds(c) => cnt[c] + 1 \in Servers
      BY ServersAssumption DEF MoreRounds, Servers
    <3> QED BY <2>4, <3>1, ZeroInRange DEF LoadBad, healthVars
  <2>5. ASSUME NEW c \in Callers, CasSucceeds(c)
        PROVE  TypeOK'
    <3>1. idx[c] % N \in Indexes
      BY IndexModSize
    <3> QED BY <2>5, <3>1, ZeroInRange DEF CasSucceeds, NewVal, healthVars
  <2>6. ASSUME NEW c \in Callers, CasFails(c)
        PROVE  TypeOK'
    BY <2>6 DEF CasFails, healthVars
  <2>7. CASE StartHealthCheck \/ HealthCheckBegin \/ TimerExpires
             \/ HealthCheckResume \/ StopHealthCheck
    BY <2>7 DEF StartHealthCheck, HealthCheckBegin, TimerExpires,
                HealthCheckResume, StopHealthCheck, callVars
  <2>8. ASSUME NEW s \in Servers, NEW outcome \in Outcomes, Ping(s, outcome)
        PROVE  TypeOK'
    BY <2>8 DEF Ping, GetError, callVars
  <2>9. CASE StoreGood
    <3>1. (hcIdx + 1) % N \in Servers
      BY ServersAssumption DEF Servers
    <3> QED BY <2>9, <3>1 DEF StoreGood, callVars
  <2>10. CASE UNCHANGED vars
    BY <2>10 DEF vars, callVars, healthVars
  <2> QED
    BY <2>1, <2>2, <2>3, <2>4, <2>5, <2>6, <2>7, <2>8, <2>9, <2>10
    DEF Next, PickStep, HealthStep
<1> QED BY <1>1, <1>2, PTL DEF Spec
-----------------------------------------------------------------------------
(* What a fetch_add does to the rotation: it moves to the next server,     *)
(* unless the counter overflows.                                           *)
LEMMA RotationOfSucc ==
    ASSUME NEW i \in Indexes, i + 1 < IdxMod \/ IdxMod % N = 0
    PROVE  Succ(i) % N = IF i % N = N - 1 THEN 0 ELSE (i % N) + 1
<1>1. (i + 1) % N = IF i % N = N - 1 THEN 0 ELSE (i % N) + 1
  BY ModSucc, ServersAssumption DEF Indexes
<1>2. CASE i + 1 < IdxMod
  <2>1. Succ(i) = i + 1
    BY <1>2, CounterAssumption DEF Succ, Indexes
  <2> QED BY <2>1, <1>1
<1>3. CASE i + 1 = IdxMod /\ IdxMod % N = 0
  <2>1. Succ(i) = 0
    BY <1>3, CounterAssumption DEF Succ, Indexes
  <2>2. i = IdxMod - 1 /\ (IdxMod - 1) % N = N - 1
    BY <1>3, ModBeforeMultiple, ServersAssumption, CounterAssumption DEF Indexes
  <2>3. 0 % N = 0
    BY ServersAssumption
  <2> QED BY <2>1, <2>2, <2>3
<1> QED BY <1>2, <1>3, CounterAssumption DEF Indexes

(* A step of the load balancer moves the rotation by one server at most,   *)
(* and only with a fetch_add.                                              *)
LEMMA RotationOfStep ==
    ASSUME TypeOK, Next
    PROVE  RotationStep
<1>1. ASSUME NEW c \in Callers, FetchAdd(c)
      PROVE  RotationStep
  <2>1. nextIdx + 1 < IdxMod => Succ(nextIdx) = nextIdx + 1
    BY CounterAssumption DEF Succ, TypeOK, Indexes
  <2>2. pc[c] = "fetch" /\ pc'[c] = "load"
    BY <1>1 DEF FetchAdd, TypeOK
  <2> QED BY <1>1, <2>1, <2>2 DEF RotationStep, FetchAdd
<1>2. ASSUME NEW c \in Callers, CasSucceeds(c)
      PROVE  nextIdx' % N = nextIdx % N
  <2>1. (nextIdx % N) % N = nextIdx % N
    BY IndexModSize DEF TypeOK
  <2> QED BY <1>2, <2>1 DEF CasSucceeds, NewVal
<1>3. ASSUME NEW c \in Callers,
             Call(c) \/ LoadGood(c) \/ LoadBad(c) \/ CasFails(c)
      PROVE  nextIdx' = nextIdx
  BY <1>3 DEF Call, LoadGood, LoadBad, CasFails
<1>4. CASE StartHealthCheck \/ HealthStep \/ StopHealthCheck
  BY <1>4 DEF StartHealthCheck, HealthStep, StopHealthCheck, HealthCheckBegin,
              TimerExpires, HealthCheckResume, Ping, StoreGood, RotationStep
<1> QED BY <1>1, <1>2, <1>3, <1>4 DEF Next, PickStep, RotationStep

(* Every behaviour of the load balancer rotates that way.                  *)
THEOREM RotationCorrect == Spec => RotationAdvances
<1>1. TypeOK /\ [Next]_vars => [RotationStep]_vars
  BY RotationOfStep
<1> QED BY <1>1, TypeCorrect, PTL DEF Spec, RotationAdvances

-----------------------------------------------------------------------------
(* Every step of the load balancer is a step of RoundRobin, or changes     *)
(* nothing there, when the size divides the number of counter values.      *)
LEMMA StepRefines ==
    ASSUME IdxMod % N = 0, TypeOK, [Next]_vars
    PROVE  [RR!Next]_(RR!vars)
<1> USE DEF RR!vars, Offer
<1>1. ASSUME NEW c \in Callers, Call(c)
      PROVE  UNCHANGED RR!vars \/ RR!Drop(c)
  <2>1. nextIdx' = nextIdx
    BY <1>1 DEF Call
  <2>2. CASE pc[c] = "returned"
    <3>1. slot[c] # -1
      BY ServersAssumption DEF TypeOK, Servers
    <3>2. Offer' = [Offer EXCEPT ![c] = -1]
      BY <1>1, <2>2 DEF Call, TypeOK
    <3> QED BY <2>1, <2>2, <3>1, <3>2 DEF RR!Drop, RR!NoOffer
  <2>3. CASE pc[c] # "returned"
    <3>1. Offer' = Offer
      BY <1>1, <2>3 DEF Call, InCall, TypeOK
    <3> QED BY <2>1, <3>1
  <2> QED BY <2>2, <2>3
<1>2. ASSUME NEW c \in Callers, FetchAdd(c)
      PROVE  RR!Take(c)
  <2>1. Offer' = [Offer EXCEPT ![c] = nextIdx % N] /\ Offer[c] = -1
    BY <1>2 DEF FetchAdd, TypeOK
  <2>2. nextIdx' % N = IF nextIdx % N = N - 1 THEN 0 ELSE (nextIdx % N) + 1
    BY <1>2, RotationOfSucc DEF FetchAdd, TypeOK
  <2> QED BY <2>1, <2>2 DEF RR!Take, RR!NoOffer
<1>3. ASSUME NEW c \in Callers, LoadBad(c)
      PROVE  RR!Drop(c)
  <2>1. slot[c] # -1
    BY ServersAssumption DEF TypeOK, Servers
  <2>2. Offer' = [Offer EXCEPT ![c] = -1] /\ Offer[c] = slot[c]
    BY <1>3 DEF LoadBad, TypeOK
  <2> QED BY <1>3, <2>1, <2>2 DEF RR!Drop, RR!NoOffer, LoadBad
<1>4. ASSUME NEW c \in Callers, LoadGood(c) \/ CasSucceeds(c) \/ CasFails(c)
      PROVE  UNCHANGED RR!vars
  <2>1. Offer' = Offer
    BY <1>4 DEF LoadGood, CasSucceeds, CasFails, TypeOK
  <2>2. (nextIdx % N) % N = nextIdx % N
    BY IndexModSize DEF TypeOK
  <2> QED BY <1>4, <2>1, <2>2 DEF LoadGood, CasSucceeds, CasFails, NewVal
<1>5. CASE StartHealthCheck \/ HealthStep \/ StopHealthCheck
  BY <1>5 DEF StartHealthCheck, HealthStep, StopHealthCheck, HealthCheckBegin,
              TimerExpires, HealthCheckResume, Ping, StoreGood, callVars
<1>6. CASE UNCHANGED vars
  BY <1>6 DEF vars, callVars
<1> QED BY <1>1, <1>2, <1>3, <1>4, <1>5, <1>6 DEF Next, PickStep, RR!Next

(* The lock-free PickAvailableServer implements one turn that callers take *)
(* one at a time.                                                          *)
THEOREM RefinesRoundRobin ==
    ASSUME IdxMod % N = 0
    PROVE  Spec => ImplementsRoundRobin
<1>1. Init => RR!Init
  BY ServersAssumption DEF Init, RR!Init, RR!NoOffer, Offer
<1>2. TypeOK /\ [Next]_vars => [RR!Next]_(RR!vars)
  BY StepRefines
<1> QED BY <1>1, <1>2, TypeCorrect, PTL DEF Spec, ImplementsRoundRobin, RR!Spec

-----------------------------------------------------------------------------
(* What one call of PickAvailableServer may return or throw.               *)

(* The history only watches: LoadBalancer runs unchanged beneath it.       *)
THEOREM HistoryRefines == HSpec => Spec
<1>1. HInit => Init
  BY DEF HInit
<1>2. [HNext]_hvars => [Next]_vars
  BY DEF HNext, hvars, vars
<1> QED BY <1>1, <1>2, PTL DEF HSpec, Spec

-----------------------------------------------------------------------------
(* The history of a call that is in progress before a step.                *)
LEMMA FollowInCall ==
    ASSUME Follow, NEW c \in Callers, InCall(c)
    PROVE  /\ steady'[c] = steady[c] \cap GoodNow'
           /\ seen'[c] = seen[c] \cup GoodNow'
           /\ first'[c] = first[c]
           /\ alone'[c] => alone[c] /\ ~Disturbs(c)
BY DEF Follow, Begins

(* The history of a call that begins with a step.                          *)
LEMMA FollowBegins ==
    ASSUME Follow, NEW c \in Callers, Begins(c)
    PROVE  /\ steady'[c] = GoodNow'
           /\ seen'[c] = GoodNow'
           /\ first'[c] = nextIdx % N
BY DEF Follow

(* Outside calls the history is frozen.                                    *)
LEMMA FollowIdle ==
    ASSUME Follow, NEW c \in Callers, ~InCall(c), ~Begins(c)
    PROVE  /\ steady'[c] = steady[c]
           /\ seen'[c] = seen[c]
           /\ first'[c] = first[c]
           /\ alone'[c] = alone[c]
BY DEF Follow

(* The steps of other callers and of the health check leave the locals of  *)
(* a caller alone.                                                         *)
LEMMA OthersKeepLocals ==
    ASSUME TypeOK, [Next]_vars, NEW d \in Callers,
           ~Call(d), ~PickStep(d)
    PROVE  pc'[d] = pc[d] /\ cnt'[d] = cnt[d] /\ slot'[d] = slot[d]
<1> USE DEF TypeOK
<1>1. ASSUME NEW c \in Callers, c # d, Call(c)
      PROVE  pc'[d] = pc[d] /\ cnt'[d] = cnt[d] /\ slot'[d] = slot[d]
  BY <1>1 DEF Call
<1>2. ASSUME NEW c \in Callers, c # d, PickStep(c)
      PROVE  pc'[d] = pc[d] /\ cnt'[d] = cnt[d] /\ slot'[d] = slot[d]
  BY <1>2 DEF PickStep, FetchAdd, LoadGood, LoadBad, CasSucceeds, CasFails
<1>3. CASE StartHealthCheck \/ HealthStep \/ StopHealthCheck
  BY <1>3 DEF StartHealthCheck, HealthStep, StopHealthCheck, HealthCheckBegin,
              TimerExpires, HealthCheckResume, Ping, StoreGood, callVars
<1>4. CASE UNCHANGED vars
  BY <1>4 DEF vars, callVars
<1> QED BY <1>1, <1>2, <1>3, <1>4 DEF Next

(* A step of a caller leaves the flags alone.                              *)
LEMMA CallersKeepFlags ==
    ASSUME NEW c \in Callers, Call(c) \/ PickStep(c)
    PROVE  GoodNow' = GoodNow
BY DEF Call, PickStep, FetchAdd, LoadGood, LoadBad, CasSucceeds, CasFails, GoodNow

-----------------------------------------------------------------------------
(* HistoryInv is inductive.                                                *)
LEMMA HistoryInvStep ==
    ASSUME TypeOK, TypeOK', HistoryInv, [Next]_vars, Follow
    PROVE  HistoryInv'
<1> SUFFICES ASSUME NEW d \in Callers
             PROVE  /\ first'[d] \in Servers
                    /\ InCall(d)' => /\ steady'[d] \subseteq GoodNow'
                                     /\ GoodNow' \subseteq seen'[d]
                    /\ pc'[d] \in {"cas", "returned"} => slot'[d] \in seen'[d]
  BY DEF HistoryInv
<1>1. nextIdx % N \in Servers
  BY IndexModSize DEF TypeOK
<1>2. CASE Call(d)
  <2>1. Begins(d) /\ pc'[d] = "fetch"
    BY <1>2 DEF Call, Begins, TypeOK
  <2> QED BY <2>1, <1>1, FollowBegins
<1>3. CASE PickStep(d)
  <2>1. InCall(d)
    BY <1>3 DEF PickStep, FetchAdd, LoadGood, LoadBad, CasSucceeds, CasFails, InCall
  <2>2. pc'[d] \in {"cas", "returned"} => slot'[d] \in seen[d] \cup GoodNow'
    <3>1. CASE LoadGood(d)
      BY <3>1 DEF LoadGood, GoodNow, TypeOK
    <3>2. CASE CasSucceeds(d) \/ CasFails(d)
      BY <3>2 DEF CasSucceeds, CasFails, HistoryInv, TypeOK
    <3>3. CASE FetchAdd(d) \/ LoadBad(d)
      BY <3>3 DEF FetchAdd, LoadBad, TypeOK
    <3> QED BY <1>3, <3>1, <3>2, <3>3 DEF PickStep
  <2> QED BY <2>1, <2>2, FollowInCall DEF HistoryInv
<1>4. CASE ~Call(d) /\ ~PickStep(d)
  <2>1. pc'[d] = pc[d] /\ slot'[d] = slot[d]
    BY <1>4, OthersKeepLocals
  <2>2. CASE InCall(d)
    BY <2>1, <2>2, FollowInCall DEF HistoryInv
  <2>3. CASE ~InCall(d)
    <3>1. ~Begins(d) /\ ~InCall(d)'
      BY <2>1, <2>3 DEF Begins, InCall
    <3> QED BY <2>1, <2>3, <3>1, FollowIdle DEF HistoryInv
  <2> QED BY <2>2, <2>3
<1> QED BY <1>2, <1>3, <1>4

(* The server that PickAvailableServer returns was good during the call.   *)
THEOREM ReturnedWasGoodCorrect == HSpec => []ReturnedWasGood
<1>1. HInit => HistoryInv
  BY ZeroInRange DEF HInit, Init, HistoryInv, InCall
<1>2. TypeOK /\ TypeOK' /\ HistoryInv /\ [HNext]_hvars => HistoryInv'
  <2>1. CASE UNCHANGED hvars
    BY <2>1 DEF hvars, vars, callVars, history, HistoryInv, InCall, GoodNow
  <2>2. CASE HNext
    BY <2>2, HistoryInvStep DEF HNext
  <2> QED BY <2>1, <2>2
<1>3. HistoryInv => ReturnedWasGood
  BY DEF HistoryInv, ReturnedWasGood
<1> QED BY <1>1, <1>2, <1>3, TypeCorrect, HistoryRefines, PTL DEF HSpec
-----------------------------------------------------------------------------
(* The cnt places after first, and the one after them.                     *)
LEMMA RotatedFacts ==
    ASSUME NEW f \in Servers
    PROVE  /\ Rotated(f, 0) = f
           /\ \A j \in Servers : Rotated(f, j) \in Servers
           /\ \A j \in Servers :
                Rotated(f, j + 1) = IF Rotated(f, j) = N - 1
                                    THEN 0 ELSE Rotated(f, j) + 1
BY ServersAssumption DEF Rotated, Servers

(* Every server is at some place after first.                              *)
LEMMA RotatedOnto ==
    ASSUME NEW f \in Servers, NEW s \in Servers
    PROVE  \E j \in Servers : Rotated(f, j) = s
<1> USE ServersAssumption DEF Rotated, Servers
<1>1. CASE s >= f
  <2>1. s - f \in Servers /\ Rotated(f, s - f) = s
    BY <1>1
  <2> QED BY <2>1
<1>2. CASE s < f
  <2>1. s - f + N \in Servers /\ Rotated(f, s - f + N) = s
    BY <1>2
  <2> QED BY <2>1
<1> QED BY <1>1, <1>2

(* SweepInv, and SweepIsComplete with it, are inductive.                   *)
LEMMA SweepStep ==
    ASSUME TypeOK, TypeOK', HistoryInv, SweepInv, SweepIsComplete,
           [Next]_vars, Follow
    PROVE  SweepInv' /\ SweepIsComplete'
<1> SUFFICES ASSUME NEW d \in Callers, alone'[d]
             PROVE  /\ pc'[d] = "fetch" => nextIdx' % N = Rotated(first'[d], cnt'[d])
                    /\ pc'[d] = "load" =>
                        /\ slot'[d] = Rotated(first'[d], cnt'[d])
                        /\ nextIdx' % N = Rotated(first'[d], cnt'[d] + 1)
                    /\ pc'[d] \in {"fetch", "load"} =>
                        \A j \in Servers :
                            j < cnt'[d] => Rotated(first'[d], j) \notin steady'[d]
                    /\ pc'[d] = "thrown" => steady'[d] = {}
  BY DEF SweepInv, SweepIsComplete, Rotated
<1>1. /\ first[d] \in Servers /\ cnt[d] \in Servers /\ slot[d] \in Servers
      /\ nextIdx \in Indexes /\ nextIdx % N \in Servers
  BY IndexModSize DEF TypeOK, HistoryInv
<1>2. CASE Call(d)
  <2>1. Begins(d) /\ pc'[d] = "fetch" /\ cnt'[d] = 0 /\ nextIdx' = nextIdx
    BY <1>2 DEF Call, Begins, TypeOK
  <2>2. first'[d] = nextIdx % N
    BY <2>1, FollowBegins
  <2>3. \A j \in Servers : ~(j < 0)
    BY DEF Servers
  <2> QED BY <2>1, <2>2, <2>3, <1>1, RotatedFacts
<1>3. CASE FetchAdd(d)
  <2>1. /\ InCall(d) /\ Claims(d) /\ pc[d] = "fetch" /\ pc'[d] = "load"
        /\ cnt'[d] = cnt[d] /\ slot'[d] = nextIdx % N /\ nextIdx' = Succ(nextIdx)
    BY <1>3 DEF FetchAdd, InCall, Claims, TypeOK
  <2>2. /\ alone[d] /\ ~Disturbs(d) /\ first'[d] = first[d]
        /\ steady'[d] = steady[d] \cap GoodNow'
    BY <2>1, FollowInCall
  <2>3. nextIdx + 1 # IdxMod
    BY <2>1, <2>2 DEF Disturbs
  <2>4. nextIdx + 1 < IdxMod
    BY <2>3, <1>1, CounterAssumption DEF Indexes
  <2>5. nextIdx' % N = IF nextIdx % N = N - 1 THEN 0 ELSE (nextIdx % N) + 1
    BY <2>1, <2>4, <1>1, RotationOfSucc
  <2>6. /\ nextIdx % N = Rotated(first[d], cnt[d])
        /\ \A j \in Servers : j < cnt[d] => Rotated(first[d], j) \notin steady[d]
    BY <2>1, <2>2 DEF SweepInv
  <2>7. Rotated(first[d], cnt[d] + 1) =
            IF Rotated(first[d], cnt[d]) = N - 1
            THEN 0 ELSE Rotated(first[d], cnt[d]) + 1
    BY <1>1, RotatedFacts
  <2>8. nextIdx' % N = Rotated(first[d], cnt[d] + 1)
    BY <2>5, <2>6, <2>7
  <2> QED BY <2>1, <2>2, <2>6, <2>8
<1>4. CASE LoadBad(d)
  <2>1. /\ InCall(d) /\ pc[d] = "load" /\ nextIdx' = nextIdx
        /\ ~good[slot[d]] /\ pc'[d] \in {"fetch", "thrown"}
    BY <1>4 DEF LoadBad, InCall, TypeOK
  <2>2. /\ alone[d] /\ first'[d] = first[d]
        /\ steady'[d] = steady[d] \cap GoodNow'
    BY <2>1, FollowInCall
  <2>3. /\ slot[d] = Rotated(first[d], cnt[d])
        /\ nextIdx % N = Rotated(first[d], cnt[d] + 1)
        /\ \A j \in Servers : j < cnt[d] => Rotated(first[d], j) \notin steady[d]
    BY <2>1, <2>2 DEF SweepInv
  <2>4. steady[d] \subseteq GoodNow /\ slot[d] \notin GoodNow
    BY <2>1 DEF HistoryInv, GoodNow
  <2>5. \A j \in Servers : j < cnt[d] + 1 => Rotated(first[d], j) \notin steady[d]
    <3>1. \A j \in Servers : j < cnt[d] + 1 => j < cnt[d] \/ j = cnt[d]
      BY <1>1 DEF Servers
    <3> QED BY <3>1, <2>3, <2>4
  <2>6. CASE MoreRounds(d)
    <3>1. pc'[d] = "fetch" /\ cnt'[d] = cnt[d] + 1
      BY <1>4, <2>6 DEF LoadBad, TypeOK
    <3> QED BY <3>1, <2>1, <2>2, <2>3, <2>5
  <2>7. CASE ~MoreRounds(d)
    <3>1. pc'[d] = "thrown"
      BY <1>4, <2>7 DEF LoadBad, TypeOK
    <3>2. \A j \in Servers : j < cnt[d] + 1
      BY <2>7, <1>1, ServersAssumption DEF MoreRounds, Servers
    <3>3. ASSUME NEW s \in Servers
          PROVE  s \notin steady[d]
      <4>1. PICK j \in Servers : Rotated(first[d], j) = s
        BY <1>1, RotatedOnto
      <4> QED BY <4>1, <3>2, <2>5
    <3>4. steady[d] = {}
      BY <3>3, <2>4 DEF GoodNow
    <3> QED BY <3>1, <3>4, <2>2
  <2> QED BY <2>6, <2>7
<1>5. CASE LoadGood(d) \/ CasSucceeds(d) \/ CasFails(d)
  <2>1. pc'[d] \in {"cas", "returned"}
    BY <1>5 DEF LoadGood, CasSucceeds, CasFails, TypeOK
  <2> QED BY <2>1
<1>6. CASE ~Call(d) /\ ~PickStep(d)
  <2>1. pc'[d] = pc[d] /\ cnt'[d] = cnt[d] /\ slot'[d] = slot[d]
    BY <1>6, OthersKeepLocals
  <2>2. CASE InCall(d)
    <3>1. /\ alone[d] /\ ~Disturbs(d) /\ first'[d] = first[d]
          /\ steady'[d] = steady[d] \cap GoodNow'
      BY <2>2, FollowInCall
    <3>2. ASSUME NEW c \in Callers, Claims(c)
          PROVE  FALSE
      <4>1. c # d
        BY <3>2, <2>1 DEF Claims
      <4> QED BY <4>1, <3>1, <3>2 DEF Disturbs
    <3>3. nextIdx' % N = nextIdx % N
      <4>1. CASE Next
        BY <4>1, <3>2, RotationOfStep DEF RotationStep, Claims
      <4>2. CASE UNCHANGED vars
        BY <4>2 DEF vars
      <4> QED BY <4>1, <4>2
    <3> QED BY <2>1, <2>2, <3>1, <3>3 DEF SweepInv, InCall
  <2>3. CASE ~InCall(d)
    <3>1. ~Begins(d) /\ pc'[d] \notin {"fetch", "load"}
      BY <2>1, <2>3 DEF Begins, InCall
    <3> QED BY <2>1, <2>3, <3>1, FollowIdle DEF SweepIsComplete
  <2> QED BY <2>2, <2>3
<1> QED BY <1>2, <1>3, <1>4, <1>5, <1>6 DEF PickStep

(* PickAvailableServer throws NoAvailableServer, when no other caller got  *)
(* in between, only if no server was good throughout the call.             *)
THEOREM SweepCorrect == HSpec => []SweepIsComplete
<1>1. HInit => HistoryInv /\ SweepInv /\ SweepIsComplete
  BY ZeroInRange DEF HInit, Init, HistoryInv, InCall, SweepInv, SweepIsComplete
<1>2. /\ TypeOK /\ TypeOK' /\ HistoryInv /\ SweepInv /\ SweepIsComplete
      /\ [HNext]_hvars
      => HistoryInv' /\ SweepInv' /\ SweepIsComplete'
  <2>1. CASE UNCHANGED hvars
    BY <2>1 DEF hvars, vars, callVars, history, HistoryInv, SweepInv,
                SweepIsComplete, InCall, GoodNow, Rotated
  <2>2. CASE HNext
    BY <2>2, HistoryInvStep, SweepStep DEF HNext
  <2> QED BY <2>1, <2>2
<1> QED BY <1>1, <1>2, TypeCorrect, HistoryRefines, PTL DEF HSpec
=============================================================================
