-------------------------- MODULE HttpClientProofs --------------------------
(***************************************************************************)
(* Proofs about HttpClient, for every number of requests and endpoints,    *)
(* every size of the pool, and both clients.                               *)
(***************************************************************************)
EXTENDS HttpClient, SequenceLemmas, FiniteSetTheorems

-----------------------------------------------------------------------------
(* The inductive invariant. A connection is named after the request that   *)
(* opened it; it does not exist before, is marked used only when that      *)
(* request has succeeded, and leads where its owner wants to go.           *)
Opened ==
    /\ \A r \in Requests : pc[r] # "idle" => ep[r] \in Endpoints
    /\ \A r \in Requests :
        pc[r] \in {"idle", "retrieve", "resolve", "connect"} => home[r] = None
    /\ \A k \in Conns : home[k] = None => out[k] = <<>> /\ in[k] = <<>> /\ ~open[k]
    /\ \A k \in Conns : used[k] => pc[k] = "ok"
    /\ \A r \in Requests : conn[r] # None =>
        home[conn[r]] = ep[r] /\ (conn[r] = r \/ (used[conn[r]] /\ home[r] = None))
    /\ \A r \in Requests : why[r] # "none" => pc[r] = "failed"

(* What is under way on the connection of a request: nothing, except       *)
(* between its write and its read.                                         *)
Exchange ==
    \A r \in Requests :
        /\ pc[r] \in {"handshake", "write", "push", "shutdown"} =>
              out[conn[r]] = <<>> /\ in[conn[r]] = <<>>
        /\ pc[r] = "read" =>
              \/ out[conn[r]] \in {<<>>, <<r>>} /\ in[conn[r]] = <<>>
              \/ /\ out[conn[r]] = <<>>
                 /\ \E b \in BOOLEAN : in[conn[r]] = <<[req |-> r, keep |-> b]>>
                 /\ executed[r] > 0

(* Servers see only requests that were sent, and a request has read its    *)
(* own response only.                                                      *)
Answered ==
    /\ \A k \in Conns : \A q \in Range(out[k]) : pc[q] # "idle"
    /\ \A r \in Requests : got[r] \in {None, r}
    /\ \A r \in Requests :
        pc[r] \in {"push", "shutdown", "ok"} => got[r] = r /\ executed[r] > 0

IInv ==
    /\ TypeOK
    /\ OneOwner
    /\ PooledIsQuiet
    /\ PoolBounded
    /\ StaleNeverFails
    /\ Opened
    /\ Exchange
    /\ Answered

(* The connection of a request is its own, and no other's.                 *)
LEMMA OwnConnection ==
    ASSUME IInv, NEW r \in Requests, Owns(r)
    PROVE  /\ conn[r] \in Conns /\ conn[r] # None
           /\ ep[r] \in Endpoints /\ home[conn[r]] = ep[r]
           /\ \A q \in Requests \ {r} : conn[q] # conn[r]
           /\ \A e \in Endpoints : conn[r] \notin Range(pool[e])
           /\ ~used[conn[r]] => conn[r] = r
<1>1. conn[r] # None /\ conn[r] \in Conns
  BY NoneAssumption DEF IInv, TypeOK, Conns
<1>2. ep[r] \in Endpoints /\ home[conn[r]] = ep[r]
  BY <1>1 DEF IInv, Opened, Owns
<1>3. \A q \in Requests \ {r} : conn[q] # conn[r]
  BY <1>1 DEF IInv, OneOwner
<1> QED BY <1>1, <1>2, <1>3 DEF IInv, OneOwner, Opened

(* The steps of a request that change its own variables only, and that     *)
(* keep its connection or let it go.                                       *)
LEMMA OwnStep ==
    ASSUME IInv, NEW r \in Requests, pc[r] # "idle",
           NEW p \in Steps, NEW c \in {conn[r], None}, NEW w \in Failures \cup {"none"},
           pc' = [pc EXCEPT ![r] = p], conn' = [conn EXCEPT ![r] = c],
           why' = [why EXCEPT ![r] = w],
           UNCHANGED <<pool, ep, got, home, used, in, serverVars, reused>>,
           out' \in [Conns -> Seq(Requests)],
           Owns(r)' <=> c # None,
           p \in {"idle", "retrieve", "resolve", "connect"} => home[r] = None,
           ~used[r],
           w = why[r] \/ (p = "failed" /\ (w \in {"write", "read"} => home[r] = ep[r])),
           w # "none" => p = "failed", p # "idle",
           \A k \in Conns : out'[k] = out[k] \/ k = conn[r],
           Owns(r) => out'[conn[r]] \in {out[conn[r]], <<r>>},
           p = "read" => in[conn[r]] = <<>>,
           p \in {"handshake", "write", "push", "shutdown"} =>
                out'[conn[r]] = <<>> /\ in[conn[r]] = <<>>,
           p \in {"push", "shutdown", "ok"} => got[r] = r /\ executed[r] > 0,
           p = "read" => out'[conn[r]] \in {<<>>, <<r>>}
    PROVE  IInv'
<1> USE DEF serverVars
<1>1. \A q \in Requests \ {r} :
        pc'[q] = pc[q] /\ conn'[q] = conn[q] /\ why'[q] = why[q]
  BY DEF IInv, TypeOK
<1>2. pc'[r] = p /\ conn'[r] = c /\ why'[r] = w
  BY DEF IInv, TypeOK
<1>3. \A q \in Requests \ {r} : Owns(q)' = Owns(q)
  BY <1>1 DEF Owns
<1>4. TypeOK'
  <2>1. /\ pc' \in [Requests -> Steps]
        /\ conn' \in [Requests -> Conns \cup {None}]
        /\ why' \in [Requests -> Failures \cup {"none"}]
    BY DEF IInv, TypeOK
  <2>2. \A q \in Requests : Owns(q)' <=> conn'[q] # None
    BY <1>1, <1>2, <1>3 DEF IInv, TypeOK
  <2> QED BY <2>1, <2>2 DEF IInv, TypeOK
<1>5. OneOwner'
  <2>1. \A q \in Requests : conn'[q] \in {conn[q], None}
    BY <1>1, <1>2
  <2>2. \A e \in Endpoints : None \notin Range(pool[e])
    BY NoneAssumption DEF IInv, TypeOK, Conns, Range
  <2>3. \A q, u \in Requests : q # u /\ conn'[q] # None => conn'[q] # conn'[u]
    BY <2>1 DEF IInv, OneOwner
  <2>4. \A e \in Endpoints : \A q \in Requests : conn'[q] \notin Range(pool[e])
    BY <2>1, <2>2 DEF IInv, OneOwner
  <2> QED BY <2>3, <2>4 DEF IInv, OneOwner
<1>6. \A e \in Endpoints : conn[r] # None => conn[r] \notin Range(pool[e])
  BY DEF IInv, OneOwner
<1>7. PooledIsQuiet'
  <2> SUFFICES ASSUME NEW e \in Endpoints, NEW k \in Range(pool[e])
               PROVE  home[k] = e /\ used[k] /\ out'[k] = <<>> /\ in[k] = <<>>
    BY DEF PooledIsQuiet
  <2>1. k \in Conns
    BY DEF IInv, TypeOK, Range
  <2>2. k # conn[r]
    BY <1>6, <2>1, NoneAssumption DEF Conns
  <2> QED BY <2>1, <2>2 DEF IInv, PooledIsQuiet
<1>8. PoolBounded' /\ StaleNeverFails'
  BY <1>1, <1>2 DEF IInv, PoolBounded, StaleNeverFails
<1>9. Opened'
  <2>1. \A k \in Conns : home[k] = None => out'[k] = <<>> /\ in[k] = <<>> /\ ~open[k]
    <3> SUFFICES ASSUME NEW k \in Conns, home[k] = None
                 PROVE  k # conn[r]
      BY DEF IInv, Opened
    <3> QED BY SMTT(30), NoneAssumption, OwnConnection DEF IInv, TypeOK, Conns
  <2>2. \A k \in Conns : used[k] => pc'[k] = "ok"
    BY <1>1 DEF IInv, Opened, Conns
  <2> QED BY <1>1, <1>2, <2>1, <2>2 DEF IInv, Opened
<1>10. Exchange'
  <2>1. ASSUME NEW q \in Requests \ {r}, Owns(q)
        PROVE  conn[q] \in Conns /\ conn[q] # conn[r] /\ out'[conn[q]] = out[conn[q]]
    BY <2>1, OwnConnection
  <2>2. ASSUME NEW q \in Requests \ {r}
        PROVE  /\ pc'[q] \in {"handshake", "write", "push", "shutdown"} =>
                     out'[conn'[q]] = <<>> /\ in[conn'[q]] = <<>>
               /\ pc'[q] = "read" =>
                     \/ out'[conn'[q]] \in {<<>>, <<q>>} /\ in[conn'[q]] = <<>>
                     \/ /\ out'[conn'[q]] = <<>>
                        /\ \E b \in BOOLEAN : in[conn'[q]] = <<[req |-> q, keep |-> b]>>
                        /\ executed[q] > 0
    BY ZenonT(60), <1>1, <2>1 DEF IInv, Exchange, Owns
  <2>3. p \in {"handshake", "write", "read", "push", "shutdown"} => c = conn[r]
    BY <1>2 DEF Owns
  <2> QED BY <1>2, <2>2, <2>3 DEF Exchange
<1>11. Answered'
  <2>1. ASSUME NEW k \in Conns, NEW q \in Range(out'[k])
        PROVE  pc'[q] # "idle"
    <3>1. CASE out'[k] = out[k]
      BY <3>1, <2>1, <1>1, <1>2 DEF IInv, Answered, TypeOK, Range
    <3>2. CASE out'[k] # out[k]
      <4>1. k = conn[r] /\ Owns(r) /\ out'[k] = <<r>>
        BY SMTT(30), <3>2, NoneAssumption DEF IInv, TypeOK, Conns
      <4>2. q = r
        BY <4>1, <2>1 DEF Range
      <4> QED BY <4>2, <1>2
    <3> QED BY <3>1, <3>2
  <2> QED BY <2>1, <1>1, <1>2 DEF IInv, Answered
<1> QED BY <1>4, <1>5, <1>7, <1>8, <1>9, <1>10, <1>11 DEF IInv

(* OwnStep covers a failed write or read, whether it is retried or thrown: *)
(* only with a connection of its own does a request give up.               *)
LEMMA ErrorStep ==
    ASSUME IInv, NEW r \in Requests, pc[r] \in {"write", "read"},
           NEW what \in {"write", "read"}, OnError(r, what),
           \/ UNCHANGED out
           \/ pc[r] = "write" /\ Deliver(r, conn[r]),
           UNCHANGED <<ep, got, home, used, in, serverVars, reused>>
    PROVE  IInv'
<1>1. Owns(r) /\ conn[r] \in Conns /\ home[conn[r]] = ep[r]
      /\ (~used[conn[r]] => conn[r] = r)
  BY OwnConnection DEF Owns
<1>2. ~used[r] /\ why[r] = "none"
  BY DEF IInv, Opened, TypeOK, Conns
<1>3. /\ out' \in [Conns -> Seq(Requests)]
      /\ \A k \in Conns : out'[k] = out[k] \/ k = conn[r]
      /\ out'[conn[r]] \in {out[conn[r]], <<r>>}
  <2>1. CASE UNCHANGED out
    BY <2>1 DEF IInv, TypeOK
  <2>2. CASE pc[r] = "write" /\ Deliver(r, conn[r])
    <3>1. out[conn[r]] = <<>> /\ Append(<<>>, r) = <<r>>
      BY <2>2 DEF IInv, Exchange
    <3> QED BY <2>2, <3>1, <1>1 DEF Deliver, IInv, TypeOK
  <2> QED BY <2>1, <2>2
<1>4. CASE used[conn[r]]
  <2>1. /\ conn' = [conn EXCEPT ![r] = None] /\ pc' = [pc EXCEPT ![r] = "retrieve"]
        /\ why' = [why EXCEPT ![r] = "none"] /\ UNCHANGED pool
    BY <1>2, <1>4 DEF OnError, IInv, TypeOK
  <2>2. home[r] = None
    BY <1>1, <1>2, <1>4 DEF IInv, Opened, TypeOK, Owns
  <2>3. ~Owns(r)'
    BY <2>1 DEF Owns, IInv, TypeOK
  <2> QED
    BY <1>1, <1>2, <1>3, <2>1, <2>2, <2>3, OwnStep DEF Steps, Failures
<1>5. CASE ~used[conn[r]]
  <2>1. /\ conn' = [conn EXCEPT ![r] = None] /\ pc' = [pc EXCEPT ![r] = "failed"]
        /\ why' = [why EXCEPT ![r] = what] /\ UNCHANGED pool
    BY <1>5 DEF OnError, Throw
  <2>2. home[r] = ep[r]
    BY <1>1, <1>5
  <2>3. ~Owns(r)'
    BY <2>1 DEF Owns, IInv, TypeOK
  <2> QED
    BY <1>1, <1>2, <1>3, <2>1, <2>2, <2>3, OwnStep DEF Steps, Failures
<1> QED BY <1>4, <1>5

(* RetrieveNone, Resolve, Handshake, Write, ReadFails and Shutdown.        *)
LEMMA SimpleStepInductive ==
    ASSUME IInv, NEW r \in Requests,
           \/ RetrieveNone(r) \/ Resolve(r) \/ Handshake(r) \/ WriteSucceeds(r)
           \/ WriteFails(r) \/ ReadFails(r) \/ Shutdown(r)
    PROVE  IInv'
<1> USE DEF connVars, serverVars
<1>1. /\ out \in [Conns -> Seq(Requests)] /\ conn[r] \in Conns \cup {None}
      /\ why = [why EXCEPT ![r] = why[r]] /\ conn = [conn EXCEPT ![r] = conn[r]]
      /\ why[r] \in Failures \cup {"none"}
      /\ pc[r] # "failed" => why[r] = "none"
      /\ pc[r] # "ok" => ~used[r]
      /\ Owns(r) <=> conn[r] # None
  BY DEF IInv, TypeOK, Opened, Conns
<1>2. Owns(r) => conn[r] \in Conns
  BY OwnConnection
<1>3. CASE RetrieveNone(r)
  <2>1. pc' = [pc EXCEPT ![r] = "resolve"] /\ pc[r] = "retrieve" /\ ~Owns(r) /\ ~Owns(r)'
    BY <1>3 DEF RetrieveNone, Owns, IInv, TypeOK
  <2>2. home[r] = None
    BY <2>1 DEF IInv, Opened
  <2> QED BY <1>1, <1>3, <2>1, <2>2, OwnStep DEF RetrieveNone, Steps
<1>4. ASSUME NEW w \in {"resolve", "sni", "handshake", "shutdown"}, Throw(r, w),
             UNCHANGED <<pool, ep, got, connVars, serverVars, reused>>,
             pc[r] \in {"resolve", "handshake", "shutdown"}
      PROVE  IInv'
  <2>1. ~Owns(r)'
    BY <1>4 DEF Throw, Owns, IInv, TypeOK
  <2> QED BY ZenonT(60), <1>1, <1>4, <2>1, OwnStep DEF Throw, Steps, Failures
<1>5. CASE Resolve(r)
  <2>1. CASE pc' = [pc EXCEPT ![r] = "connect"] /\ UNCHANGED <<why, conn>>
    <3>1. pc[r] = "resolve" /\ ~Owns(r) /\ ~Owns(r)'
      BY <1>5, <2>1 DEF Resolve, Owns, IInv, TypeOK
    <3>2. home[r] = None
      BY <3>1 DEF IInv, Opened
    <3> QED BY <1>1, <1>5, <2>1, <3>1, <3>2, OwnStep DEF Resolve, Steps
  <2> QED BY <1>4, <1>5, <2>1 DEF Resolve
<1>6. CASE Handshake(r)
  <2>1. CASE pc' = [pc EXCEPT ![r] = "write"] /\ UNCHANGED <<why, conn>>
    <3>1. pc[r] = "handshake" /\ Owns(r) /\ Owns(r)'
      BY <1>6, <2>1 DEF Handshake, Owns, IInv, TypeOK
    <3>2. out[conn[r]] = <<>> /\ in[conn[r]] = <<>>
      BY <3>1 DEF IInv, Exchange
    <3> QED BY <1>1, <1>6, <2>1, <3>1, <3>2, OwnStep DEF Handshake, Steps
  <2> QED BY <1>4, <1>6, <2>1 DEF Handshake
<1>7. CASE WriteSucceeds(r)
  <2>1. pc[r] = "write" /\ Owns(r) /\ Owns(r)' /\ pc' = [pc EXCEPT ![r] = "read"]
    BY <1>7 DEF WriteSucceeds, Owns, IInv, TypeOK
  <2>2. out[conn[r]] = <<>> /\ in[conn[r]] = <<>> /\ Append(<<>>, r) = <<r>>
    BY <2>1 DEF IInv, Exchange
  <2>3. /\ out' \in [Conns -> Seq(Requests)]
        /\ \A k \in Conns : out'[k] = out[k] \/ k = conn[r]
        /\ out'[conn[r]] \in {<<>>, <<r>>}
    BY <1>1, <1>2, <1>7, <2>1, <2>2 DEF WriteSucceeds, Deliver
  <2> QED BY <1>1, <1>7, <2>1, <2>2, <2>3, OwnStep DEF WriteSucceeds, Steps
<1>8. CASE WriteFails(r)
  BY <1>8, ErrorStep DEF WriteFails
<1>9. CASE ReadFails(r)
  BY <1>9, ErrorStep DEF ReadFails
<1>10. CASE Shutdown(r)
  <2>1. CASE /\ pc' = [pc EXCEPT ![r] = "ok"] /\ conn' = [conn EXCEPT ![r] = None]
             /\ UNCHANGED why
    <3>1. pc[r] = "shutdown" /\ ~Owns(r)'
      BY <1>10, <2>1 DEF Shutdown, Owns, IInv, TypeOK
    <3>2. got[r] = r /\ executed[r] > 0
      BY <3>1 DEF IInv, Answered
    <3> QED BY <1>1, <1>10, <2>1, <3>1, <3>2, OwnStep DEF Shutdown, Steps
  <2> QED BY <1>4, <1>10, <2>1 DEF Shutdown
<1> QED BY <1>3, <1>5, <1>6, <1>7, <1>8, <1>9, <1>10

(* A step of one request that leaves the connections, the pools and the    *)
(* servers alone keeps what does not depend on its variables.              *)
LEMMA SendInductive ==
    ASSUME IInv, NEW r \in Requests, NEW e \in Endpoints, Send(r, e)
    PROVE  IInv'
<1> USE DEF connVars, serverVars, Send
<1>1. /\ pc'[r] = "retrieve" /\ pc[r] = "idle" /\ ep'[r] = e
      /\ \A q \in Requests \ {r} : pc'[q] = pc[q] /\ ep'[q] = ep[q]
  BY DEF IInv, TypeOK
<1>2. \A q \in Requests : Owns(q)' = Owns(q) /\ (Owns(q) => q # r)
  BY <1>1 DEF Owns
<1>3. TypeOK'
  <2>1. pc' \in [Requests -> Steps] /\ ep' \in [Requests -> Endpoints \cup {None}]
    BY DEF IInv, TypeOK, Steps
  <2> QED BY <1>2, <2>1 DEF IInv, TypeOK
<1>4. OneOwner' /\ PooledIsQuiet' /\ PoolBounded'
  BY DEF IInv, OneOwner, PooledIsQuiet, PoolBounded
<1>5. StaleNeverFails' /\ Opened'
  <2>1. \A q \in Requests : why[q] # "none" \/ conn[q] # None => q # r
    BY <1>1, <1>2 DEF IInv, Opened, TypeOK
  <2>2. \A k \in Conns : used[k] => pc'[k] = "ok"
    BY <1>1 DEF IInv, Opened, Conns
  <2>3. \A q \in Requests : conn[q] # None => ep'[q] = ep[q]
    BY <1>1, <2>1
  <2> QED BY <1>1, <2>1, <2>2, <2>3 DEF IInv, Opened, StaleNeverFails
<1>6. Exchange'
  BY <1>1 DEF IInv, Exchange
<1>7. Answered'
  <2>1. \A k \in Conns : \A q \in Range(out[k]) : q \in Requests
    BY DEF IInv, TypeOK, Range
  <2>2. \A k \in Conns : \A q \in Range(out[k]) : pc'[q] # "idle"
    BY <1>1, <2>1 DEF IInv, Answered
  <2> QED BY <1>1, <2>2 DEF IInv, Answered
<1> QED BY <1>3, <1>4, <1>5, <1>6, <1>7 DEF IInv

(* Retrieve takes a quiet connection out of the pool.                      *)
LEMMA RetrievePooledInductive ==
    ASSUME IInv, NEW r \in Requests, RetrievePooled(r)
    PROVE  IInv'
<1> DEFINE e == ep[r]
           k == Head(pool[e])
<1> USE DEF connVars, serverVars
<1>1. e \in Endpoints /\ pool[e] \in Seq(Conns) /\ pool[e] # <<>> /\ IsInjective(pool[e])
  BY DEF RetrievePooled, IInv, TypeOK, Opened, OneOwner
<1>2. /\ k \in Conns /\ k \in Range(pool[e])
      /\ Tail(pool[e]) \in Seq(Conns) /\ IsInjective(Tail(pool[e]))
      /\ Range(Tail(pool[e])) = Range(pool[e]) \ {k}
      /\ Len(Tail(pool[e])) <= Len(pool[e])
  BY <1>1, QueueTail
<1>3. /\ pc[r] = "retrieve" /\ pc' = [pc EXCEPT ![r] = "write"]
      /\ conn' = [conn EXCEPT ![r] = k]
      /\ pool' = [pool EXCEPT ![e] = Tail(pool[e])]
      /\ reused' = [reused EXCEPT ![r] = @ \cup {k}]
      /\ UNCHANGED <<ep, got, why, home, used, out, in, open, executed>>
  BY DEF RetrievePooled
<1>4. /\ home[k] = e /\ used[k] /\ out[k] = <<>> /\ in[k] = <<>> /\ k # None
      /\ \A q \in Requests : conn[q] # k
      /\ \A f \in Endpoints \ {e} : k \notin Range(pool[f])
  BY <1>1, <1>2, NoneAssumption DEF IInv, PooledIsQuiet, OneOwner, Conns
<1> HIDE DEF e, k
<1>5. /\ pc'[r] = "write" /\ conn'[r] = k
      /\ \A q \in Requests \ {r} : pc'[q] = pc[q] /\ conn'[q] = conn[q]
      /\ pool'[e] = Tail(pool[e]) /\ \A f \in Endpoints \ {e} : pool'[f] = pool[f]
  BY <1>1, <1>3 DEF IInv, TypeOK
<1>6. TypeOK'
  <2>1. /\ pool' \in [Endpoints -> Seq(Conns)]
        /\ pc' \in [Requests -> Steps]
        /\ conn' \in [Requests -> Conns \cup {None}]
        /\ reused' \in [Requests -> SUBSET Conns]
    BY <1>1, <1>2, <1>3 DEF IInv, TypeOK, Steps
  <2>2. \A q \in Requests : Owns(q)' <=> conn'[q] # None
    <3>1. Owns(r)' /\ conn'[r] # None
      BY <1>4, <1>5 DEF Owns
    <3>2. \A q \in Requests \ {r} : Owns(q)' = Owns(q) /\ conn'[q] = conn[q]
      BY <1>5 DEF Owns
    <3>3. \A q \in Requests : Owns(q) <=> conn[q] # None
      BY DEF IInv, TypeOK
    <3> QED BY <3>1, <3>2, <3>3
  <2>3. UNCHANGED <<ep, got, why, home, used, out, in, open, executed>>
    BY <1>3
  <2> QED BY <2>1, <2>2, <2>3 DEF IInv, TypeOK
<1>7. \A f \in Endpoints : Range(pool'[f]) \subseteq Range(pool[f]) \ {k}
  BY <1>2, <1>4, <1>5
<1>8. OneOwner'
  <2>1. \A q, u \in Requests : q # u /\ conn'[q] # None => conn'[q] # conn'[u]
    BY <1>4, <1>5 DEF IInv, OneOwner
  <2>2. \A f \in Endpoints : \A q \in Requests : conn'[q] \notin Range(pool'[f])
    BY <1>5, <1>7 DEF IInv, OneOwner
  <2>3. \A f \in Endpoints : IsInjective(pool'[f])
    BY <1>2, <1>5 DEF IInv, OneOwner
  <2>4. \A f \in Endpoints : \A g \in Endpoints \ {f} :
            Range(pool'[f]) \cap Range(pool'[g]) = {}
    BY <1>7 DEF IInv, OneOwner
  <2> QED BY <2>1, <2>2, <2>3, <2>4 DEF OneOwner
<1>9. PooledIsQuiet'
  BY <1>3, <1>7 DEF IInv, PooledIsQuiet
<1>10. PoolBounded'
  <2> SUFFICES ASSUME NEW f \in Endpoints
               PROVE  Len(pool'[f]) <= MaxKeepalive
    BY DEF PoolBounded
  <2>1. Len(pool[f]) <= MaxKeepalive
    BY DEF IInv, PoolBounded
  <2>2. CASE f = e
    <3>1. Len(pool'[f]) <= Len(pool[f])
      BY <1>2, <1>5, <2>2
    <3>2. Len(pool'[f]) \in Nat /\ Len(pool[f]) \in Nat
      BY <1>6 DEF IInv, TypeOK
    <3> QED BY <3>1, <3>2, <2>1, KeepaliveAssumption
  <2>3. CASE f # e
    BY <1>5, <2>1, <2>3
  <2> QED BY <2>2, <2>3
<1>11. StaleNeverFails' /\ Answered'
  BY <1>3, <1>5 DEF IInv, StaleNeverFails, Answered
<1>12. Opened'
  <2>1. home[r] = None
    BY <1>3 DEF IInv, Opened
  <2>2. \A i \in Conns : used[i] => pc'[i] = "ok"
    BY <1>3, <1>5 DEF IInv, Opened, Conns
  <2>3. \A q \in Requests : why[q] # "none" => pc'[q] = "failed"
    BY <1>3, <1>5 DEF IInv, Opened
  <2> QED BY <1>3, <1>4, <1>5, <2>1, <2>2, <2>3 DEF IInv, Opened, e
<1>13. Exchange'
  <2>1. UNCHANGED <<out, in, executed>>
    BY <1>3
  <2>2. pc'[r] = "write" /\ out[conn'[r]] = <<>> /\ in[conn'[r]] = <<>>
    BY <1>4, <1>5
  <2>3. ASSUME NEW q \in Requests, q # r
        PROVE  pc'[q] = pc[q] /\ conn'[q] = conn[q]
    BY <1>5, <2>3
  <2>4. ASSUME NEW q \in Requests,
               pc'[q] \in {"handshake", "write", "push", "shutdown"}
        PROVE  out[conn'[q]] = <<>> /\ in[conn'[q]] = <<>>
    BY <2>2, <2>3, <2>4 DEF IInv, Exchange
  <2>5. ASSUME NEW q \in Requests, pc'[q] = "read"
        PROVE  \/ out[conn'[q]] \in {<<>>, <<q>>} /\ in[conn'[q]] = <<>>
               \/ /\ out[conn'[q]] = <<>>
                  /\ \E b \in BOOLEAN : in[conn'[q]] = <<[req |-> q, keep |-> b]>>
                  /\ executed[q] > 0
    <3>1. q # r
      BY <2>2, <2>5
    <3>2. pc[q] = "read" /\ conn'[q] = conn[q]
      BY <2>3, <2>5, <3>1
    <3> QED BY <3>2 DEF IInv, Exchange
  <2> QED BY <2>1, <2>4, <2>5 DEF Exchange
<1> QED BY <1>6, <1>8, <1>9, <1>10, <1>11, <1>12, <1>13 DEF IInv

(* CreateConnection opens the one connection that is named after r.        *)
LEMMA ConnectInductive ==
    ASSUME IInv, NEW r \in Requests, Connect(r)
    PROVE  IInv'
<1>1. /\ pc[r] = "connect" /\ ep[r] \in Endpoints /\ home[r] = None /\ ~Owns(r)
      /\ conn[r] = None /\ why[r] = "none" /\ ~used[r]
      /\ UNCHANGED <<pool, ep, got, used, out, in, executed, reused>>
  BY DEF Connect, IInv, Opened, TypeOK, Owns, Conns
<1>2. CASE Throw(r, "connect") /\ UNCHANGED <<home, open>>
  <2>1. ~Owns(r)' /\ conn' = [conn EXCEPT ![r] = None] /\ pc' = [pc EXCEPT ![r] = "failed"]
        /\ why' = [why EXCEPT ![r] = "connect"]
    BY <1>2 DEF Throw, Owns, IInv, TypeOK
  <2>2. out' \in [Conns -> Seq(Requests)] /\ UNCHANGED serverVars
    BY <1>1, <1>2 DEF IInv, TypeOK, serverVars
  <2> QED BY <1>1, <1>2, <2>1, <2>2, OwnStep DEF Steps, Failures
<1>3. CASE ~(Throw(r, "connect") /\ UNCHANGED <<home, open>>)
  <2> DEFINE p == IF Tls THEN "handshake" ELSE "write"
  <2>1. /\ pc' = [pc EXCEPT ![r] = p] /\ conn' = [conn EXCEPT ![r] = r]
        /\ home' = [home EXCEPT ![r] = ep[r]] /\ open' = [open EXCEPT ![r] = TRUE]
        /\ UNCHANGED why
    BY <1>3 DEF Connect
  <2>2. p \in {"handshake", "write"}
    BY TlsAssumption
  <2> HIDE DEF p
  <2>3. /\ pc'[r] = p /\ conn'[r] = r /\ home'[r] = ep[r]
        /\ \A q \in Requests \ {r} : pc'[q] = pc[q] /\ conn'[q] = conn[q]
                                     /\ home'[q] = home[q] /\ open'[q] = open[q]
    BY <2>1 DEF IInv, TypeOK, Conns
  <2>4. \A q \in Requests : conn[q] # r
    <3> SUFFICES ASSUME NEW q \in Requests, conn[q] = r
                 PROVE  FALSE
      OBVIOUS
    <3>1. Owns(q)
      BY NoneAssumption DEF IInv, TypeOK
    <3>2. home[r] \in Endpoints
      BY <3>1, OwnConnection
    <3> QED BY <3>2, <1>1, NoneAssumption
  <2>5. \A e \in Endpoints : r \notin Range(pool[e])
    BY <1>1, NoneAssumption DEF IInv, PooledIsQuiet
  <2>6. out[r] = <<>> /\ in[r] = <<>>
    BY <1>1 DEF IInv, Opened, Conns
  <2>7. TypeOK'
    <3>1. /\ pc' \in [Requests -> Steps] /\ conn' \in [Requests -> Conns \cup {None}]
          /\ home' \in [Conns -> Endpoints \cup {None}] /\ open' \in [Conns -> BOOLEAN]
      BY <1>1, <2>1, <2>2 DEF IInv, TypeOK, Steps, Conns
    <3>2. \A q \in Requests : Owns(q)' <=> conn'[q] # None
      <4>1. Owns(r)' /\ conn'[r] # None
        BY <2>2, <2>3, NoneAssumption DEF Owns
      <4>2. \A q \in Requests \ {r} : Owns(q)' = Owns(q) /\ conn'[q] = conn[q]
        BY <2>3 DEF Owns
      <4>3. \A q \in Requests : Owns(q) <=> conn[q] # None
        BY DEF IInv, TypeOK
      <4> QED BY <4>1, <4>2, <4>3
    <3>3. UNCHANGED <<pool, ep, got, why, used, out, in, executed, reused>>
      BY <1>1, <2>1
    <3> QED BY <3>1, <3>2, <3>3 DEF IInv, TypeOK
  <2>8. OneOwner'
    <3>1. \A q, u \in Requests : q # u /\ conn'[q] # None => conn'[q] # conn'[u]
      BY <2>3, <2>4 DEF IInv, OneOwner
    <3>2. \A e \in Endpoints : \A q \in Requests : conn'[q] \notin Range(pool[e])
      BY <2>3, <2>5 DEF IInv, OneOwner
    <3> QED BY <1>1, <3>1, <3>2 DEF IInv, OneOwner
  <2>9. PooledIsQuiet' /\ PoolBounded'
    <3>1. \A e \in Endpoints : \A k \in Range(pool[e]) : k \in Requests /\ k # r
      BY <2>5 DEF IInv, TypeOK, Range, Conns
    <3> QED BY <1>1, <2>3, <3>1 DEF IInv, PooledIsQuiet, PoolBounded
  <2>10. StaleNeverFails' /\ Answered'
    <3>1. \A k \in Conns : \A q \in Range(out[k]) : q \in Requests
      BY DEF IInv, TypeOK, Range
    <3> QED BY <1>1, <2>1, <2>2, <2>3, <3>1 DEF IInv, StaleNeverFails, Answered
  <2>11. Opened'
    <3>1. \A q \in Requests : pc'[q] # "idle" => ep[q] \in Endpoints
      BY <1>1, <2>3 DEF IInv, Opened
    <3>2. \A q \in Requests :
            pc'[q] \in {"idle", "retrieve", "resolve", "connect"} => home'[q] = None
      BY <2>2, <2>3 DEF IInv, Opened
    <3>3. \A k \in Conns : home'[k] = None => out[k] = <<>> /\ in[k] = <<>> /\ ~open'[k]
      BY <1>1, <2>3, NoneAssumption DEF IInv, Opened, Conns
    <3>4. \A k \in Conns : used[k] => pc'[k] = "ok"
      BY <1>1, <2>3 DEF IInv, Opened, Conns
    <3>5. \A q \in Requests : conn'[q] # None =>
            home'[conn'[q]] = ep[q]
            /\ (conn'[q] = q \/ (used[conn'[q]] /\ home'[q] = None))
      <4> SUFFICES ASSUME NEW q \in Requests \ {r}, conn[q] # None
                   PROVE  home'[conn[q]] = ep[q]
                          /\ (conn[q] = q \/ (used[conn[q]] /\ home'[q] = None))
        BY <2>3
      <4>1. conn[q] \in Requests \ {r}
        BY <2>4 DEF IInv, TypeOK, Conns
      <4> QED BY <2>3, <4>1 DEF IInv, Opened
    <3>6. \A q \in Requests : why'[q] # "none" => pc'[q] = "failed"
      BY <1>1, <2>1, <2>3 DEF IInv, Opened
    <3> QED BY <1>1, <3>1, <3>2, <3>3, <3>4, <3>5, <3>6 DEF Opened
  <2>12. Exchange'
    BY <1>1, <2>2, <2>3, <2>6 DEF IInv, Exchange
  <2> QED BY <2>7, <2>8, <2>9, <2>10, <2>11, <2>12 DEF IInv
<1> QED BY <1>2, <1>3

(* What is read is the response to the request that reads.                 *)
LEMMA ReadSucceedsInductive ==
    ASSUME IInv, NEW r \in Requests, ReadSucceeds(r)
    PROVE  IInv'
<1> DEFINE k == conn[r]
<1> USE DEF serverVars
<1>1. /\ pc[r] = "read" /\ Owns(r) /\ in[k] # <<>>
      /\ UNCHANGED <<pool, ep, conn, why, home, used, out, open, executed, reused>>
  BY DEF ReadSucceeds, Owns
<1>2. /\ k \in Conns /\ k # None /\ \A q \in Requests \ {r} : conn[q] # k
      /\ \A e \in Endpoints : k \notin Range(pool[e])
  BY <1>1, OwnConnection
<1>3. PICK b \in BOOLEAN : /\ in[k] = <<[req |-> r, keep |-> b]>>
                           /\ out[k] = <<>> /\ executed[r] > 0
  BY <1>1 DEF IInv, Exchange
<1> DEFINE p == IF b THEN "push" ELSE "shutdown"
<1>4. Head(in[k]).req = r /\ Head(in[k]).keep = b /\ Tail(in[k]) = <<>>
  BY <1>3
<1>5. /\ got' = [got EXCEPT ![r] = r] /\ pc' = [pc EXCEPT ![r] = p]
      /\ in' = [in EXCEPT ![k] = <<>>]
  <2>1. got' = [got EXCEPT ![r] = Head(in[k]).req]
    BY DEF ReadSucceeds
  <2>2. pc' = [pc EXCEPT ![r] = IF Head(in[k]).keep THEN "push" ELSE "shutdown"]
    BY DEF ReadSucceeds
  <2>3. in' = [in EXCEPT ![k] = Tail(in[k])]
    BY DEF ReadSucceeds
  <2> QED BY <1>4, <2>1, <2>2, <2>3
<1>6. p \in {"push", "shutdown"}
  OBVIOUS
<1> HIDE DEF k, p
<1>7. /\ pc'[r] = p /\ got'[r] = r /\ in'[k] = <<>>
      /\ \A q \in Requests \ {r} : pc'[q] = pc[q] /\ got'[q] = got[q]
      /\ \A i \in Conns \ {k} : in'[i] = in[i]
  BY <1>2, <1>5 DEF IInv, TypeOK
<1>8. \A q \in Requests : Owns(q)' = Owns(q)
  BY <1>1, <1>6, <1>7 DEF Owns
<1>9. TypeOK'
  <2>1. pc' \in [Requests -> Steps] /\ got' \in [Requests -> Requests \cup {None}]
    BY <1>5, <1>6 DEF IInv, TypeOK, Steps
  <2>2. in' \in [Conns -> Seq(Response)]
    <3>1. in \in [Conns -> Seq(Response)] /\ <<>> \in Seq(Response)
      BY DEF IInv, TypeOK
    <3> QED BY <1>5, <3>1
  <2> QED BY <1>1, <1>8, <2>1, <2>2 DEF IInv, TypeOK
<1>10. OneOwner' /\ PoolBounded' /\ StaleNeverFails'
  BY <1>1 DEF IInv, OneOwner, PoolBounded, StaleNeverFails
<1>11. PooledIsQuiet'
  <2>1. \A e \in Endpoints : \A i \in Range(pool[e]) : i \in Conns /\ i # k
    BY <1>2 DEF IInv, TypeOK, Range
  <2> QED BY <1>1, <1>7, <2>1 DEF IInv, PooledIsQuiet
<1>12. Opened'
  <2>1. \A i \in Conns : used[i] => pc'[i] = "ok"
    BY <1>1, <1>7 DEF IInv, Opened, Conns
  <2>2. \A i \in Conns : home[i] = None => out[i] = <<>> /\ in'[i] = <<>> /\ ~open[i]
    BY <1>7 DEF IInv, Opened
  <2> QED BY <1>1, <1>6, <1>7, <2>1, <2>2 DEF IInv, Opened
<1>13. Exchange'
  <2>1. \A q \in Requests \ {r} : Owns(q) => conn[q] \in Conns \ {k}
    BY <1>2, OwnConnection
  <2>2. conn[r] = k
    BY DEF k
  <2>3. /\ pc'[r] \in {"push", "shutdown"} /\ out'[conn'[r]] = <<>> /\ in'[conn'[r]] = <<>>
    BY <1>1, <1>3, <1>6, <1>7, <2>2
  <2>4. ASSUME NEW q \in Requests \ {r}, Owns(q)
        PROVE  pc'[q] = pc[q] /\ out'[conn'[q]] = out[conn[q]] /\ in'[conn'[q]] = in[conn[q]]
    BY <1>1, <1>7, <2>1, <2>4
  <2>5. \A q \in Requests \ {r} : Owns(q) <=> pc'[q] \in {"handshake", "write", "read", "push", "shutdown"}
    BY <1>7 DEF Owns
  <2>6. executed' = executed
    BY <1>1
  <2> QED BY <2>3, <2>4, <2>5, <2>6 DEF IInv, Exchange
<1>14. Answered'
  <2>1. \A i \in Conns : \A q \in Range(out[i]) : q \in Requests
    BY DEF IInv, TypeOK, Range
  <2> QED BY <1>1, <1>3, <1>6, <1>7, <2>1 DEF IInv, Answered
<1> QED BY <1>9, <1>10, <1>11, <1>12, <1>13, <1>14 DEF IInv

(* What goes into the pool is quiet, marked and in no other place.         *)
LEMMA PushInductive ==
    ASSUME IInv, NEW r \in Requests, Push(r)
    PROVE  IInv'
<1> DEFINE k == conn[r]
           e == ep[r]
<1> USE DEF serverVars
<1>1. /\ pc[r] = "push" /\ Owns(r)
      /\ used' = [used EXCEPT ![k] = TRUE]
      /\ conn' = [conn EXCEPT ![r] = None] /\ pc' = [pc EXCEPT ![r] = "ok"]
      /\ pool' = IF Full(e) THEN pool ELSE [pool EXCEPT ![e] = Append(pool[e], k)]
      /\ UNCHANGED <<ep, got, why, home, out, in, open, executed, reused>>
  BY DEF Push, Owns
<1>2. /\ k \in Conns /\ k # None /\ e \in Endpoints /\ home[k] = e
      /\ \A q \in Requests \ {r} : conn[q] # k
      /\ \A f \in Endpoints : k \notin Range(pool[f])
  BY <1>1, OwnConnection
<1>3. /\ out[k] = <<>> /\ in[k] = <<>> /\ got[r] = r /\ executed[r] > 0
      /\ k = r \/ pc[k] = "ok"
      /\ why[r] = "none" /\ conn[r] = k
  BY <1>1, <1>2 DEF IInv, Exchange, Answered, Opened, TypeOK, Conns
<1>4. /\ pool[e] \in Seq(Conns) /\ IsInjective(pool[e])
      /\ Append(pool[e], k) \in Seq(Conns) /\ IsInjective(Append(pool[e], k))
      /\ Range(Append(pool[e], k)) = Range(pool[e]) \cup {k}
  <2>1. pool[e] \in Seq(Conns) /\ IsInjective(pool[e])
    BY <1>2 DEF IInv, TypeOK, OneOwner
  <2> QED BY <1>2, <2>1, QueueAppend
<1> HIDE DEF k, e
<1>5. /\ pc'[r] = "ok" /\ conn'[r] = None /\ used'[k] = TRUE
      /\ \A q \in Requests \ {r} : pc'[q] = pc[q] /\ conn'[q] = conn[q]
      /\ \A i \in Conns \ {k} : used'[i] = used[i]
      /\ \A f \in Endpoints \ {e} : pool'[f] = pool[f]
      /\ pool'[e] \in {pool[e], Append(pool[e], k)}
  BY <1>1, <1>2 DEF IInv, TypeOK
<1>6. TypeOK'
  <2>1. /\ pc' \in [Requests -> Steps] /\ conn' \in [Requests -> Conns \cup {None}]
        /\ used' \in [Conns -> BOOLEAN]
    BY <1>1, <1>2 DEF IInv, TypeOK, Steps
  <2>2. pool' \in [Endpoints -> Seq(Conns)]
    BY <1>1, <1>2, <1>4 DEF IInv, TypeOK
  <2>3. \A q \in Requests : Owns(q)' <=> conn'[q] # None
    <3>1. ~Owns(r)' /\ conn'[r] = None
      BY <1>5 DEF Owns
    <3>2. \A q \in Requests \ {r} : Owns(q)' = Owns(q) /\ conn'[q] = conn[q]
      BY <1>5 DEF Owns
    <3>3. \A q \in Requests : Owns(q) <=> conn[q] # None
      BY DEF IInv, TypeOK
    <3> QED BY <3>1, <3>2, <3>3
  <2>4. UNCHANGED <<ep, got, why, home, out, in, open, executed, reused>>
    BY <1>1
  <2> QED BY <2>1, <2>2, <2>3, <2>4 DEF IInv, TypeOK
<1>7. /\ \A f \in Endpoints \ {e} : Range(pool'[f]) = Range(pool[f])
      /\ Range(pool'[e]) \subseteq Range(pool[e]) \cup {k}
  BY <1>4, <1>5
<1>8. OneOwner'
  <2>1. \A q, u \in Requests : q # u /\ conn'[q] # None => conn'[q] # conn'[u]
    BY <1>5 DEF IInv, OneOwner
  <2>2. \A f \in Endpoints : \A q \in Requests : conn'[q] \notin Range(pool'[f])
    <3>1. \A f \in Endpoints : None \notin Range(pool[f])
      BY NoneAssumption DEF IInv, TypeOK, Range, Conns
    <3>2. \A q \in Requests : conn'[q] # k /\ conn'[q] \in {conn[q], None}
      BY <1>2, <1>5
    <3> QED BY <1>7, <3>1, <3>2 DEF IInv, OneOwner
  <2>3. \A f \in Endpoints : IsInjective(pool'[f])
    BY <1>4, <1>5 DEF IInv, OneOwner
  <2>4. \A f \in Endpoints : \A g \in Endpoints \ {f} :
            Range(pool'[f]) \cap Range(pool'[g]) = {}
    BY <1>2, <1>7 DEF IInv, OneOwner
  <2> QED BY <2>1, <2>2, <2>3, <2>4 DEF OneOwner
<1>9. PooledIsQuiet'
  <2> SUFFICES ASSUME NEW f \in Endpoints, NEW i \in Range(pool'[f])
               PROVE  home[i] = f /\ used'[i] /\ out[i] = <<>> /\ in[i] = <<>>
    BY <1>1 DEF PooledIsQuiet
  <2>1. CASE i = k
    <3>1. f = e
      BY <1>2, <1>7, <2>1
    <3> QED BY <1>2, <1>3, <1>5, <2>1, <3>1
  <2>2. CASE i # k
    <3>1. i \in Range(pool[f])
      <4>1. CASE f = e
        BY <1>7, <2>2, <4>1
      <4>2. CASE f # e
        BY <1>7, <4>2
      <4> QED BY <4>1, <4>2
    <3>2. i \in Conns
      BY <3>1 DEF IInv, TypeOK, Range
    <3>3. used'[i] = used[i]
      BY <1>5, <2>2, <3>2
    <3> QED BY <3>1, <3>3 DEF IInv, PooledIsQuiet
  <2> QED BY <2>1, <2>2
<1>10. PoolBounded'
  <2> SUFFICES ASSUME NEW f \in Endpoints
               PROVE  Len(pool'[f]) <= MaxKeepalive
    BY DEF PoolBounded
  <2>1. Len(pool[f]) <= MaxKeepalive /\ Len(pool[f]) \in Nat
    BY DEF IInv, PoolBounded, TypeOK
  <2>2. CASE Full(e) \/ f # e
    BY <1>1, <1>5, <2>1, <2>2
  <2>3. CASE ~Full(e) /\ f = e
    <3>1. Len(pool[f]) < MaxKeepalive
      BY <2>1, <2>3, KeepaliveAssumption DEF Full
    <3>2. Len(pool'[f]) <= Len(pool[f]) + 1
      <4>1. Len(Append(pool[e], k)) = Len(pool[e]) + 1
        BY <1>4
      <4> QED BY <1>5, <2>1, <2>3, <4>1
    <3> QED BY <2>1, <3>1, <3>2, <1>6, KeepaliveAssumption DEF TypeOK
  <2> QED BY <2>2, <2>3
<1>11. StaleNeverFails' /\ Answered'
  <2>1. \A i \in Conns : \A q \in Range(out[i]) : q \in Requests
    BY DEF IInv, TypeOK, Range
  <2> QED BY <1>1, <1>3, <1>5, <2>1 DEF IInv, StaleNeverFails, Answered
<1>12. Opened'
  <2>1. \A i \in Conns : used'[i] => pc'[i] = "ok"
    BY <1>2, <1>3, <1>5 DEF IInv, Opened, Conns
  <2>2. ASSUME NEW q \in Requests, conn'[q] # None, used[conn[q]]
        PROVE  used'[conn[q]]
    <3>1. q # r
      BY <1>5, <2>2
    <3>2. conn[q] \in Conns \ {k}
      BY <1>2, <1>5, <2>2, <3>1 DEF IInv, TypeOK
    <3> QED BY <1>5, <2>2, <3>2
  <2>3. /\ \A q \in Requests : pc'[q] # "idle" => ep[q] \in Endpoints
        /\ \A q \in Requests :
              pc'[q] \in {"idle", "retrieve", "resolve", "connect"} => home[q] = None
    BY <1>1, <1>5 DEF IInv, Opened
  <2>4. \A q \in Requests : conn'[q] # None =>
          home[conn'[q]] = ep[q]
          /\ (conn'[q] = q \/ (used'[conn'[q]] /\ home[q] = None))
    BY <1>5, <2>2 DEF IInv, Opened
  <2>5. \A q \in Requests : why[q] # "none" => pc'[q] = "failed"
    BY <1>3, <1>5 DEF IInv, Opened
  <2> QED BY <1>1, <2>1, <2>3, <2>4, <2>5 DEF IInv, Opened
<1>13. Exchange'
  <2>1. UNCHANGED <<out, in, executed>>
    BY <1>1
  <2>2. pc'[r] = "ok"
    BY <1>5
  <2>3. ASSUME NEW q \in Requests, q # r
        PROVE  pc'[q] = pc[q] /\ conn'[q] = conn[q]
    BY <1>5, <2>3
  <2>4. ASSUME NEW q \in Requests,
               pc'[q] \in {"handshake", "write", "push", "shutdown"}
        PROVE  out[conn'[q]] = <<>> /\ in[conn'[q]] = <<>>
    BY <2>2, <2>3, <2>4 DEF IInv, Exchange
  <2>5. ASSUME NEW q \in Requests, pc'[q] = "read"
        PROVE  \/ out[conn'[q]] \in {<<>>, <<q>>} /\ in[conn'[q]] = <<>>
               \/ /\ out[conn'[q]] = <<>>
                  /\ \E b \in BOOLEAN : in[conn'[q]] = <<[req |-> q, keep |-> b]>>
                  /\ executed[q] > 0
    <3>1. q # r
      BY <2>2, <2>5
    <3>2. pc[q] = "read" /\ conn'[q] = conn[q]
      BY <2>3, <2>5, <3>1
    <3> QED BY <3>2 DEF IInv, Exchange
  <2> QED BY <2>1, <2>4, <2>5 DEF Exchange
<1> QED BY <1>6, <1>8, <1>9, <1>10, <1>11, <1>12, <1>13 DEF IInv

(* What a server does on k reaches only the request that reads from k.     *)
LEMMA ServerStepInductive ==
    ASSUME IInv, NEW k \in Conns, ServerStep(k)
    PROVE  IInv'
<1> USE DEF requestVars
<1>1. /\ UNCHANGED <<pool, pc, ep, conn, got, why, home, used, reused>>
      /\ open[k] /\ open' \in [Conns -> BOOLEAN]
      /\ \A i \in Conns : open'[i] => open[i]
  <2>1. /\ UNCHANGED <<pool, pc, ep, conn, got, why, home, used, reused>> /\ open[k]
        /\ \E b \in BOOLEAN : open' = [open EXCEPT ![k] = b]
    BY DEF ServerStep, ServerResponds, ServerDies, ServerCloses
  <2> QED BY <2>1 DEF IInv, TypeOK
<1>2. out[k] \in Seq(Requests) /\ in[k] \in Seq(Response)
  BY DEF IInv, TypeOK
<1>3. /\ out' \in [Conns -> Seq(Requests)] /\ Range(out'[k]) \subseteq Range(out[k])
      /\ \A i \in Conns \ {k} : out'[i] = out[i]
      /\ out[k] = <<>> => out'[k] = <<>>
      /\ \A r \in Requests : out[k] = <<r>> => out'[k] = <<>>
  <2>1. <<>> \in Seq(Requests) /\ Range(<<>>) \subseteq Range(out[k])
    BY DEF Range
  <2>2. out[k] # <<>> => Tail(out[k]) \in Seq(Requests) /\ Range(Tail(out[k])) \subseteq Range(out[k])
    BY <1>2, TailRange
  <2>3. \A r \in Requests : out[k] = <<r>> => Tail(out[k]) = <<>>
    OBVIOUS
  <2>4. \/ out' = [out EXCEPT ![k] = <<>>]
        \/ out[k] # <<>> /\ out' = [out EXCEPT ![k] = Tail(out[k])]
    BY DEF ServerStep, ServerResponds, ServerDies, ServerCloses
  <2>5. out \in [Conns -> Seq(Requests)]
    BY DEF IInv, TypeOK
  <2>6. CASE out' = [out EXCEPT ![k] = <<>>]
    BY <2>1, <2>5, <2>6
  <2>7. CASE out[k] # <<>> /\ out' = [out EXCEPT ![k] = Tail(out[k])]
    BY <2>2, <2>3, <2>5, <2>7
  <2> QED BY <2>4, <2>6, <2>7
<1>4. /\ in' \in [Conns -> Seq(Response)]
      /\ \A i \in Conns \ {k} : in'[i] = in[i]
      /\ \/ in'[k] = in[k]
         \/ /\ out[k] # <<>>
            /\ \E b \in BOOLEAN : in'[k] = Append(in[k], [req |-> Head(out[k]), keep |-> b])
            /\ executed'[Head(out[k])] > 0
      /\ executed' \in [Requests -> Nat]
      /\ \A r \in Requests : executed'[r] >= executed[r]
  <2>1. CASE UNCHANGED <<in, executed>>
    BY <2>1 DEF IInv, TypeOK
  <2>2. CASE out[k] # <<>> /\ executed' = [executed EXCEPT ![Head(out[k])] = @ + 1]
    <3>1. Head(out[k]) \in Requests
      BY <1>2, <2>2, TailRange
    <3>2. /\ executed' \in [Requests -> Nat]
          /\ \A r \in Requests : executed'[r] >= executed[r]
          /\ executed'[Head(out[k])] > 0
      BY <2>2, <3>1 DEF IInv, TypeOK
    <3>3. CASE UNCHANGED in
      BY <3>2, <3>3 DEF IInv, TypeOK
    <3>4. ASSUME NEW b \in BOOLEAN,
                 in' = [in EXCEPT ![k] = Append(in[k], [req |-> Head(out[k]), keep |-> b])]
          PROVE  /\ in' \in [Conns -> Seq(Response)]
                 /\ \A i \in Conns \ {k} : in'[i] = in[i]
                 /\ \E c \in BOOLEAN : in'[k] = Append(in[k], [req |-> Head(out[k]), keep |-> c])
      <4>1. [req |-> Head(out[k]), keep |-> b] \in Response
        BY <3>1 DEF Response
      <4>2. Append(in[k], [req |-> Head(out[k]), keep |-> b]) \in Seq(Response)
        BY <1>2, <4>1
      <4> QED BY <3>4, <4>2 DEF IInv, TypeOK
    <3>5. \/ UNCHANGED in
          \/ \E b \in BOOLEAN :
                in' = [in EXCEPT ![k] = Append(in[k], [req |-> Head(out[k]), keep |-> b])]
      BY DEF ServerStep, ServerResponds, ServerDies, ServerCloses
    <3>6. /\ in' \in [Conns -> Seq(Response)]
          /\ \A i \in Conns \ {k} : in'[i] = in[i]
          /\ \/ in'[k] = in[k]
             \/ \E c \in BOOLEAN : in'[k] = Append(in[k], [req |-> Head(out[k]), keep |-> c])
      BY <3>3, <3>4, <3>5
    <3> QED BY <2>2, <3>2, <3>6
  <2>3. \/ UNCHANGED <<in, executed>>
        \/ out[k] # <<>> /\ executed' = [executed EXCEPT ![Head(out[k])] = @ + 1]
    BY DEF ServerStep, ServerResponds, ServerDies, ServerCloses
  <2> QED BY <2>1, <2>2, <2>3
<1>5. home[k] # None
  BY <1>1 DEF IInv, Opened
<1>6. ASSUME NEW i \in Conns, out[i] = <<>>
      PROVE  out'[i] = <<>> /\ in'[i] = in[i]
  BY <1>3, <1>4, <1>6
<1>7. TypeOK'
  BY <1>1, <1>3, <1>4 DEF IInv, TypeOK, Owns
<1>8. OneOwner' /\ PoolBounded' /\ StaleNeverFails'
  BY <1>1 DEF IInv, OneOwner, PoolBounded, StaleNeverFails
<1>9. PooledIsQuiet'
  <2>1. \A e \in Endpoints : \A i \in Range(pool[e]) : i \in Conns
    BY DEF IInv, TypeOK, Range
  <2> QED BY <1>1, <1>6, <2>1 DEF IInv, PooledIsQuiet
<1>10. Opened'
  <2>1. \A i \in Conns : home[i] = None => out'[i] = <<>> /\ in'[i] = <<>> /\ ~open'[i]
    BY <1>1, <1>5, <1>6 DEF IInv, Opened
  <2> QED BY <1>1, <2>1 DEF IInv, Opened
<1>11. Exchange'
  <2> SUFFICES ASSUME NEW r \in Requests, Owns(r)
               PROVE  /\ pc[r] \in {"handshake", "write", "push", "shutdown"} =>
                            out'[conn[r]] = <<>> /\ in'[conn[r]] = <<>>
                      /\ pc[r] = "read" =>
                            \/ out'[conn[r]] \in {<<>>, <<r>>} /\ in'[conn[r]] = <<>>
                            \/ /\ out'[conn[r]] = <<>>
                               /\ \E b \in BOOLEAN : in'[conn[r]] = <<[req |-> r, keep |-> b]>>
                               /\ executed'[r] > 0
    BY <1>1 DEF Exchange, Owns
  <2>1. conn[r] \in Conns
    BY OwnConnection
  <2>2. CASE out[conn[r]] = <<>>
    <3>1. out'[conn[r]] = <<>> /\ in'[conn[r]] = in[conn[r]]
      BY <1>6, <2>1, <2>2
    <3>2. executed[r] > 0 => executed'[r] > 0
      BY <1>4 DEF IInv, TypeOK
    <3> QED BY <2>2, <3>1, <3>2 DEF IInv, Exchange
  <2>3. CASE out[conn[r]] # <<>>
    <3>1. pc[r] = "read" /\ out[conn[r]] = <<r>> /\ in[conn[r]] = <<>>
      BY <2>3 DEF IInv, Exchange, Owns
    <3>2. CASE conn[r] # k
      BY <1>3, <1>4, <2>1, <3>1, <3>2
    <3>3. CASE conn[r] = k
      <4>1. out'[k] = <<>> /\ Head(out[k]) = r
        BY <1>3, <3>1, <3>3
      <4>2. \A b \in BOOLEAN : Append(<<>>, [req |-> r, keep |-> b]) = <<[req |-> r, keep |-> b]>>
        OBVIOUS
      <4>3. CASE in'[k] = in[k]
        BY <3>1, <3>3, <4>1, <4>3
      <4>4. CASE in'[k] # in[k]
        <5>1. executed'[r] > 0
              /\ \E b \in BOOLEAN : in'[k] = Append(<<>>, [req |-> r, keep |-> b])
          BY <1>4, <3>1, <3>3, <4>1, <4>4
        <5> QED BY <3>1, <3>3, <4>1, <4>2, <5>1
      <4> QED BY <4>3, <4>4
    <3> QED BY <3>2, <3>3
  <2> QED BY <2>2, <2>3
<1>12. Answered'
  <2>1. \A i \in Conns : \A q \in Range(out'[i]) : pc[q] # "idle"
    BY <1>3 DEF IInv, Answered
  <2>2. \A r \in Requests : executed[r] > 0 => executed'[r] > 0
    BY <1>4 DEF IInv, TypeOK
  <2> QED BY <1>1, <2>1, <2>2 DEF IInv, Answered
<1> QED BY <1>7, <1>8, <1>9, <1>10, <1>11, <1>12 DEF IInv

LEMMA InitInductive == Init => IInv
<1> SUFFICES ASSUME Init PROVE IInv
  OBVIOUS
<1>1. TypeOK
  BY DEF Init, TypeOK, Steps, Owns
<1>2. OneOwner
  BY DEF Init, OneOwner, IsInjective, Range
<1>3. PooledIsQuiet /\ PoolBounded /\ StaleNeverFails
  BY KeepaliveAssumption DEF Init, PooledIsQuiet, PoolBounded, StaleNeverFails, Range
<1>4. Opened /\ Exchange
  BY DEF Init, Opened, Exchange, Conns
<1>5. Answered
  BY DEF Init, Answered, Range
<1> QED BY <1>1, <1>2, <1>3, <1>4, <1>5 DEF IInv

LEMMA NextInductive == IInv /\ [Next]_vars => IInv'
<1> SUFFICES ASSUME IInv, [Next]_vars
             PROVE  IInv'
  OBVIOUS
<1>1. ASSUME NEW r \in Requests, RequestStep(r)
      PROVE  IInv'
  BY <1>1, RetrievePooledInductive, ConnectInductive, ReadSucceedsInductive,
     PushInductive, SimpleStepInductive DEF RequestStep
<1>2. ASSUME NEW r \in Requests, NEW e \in Endpoints, Send(r, e)
      PROVE  IInv'
  BY <1>2, SendInductive
<1>3. ASSUME NEW k \in Conns, ServerStep(k)
      PROVE  IInv'
  BY <1>3, ServerStepInductive
<1>4. CASE UNCHANGED vars
  <2>1. UNCHANGED <<pool, pc, ep, conn, got, why, home, used, out, in, open, executed, reused>>
    BY <1>4 DEF vars, requestVars, connVars, serverVars
  <2>2. TypeOK'
    BY <2>1 DEF IInv, TypeOK, Owns
  <2>3. OneOwner' /\ PooledIsQuiet'
    BY <2>1 DEF IInv, OneOwner, PooledIsQuiet
  <2>4. PoolBounded' /\ StaleNeverFails'
    BY <2>1 DEF IInv, PoolBounded, StaleNeverFails
  <2>5. Opened'
    BY <2>1 DEF IInv, Opened
  <2>6. Exchange'
    BY <2>1 DEF IInv, Exchange
  <2>7. Answered'
    BY <2>1 DEF IInv, Answered
  <2> QED BY <2>2, <2>3, <2>4, <2>5, <2>6, <2>7 DEF IInv
<1> QED BY <1>1, <1>2, <1>3, <1>4 DEF Next

(* IInv holds in every reachable state.                                    *)
THEOREM InductiveInvariant == Spec => []IInv
BY InitInductive, NextInductive, PTL DEF Spec

(* Every variable of the transport keeps its type, and a request owns a    *)
(* connection exactly at the steps that use one.                           *)
THEOREM TypeCorrect == Spec => []TypeOK
<1>1. IInv => TypeOK
  BY DEF IInv
<1> QED BY <1>1, InductiveInvariant, PTL

(* ConnectionPool hands a connection to one coroutine at a time, whatever  *)
(* the number of requests and the limit of the pool.                       *)
THEOREM OneOwnerCorrect == Spec => []OneOwner
<1>1. IInv => OneOwner
  BY DEF IInv
<1> QED BY <1>1, InductiveInvariant, PTL

(* What Push keeps is idle, leads to its endpoint and is marked used.      *)
THEOREM PooledIsQuietCorrect == Spec => []PooledIsQuiet
<1>1. IInv => PooledIsQuiet
  BY DEF IInv
<1> QED BY <1>1, InductiveInvariant, PTL

(* Push never exceeds maxKeepalive_, however many requests push.           *)
THEOREM PoolBoundedCorrect == Spec => []PoolBounded
<1>1. IInv => PoolBounded
  BY DEF IInv
<1> QED BY <1>1, InductiveInvariant, PTL

(* SendRequest returns the response to its own request.                    *)
THEOREM OwnResponseCorrect == Spec => []OwnResponse
<1>1. IInv => OwnResponse
  BY DEF IInv, Answered, OwnResponse
<1> QED BY <1>1, InductiveInvariant, PTL

(* ShouldRetry: no request fails on a connection it did not open.          *)
THEOREM StaleNeverFailsCorrect == Spec => []StaleNeverFails
<1>1. IInv => StaleNeverFails
  BY DEF IInv
<1> QED BY <1>1, InductiveInvariant, PTL

-----------------------------------------------------------------------------
(* Every step of the transport is a step of its abstract specification.    *)
LEMMA RequestStepRefines ==
    ASSUME IInv, NEW r \in Requests, RequestStep(r)
    PROVE  [Abstract!Next]_<<phase, executed>>
<1>1. /\ pc[r] \in Steps \ {"idle", "ok", "failed"} /\ UNCHANGED executed
      /\ \E s \in Steps \ {"idle"} : pc' = [pc EXCEPT ![r] = s] /\ (s = "ok" => executed[r] > 0)
  <2>1. pc[r] \in {"push", "shutdown"} => executed[r] > 0
    BY DEF IInv, Answered
  <2>2. /\ UNCHANGED executed
        /\ pc[r] \in {"retrieve", "resolve", "connect", "handshake", "write", "read",
                      "push", "shutdown"}
    BY DEF RequestStep, RetrievePooled, RetrieveNone, Resolve, Connect, Handshake,
       WriteSucceeds, WriteFails, ReadSucceeds, ReadFails, Push, Shutdown, serverVars
  <2>3. \E s \in {"write", "resolve", "connect", "handshake", "read", "push", "shutdown",
                  "retrieve", "failed", "ok"} :
            pc' = [pc EXCEPT ![r] = s] /\ (s = "ok" => pc[r] \in {"push", "shutdown"})
    BY DEF RequestStep, RetrievePooled, RetrieveNone, Resolve, Connect, Handshake,
       WriteSucceeds, WriteFails, ReadSucceeds, ReadFails, Push, Shutdown, OnError, Throw
  <2> QED BY <2>1, <2>2, <2>3 DEF Steps
<1>2. PICK s \in Steps \ {"idle"} : pc' = [pc EXCEPT ![r] = s] /\ (s = "ok" => executed[r] > 0)
  BY <1>1
<1>3. pc \in [Requests -> Steps]
  BY DEF IInv, TypeOK
<1>4. phase[r] = "sending"
  BY <1>1 DEF phase, Steps
<1>5. phase' = [phase EXCEPT ![r] = IF s \in {"ok", "failed"} THEN s ELSE "sending"]
  BY <1>2, <1>3 DEF phase
<1>6. CASE s = "ok"
  BY <1>1, <1>2, <1>4, <1>5, <1>6 DEF Abstract!Next, Abstract!Return
<1>7. CASE s = "failed"
  BY <1>1, <1>4, <1>5, <1>7 DEF Abstract!Next, Abstract!Fail
<1>8. CASE s \notin {"ok", "failed"}
  <2>1. phase' = phase
    BY <1>4, <1>5, <1>8 DEF phase
  <2> QED BY <1>1, <2>1
<1> QED BY <1>6, <1>7, <1>8

LEMMA NextRefines == IInv /\ [Next]_vars => [Abstract!Next]_<<phase, executed>>
<1> SUFFICES ASSUME IInv, [Next]_vars
             PROVE  [Abstract!Next]_<<phase, executed>>
  OBVIOUS
<1>1. ASSUME NEW r \in Requests, RequestStep(r)
      PROVE  [Abstract!Next]_<<phase, executed>>
  BY <1>1, RequestStepRefines
<1>2. ASSUME NEW r \in Requests, NEW e \in Endpoints, Send(r, e)
      PROVE  Abstract!Begin(r)
  <2>1. phase[r] = "idle" /\ UNCHANGED executed
    BY <1>2 DEF Send, phase, serverVars
  <2>2. phase' = [phase EXCEPT ![r] = "sending"]
    BY <1>2 DEF Send, phase, IInv, TypeOK
  <2> QED BY <2>1, <2>2 DEF Abstract!Begin
<1>3. ASSUME NEW k \in Conns, ServerStep(k)
      PROVE  [Abstract!Next]_<<phase, executed>>
  <2>1. phase' = phase
    BY <1>3 DEF phase, ServerStep, ServerResponds, ServerDies, ServerCloses, requestVars
  <2>2. CASE UNCHANGED executed
    BY <2>1, <2>2
  <2>3. CASE out[k] # <<>> /\ executed' = [executed EXCEPT ![Head(out[k])] = @ + 1]
    <3>1. out[k] \in Seq(Requests)
      BY DEF IInv, TypeOK
    <3>2. Head(out[k]) \in Requests /\ Head(out[k]) \in Range(out[k])
      BY <2>3, <3>1, TailRange
    <3>3. pc[Head(out[k])] # "idle"
      BY <3>2 DEF IInv, Answered
    <3>4. phase[Head(out[k])] # "idle"
      BY <3>2, <3>3 DEF phase
    <3> QED BY <2>1, <2>3, <3>2, <3>4 DEF Abstract!Next, Abstract!Execute
  <2> QED BY <1>3, <2>2, <2>3 DEF ServerStep, ServerResponds, ServerDies, ServerCloses
<1>4. CASE UNCHANGED vars
  BY <1>4 DEF vars, requestVars, serverVars, phase
<1> QED BY <1>1, <1>2, <1>3, <1>4 DEF Next, Abstract!Next

(* The pool, its connections and its retries implement the transport that  *)
(* the operations are built on.                                            *)
THEOREM TransportImplemented == Spec => ImplementsTransport
<1>1. Init => Abstract!Init
  BY DEF Init, Abstract!Init, phase
<1>2. IInv /\ [Next]_vars => [Abstract!Next]_<<phase, executed>>
  BY NextRefines
<1> QED BY <1>1, <1>2, InductiveInvariant, PTL DEF Spec, ImplementsTransport, Abstract!Spec, Abstract!vars

-----------------------------------------------------------------------------
(* How often servers execute a request: every execution is accounted for   *)
(* by a connection.                                                        *)

(* The connections r was given, and those of them that it has not written  *)
(* to yet or on which it is still under way.                               *)
Taken(r) == reused[r] \cup (IF home[r] # None THEN {r} ELSE {})

Unwritten(r) == IF pc[r] \in {"handshake", "write"} THEN {conn[r]} ELSE {}
Pending(r) == {k \in Conns : r \in Range(out[k])} \cup Unwritten(r)

(* Each execution has used up one of the connections taken.                *)
Accounted ==
    \A r \in Requests :
        /\ IsFiniteSet(reused[r])
        /\ Pending(r) \subseteq Taken(r)
        /\ executed[r] <= Cardinality(Taken(r) \ Pending(r))

(* A request does not meet a connection that failed under it again.        *)
NeverAgain ==
    \A r \in Requests : \A k \in reused[r] :
        /\ home[k] # None
        /\ pc[r] # "ok" =>
            /\ \A e \in Endpoints : k \notin Range(pool[e])
            /\ \A q \in Requests \ {r} : conn[q] # k

OneUnderWay == \A k \in Conns : Len(out[k]) <= 1

EInv == Accounted /\ NeverAgain /\ OneUnderWay

-----------------------------------------------------------------------------
LEMMA TakenIsFinite ==
    ASSUME NEW r, IsFiniteSet(reused[r])
    PROVE  /\ IsFiniteSet(Taken(r))
           /\ Cardinality(Taken(r)) \in Nat
           /\ Cardinality(reused[r]) \in Nat
           /\ Cardinality(Taken(r)) <= Cardinality(reused[r]) + 1
<1>1. IsFiniteSet(Taken(r)) /\ Cardinality(reused[r]) \in Nat
      /\ Cardinality(Taken(r)) <= Cardinality(reused[r]) + 1
  <2>1. Cardinality(reused[r]) \in Nat
    BY FS_CardinalityType
  <2>2. CASE home[r] # None
    <3>1. Taken(r) = reused[r] \cup {r}
      BY <2>2 DEF Taken
    <3> QED BY <2>1, <3>1, FS_AddElement
  <2>3. CASE home[r] = None
    <3>1. Taken(r) = reused[r]
      BY <2>3 DEF Taken
    <3> QED BY <2>1, <3>1
  <2> QED BY <2>1, <2>2, <2>3
<1> QED BY <1>1, FS_CardinalityType

(* Whatever is no longer pending adds to what the executions may use up.   *)
LEMMA LessPending ==
    ASSUME NEW T, IsFiniteSet(T), NEW P, NEW Q, Q \subseteq P
    PROVE  /\ Cardinality(T \ P) \in Nat /\ Cardinality(T \ Q) \in Nat
           /\ Cardinality(T \ P) <= Cardinality(T \ Q)
           /\ \A k \in (T \cap P) \ Q : Cardinality(T \ P) + 1 <= Cardinality(T \ Q)
<1>1. IsFiniteSet(T \ Q) /\ IsFiniteSet(T \ P)
  <2>1. (T \ Q) \in SUBSET T /\ (T \ P) \in SUBSET T
    OBVIOUS
  <2> QED BY <2>1, FS_Subset
<1>2. Cardinality(T \ P) \in Nat /\ Cardinality(T \ Q) \in Nat
  BY <1>1, FS_CardinalityType
<1>3. Cardinality(T \ P) <= Cardinality(T \ Q)
  <2>1. (T \ P) \in SUBSET (T \ Q)
    OBVIOUS
  <2> QED BY <1>1, <2>1, FS_Subset
<1>4. ASSUME NEW k \in (T \cap P) \ Q
      PROVE  Cardinality(T \ P) + 1 <= Cardinality(T \ Q)
  <2>1. ((T \ P) \cup {k}) \in SUBSET (T \ Q) /\ k \notin T \ P
    BY <1>4
  <2>2. Cardinality((T \ P) \cup {k}) = Cardinality(T \ P) + 1
    BY <1>1, <2>1, FS_AddElement
  <2>3. Cardinality((T \ P) \cup {k}) <= Cardinality(T \ Q)
    BY <1>1, <2>1, FS_Subset
  <2> QED BY <2>2, <2>3
<1> QED BY <1>2, <1>3, <1>4

(* A step that takes and executes nothing, and adds nothing pending.       *)
LEMMA AccountKept ==
    ASSUME IInv, EInv, UNCHANGED <<home, reused, executed>>,
           \A r \in Requests : Pending(r)' \subseteq Pending(r)
    PROVE  Accounted'
<1> SUFFICES ASSUME NEW r \in Requests
             PROVE  /\ IsFiniteSet(reused'[r])
                    /\ Pending(r)' \subseteq Taken(r)'
                    /\ executed'[r] <= Cardinality(Taken(r)' \ Pending(r)')
  BY DEF Accounted
<1>1. Taken(r)' = Taken(r) /\ IsFiniteSet(Taken(r))
  BY TakenIsFinite DEF EInv, Accounted, Taken
<1>2. /\ Cardinality(Taken(r) \ Pending(r)) \in Nat
      /\ Cardinality(Taken(r) \ Pending(r)') \in Nat
      /\ Cardinality(Taken(r) \ Pending(r)) <= Cardinality(Taken(r) \ Pending(r)')
  BY <1>1, LessPending
<1>3. executed[r] \in Nat
  BY DEF IInv, TypeOK
<1> QED BY <1>1, <1>2, <1>3 DEF EInv, Accounted

(* What the steps of a request other than Retrieve and Connect have in     *)
(* common: what it has written to is no longer unwritten.                  *)
OrdinaryStep(r) ==
    \/ RetrieveNone(r) \/ Resolve(r) \/ Handshake(r) \/ WriteSucceeds(r) \/ WriteFails(r)
    \/ ReadSucceeds(r) \/ ReadFails(r) \/ Push(r) \/ Shutdown(r)
    \/ \E e \in Endpoints : Send(r, e)

LEMMA OrdinaryEffect ==
    ASSUME IInv, NEW r \in Requests, OrdinaryStep(r)
    PROVE  /\ UNCHANGED <<home, reused, executed>>
           /\ pc[r] # "ok"
           /\ \A q \in Requests \ {r} : pc'[q] = pc[q] /\ conn'[q] = conn[q]
           /\ conn'[r] \in {conn[r], None}
           /\ pc'[r] \in {"handshake", "write"} =>
                pc[r] \in {"handshake", "write"} /\ conn'[r] = conn[r]
           /\ \/ UNCHANGED pool
              \/ /\ pc'[r] = "ok" /\ ep[r] \in Endpoints
                 /\ pool' = [pool EXCEPT ![ep[r]] = Append(@, conn[r])]
           /\ \/ UNCHANGED out
              \/ /\ pc[r] = "write" /\ pc'[r] # "write"
                 /\ out' = [out EXCEPT ![conn[r]] = Append(@, r)]
<1> USE DEF IInv, TypeOK, connVars, serverVars
<1>1. CASE RetrieveNone(r) \/ Resolve(r) \/ Handshake(r) \/ Shutdown(r) \/ ReadSucceeds(r)
  BY <1>1 DEF RetrieveNone, Resolve, Handshake, Shutdown, ReadSucceeds, Throw
<1>2. CASE WriteSucceeds(r)
  BY <1>2 DEF WriteSucceeds, Deliver
<1>3. CASE WriteFails(r)
  BY <1>3 DEF WriteFails, Deliver, OnError, Throw
<1>4. CASE ReadFails(r)
  BY <1>4 DEF ReadFails, OnError, Throw
<1>5. CASE Push(r)
  <2>1. ep[r] \in Endpoints
    BY <1>5 DEF Push, Opened
  <2> QED BY <1>5, <2>1 DEF Push
<1>6. CASE \E e \in Endpoints : Send(r, e)
  BY <1>6 DEF Send
<1> QED BY <1>1, <1>2, <1>3, <1>4, <1>5, <1>6 DEF OrdinaryStep

LEMMA OrdinaryInductive ==
    ASSUME IInv, EInv, NEW r \in Requests, OrdinaryStep(r)
    PROVE  EInv'
<1>1. /\ UNCHANGED <<home, reused, executed>>
      /\ pc[r] # "ok"
      /\ \A q \in Requests \ {r} : pc'[q] = pc[q] /\ conn'[q] = conn[q]
      /\ conn'[r] \in {conn[r], None}
      /\ pc'[r] \in {"handshake", "write"} =>
           pc[r] \in {"handshake", "write"} /\ conn'[r] = conn[r]
  BY OrdinaryEffect
<1>2. \/ UNCHANGED pool
      \/ /\ pc'[r] = "ok" /\ ep[r] \in Endpoints
         /\ pool' = [pool EXCEPT ![ep[r]] = Append(@, conn[r])]
  BY OrdinaryEffect
<1>3. \/ UNCHANGED out
      \/ /\ pc[r] = "write" /\ pc'[r] # "write"
         /\ out' = [out EXCEPT ![conn[r]] = Append(@, r)]
  BY OrdinaryEffect
<1>4. pc[r] = "write" =>
        /\ conn[r] \in Conns /\ out[conn[r]] = <<>> /\ conn[r] \in Unwritten(r)
  BY OwnConnection DEF IInv, Exchange, Owns, Unwritten
<1>5. \A k \in Conns :
        \/ out'[k] = out[k]
        \/ k = conn[r] /\ out'[k] = <<r>> /\ pc[r] = "write"
  BY <1>3, <1>4 DEF IInv, TypeOK
<1>6. OneUnderWay'
  <2> SUFFICES ASSUME NEW k \in Conns
               PROVE  Len(out'[k]) <= 1
    BY DEF OneUnderWay
  <2>1. CASE out'[k] = out[k]
    BY <2>1 DEF EInv, OneUnderWay
  <2>2. CASE out'[k] = <<r>>
    BY <2>2
  <2> QED BY <1>5, <2>1, <2>2
<1>7. \A q \in Requests : Pending(q)' \subseteq Pending(q)
  <2> SUFFICES ASSUME NEW q \in Requests, NEW k \in Pending(q)'
               PROVE  k \in Pending(q)
    OBVIOUS
  <2>1. CASE k \in Unwritten(q)'
    <3>1. k \in Unwritten(q)
      BY <1>1, <2>1 DEF Unwritten
    <3> QED BY <3>1 DEF Pending
  <2>2. CASE k \in Conns /\ q \in Range(out'[k])
    <3>1. CASE out'[k] = out[k]
      BY <2>2, <3>1 DEF Pending
    <3>2. CASE k = conn[r] /\ out'[k] = <<r>> /\ pc[r] = "write"
      <4>1. q = r
        BY <2>2, <3>2 DEF Range
      <4> QED BY <1>4, <3>2, <4>1 DEF Pending
    <3> QED BY <1>5, <2>2, <3>1, <3>2
  <2> QED BY <2>1, <2>2 DEF Pending
<1>8. Accounted'
  BY <1>1, <1>7, AccountKept
<1>9. NeverAgain'
  <2> SUFFICES ASSUME NEW q \in Requests, NEW k \in reused[q]
               PROVE  /\ home[k] # None
                      /\ pc'[q] # "ok" =>
                          /\ \A e \in Endpoints : k \notin Range(pool'[e])
                          /\ \A u \in Requests \ {q} : conn'[u] # k
    BY <1>1 DEF NeverAgain
  <2>1. k \in Conns /\ k # None
    BY NoneAssumption DEF IInv, TypeOK, Conns
  <2>2. home[k] # None
    BY DEF EInv, NeverAgain
  <2>3. ASSUME pc'[q] # "ok"
        PROVE  /\ \A e \in Endpoints : k \notin Range(pool'[e])
               /\ \A u \in Requests \ {q} : conn'[u] # k
    <3>1. /\ \A e \in Endpoints : k \notin Range(pool[e])
          /\ \A u \in Requests \ {q} : conn[u] # k
      BY <1>1, <2>3 DEF EInv, NeverAgain
    <3>2. \A u \in Requests \ {q} : conn'[u] # k
      BY <1>1, <2>1, <3>1
    <3>3. CASE UNCHANGED pool
      BY <3>1, <3>2, <3>3
    <3>4. CASE /\ pc'[r] = "ok" /\ ep[r] \in Endpoints
               /\ pool' = [pool EXCEPT ![ep[r]] = Append(@, conn[r])]
      <4>1. q # r /\ conn[r] # k
        BY <2>3, <3>1, <3>4
      <4>2. \A e \in Endpoints :
              pool'[e] = pool[e] \/ (e = ep[r] /\ pool'[e] = Append(pool[e], conn[r]))
        BY <3>4 DEF IInv, TypeOK
      <4>3. ASSUME NEW e \in Endpoints PROVE k \notin Range(Append(pool[e], conn[r]))
        <5>1. pool[e] \in Seq(Conns) /\ k \notin Range(pool[e])
          BY <3>1 DEF IInv, TypeOK
        <5> QED BY <4>1, <5>1 DEF Range
      <4> QED BY <3>1, <3>2, <4>2, <4>3
    <3> QED BY <1>2, <3>3, <3>4
  <2> QED BY <2>2, <2>3
<1> QED BY <1>6, <1>8, <1>9 DEF EInv

(* The connection that r opens is a new one, taken and not yet written to. *)
LEMMA ConnectAccounted ==
    ASSUME IInv, EInv, NEW r \in Requests, Connect(r)
    PROVE  EInv'
<1>1. /\ pc[r] = "connect" /\ home[r] = None /\ ep[r] \in Endpoints /\ ep[r] # None
      /\ out[r] = <<>> /\ r \in Conns /\ r # None
  BY NoneAssumption DEF Connect, IInv, Opened, Conns
<1>2. UNCHANGED <<pool, out, executed, reused>>
  BY DEF Connect
<1>3. \A q \in Requests \ {r} :
        pc'[q] = pc[q] /\ conn'[q] = conn[q] /\ home'[q] = home[q]
  BY DEF Connect, Throw, IInv, TypeOK, Conns
<1>4. \/ home' = home /\ conn'[r] = None /\ pc'[r] = "failed"
      \/ home'[r] = ep[r] /\ conn'[r] = r /\ pc'[r] \in {"handshake", "write"}
  BY DEF Connect, Throw, IInv, TypeOK, Conns
<1>5. \A q \in Requests : r \notin reused[q]
  BY <1>1 DEF EInv, NeverAgain
<1>6. OneUnderWay'
  BY <1>2 DEF EInv, OneUnderWay
<1>7. NeverAgain'
  <2> SUFFICES ASSUME NEW q \in Requests, NEW k \in reused[q]
               PROVE  /\ home'[k] # None
                      /\ pc'[q] # "ok" =>
                          /\ \A e \in Endpoints : k \notin Range(pool[e])
                          /\ \A u \in Requests \ {q} : conn'[u] # k
    BY <1>2 DEF NeverAgain
  <2>1. k \in Requests /\ k # r /\ k # None
    BY <1>5, NoneAssumption DEF IInv, TypeOK, Conns
  <2>2. home'[k] # None
    BY <1>3, <2>1 DEF EInv, NeverAgain
  <2>3. pc'[q] # "ok" => pc[q] # "ok"
    BY <1>1, <1>3
  <2>4. \A u \in Requests : conn'[u] # k \/ conn'[u] = conn[u]
    BY <1>3, <1>4, <2>1
  <2> QED BY <2>2, <2>3, <2>4 DEF EInv, NeverAgain
<1>8. Accounted'
  <2> SUFFICES ASSUME NEW q \in Requests
               PROVE  /\ IsFiniteSet(reused[q])
                      /\ Pending(q)' \subseteq Taken(q)'
                      /\ executed[q] <= Cardinality(Taken(q)' \ Pending(q)')
    BY <1>2 DEF Accounted
  <2>1. /\ IsFiniteSet(reused[q]) /\ Pending(q) \subseteq Taken(q)
        /\ executed[q] <= Cardinality(Taken(q) \ Pending(q))
    BY DEF EInv, Accounted
  <2>2. CASE q # r \/ pc'[r] = "failed"
    <3>1. Taken(q)' = Taken(q)
      BY <1>2, <1>3, <1>4, <2>2 DEF Taken
    <3>2. Pending(q)' = Pending(q)
      BY <1>1, <1>2, <1>3, <1>4, <2>2 DEF Pending, Unwritten
    <3> QED BY <2>1, <3>1, <3>2
  <2>3. CASE q = r /\ home'[r] = ep[r] /\ conn'[r] = r /\ pc'[r] \in {"handshake", "write"}
    <3>1. Taken(r)' = Taken(r) \cup {r} /\ r \notin Taken(r)
      BY <1>1, <1>2, <1>5, <2>3 DEF Taken
    <3>2. Pending(r)' = Pending(r) \cup {r}
      BY <1>1, <1>2, <2>3 DEF Pending, Unwritten
    <3>3. Taken(r)' \ Pending(r)' = Taken(r) \ Pending(r)
      BY <3>1, <3>2
    <3> QED BY <2>1, <2>3, <3>1, <3>2, <3>3
  <2> QED BY <1>4, <2>2, <2>3
<1> QED BY <1>6, <1>7, <1>8 DEF EInv

(* A connection from the pool is one that r has not met before.            *)
LEMMA RetrieveAccounted ==
    ASSUME IInv, EInv, NEW r \in Requests, RetrievePooled(r)
    PROVE  EInv'
<1> DEFINE e == ep[r]
           k == Head(pool[e])
<1>1. e \in Endpoints /\ pool[e] \in Seq(Conns) /\ pool[e] # <<>> /\ IsInjective(pool[e])
  BY DEF RetrievePooled, IInv, TypeOK, Opened, OneOwner
<1>2. /\ k \in Conns /\ k \in Range(pool[e])
      /\ Range(Tail(pool[e])) = Range(pool[e]) \ {k}
  BY <1>1, QueueTail
<1>3. /\ pc[r] = "retrieve" /\ home[r] = None
      /\ home[k] # None /\ k # None
      /\ \A q \in Requests : conn[q] # k
      /\ \A f \in Endpoints \ {e} : k \notin Range(pool[f])
  BY <1>1, <1>2, NoneAssumption DEF RetrievePooled, IInv, PooledIsQuiet, OneOwner, Opened, Conns
<1>4. UNCHANGED <<home, out, executed>>
  BY DEF RetrievePooled, connVars, serverVars
<1>5. /\ pc'[r] = "write" /\ conn'[r] = k /\ reused'[r] = reused[r] \cup {k}
      /\ \A q \in Requests \ {r} :
            pc'[q] = pc[q] /\ conn'[q] = conn[q] /\ reused'[q] = reused[q]
      /\ pool'[e] = Tail(pool[e]) /\ \A f \in Endpoints \ {e} : pool'[f] = pool[f]
  BY <1>1 DEF RetrievePooled, IInv, TypeOK
<1> HIDE DEF e, k
<1>6. \A f \in Endpoints : Range(pool'[f]) = Range(pool[f]) \ {k}
  BY <1>2, <1>3, <1>5
<1>7. \A q \in Requests : pc[q] # "ok" => k \notin reused[q]
  BY <1>1, <1>2 DEF EInv, NeverAgain
<1>8. OneUnderWay'
  BY <1>4 DEF EInv, OneUnderWay
<1>9. NeverAgain'
  <2> SUFFICES ASSUME NEW q \in Requests, NEW c \in reused'[q]
               PROVE  /\ home[c] # None
                      /\ pc'[q] # "ok" =>
                          /\ \A f \in Endpoints : c \notin Range(pool'[f])
                          /\ \A u \in Requests \ {q} : conn'[u] # c
    BY <1>4 DEF NeverAgain
  <2>1. CASE q = r /\ c = k
    BY <1>3, <1>5, <1>6, <2>1
  <2>2. CASE c \in reused[q]
    <3>1. home[c] # None
      BY <2>2 DEF EInv, NeverAgain
    <3>2. ASSUME pc'[q] # "ok"
          PROVE  /\ \A f \in Endpoints : c \notin Range(pool'[f])
                 /\ \A u \in Requests \ {q} : conn'[u] # c
      <4>1. pc[q] # "ok"
        BY <1>3, <1>5, <3>2
      <4>2. /\ \A f \in Endpoints : c \notin Range(pool[f])
            /\ \A u \in Requests \ {q} : conn[u] # c
        BY <2>2, <4>1 DEF EInv, NeverAgain
      <4>3. c # k
        BY <1>7, <2>2, <4>1
      <4> QED BY <1>5, <1>6, <4>2, <4>3
    <3> QED BY <3>1, <3>2
  <2> QED BY <1>5, <2>1, <2>2
<1>10. Accounted'
  <2> SUFFICES ASSUME NEW q \in Requests
               PROVE  /\ IsFiniteSet(reused'[q])
                      /\ Pending(q)' \subseteq Taken(q)'
                      /\ executed[q] <= Cardinality(Taken(q)' \ Pending(q)')
    BY <1>4 DEF Accounted
  <2>1. /\ IsFiniteSet(reused[q]) /\ Pending(q) \subseteq Taken(q)
        /\ executed[q] <= Cardinality(Taken(q) \ Pending(q))
    BY DEF EInv, Accounted
  <2>2. CASE q # r
    <3>1. Taken(q)' = Taken(q) /\ Pending(q)' = Pending(q)
      BY <1>4, <1>5, <2>2 DEF Taken, Pending, Unwritten
    <3> QED BY <1>5, <2>1, <2>2, <3>1
  <2>3. CASE q = r
    <3>1. IsFiniteSet(reused'[r])
      <4>1. IsFiniteSet(reused[r])
        BY <2>1, <2>3
      <4>2. IsFiniteSet(reused[r] \cup {k})
        BY <4>1, FS_AddElement
      <4> QED BY <1>5, <4>2
    <3>2. Taken(r)' = Taken(r) \cup {k} /\ k \notin Taken(r)
      BY <1>3, <1>4, <1>5, <1>7 DEF Taken
    <3>3. Pending(r)' = Pending(r) \cup {k}
      BY <1>3, <1>4, <1>5 DEF Pending, Unwritten
    <3>4. Taken(r)' \ Pending(r)' = Taken(r) \ Pending(r)
      BY <3>2, <3>3
    <3> QED BY <2>1, <2>3, <3>1, <3>2, <3>3, <3>4
  <2> QED BY <2>2, <2>3
<1> QED BY <1>8, <1>9, <1>10 DEF EInv

(* An execution uses up the connection it arrived on.                      *)
LEMMA ServerAccounted ==
    ASSUME IInv, EInv, NEW k \in Conns, ServerStep(k)
    PROVE  EInv'
<1>1. UNCHANGED <<pool, pc, conn, home, reused>>
  BY DEF ServerStep, ServerResponds, ServerDies, ServerCloses, requestVars
<1>2. out[k] \in Seq(Requests) /\ Len(out[k]) <= 1
  BY DEF IInv, TypeOK, EInv, OneUnderWay
<1>3. out' = [out EXCEPT ![k] = <<>>]
  <2>1. out[k] # <<>> => Tail(out[k]) = <<>>
    BY <1>2
  <2> QED BY <2>1 DEF ServerStep, ServerResponds, ServerDies, ServerCloses
<1>4. out'[k] = <<>> /\ \A c \in Conns \ {k} : out'[c] = out[c]
  BY <1>3 DEF IInv, TypeOK
<1>5. OneUnderWay'
  <2>1. Len(out'[k]) <= 1
    BY <1>4
  <2> QED BY <1>4, <2>1 DEF EInv, OneUnderWay
<1>6. NeverAgain'
  BY <1>1 DEF EInv, NeverAgain
<1>7. \A q \in Requests : Pending(q)' \subseteq Pending(q)
  <2> SUFFICES ASSUME NEW q \in Requests, NEW c \in Pending(q)'
               PROVE  c \in Pending(q)
    OBVIOUS
  <2>1. CASE c \in Unwritten(q)'
    BY <1>1, <2>1 DEF Pending, Unwritten
  <2>2. CASE c \in Conns /\ q \in Range(out'[c])
    <3>1. c # k
      BY <1>4, <2>2 DEF Range
    <3> QED BY <1>4, <2>2, <3>1 DEF Pending
  <2> QED BY <2>1, <2>2 DEF Pending
<1>8. CASE UNCHANGED executed
  BY <1>1, <1>5, <1>6, <1>7, <1>8, AccountKept DEF EInv
<1>9. CASE out[k] # <<>> /\ executed' = [executed EXCEPT ![Head(out[k])] = @ + 1]
  <2>1. PICK h \in Requests : h = Head(out[k]) /\ h \in Range(out[k])
    BY <1>2, <1>9 DEF Range
  <2>2. /\ executed'[h] = executed[h] + 1
        /\ \A q \in Requests \ {h} : executed'[q] = executed[q]
    BY <1>9, <2>1 DEF IInv, TypeOK
  <2>3. k \in Pending(h)
    BY <2>1 DEF Pending
  <2>4. k \notin Pending(h)'
    <3>1. k \notin {c \in Conns : h \in Range(out'[c])}
      BY <1>4 DEF Range
    <3>2. k \notin Unwritten(h)
      <4>1. ASSUME pc[h] \in {"handshake", "write"}
            PROVE  conn[h] # k
        BY <1>9, <2>1, <4>1 DEF IInv, TypeOK, Owns, Exchange
      <4> QED BY <4>1 DEF Unwritten
    <3>3. Pending(h)' = {c \in Conns : h \in Range(out'[c])} \cup Unwritten(h)
      BY <1>1 DEF Pending, Unwritten
    <3> QED BY <3>1, <3>2, <3>3
  <2>5. Accounted'
    <3> SUFFICES ASSUME NEW q \in Requests
                 PROVE  /\ IsFiniteSet(reused'[q])
                        /\ Pending(q)' \subseteq Taken(q)'
                        /\ executed'[q] <= Cardinality(Taken(q)' \ Pending(q)')
      BY DEF Accounted
    <3>1. /\ Taken(q)' = Taken(q) /\ IsFiniteSet(Taken(q)) /\ IsFiniteSet(reused'[q])
          /\ executed[q] \in Nat /\ Pending(q) \subseteq Taken(q)
          /\ executed[q] <= Cardinality(Taken(q) \ Pending(q))
      BY <1>1, TakenIsFinite DEF IInv, TypeOK, EInv, Accounted, Taken
    <3>2. /\ Cardinality(Taken(q) \ Pending(q)) \in Nat
          /\ Cardinality(Taken(q) \ Pending(q)') \in Nat
          /\ Cardinality(Taken(q) \ Pending(q)) <= Cardinality(Taken(q) \ Pending(q)')
          /\ \A c \in (Taken(q) \cap Pending(q)) \ Pending(q)' :
                Cardinality(Taken(q) \ Pending(q)) + 1 <= Cardinality(Taken(q) \ Pending(q)')
      BY <1>7, <3>1, LessPending
    <3>3. CASE q # h
      BY <1>7, <2>2, <3>1, <3>2, <3>3
    <3>4. CASE q = h
      <4>1. k \in Pending(q) /\ k \notin Pending(q)' /\ executed'[q] = executed[q] + 1
        BY <2>2, <2>3, <2>4, <3>4
      <4>2. k \in (Taken(q) \cap Pending(q)) \ Pending(q)'
        BY <3>1, <4>1
      <4>3. Cardinality(Taken(q) \ Pending(q)) + 1 <= Cardinality(Taken(q) \ Pending(q)')
        BY <3>2, <4>2
      <4>4. executed'[q] <= Cardinality(Taken(q) \ Pending(q)')
        BY <3>1, <3>2, <4>1, <4>3
      <4>5. Pending(q)' \subseteq Pending(q)
        BY <1>7
      <4> QED BY <3>1, <4>4, <4>5
    <3> QED BY <3>3, <3>4
  <2> QED BY <1>5, <1>6, <2>5 DEF EInv
<1> QED BY <1>8, <1>9 DEF ServerStep, ServerResponds, ServerDies, ServerCloses

-----------------------------------------------------------------------------
LEMMA InitAccounted == Init => EInv
<1> SUFFICES ASSUME Init PROVE EInv
  OBVIOUS
<1>1. Accounted
  <2> SUFFICES ASSUME NEW r \in Requests
               PROVE  /\ IsFiniteSet(reused[r])
                      /\ Pending(r) \subseteq Taken(r)
                      /\ executed[r] <= Cardinality(Taken(r) \ Pending(r))
    BY DEF Accounted
  <2>1. Pending(r) = {} /\ Taken(r) = {} /\ reused[r] = {} /\ executed[r] = 0
    BY DEF Init, Pending, Unwritten, Taken, Range, Conns
  <2>2. Cardinality(Taken(r) \ Pending(r)) = 0
    BY <2>1, FS_EmptySet
  <2> QED BY <2>1, <2>2, FS_EmptySet
<1>2. NeverAgain
  BY DEF Init, NeverAgain
<1>3. OneUnderWay
  BY DEF Init, OneUnderWay
<1> QED BY <1>1, <1>2, <1>3 DEF EInv

LEMMA NextAccounted == IInv /\ EInv /\ [Next]_vars => EInv'
<1> SUFFICES ASSUME IInv, EInv, [Next]_vars
             PROVE  EInv'
  OBVIOUS
<1>1. ASSUME NEW r \in Requests, RequestStep(r)
      PROVE  EInv'
  BY <1>1, OrdinaryInductive, RetrieveAccounted, ConnectAccounted DEF RequestStep, OrdinaryStep
<1>2. ASSUME NEW r \in Requests, NEW e \in Endpoints, Send(r, e)
      PROVE  EInv'
  BY <1>2, OrdinaryInductive DEF OrdinaryStep
<1>3. ASSUME NEW k \in Conns, ServerStep(k)
      PROVE  EInv'
  BY <1>3, ServerAccounted
<1>4. CASE UNCHANGED vars
  <2>1. UNCHANGED <<pool, pc, conn, home, out, executed, reused>>
    BY <1>4 DEF vars, requestVars, connVars, serverVars
  <2>2. \A r \in Requests : Pending(r)' \subseteq Pending(r)
    BY <2>1 DEF Pending, Unwritten
  <2>3. Accounted'
    BY <2>1, <2>2, AccountKept
  <2>4. NeverAgain' /\ OneUnderWay'
    BY <2>1 DEF EInv, NeverAgain, OneUnderWay
  <2> QED BY <2>3, <2>4 DEF EInv
<1> QED BY <1>1, <1>2, <1>3, <1>4 DEF Next

(* A request is executed more than once only because pooled connections    *)
(* failed under it: at most once for each connection it took from the      *)
(* pool, and once for the one it opened.                                   *)
THEOREM ExecutionsBoundedCorrect == Spec => []ExecutionsBounded
<1>1. ASSUME IInv, EInv PROVE ExecutionsBounded
  <2> SUFFICES ASSUME NEW r \in Requests
               PROVE  executed[r] <= Cardinality(reused[r]) + 1
    BY DEF ExecutionsBounded
  <2>1. /\ IsFiniteSet(Taken(r)) /\ Cardinality(Taken(r)) \in Nat
        /\ Cardinality(reused[r]) \in Nat
        /\ Cardinality(Taken(r)) <= Cardinality(reused[r]) + 1
        /\ executed[r] <= Cardinality(Taken(r) \ Pending(r))
    BY <1>1, TakenIsFinite DEF EInv, Accounted
  <2>2. /\ Cardinality(Taken(r) \ Pending(r)) \in Nat
        /\ Cardinality(Taken(r) \ Pending(r)) <= Cardinality(Taken(r))
    <3>1. (Taken(r) \ Pending(r)) \in SUBSET Taken(r)
      OBVIOUS
    <3>2. IsFiniteSet(Taken(r) \ Pending(r))
      BY <2>1, <3>1, FS_Subset
    <3> QED BY <2>1, <3>1, <3>2, FS_Subset, FS_CardinalityType
  <2>3. executed[r] \in Nat
    BY <1>1 DEF IInv, TypeOK
  <2> QED BY <2>1, <2>2, <2>3
<1>2. Spec => []EInv
  BY InitAccounted, NextAccounted, InductiveInvariant, PTL DEF Spec
<1> QED BY <1>1, <1>2, InductiveInvariant, PTL
=============================================================================
