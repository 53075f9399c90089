----------------------------- MODULE HttpClient -----------------------------
(***************************************************************************)
(* SendRequest of HttpClient and HttpsClient (impl/http/) over the pool of *)
(* keep-alive connections they share, and the servers at the other end.    *)
(*                                                                         *)
(* A request is one coroutine executing SendRequest; it can be suspended   *)
(* in every asynchronous call, and other requests run meanwhile. A call of *)
(* SendRequest creates at most one connection, so a connection is named    *)
(* after the request that created it.                                      *)
(***************************************************************************)
EXTENDS Integers, Sequences, Functions, FiniteSets

CONSTANTS
    Requests,       \* the calls of SendRequest
    Endpoints,      \* host and port pairs, the keys of pool_
    MaxKeepalive,   \* maxKeepalive_
    Tls,            \* HttpsClient (TRUE) or HttpClient
    None            \* no connection, no endpoint, no response

ASSUME KeepaliveAssumption == MaxKeepalive \in Nat
ASSUME TlsAssumption == Tls \in BOOLEAN
ASSUME NoneAssumption == None \notin Requests \cup Endpoints

Conns == Requests

VARIABLES
    pool,       \* pool[e]: the idle connections to e, oldest first
    pc,         \* pc[r]: what request r does next
    ep,         \* ep[r]: its endpoint
    conn,       \* conn[r]: the connection it owns
    got,        \* got[r]: the request whose response it has read
    why,        \* why[r]: what the exception it ended with is about
    home,       \* home[k]: the endpoint connection k was opened to
    used,       \* used[k]: Connection::used
    out,        \* out[k]: requests on their way to the server
    in,         \* in[k]: responses on their way to the client
    open,       \* open[k]: the server still has its end of k open
    executed,   \* executed[r]: how often servers executed r
    reused      \* reused[r]: the connections r took from the pool (history)

requestVars == <<pc, ep, conn, got, why>>
connVars    == <<home, used, out, in>>
serverVars  == <<open, executed>>
vars == <<pool, requestVars, connVars, serverVars, reused>>

Response == [req : Requests, keep : BOOLEAN]
Failures == {"resolve", "sni", "connect", "handshake", "write", "read", "shutdown"}
Steps    == {"idle", "retrieve", "resolve", "connect", "handshake", "write",
             "read", "push", "shutdown", "ok", "failed"}

(* The steps at which a request owns a connection.                         *)
Owns(r) == pc[r] \in {"handshake", "write", "read", "push", "shutdown"}

TypeOK ==
    /\ pool \in [Endpoints -> Seq(Conns)]
    /\ pc \in [Requests -> Steps]
    /\ ep \in [Requests -> Endpoints \cup {None}]
    /\ conn \in [Requests -> Conns \cup {None}]
    /\ got \in [Requests -> Requests \cup {None}]
    /\ why \in [Requests -> Failures \cup {"none"}]
    /\ home \in [Conns -> Endpoints \cup {None}]
    /\ used \in [Conns -> BOOLEAN]
    /\ out \in [Conns -> Seq(Requests)]
    /\ in \in [Conns -> Seq(Response)]
    /\ open \in [Conns -> BOOLEAN]
    /\ executed \in [Requests -> Nat]
    /\ reused \in [Requests -> SUBSET Conns]
    /\ \A r \in Requests : Owns(r) <=> conn[r] # None

Init ==
    /\ pool = [e \in Endpoints |-> <<>>]
    /\ pc = [r \in Requests |-> "idle"]
    /\ ep = [r \in Requests |-> None]
    /\ conn = [r \in Requests |-> None]
    /\ got = [r \in Requests |-> None]
    /\ why = [r \in Requests |-> "none"]
    /\ home = [k \in Conns |-> None]
    /\ used = [k \in Conns |-> FALSE]
    /\ out = [k \in Conns |-> <<>>]
    /\ in = [k \in Conns |-> <<>>]
    /\ open = [k \in Conns |-> FALSE]
    /\ executed = [r \in Requests |-> 0]
    /\ reused = [r \in Requests |-> {}]

-----------------------------------------------------------------------------
(* Get or Post builds the request and enters SendRequest.                  *)
Send(r, e) ==
    /\ pc[r] = "idle"
    /\ pc' = [pc EXCEPT ![r] = "retrieve"]
    /\ ep' = [ep EXCEPT ![r] = e]
    /\ UNCHANGED <<pool, conn, got, why, connVars, serverVars, reused>>

(* An exception leaves SendRequest; the connection is destroyed with it.   *)
(* Before it, one that leaks the connection.                               *)
ThrowLeaks(r, what) ==
    /\ pc' = [pc EXCEPT ![r] = "failed"]
    /\ why' = [why EXCEPT ![r] = what]
    /\ UNCHANGED conn

Throw(r, what) ==
    /\ pc' = [pc EXCEPT ![r] = "failed"]
    /\ why' = [why EXCEPT ![r] = what]
    /\ conn' = [conn EXCEPT ![r] = None]

(* ConnectionPool::Retrieve: under the mutex, take the oldest idle         *)
(* connection to the endpoint, or go and create one. Before it, a Retrieve *)
(* that leaves the connection in the pool.                                 *)
RetrieveShares(r) ==
    /\ pc[r] = "retrieve"
    /\ pool[ep[r]] # <<>>
    /\ conn' = [conn EXCEPT ![r] = Head(pool[ep[r]])]
    /\ pc' = [pc EXCEPT ![r] = "write"]
    /\ UNCHANGED <<pool, ep, got, why, connVars, serverVars, reused>>

RetrievePooled(r) ==
    /\ pc[r] = "retrieve"
    /\ pool[ep[r]] # <<>>
    /\ conn' = [conn EXCEPT ![r] = Head(pool[ep[r]])]
    /\ pool' = [pool EXCEPT ![ep[r]] = Tail(@)]
    /\ reused' = [reused EXCEPT ![r] = @ \cup {Head(pool[ep[r]])}]
    /\ pc' = [pc EXCEPT ![r] = "write"]
    /\ UNCHANGED <<ep, got, why, connVars, serverVars>>

RetrieveNone(r) ==
    /\ pc[r] = "retrieve"
    /\ pool[ep[r]] = <<>>
    /\ pc' = [pc EXCEPT ![r] = "resolve"]
    /\ UNCHANGED <<pool, ep, conn, got, why, connVars, serverVars, reused>>

-----------------------------------------------------------------------------
(* CreateConnection: resolve, then connect, then the TLS handshake.        *)

Resolve(r) ==
    /\ pc[r] = "resolve"
    /\ \/ /\ pc' = [pc EXCEPT ![r] = "connect"]
          /\ UNCHANGED <<why, conn>>
       \/ Throw(r, "resolve")
       \/ Tls /\ Throw(r, "sni")
    /\ UNCHANGED <<pool, ep, got, connVars, serverVars, reused>>

Connect(r) ==
    /\ pc[r] = "connect"
    /\ \/ /\ pc' = [pc EXCEPT ![r] = IF Tls THEN "handshake" ELSE "write"]
          /\ conn' = [conn EXCEPT ![r] = r]
          /\ home' = [home EXCEPT ![r] = ep[r]]
          /\ open' = [open EXCEPT ![r] = TRUE]
          /\ UNCHANGED why
       \/ /\ Throw(r, "connect")
          /\ UNCHANGED <<home, open>>
    /\ UNCHANGED <<pool, ep, got, used, out, in, executed, reused>>

Handshake(r) ==
    /\ pc[r] = "handshake"
    /\ \/ /\ pc' = [pc EXCEPT ![r] = "write"]
          /\ UNCHANGED <<why, conn>>
       \/ Throw(r, "handshake")
    /\ UNCHANGED <<pool, ep, got, connVars, serverVars, reused>>

-----------------------------------------------------------------------------
(* A write or read fails (ShouldRetry): with a connection that was used    *)
(* before, the loop starts over and the connection is destroyed; with a    *)
(* new one the exception leaves SendRequest. Before it, a loop that puts   *)
(* the connection back instead of destroying it, and one that retries      *)
(* after the failure of a new connection too.                              *)
OnErrorPutsBack(r, what) ==
    \/ /\ used[conn[r]]
       /\ pool' = [pool EXCEPT ![ep[r]] = Append(@, conn[r])]
       /\ conn' = [conn EXCEPT ![r] = None]
       /\ pc' = [pc EXCEPT ![r] = "retrieve"]
       /\ UNCHANGED why
    \/ /\ ~used[conn[r]]
       /\ Throw(r, what)
       /\ UNCHANGED pool

OnErrorRetries(r, what) ==
    /\ conn' = [conn EXCEPT ![r] = None]
    /\ pc' = [pc EXCEPT ![r] = "retrieve"]
    /\ UNCHANGED <<pool, why>>

OnError(r, what) ==
    \/ /\ used[conn[r]]
       /\ conn' = [conn EXCEPT ![r] = None]
       /\ pc' = [pc EXCEPT ![r] = "retrieve"]
       /\ UNCHANGED <<pool, why>>
    \/ /\ ~used[conn[r]]
       /\ Throw(r, what)
       /\ UNCHANGED pool

(* The request reaches the server's end of k if that is still open.        *)
Deliver(r, k) ==
    out' = IF open[k] THEN [out EXCEPT ![k] = Append(@, r)] ELSE out

WriteSucceeds(r) ==
    /\ pc[r] = "write"
    /\ Deliver(r, conn[r])
    /\ pc' = [pc EXCEPT ![r] = "read"]
    /\ UNCHANGED <<pool, ep, conn, got, why, home, used, in, serverVars, reused>>

(* A write that is reported as failed (a timeout that fires when the last  *)
(* byte is already out) may have delivered the request all the same.       *)
WriteFails(r) ==
    /\ pc[r] = "write"
    /\ Deliver(r, conn[r]) \/ UNCHANGED out
    /\ OnError(r, "write")
    /\ UNCHANGED <<ep, got, home, used, in, serverVars, reused>>

ReadSucceeds(r) ==
    /\ pc[r] = "read"
    /\ in[conn[r]] # <<>>
    /\ LET response == Head(in[conn[r]])
       IN  /\ got' = [got EXCEPT ![r] = response.req]
           /\ pc' = [pc EXCEPT ![r] = IF response.keep THEN "push" ELSE "shutdown"]
    /\ in' = [in EXCEPT ![conn[r]] = Tail(@)]
    /\ UNCHANGED <<pool, ep, conn, why, home, used, out, serverVars, reused>>

(* The peer is gone or the timeout fires, at whatever point the server is. *)
(* Before it, a read without expires_after: only the server can end it.    *)
ReadNeverTimesOut(r) ==
    /\ pc[r] = "read"
    /\ ~open[conn[r]] /\ in[conn[r]] = <<>>
    /\ OnError(r, "read")
    /\ UNCHANGED <<ep, got, connVars, serverVars, reused>>

ReadFails(r) ==
    /\ pc[r] = "read"
    /\ OnError(r, "read")
    /\ UNCHANGED <<ep, got, connVars, serverVars, reused>>

-----------------------------------------------------------------------------
(* The pool is full, and the off-by-one of that test.                      *)
OverFull(e) == Len(pool[e]) > MaxKeepalive

Full(e) == Len(pool[e]) >= MaxKeepalive

(* ConnectionPool::Push: mark the connection used, and under the mutex     *)
(* queue it unless the pool is full; then it is destroyed. Before it, a    *)
(* Push that leaves the mark alone.                                        *)
PushUnmarked(r) ==
    /\ pc[r] = "push"
    /\ pool' = IF Full(ep[r]) THEN pool
               ELSE [pool EXCEPT ![ep[r]] = Append(@, conn[r])]
    /\ conn' = [conn EXCEPT ![r] = None]
    /\ pc' = [pc EXCEPT ![r] = "ok"]
    /\ UNCHANGED <<ep, got, why, connVars, serverVars, reused>>

Push(r) ==
    /\ pc[r] = "push"
    /\ used' = [used EXCEPT ![conn[r]] = TRUE]
    /\ pool' = IF Full(ep[r]) THEN pool
               ELSE [pool EXCEPT ![ep[r]] = Append(@, conn[r])]
    /\ conn' = [conn EXCEPT ![r] = None]
    /\ pc' = [pc EXCEPT ![r] = "ok"]
    /\ UNCHANGED <<ep, got, why, home, out, in, serverVars, reused>>

(* Not keep-alive: shut the stream down. An error other than the tolerated *)
(* ones is thrown although the response has been read.                     *)
Shutdown(r) ==
    /\ pc[r] = "shutdown"
    /\ \/ /\ pc' = [pc EXCEPT ![r] = "ok"]
          /\ conn' = [conn EXCEPT ![r] = None]
          /\ UNCHANGED why
       \/ Throw(r, "shutdown")
    /\ UNCHANGED <<pool, ep, got, connVars, serverVars, reused>>

RequestStep(r) ==
    \/ RetrievePooled(r) \/ RetrieveNone(r)
    \/ Resolve(r) \/ Connect(r) \/ Handshake(r)
    \/ WriteSucceeds(r) \/ WriteFails(r)
    \/ ReadSucceeds(r) \/ ReadFails(r)
    \/ Push(r) \/ Shutdown(r)

-----------------------------------------------------------------------------
(* The servers: one response per request and in order; a connection is     *)
(* closed after a response that is not keep-alive, or at any other time.   *)

ServerResponds(k, stay) ==
    /\ open[k]
    /\ out[k] # <<>>
    /\ executed' = [executed EXCEPT ![Head(out[k])] = @ + 1]
    /\ in' = [in EXCEPT ![k] = Append(@, [req |-> Head(out[k]), keep |-> stay])]
    /\ out' = [out EXCEPT ![k] = IF stay THEN Tail(@) ELSE <<>>]
    /\ open' = [open EXCEPT ![k] = stay]
    /\ UNCHANGED <<pool, requestVars, home, used, reused>>

(* It executes the request but the response is never sent.                 *)
ServerDies(k) ==
    /\ open[k]
    /\ out[k] # <<>>
    /\ executed' = [executed EXCEPT ![Head(out[k])] = @ + 1]
    /\ out' = [out EXCEPT ![k] = <<>>]
    /\ open' = [open EXCEPT ![k] = FALSE]
    /\ UNCHANGED <<pool, requestVars, home, used, in, reused>>

ServerCloses(k) ==
    /\ open[k]
    /\ out' = [out EXCEPT ![k] = <<>>]
    /\ open' = [open EXCEPT ![k] = FALSE]
    /\ UNCHANGED <<pool, requestVars, home, used, in, executed, reused>>

ServerStep(k) ==
    \/ \E stay \in BOOLEAN : ServerResponds(k, stay)
    \/ ServerDies(k)
    \/ ServerCloses(k)

-----------------------------------------------------------------------------
Next ==
    \/ \E r \in Requests : RequestStep(r) \/ \E e \in Endpoints : Send(r, e)
    \/ \E k \in Conns : ServerStep(k)

(* Every asynchronous call of SendRequest ends: reads, writes, connects    *)
(* and handshakes are bounded by expires_after. Servers may stop.          *)
Fairness == \A r \in Requests : WF_vars(RequestStep(r))

Spec     == Init /\ [][Next]_vars
FairSpec == Spec /\ Fairness

-----------------------------------------------------------------------------
(* Two requests never own the same connection, and the connection of a     *)
(* request is in no pool, nor is a connection twice in the pools: what     *)
(* Retrieve hands out under the mutex belongs to one coroutine until Push. *)
OneOwner ==
    /\ \A r, q \in Requests : r # q /\ conn[r] # None => conn[r] # conn[q]
    /\ \A e \in Endpoints :
        /\ \A r \in Requests : conn[r] \notin Range(pool[e])
        /\ IsInjective(pool[e])
        /\ \A f \in Endpoints \ {e} : Range(pool[e]) \cap Range(pool[f]) = {}

(* A connection that waits in the pool is one the next request can use: it *)
(* leads to that endpoint, counts as used (so that its failure leads to a  *)
(* retry), and neither a request nor a response is under way on it.        *)
PooledIsQuiet ==
    \A e \in Endpoints : \A k \in Range(pool[e]) :
        home[k] = e /\ used[k] /\ out[k] = <<>> /\ in[k] = <<>>

(* The pool of an endpoint keeps at most maxKeepalive_ connections, though *)
(* requests push and retrieve concurrently.                                *)
PoolBounded == \A e \in Endpoints : Len(pool[e]) <= MaxKeepalive

(* Responses are not mixed up: a request reads the response to itself,     *)
(* even when it reuses a connection, or others gave up waiting before; and *)
(* when SendRequest returns, a server has executed the request.            *)
OwnResponse ==
    \A r \in Requests :
        /\ got[r] \in {None, r}
        /\ pc[r] = "ok" => got[r] = r /\ executed[r] > 0

(* A keep-alive connection that went stale in the pool never makes a       *)
(* request fail: SendRequest gives up on a write or read error only with a *)
(* connection that it opened itself.                                       *)
StaleNeverFails ==
    \A r \in Requests : why[r] \in {"write", "read"} => home[r] = ep[r]

(* A request is executed more than once only because pooled connections    *)
(* failed under it: at most once for each connection it took from the pool *)
(* and once for the one it opened, however late the servers get to it.     *)
ExecutionsBounded ==
    \A r \in Requests : executed[r] <= Cardinality(reused[r]) + 1

(* What a caller of SendRequest sees of it.                                *)
phase ==
    [r \in Requests |->
        CASE pc[r] \in {"idle", "ok", "failed"} -> pc[r]
          [] OTHER -> "sending"]

Abstract == INSTANCE Transport

(* The pool, its retries and its connections are invisible to a caller: a  *)
(* request that returns was executed, a server never executes one that was *)
(* not sent, and an answered caller stays answered.                        *)
ImplementsTransport == Abstract!Spec

(* Every SendRequest returns or throws: each retry uses up an idle         *)
(* connection, until a new one decides.                                    *)
EveryRequestEnds ==
    \A r \in Requests : pc[r] = "retrieve" ~> pc[r] \in {"ok", "failed"}
=============================================================================
