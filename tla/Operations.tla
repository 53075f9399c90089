----------------------------- MODULE Operations -----------------------------
(***************************************************************************)
(* The nine operations of Client: from the call over the functor of        *)
(* impl/cli/ to the completion token, over the transport that Transport    *)
(* describes and that HttpClient implements, with a cluster that keeps     *)
(* databases, retention policies and points at the other end.              *)
(*                                                                         *)
(* A functor is a coroutine: it runs from one asynchronous call to the     *)
(* next, and the other operations and the cluster move in between. The     *)
(* cluster may refuse a request for reasons of its own, and may execute it *)
(* late or again, as Transport allows. What it executed it answers with    *)
(* what was asked for, with another status or with a body that cannot be   *)
(* read; what it refused, with another status or an error in the body. A   *)
(* body that can be read has a result for the statement or an error at the *)
(* top: what becomes of one without results (QueryResponse!Crashes) is the *)
(* subject of ResponseHandling and not of this module.                     *)
(***************************************************************************)
EXTENDS QueryResponse, Functions

CONSTANTS
    Ops,            \* the operations launched
    Calls,          \* the calls the user may make, a subset of AllCalls
    Points,         \* points of which a write may consist
    NumServers,     \* size of servers_
    SetToList(_),   \* how the cluster orders a table
    InitialStores,  \* what the cluster may have when the client starts
    MaxExecutions,  \* bound: how often the cluster executes one request
    None            \* an operation that has not been launched

ASSUME ServersAssumption == NumServers \in Nat \ {0}
ASSUME ListAssumption ==
    \A S \in SUBSET Names : SetToList(S) \in Seq(S) /\ Range(SetToList(S)) = S
ASSUME BoundAssumption == MaxExecutions \in Nat \ {0}

(* "" is an empty std::string and no name.                                 *)
NameOrEmpty == Names \cup {""}
ASSUME EmptyAssumption == "" \notin Names

(* RpConfig, as far as the functors look at it; std::nullopt is NoConfig.  *)
RpConfig == [name : NameOrEmpty, duration : {"", "given"}]
NoConfig == [name |-> "", duration |-> ""]

(* A point that has fields and a measurement encodes, another throws.      *)
Point == [point : Points, valid : BOOLEAN]

PingCall          == [op : {"Ping"}, index : Nat]
QueryCall         == [op : {"Query"}, command : {"", "SELECT"}]
CreateDatabaseCall == [op : {"CreateDatabase"}, db : NameOrEmpty, rpConfig : RpConfig]
ShowDatabaseCall  == [op : {"ShowDatabase"}]
DropDatabaseCall  == [op : {"DropDatabase"}, db : NameOrEmpty]
CreateRetentionPolicyCall ==
    [op : {"CreateRetentionPolicy"}, db : NameOrEmpty, rpConfig : RpConfig]
ShowRetentionPoliciesCall == [op : {"ShowRetentionPolicies"}, db : NameOrEmpty]
DropRetentionPolicyCall   == [op : {"DropRetentionPolicy"}, db : NameOrEmpty, rp : NameOrEmpty]
WriteCall == [op : {"Write"}, db : NameOrEmpty, rp : NameOrEmpty, points : Seq(Point)]

AllCalls ==
    PingCall \cup QueryCall \cup CreateDatabaseCall \cup ShowDatabaseCall
    \cup DropDatabaseCall \cup CreateRetentionPolicyCall
    \cup ShowRetentionPoliciesCall \cup DropRetentionPolicyCall \cup WriteCall
ASSUME CallsAssumption == Calls \subseteq AllCalls /\ None \notin Calls

VARIABLES
    call,           \* call[o]: what o was launched with
    pc,             \* pc[o]: where its coroutine is
    phase,          \* phase[o]: its request, see Transport
    executed,       \* executed[o]: executions of its request, see Transport
    replies,        \* replies[o]: the responses the cluster made to it
    result,         \* result[o]: what its token was invoked with
    store,          \* the databases, policies and points of the cluster
    accepted,       \* accepted[o]: the cluster obeyed o while o ran (history)
    seen,           \* seen[o]: the stores there were while o ran (history)
    before          \* before[o]: what was done when o was launched (history)

clientVars  == <<call, pc, result, before>>
clusterVars == <<store, replies, accepted>>
vars == <<clientVars, clusterVars, phase, executed, seen>>

Net == INSTANCE Transport WITH Requests <- Ops

Store == [databases : SUBSET Names,
          policies  : SUBSET (Names \X Names),
          points    : SUBSET (Names \X Points)]
ASSUME StoresAssumption == InitialStores \subseteq Store

TypeOK ==
    /\ call \in [Ops -> Calls \cup {None}]
    /\ pc \in [Ops -> {"idle", "spawned", "sending", "done"}]
    /\ Net!TypeOK
    /\ replies \in [Ops -> SUBSET Response]
    /\ result \in [Ops -> Outcome]
    /\ store \in Store
    /\ accepted \in [Ops -> BOOLEAN]
    /\ seen \in [Ops -> SUBSET Store]
    /\ before \in [Ops -> SUBSET Ops]
    /\ \A o \in Ops : pc[o] = "idle" <=> call[o] = None

Init ==
    /\ call = [o \in Ops |-> None]
    /\ pc = [o \in Ops |-> "idle"]
    /\ Net!Init
    /\ replies = [o \in Ops |-> {}]
    /\ result = [o \in Ops |-> Success(<<>>)]
    /\ store \in InitialStores
    /\ accepted = [o \in Ops |-> FALSE]
    /\ seen = [o \in Ops |-> {}]
    /\ before = [o \in Ops |-> {}]

-----------------------------------------------------------------------------
(* The client calls a method: its arguments are copied into a functor, and *)
(* Spawn posts it to the threads of the context.                           *)
Launch(o, c) ==
    /\ pc[o] = "idle"
    /\ call' = [call EXCEPT ![o] = c]
    /\ pc' = [pc EXCEPT ![o] = "spawned"]
    /\ before' = [before EXCEPT ![o] = {p \in Ops : pc[p] = "done"}]
    /\ seen' = [seen EXCEPT ![o] = {store}]
    /\ UNCHANGED <<result, clusterVars, phase, executed>>

(* The coroutine ends and the token is invoked.                            *)
Complete(o, outcome) ==
    /\ result' = [result EXCEPT ![o] = [outcome EXCEPT !.error = ConvertException(@)]]
    /\ pc' = [pc EXCEPT ![o] = "done"]
    /\ UNCHANGED <<call, before>>

(* The tests of the functors before anything is sent. For a write that is  *)
(* also the encoder, which throws at the first point it cannot encode.     *)
(* Before it, one that looks at the first point only.                      *)
InvalidArgumentsLax(c) ==
    CASE c.op = "Write" -> c.db = "" \/ (c.points # <<>> /\ ~c.points[1].valid)
      [] OTHER -> FALSE

InvalidArguments(c) ==
    CASE c.op = "Ping" -> c.index >= NumServers
      [] c.op = "Query" -> c.command = ""
      [] c.op = "ShowDatabase" -> FALSE
      [] c.op \in {"CreateDatabase", "DropDatabase", "ShowRetentionPolicies"} -> c.db = ""
      [] c.op = "CreateRetentionPolicy" ->
            c.db = "" \/ c.rpConfig.name = "" \/ c.rpConfig.duration = ""
      [] c.op = "DropRetentionPolicy" -> c.db = "" \/ c.rp = ""
      [] c.op = "Write" ->
            c.db = "" \/ \E i \in DOMAIN c.points : ~c.points[i].valid

RejectArguments(o) ==
    /\ pc[o] = "spawned"
    /\ InvalidArguments(call[o])
    /\ Complete(o, Failure("InvalidArgument"))
    /\ UNCHANGED <<clusterVars, phase, executed, seen>>

(* A batch without points encodes to nothing, and nothing is sent.         *)
EmptyWrite(c) == c.op = "Write" /\ c.points = <<>>

NothingToWrite(o) ==
    /\ pc[o] = "spawned"
    /\ ~InvalidArguments(call[o])
    /\ EmptyWrite(call[o])
    /\ Complete(o, Success(<<>>))
    /\ UNCHANGED <<clusterVars, phase, executed, seen>>

(* PickAvailableServer finds none; Ping names its server and asks nobody.  *)
NoServer(o) ==
    /\ pc[o] = "spawned"
    /\ ~InvalidArguments(call[o])
    /\ ~EmptyWrite(call[o])
    /\ call[o].op # "Ping"
    /\ Complete(o, Failure("NoAvailableServer"))
    /\ UNCHANGED <<clusterVars, phase, executed, seen>>

(* Get or Post: the request goes to the transport.                         *)
SendRequest(o) ==
    /\ pc[o] = "spawned"
    /\ ~InvalidArguments(call[o])
    /\ ~EmptyWrite(call[o])
    /\ Net!Begin(o)
    /\ pc' = [pc EXCEPT ![o] = "sending"]
    /\ UNCHANGED <<call, result, before, clusterVars, seen>>

(* How the functor of the call c can end after the response rsp.           *)
Interpret(c, rsp) ==
    CASE c.op \in {"Ping", "Write"} -> RunNoContent(rsp)
      [] c.op = "Query" -> RunQueryGet(rsp)
      [] c.op = "ShowDatabase" -> RunShowDatabase(rsp)
      [] c.op = "ShowRetentionPolicies" -> RunShowRetentionPolicies(rsp)
      [] OTHER -> RunStatement(rsp)

Respond(o) ==
    /\ pc[o] = "sending"
    /\ Net!Return(o)
    /\ \E rsp \in replies[o] : \E outcome \in Interpret(call[o], rsp) : Complete(o, outcome)
    /\ UNCHANGED <<clusterVars, seen>>

(* SendRequest throws: a resolve, connect, write or read failed for good.  *)
(* Before it, one that is passed on as NoAvailableServer.                  *)
ThrowNoServer(o) ==
    /\ pc[o] = "sending"
    /\ Net!Fail(o)
    /\ Complete(o, Failure("NoAvailableServer"))
    /\ UNCHANGED <<clusterVars, seen>>

Throw(o) ==
    /\ pc[o] = "sending"
    /\ Net!Fail(o)
    /\ Complete(o, Failure("System"))
    /\ UNCHANGED <<clusterVars, seen>>

OpStep(o) ==
    \/ RejectArguments(o) \/ NothingToWrite(o) \/ NoServer(o)
    \/ SendRequest(o) \/ Respond(o) \/ Throw(o)

-----------------------------------------------------------------------------
(* The cluster. A request is executed against the store of that moment.    *)

Table(names) ==
    [i \in DOMAIN SetToList(names) |->
        [shape |-> "complete", name |-> SetToList(names)[i]]]

PoliciesOn(s, db) == {p \in Names : <<db, p>> \in s.policies}

(* What a show lists of the store s.                                       *)
Listed(c, s) ==
    CASE c.op = "ShowDatabase" -> s.databases
      [] c.op = "ShowRetentionPolicies" -> PoliciesOn(s, c.db)
      [] OTHER -> {}

Body(series, error) == [results |-> <<[series |-> series, error |-> error]>>, error |-> FALSE]

Answer(c) ==
    CASE c.op \in {"Ping", "Write"} -> [status |-> "no_content", body |-> Unparsable]
      [] c.op \in {"ShowDatabase", "ShowRetentionPolicies"} ->
            [status |-> "ok", body |-> Body(<<Table(Listed(c, store))>>, FALSE)]
      [] OTHER -> [status |-> "ok", body |-> Body(<<>>, FALSE)]

BadStatus == [status |-> "other", body |-> Unparsable]
BadBody   == [status |-> "ok", body |-> Unparsable]
Refusals  ==
    {[status |-> "ok", body |-> [results |-> <<>>, error |-> TRUE]],
     [status |-> "ok", body |-> Body(<<>>, TRUE)]}

(* Ping and Write have no body that could be read.                         *)
IsStatement(c) == c.op \notin {"Ping", "Write"}

Possible(c) ==
    CASE c.op \in {"CreateRetentionPolicy", "ShowRetentionPolicies", "DropRetentionPolicy"} ->
            c.db \in store.databases
      [] c.op = "Write" ->
            c.db \in store.databases /\ (c.rp = "" \/ <<c.db, c.rp>> \in store.policies)
      [] OTHER -> TRUE

PointsOf(c) == {<<c.db, c.points[i].point>> : i \in DOMAIN c.points}

Effect(c) ==
    CASE c.op = "CreateDatabase" ->
            [store EXCEPT !.databases = @ \cup {c.db},
                          !.policies = @ \cup ({<<c.db, c.rpConfig.name>>} \cap (Names \X Names))]
      [] c.op = "DropDatabase" ->
            [databases |-> store.databases \ {c.db},
             policies |-> {p \in store.policies : p[1] # c.db},
             points |-> {p \in store.points : p[1] # c.db}]
      [] c.op = "CreateRetentionPolicy" ->
            [store EXCEPT !.policies = @ \cup {<<c.db, c.rpConfig.name>>}]
      [] c.op = "DropRetentionPolicy" ->
            [store EXCEPT !.policies = @ \ {<<c.db, c.rp>>}]
      [] c.op = "Write" -> [store EXCEPT !.points = @ \cup PointsOf(c)]
      [] OTHER -> store

Running(o) == pc[o] \in {"spawned", "sending"}
Watch == seen' = [o \in Ops |-> IF Running(o) THEN seen[o] \cup {store'} ELSE seen[o]]

(* The cluster obeys o, and answers, or says something else.               *)
Obey(o) ==
    /\ executed[o] < MaxExecutions
    /\ Net!Execute(o)
    /\ Possible(call[o])
    /\ store' = Effect(call[o])
    /\ \E rsp \in {Answer(call[o]), BadStatus} \cup (IF IsStatement(call[o]) THEN {BadBody} ELSE {}) :
        replies' = [replies EXCEPT ![o] = @ \cup {rsp}]
    /\ accepted' = [accepted EXCEPT ![o] = @ \/ Running(o)]
    /\ Watch
    /\ UNCHANGED clientVars

(* The cluster refuses o; of a write it may have taken some of the points. *)
Refuse(o) ==
    /\ executed[o] < MaxExecutions
    /\ Net!Execute(o)
    /\ \/ UNCHANGED store
       \/ /\ call[o].op = "Write" /\ Possible(call[o])
          /\ \E some \in SUBSET PointsOf(call[o]) : store' = [store EXCEPT !.points = @ \cup some]
    /\ \E rsp \in {BadStatus} \cup (IF IsStatement(call[o]) THEN Refusals ELSE {}) :
        replies' = [replies EXCEPT ![o] = @ \cup {rsp}]
    /\ Watch
    /\ UNCHANGED <<clientVars, accepted>>

ClusterStep(o) == Obey(o) \/ Refuse(o)

-----------------------------------------------------------------------------
Next ==
    \E o \in Ops :
        \/ \E c \in Calls : Launch(o, c)
        \/ OpStep(o)
        \/ ClusterStep(o)

Spec == Init /\ [][Next]_vars

-----------------------------------------------------------------------------
Succeeded(o) == pc[o] = "done" /\ result[o].error = "none"

(* An operation that ends without an exception did what it was asked for:  *)
(* the cluster obeyed it, not merely answered, and it did so between the   *)
(* call and the completion. (A query leaves errors in its result.)         *)
SuccessMeansAccepted ==
    \A o \in Ops : Succeeded(o) /\ call[o].op # "Query" /\ ~EmptyWrite(call[o]) => accepted[o]

(* What ShowDatabase and ShowRetentionPolicies return is what the cluster  *)
(* had at one moment of the call, whatever other operations did meanwhile. *)
ShowIsSnapshot ==
    \A o \in Ops :
        Succeeded(o) /\ call[o].op \in {"ShowDatabase", "ShowRetentionPolicies"} =>
            \E s \in seen[o] : Range(result[o].value) = Listed(call[o], s)

(* The exception tells whether anything was sent. After InvalidArgument    *)
(* and NoAvailableServer nothing is executed, then or later, so that one   *)
(* bad point keeps the whole batch back; after an error about a response a *)
(* server has seen the request.                                            *)
ErrorTellsWhatWasSent ==
    \A o \in Ops : pc[o] = "done" =>
        /\ result[o].error \in {"InvalidArgument", "NoAvailableServer"} =>
            phase[o] = "idle" /\ executed[o] = 0
        /\ result[o].error \in {"UnexpectedStatusCode", "ErrorResult", "Unexpected"} =>
            executed[o] > 0

(* Whatever goes wrong, the token sees one of the library's exceptions.    *)
(* What could be foreign here is the exception of the JSON parser.         *)
TokenSeesLibraryErrors ==
    \A o \in Ops : pc[o] = "done" => result[o].error \in Codes \cup {"none"}

(* A database whose creation was reported before a ShowDatabase was called *)
(* is in its result, unless somebody asked to drop it: not later drops     *)
(* only, an old one may still be executed late.                            *)
ReadYourCreates ==
    \A o \in Ops : \A p \in before[o] :
        /\ Succeeded(o) /\ call[o].op = "ShowDatabase"
        /\ Succeeded(p) /\ call[p].op = "CreateDatabase"
        /\ \A q \in Ops : call[q] # None /\ call[q].op = "DropDatabase" => call[q].db # call[p].db
        => call[p].db \in Range(result[o].value)
=============================================================================
