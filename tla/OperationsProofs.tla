-------------------------- MODULE OperationsProofs --------------------------
(***************************************************************************)
(* Proofs about Operations, for every number of operations and servers,    *)
(* every set of calls and names, and however often the cluster executes a  *)
(* request; and, at the end, about ResponseHandling.                       *)
(***************************************************************************)
EXTENDS Operations, ResponseHandling, SequenceLemmas

-----------------------------------------------------------------------------
(* The inductive invariant. The types of what the steps depend on: the     *)
(* values that operations return are of no concern here.                   *)
Shape ==
    /\ call \in [Ops -> Calls \cup {None}]
    /\ pc \in [Ops -> {"idle", "spawned", "sending", "done"}]
    /\ Net!TypeOK
    /\ accepted \in [Ops -> BOOLEAN]
    /\ replies = [o \in Ops |-> replies[o]]
    /\ result = [o \in Ops |-> result[o]]

(* The coroutine and the transport agree on whether a request is under     *)
(* way, and nothing is executed or answered that was not sent.             *)
Agreed ==
    \A o \in Ops :
        /\ pc[o] \in {"idle", "spawned"} => phase[o] = "idle"
        /\ pc[o] = "sending" => phase[o] = "sending"
        /\ phase[o] = "idle" => executed[o] = 0 /\ replies[o] = {}

(* A response that a functor other than Query's takes for a success.       *)
Pleases(c, rsp) ==
    IF c.op \in {"Ping", "Write"} THEN rsp.status = "no_content"
    ELSE Verdict(rsp) = "none"

(* While the caller waits such a response means that the cluster obeyed,   *)
(* and one without an error has a result.                                  *)
Replied ==
    \A o \in Ops : \A rsp \in replies[o] :
        /\ Verdict(rsp) = "none" => rsp.body.results # <<>>
        /\ pc[o] = "sending" /\ call[o].op # "Query" /\ Pleases(call[o], rsp) => accepted[o]

IInv ==
    /\ Shape
    /\ Agreed
    /\ Replied
    /\ SuccessMeansAccepted
    /\ ErrorTellsWhatWasSent
    /\ TokenSeesLibraryErrors

-----------------------------------------------------------------------------
(* How a functor can end after a response, and when it ends well.          *)
LEMMA InterpretEnds ==
    ASSUME NEW c, NEW rsp, NEW outcome \in Interpret(c, rsp),
           Verdict(rsp) = "none" => rsp.body.results # <<>>
    PROVE  \E e \in {"none", "foreign", "UnexpectedStatusCode", "ErrorResult"} : \E v :
              /\ outcome = [error |-> e, value |-> v]
              /\ e = "none" /\ c.op # "Query" => Pleases(c, rsp)
<1>1. /\ ParseQueryRsp(rsp) \in {"none", "foreign", "UnexpectedStatusCode"}
      /\ Verdict(rsp) \in {"none", "foreign", "UnexpectedStatusCode", "ErrorResult"}
  BY DEF Verdict, ParseQueryRsp
<1>2. CASE c.op \in {"Ping", "Write"}
  <2>1. outcome \in RunNoContent(rsp)
    BY <1>2 DEF Interpret
  <2> QED BY <1>2, <2>1 DEF RunNoContent, Success, Failure, Pleases
<1>3. CASE c.op = "Query"
  <2>1. outcome \in RunQueryGet(rsp)
    BY <1>3 DEF Interpret
  <2> QED BY <1>1, <1>3, <2>1 DEF RunQueryGet, Success, Failure
<1>4. CASE c.op \notin {"Ping", "Write", "Query"}
  <2>1. Pleases(c, rsp) <=> Verdict(rsp) = "none"
    BY <1>4 DEF Pleases
  <2>2. \/ outcome \in RunShowDatabase(rsp)
        \/ outcome \in RunShowRetentionPolicies(rsp)
        \/ outcome \in RunStatement(rsp)
    BY <1>4 DEF Interpret
  <2>3. CASE Verdict(rsp) = "none"
    <3>1. Crashes(rsp.body) = {}
      BY <2>3 DEF Crashes
    <3>2. \E v : outcome = Success(v)
      BY <2>2, <2>3, <3>1 DEF RunShowDatabase, RunShowRetentionPolicies, RunStatement
    <3> QED BY <2>1, <2>3, <3>2 DEF Success
  <2>4. CASE Verdict(rsp) # "none"
    <3>1. outcome = Failure(Verdict(rsp))
      BY <2>2, <2>4 DEF RunShowDatabase, RunShowRetentionPolicies, RunStatement
    <3> QED BY <1>1, <2>4, <3>1 DEF Failure
  <2> QED BY <2>3, <2>4
<1> QED BY <1>2, <1>3, <1>4

(* What the token of o is invoked with, and that nothing else changes.     *)
LEMMA CompleteEffect ==
    ASSUME Shape, NEW o \in Ops, NEW e, NEW v,
           Complete(o, [error |-> e, value |-> v])
    PROVE  /\ pc'[o] = "done" /\ result'[o].error = ConvertException(e)
           /\ \A p \in Ops \ {o} : pc'[p] = pc[p] /\ result'[p] = result[p]
           /\ call' = call
           /\ pc' \in [Ops -> {"idle", "spawned", "sending", "done"}]
           /\ result' = [p \in Ops |-> result'[p]]
BY DEF Complete, Shape

(* The steps by which an operation completes keep the invariant.           *)
LEMMA CompleteInductive ==
    ASSUME IInv, NEW o \in Ops, NEW e, NEW v, pc[o] \in {"spawned", "sending"},
           Complete(o, [error |-> e, value |-> v]),
           UNCHANGED <<replies, accepted, executed>>,
           phase' \in [Ops -> Net!Phases],
           \A p \in Ops \ {o} : phase'[p] = phase[p],
           phase'[o] = "idle" => phase[o] = "idle",
           e = "none" /\ call[o].op # "Query" /\ ~EmptyWrite(call[o]) => accepted[o],
           ConvertException(e) \in Codes \cup {"none"},
           ConvertException(e) \in {"InvalidArgument", "NoAvailableServer"} => phase'[o] = "idle",
           ConvertException(e) \in {"UnexpectedStatusCode", "ErrorResult", "Unexpected"} =>
                executed[o] > 0
    PROVE  IInv'
<1>1. /\ pc'[o] = "done" /\ result'[o].error = ConvertException(e)
      /\ \A p \in Ops \ {o} : pc'[p] = pc[p] /\ result'[p] = result[p]
      /\ call' = call
      /\ pc' \in [Ops -> {"idle", "spawned", "sending", "done"}]
      /\ result' = [p \in Ops |-> result'[p]]
  BY CompleteEffect DEF IInv
<1>2. Shape'
  BY <1>1 DEF IInv, Shape, Net!TypeOK
<1>3. Agreed' /\ Replied'
  <2>1. \A p \in Ops : pc'[p] = "sending" => p # o /\ pc[p] = "sending"
    BY <1>1
  <2> QED BY <1>1, <2>1 DEF IInv, Agreed, Replied
<1>4. SuccessMeansAccepted'
  <2>1. ConvertException(e) = "none" => e = "none"
    BY DEF ConvertException
  <2>2. \A p \in Ops \ {o} : Succeeded(p)' = Succeeded(p)
    BY <1>1 DEF Succeeded
  <2>3. Succeeded(o)' => e = "none"
    BY <1>1, <2>1 DEF Succeeded
  <2> QED BY <1>1, <2>2, <2>3 DEF IInv, SuccessMeansAccepted, EmptyWrite
<1>5. ErrorTellsWhatWasSent'
  BY <1>1 DEF IInv, Agreed, ErrorTellsWhatWasSent
<1>6. TokenSeesLibraryErrors'
  BY <1>1 DEF IInv, TokenSeesLibraryErrors
<1> QED BY <1>2, <1>3, <1>4, <1>5, <1>6 DEF IInv

(* Launching or sending touches neither what was answered nor what ended.  *)
LEMMA ProceedInductive ==
    ASSUME IInv, NEW o \in Ops, (\E c \in Calls : Launch(o, c)) \/ SendRequest(o)
    PROVE  IInv'
<1>1. /\ UNCHANGED <<result, replies, accepted, executed>>
      /\ pc[o] \in {"idle", "spawned"} /\ executed[o] = 0 /\ phase[o] = "idle"
      /\ call' \in [Ops -> Calls \cup {None}]
      /\ pc' \in [Ops -> {"idle", "spawned", "sending", "done"}]
      /\ phase' \in [Ops -> Net!Phases]
      /\ \A p \in Ops \ {o} : pc'[p] = pc[p] /\ call'[p] = call[p] /\ phase'[p] = phase[p]
      /\ \/ pc'[o] = "spawned" /\ phase'[o] = "idle"
         \/ pc'[o] = "sending" /\ phase'[o] = "sending"
  BY DEF Launch, SendRequest, Net!Begin, Net!TypeOK, Net!Phases, clusterVars, IInv, Shape, Agreed
<1>2. Shape' /\ Agreed'
  BY <1>1 DEF IInv, Shape, Agreed, Net!TypeOK
<1>3. \A p \in Ops : pc'[p] = "done" => p # o /\ pc[p] = "done"
  BY <1>1
<1>4. Replied'
  <2> SUFFICES ASSUME NEW p \in Ops, NEW rsp \in replies[p]
               PROVE  /\ Verdict(rsp) = "none" => rsp.body.results # <<>>
                      /\ pc'[p] = "sending" /\ call'[p].op # "Query" /\ Pleases(call'[p], rsp)
                            => accepted[p]
    BY <1>1 DEF Replied
  <2>1. p # o
    BY <1>1 DEF IInv, Agreed
  <2> QED BY <1>1, <2>1 DEF IInv, Replied
<1>5. SuccessMeansAccepted'
  BY <1>1, <1>3 DEF IInv, SuccessMeansAccepted, Succeeded, EmptyWrite
<1>6. ErrorTellsWhatWasSent' /\ TokenSeesLibraryErrors'
  BY <1>1, <1>3 DEF IInv, ErrorTellsWhatWasSent, TokenSeesLibraryErrors
<1> QED BY <1>2, <1>4, <1>5, <1>6 DEF IInv

(* The operations that end: before anything is sent, with a response, or   *)
(* with the exception of the transport.                                    *)
LEMMA EndInductive ==
    ASSUME IInv, NEW o \in Ops,
           RejectArguments(o) \/ NothingToWrite(o) \/ NoServer(o) \/ Respond(o) \/ Throw(o)
    PROVE  IInv'
<1> USE DEF ConvertException, Codes, LibraryCodes
<1>1. \A p \in Ops : executed[p] \in Nat /\ phase \in [Ops -> Net!Phases]
  BY DEF IInv, Shape, Net!TypeOK
<1>2. CASE RejectArguments(o) \/ NoServer(o)
  <2>1. /\ pc[o] = "spawned" /\ phase[o] = "idle"
        /\ UNCHANGED <<replies, accepted, executed, phase>>
        /\ \E e \in {"InvalidArgument", "NoAvailableServer"} :
              Complete(o, [error |-> e, value |-> <<>>])
    BY <1>2 DEF RejectArguments, NoServer, clusterVars, Failure, IInv, Agreed
  <2> QED BY <1>1, <2>1, CompleteInductive
<1>3. CASE NothingToWrite(o)
  <2>1. /\ pc[o] = "spawned" /\ phase[o] = "idle" /\ EmptyWrite(call[o])
        /\ UNCHANGED <<replies, accepted, executed, phase>>
        /\ Complete(o, [error |-> "none", value |-> <<>>])
    BY <1>3 DEF NothingToWrite, clusterVars, Success, IInv, Agreed
  <2> QED BY <1>1, <2>1, CompleteInductive
<1>4. CASE Respond(o)
  <2>1. /\ pc[o] = "sending" /\ UNCHANGED <<replies, accepted, executed>>
        /\ executed[o] > 0 /\ phase' = [phase EXCEPT ![o] = "ok"]
    BY <1>4 DEF Respond, clusterVars, Net!Return
  <2>2. PICK rsp \in replies[o] : \E outcome \in Interpret(call[o], rsp) : Complete(o, outcome)
    BY <1>4 DEF Respond
  <2>3. PICK outcome \in Interpret(call[o], rsp) : Complete(o, outcome)
    BY <2>2
  <2>4. Verdict(rsp) = "none" => rsp.body.results # <<>>
    BY <2>2 DEF IInv, Replied
  <2>5. PICK e \in {"none", "foreign", "UnexpectedStatusCode", "ErrorResult"} : \E v :
              /\ outcome = [error |-> e, value |-> v]
              /\ e = "none" /\ call[o].op # "Query" => Pleases(call[o], rsp)
    BY <2>3, <2>4, InterpretEnds
  <2>6. e = "none" /\ call[o].op # "Query" => accepted[o]
    BY <2>1, <2>2, <2>5 DEF IInv, Replied
  <2>7. PICK v : Complete(o, [error |-> e, value |-> v])
    BY <2>3, <2>5
  <2>8. phase' \in [Ops -> Net!Phases] /\ phase'[o] = "ok"
        /\ \A p \in Ops \ {o} : phase'[p] = phase[p]
    BY <1>1, <2>1 DEF Net!Phases
  <2> QED BY <2>1, <2>6, <2>7, <2>8, CompleteInductive
<1>5. CASE Throw(o)
  <2>1. /\ pc[o] = "sending" /\ UNCHANGED <<replies, accepted, executed>>
        /\ phase' = [phase EXCEPT ![o] = "failed"]
        /\ Complete(o, [error |-> "System", value |-> <<>>])
    BY <1>5 DEF Throw, clusterVars, Net!Fail, Failure
  <2>2. phase' \in [Ops -> Net!Phases] /\ phase'[o] = "failed"
        /\ \A p \in Ops \ {o} : phase'[p] = phase[p]
    BY <1>1, <2>1 DEF Net!Phases
  <2> QED BY <2>1, <2>2, CompleteInductive
<1> QED BY <1>2, <1>3, <1>4, <1>5

(* What the cluster adds to the replies: an answer that pleases only when  *)
(* it obeyed.                                                              *)
LEMMA ClusterReplies ==
    ASSUME NEW o \in Ops, NEW rsp
    PROVE  /\ rsp \in {Answer(call[o]), BadStatus, BadBody} \cup Refusals =>
                (Verdict(rsp) = "none" => rsp.body.results # <<>>)
           /\ rsp \in {BadStatus} \cup (IF IsStatement(call[o]) THEN Refusals ELSE {}) =>
                ~Pleases(call[o], rsp)
<1> USE DEF Verdict, ParseQueryRsp, HasError
<1>1. rsp = BadStatus => Verdict(rsp) # "none" /\ ~Pleases(call[o], rsp)
  BY DEF BadStatus, Pleases
<1>2. rsp = BadBody => Verdict(rsp) # "none"
  BY DEF BadBody
<1>3. rsp \in Refusals => Verdict(rsp) # "none"
  BY DEF Refusals, Body
<1>4. rsp = Answer(call[o]) => (Verdict(rsp) = "none" => rsp.body.results # <<>>)
  BY DEF Answer, Body
<1> QED BY <1>1, <1>2, <1>3, <1>4 DEF IsStatement, Pleases

LEMMA ClusterInductive ==
    ASSUME IInv, NEW o \in Ops, ClusterStep(o)
    PROVE  IInv'
<1>1. /\ UNCHANGED <<call, pc, result, phase>> /\ phase[o] # "idle"
      /\ executed' \in [Ops -> Nat] /\ executed'[o] > 0
      /\ \A p \in Ops \ {o} : executed'[p] = executed[p]
  BY DEF ClusterStep, Obey, Refuse, Net!Execute, clientVars, IInv, Shape, Net!TypeOK
<1>2. /\ accepted' \in [Ops -> BOOLEAN]
      /\ \A p \in Ops : accepted[p] => accepted'[p]
      /\ Obey(o) /\ pc[o] = "sending" => accepted'[o]
  BY DEF ClusterStep, Obey, Refuse, Running, IInv, Shape
<1>3. \E rsp : /\ replies' = [replies EXCEPT ![o] = @ \cup {rsp}]
               /\ Verdict(rsp) = "none" => rsp.body.results # <<>>
               /\ Obey(o) \/ ~Pleases(call[o], rsp)
  <2>1. CASE Obey(o)
    <3>1. \E rsp \in {Answer(call[o]), BadStatus, BadBody} :
              replies' = [replies EXCEPT ![o] = @ \cup {rsp}]
      BY <2>1 DEF Obey
    <3> QED BY <2>1, <3>1, ClusterReplies
  <2>2. CASE Refuse(o)
    <3>1. \E rsp \in {BadStatus} \cup (IF IsStatement(call[o]) THEN Refusals ELSE {}) :
              replies' = [replies EXCEPT ![o] = @ \cup {rsp}]
      BY <2>2 DEF Refuse
    <3>2. {BadStatus} \cup (IF IsStatement(call[o]) THEN Refusals ELSE {})
            \subseteq {Answer(call[o]), BadStatus, BadBody} \cup Refusals
      OBVIOUS
    <3> QED BY <3>1, <3>2, ClusterReplies
  <2> QED BY <2>1, <2>2 DEF ClusterStep
<1>4. PICK rsp : /\ replies' = [replies EXCEPT ![o] = @ \cup {rsp}]
                 /\ Verdict(rsp) = "none" => rsp.body.results # <<>>
                 /\ Obey(o) \/ ~Pleases(call[o], rsp)
  BY <1>3
<1>5. /\ replies'[o] = replies[o] \cup {rsp}
      /\ \A p \in Ops \ {o} : replies'[p] = replies[p]
      /\ replies' = [p \in Ops |-> replies'[p]]
  BY <1>4 DEF IInv, Shape
<1>6. Shape' /\ Agreed'
  BY <1>1, <1>2, <1>5 DEF IInv, Shape, Agreed, Net!TypeOK
<1>7. Replied'
  <2> SUFFICES ASSUME NEW p \in Ops, NEW x \in replies'[p]
               PROVE  /\ Verdict(x) = "none" => x.body.results # <<>>
                      /\ pc[p] = "sending" /\ call[p].op # "Query" /\ Pleases(call[p], x)
                            => accepted'[p]
    BY <1>1 DEF Replied
  <2>1. CASE x \in replies[p]
    BY <1>2, <2>1 DEF IInv, Replied
  <2>2. CASE x \notin replies[p]
    <3>1. p = o /\ x = rsp
      BY <1>5, <2>2
    <3> QED BY <1>2, <1>4, <3>1
  <2> QED BY <2>1, <2>2
<1>8. SuccessMeansAccepted'
  BY <1>1, <1>2 DEF IInv, SuccessMeansAccepted, Succeeded, EmptyWrite
<1>9. ErrorTellsWhatWasSent' /\ TokenSeesLibraryErrors'
  <2>1. \A p \in Ops : executed[p] > 0 => executed'[p] > 0
    BY <1>1
  <2> QED BY <1>1, <2>1 DEF IInv, ErrorTellsWhatWasSent, TokenSeesLibraryErrors
<1> QED BY <1>6, <1>7, <1>8, <1>9 DEF IInv

-----------------------------------------------------------------------------
LEMMA InitInductive == Init => IInv
BY DEF Init, Net!Init, Net!TypeOK, Net!Phases, IInv, Shape, Agreed, Replied,
   SuccessMeansAccepted, Succeeded, ErrorTellsWhatWasSent, TokenSeesLibraryErrors

LEMMA NextInductive == IInv /\ [Next]_vars => IInv'
<1> SUFFICES ASSUME IInv, [Next]_vars
             PROVE  IInv'
  OBVIOUS
<1>1. ASSUME NEW o \in Ops, NEW c \in Calls, Launch(o, c)
      PROVE  IInv'
  BY <1>1, ProceedInductive
<1>2. ASSUME NEW o \in Ops, OpStep(o)
      PROVE  IInv'
  BY <1>2, ProceedInductive, EndInductive DEF OpStep
<1>3. ASSUME NEW o \in Ops, ClusterStep(o)
      PROVE  IInv'
  BY <1>3, ClusterInductive
<1>4. CASE UNCHANGED vars
  <2>1. UNCHANGED <<call, pc, result, replies, accepted, phase, executed>>
    BY <1>4 DEF vars, clientVars, clusterVars
  <2>2. Shape' /\ Agreed' /\ Replied'
    BY <2>1 DEF IInv, Shape, Agreed, Replied, Net!TypeOK
  <2> QED BY <2>1, <2>2 DEF IInv, SuccessMeansAccepted, Succeeded, EmptyWrite,
             ErrorTellsWhatWasSent, TokenSeesLibraryErrors
<1> QED BY <1>1, <1>2, <1>3, <1>4 DEF Next

(* IInv holds in every reachable state.                                    *)
THEOREM InductiveInvariant == Spec => []IInv
BY InitInductive, NextInductive, PTL DEF Spec

(* A functor that ends without an exception was obeyed by the cluster      *)
(* between the call and the completion.                                    *)
THEOREM SuccessMeansAcceptedCorrect == Spec => []SuccessMeansAccepted
<1>1. IInv => SuccessMeansAccepted
  BY DEF IInv
<1> QED BY <1>1, InductiveInvariant, PTL

(* The error code of the exception tells whether a server has seen the     *)
(* request.                                                                *)
THEOREM ErrorTellsWhatWasSentCorrect == Spec => []ErrorTellsWhatWasSent
<1>1. IInv => ErrorTellsWhatWasSent
  BY DEF IInv
<1> QED BY <1>1, InductiveInvariant, PTL

(* ConvertException lets none but the library's exceptions through.        *)
THEOREM TokenSeesLibraryErrorsCorrect == Spec => []TokenSeesLibraryErrors
<1>1. IInv => TokenSeesLibraryErrors
  BY DEF IInv
<1> QED BY <1>1, InductiveInvariant, PTL

-----------------------------------------------------------------------------
(* What the loops over the rows of a table return.                         *)
LEMMA TableIsRead ==
    ASSUME NEW L \in SUBSET Names
    PROVE  /\ Table(L) \in Seq(Row)
           /\ DatabasesOf(Table(L)) \in Seq(Names) /\ Range(DatabasesOf(Table(L))) = L
           /\ PoliciesOf(Table(L)) \in Seq(Names) /\ Range(PoliciesOf(Table(L))) = L
<1> DEFINE list == SetToList(L)
           rows == Table(L)
           val == [i \in DOMAIN rows |-> rows[i].name]
<1>1. list \in Seq(Names) /\ Range(list) = L
  <2>1. list \in Seq(L) /\ Range(list) = L
    BY ListAssumption
  <2> QED BY <2>1
<1> HIDE DEF list
<1>2. /\ rows = [i \in 1 .. Len(list) |-> [shape |-> "complete", name |-> list[i]]]
      /\ \A i \in 1 .. Len(list) : list[i] \in Names
      /\ Len(list) \in Nat
  BY <1>1 DEF Table, list
<1>3. rows \in Seq(Row)
  <2>1. \A i \in 1 .. Len(list) : [shape |-> "complete", name |-> list[i]] \in Row
    BY <1>2 DEF Row
  <2> QED BY <1>2, <2>1
<1> HIDE DEF rows
<1>4. /\ Len(rows) = Len(list) /\ DOMAIN rows = 1 .. Len(list)
      /\ \A i \in 1 .. Len(list) : rows[i].name = list[i] /\ rows[i].shape = "complete"
  BY <1>2, <1>3
<1>5. {i \in DOMAIN rows : Readable(rows[i])} = 1 .. Len(list)
  BY <1>4 DEF Readable
<1>6. \A i \in 1 .. Len(list) : val[i] = list[i]
  BY <1>4
<1>7. NamesOf(rows) = Collect(Len(list), 1 .. Len(list), val)
  BY <1>4, <1>5 DEF NamesOf
<1> HIDE DEF val
<1>8. \A i \in 1 .. Len(list) : val[i] \in Names
  BY <1>2, <1>6
<1>9. NamesOf(rows) \in Seq(Names) /\ Range(NamesOf(rows)) = L
  <2>1. PICK N \in Nat : N = Len(list)
    BY <1>2
  <2>2. \A n \in 1 .. N : val[n] \in Names
    BY <1>8, <2>1
  <2>3. /\ NamesOf(rows) \in Seq(Names)
        /\ Range(NamesOf(rows)) = Gathered(N, 1 .. N, val)
    <3>1. NamesOf(rows) = Collect(N, 1 .. N, val)
      BY <1>7, <2>1
    <3>2. /\ Collect(N, 1 .. N, val) \in Seq(Names)
          /\ Range(Collect(N, 1 .. N, val)) = Gathered(N, 1 .. N, val)
      BY <2>2, Collected, CollectedType
    <3> QED BY <3>1, <3>2
  <2>4. Range(NamesOf(rows)) = {list[i] : i \in 1 .. Len(list)}
    BY <1>6, <2>1, <2>3 DEF Gathered
  <2>5. Range(list) = {list[i] : i \in 1 .. Len(list)}
    BY <1>1 DEF Range
  <2> QED BY <1>1, <2>3, <2>4, <2>5
<1>10. Before(rows, {i \in DOMAIN rows : rows[i].shape = "short"}) = rows
  <2>1. {i \in DOMAIN rows : rows[i].shape = "short"} = {}
    BY <1>4
  <2>2. Before(rows, {}) = SubSeq(rows, 1, Len(rows))
    <3>1. (CHOOSE n \in 0 .. Len(rows) : n = Len(rows)) = Len(rows)
      BY <1>2, <1>4
    <3> QED BY <3>1 DEF Before
  <2>3. SubSeq(rows, 1, Len(rows)) = rows
    BY <1>3
  <2> QED BY <2>1, <2>2, <2>3
<1> QED BY <1>3, <1>9, <1>10 DEF DatabasesOf, PoliciesOf, rows

-----------------------------------------------------------------------------
(* What the operations that show report of the cluster, and the types of   *)
(* all values: a second invariant, which holds on top of IInv.             *)

(* What was sent had passed the tests of its functor, and nothing else is  *)
(* accepted.                                                               *)
Sent ==
    \A o \in Ops :
        /\ phase[o] # "idle" => call[o] # None /\ ~InvalidArguments(call[o])
        /\ accepted[o] => phase[o] # "idle"

(* An operation under way sees the store as it is, ...                     *)
Watched == \A o \in Ops : Running(o) => store \in seen[o]

(* ... and a table that it may still read was one of a store it saw.       *)
Shows == {"ShowDatabase", "ShowRetentionPolicies"}
Answers ==
    \A o \in Ops : pc[o] = "sending" /\ call[o].op \in Shows =>
        \A rsp \in replies[o] : Verdict(rsp) = "none" =>
            \E s \in seen[o] : rsp.body = Body(<<Table(Listed(call[o], s))>>, FALSE)

(* What was done before an operation was called stays done.                *)
Earlier == \A o \in Ops : pc[o] # "idle" => \A p \in before[o] : pc[p] = "done" /\ p # o

(* A database whose creation the cluster accepted while the caller waited  *)
(* is there until somebody asks to drop it, ...                            *)
NotDropped(db) ==
    \A q \in Ops : call[q] # None /\ call[q].op = "DropDatabase" => call[q].db # db
Created(p) ==
    call[p] # None /\ call[p].op = "CreateDatabase" /\ accepted[p] /\ NotDropped(call[p].db)
CreatedStays == \A p \in Ops : Created(p) => call[p].db \in store.databases

(* ... and whoever was called after its creation had been reported sees it. *)
CreatedIsSeen ==
    \A o \in Ops : pc[o] # "idle" => \A p \in before[o] : Created(p) =>
        \A s \in seen[o] : call[p].db \in s.databases

SInv ==
    /\ TypeOK
    /\ Sent
    /\ Watched
    /\ Answers
    /\ ShowIsSnapshot
    /\ Earlier
    /\ CreatedStays
    /\ CreatedIsSeen

-----------------------------------------------------------------------------
(* Types of what the cluster does and answers.                             *)

(* The arguments of a call that passed the tests.                          *)
LEMMA ArgumentTypes ==
    ASSUME NEW c \in AllCalls, ~InvalidArguments(c)
    PROVE  /\ c.op \in {"CreateDatabase", "CreateRetentionPolicy", "DropDatabase",
                        "DropRetentionPolicy", "ShowRetentionPolicies", "Write"} => c.db \in Names
           /\ c.op = "CreateRetentionPolicy" => c.rpConfig.name \in Names
           /\ c.op = "Write" => c.points \in Seq(Point)
<1> USE DEF AllCalls, InvalidArguments, NameOrEmpty
<1>1. CASE c \in PingCall \cup QueryCall \cup ShowDatabaseCall
  BY <1>1 DEF PingCall, QueryCall, ShowDatabaseCall
<1>2. CASE c \in CreateDatabaseCall
  BY <1>2 DEF CreateDatabaseCall
<1>3. CASE c \in DropDatabaseCall
  BY <1>3 DEF DropDatabaseCall
<1>4. CASE c \in CreateRetentionPolicyCall
  BY <1>4 DEF CreateRetentionPolicyCall, RpConfig
<1>5. CASE c \in ShowRetentionPoliciesCall
  BY <1>5 DEF ShowRetentionPoliciesCall
<1>6. CASE c \in DropRetentionPolicyCall
  BY <1>6 DEF DropRetentionPolicyCall
<1>7. CASE c \in WriteCall
  BY <1>7 DEF WriteCall
<1> QED BY <1>1, <1>2, <1>3, <1>4, <1>5, <1>6, <1>7

LEMMA PointsType ==
    ASSUME NEW c \in AllCalls, ~InvalidArguments(c), c.op = "Write"
    PROVE  PointsOf(c) \in SUBSET (Names \X Points)
<1>1. c.db \in Names /\ c.points \in Seq(Point)
  BY ArgumentTypes
<1>2. \A i \in DOMAIN c.points : c.points[i].point \in Points
  <2>1. \A i \in DOMAIN c.points : c.points[i] \in Point
    BY <1>1
  <2> QED BY <2>1 DEF Point
<1> QED BY <1>1, <1>2 DEF PointsOf

LEMMA EffectType ==
    ASSUME store \in Store, NEW c \in AllCalls, ~InvalidArguments(c)
    PROVE  Effect(c) \in Store
<1>1. /\ store.databases \in SUBSET Names /\ store.policies \in SUBSET (Names \X Names)
      /\ store.points \in SUBSET (Names \X Points)
      /\ store = [databases |-> store.databases, policies |-> store.policies,
                  points |-> store.points]
  BY DEF Store
<1>2. CASE c.op = "CreateDatabase"
  <2>1. c.db \in Names
    BY <1>2, ArgumentTypes
  <2>2. Effect(c) = [databases |-> store.databases \cup {c.db},
                     policies |-> store.policies
                         \cup ({<<c.db, c.rpConfig.name>>} \cap (Names \X Names)),
                     points |-> store.points]
    BY <1>1, <1>2 DEF Effect
  <2> QED BY <1>1, <2>1, <2>2 DEF Store
<1>3. CASE c.op = "DropDatabase"
  BY <1>1, <1>3 DEF Effect, Store
<1>4. CASE c.op = "CreateRetentionPolicy"
  <2>1. c.db \in Names /\ c.rpConfig.name \in Names
    BY <1>4, ArgumentTypes
  <2>2. Effect(c) = [databases |-> store.databases,
                     policies |-> store.policies \cup {<<c.db, c.rpConfig.name>>},
                     points |-> store.points]
    BY <1>1, <1>4 DEF Effect
  <2> QED BY <1>1, <2>1, <2>2 DEF Store
<1>5. CASE c.op = "DropRetentionPolicy"
  <2>1. Effect(c) = [databases |-> store.databases,
                     policies |-> store.policies \ {<<c.db, c.rp>>},
                     points |-> store.points]
    BY <1>1, <1>5 DEF Effect
  <2> QED BY <1>1, <2>1 DEF Store
<1>6. CASE c.op = "Write"
  <2>1. Effect(c) = [databases |-> store.databases, policies |-> store.policies,
                     points |-> store.points \cup PointsOf(c)]
    BY <1>1, <1>6 DEF Effect
  <2> QED BY <1>1, <1>6, <2>1, PointsType DEF Store
<1>7. CASE c.op \notin {"CreateDatabase", "DropDatabase", "CreateRetentionPolicy",
                       "DropRetentionPolicy", "Write"}
  BY <1>7 DEF Effect
<1> QED BY <1>2, <1>3, <1>4, <1>5, <1>6, <1>7

(* Only a request to drop a database removes it, and one to create it adds *)
(* it.                                                                     *)
LEMMA EffectOnDatabases ==
    ASSUME store \in Store, NEW c, NEW db
    PROVE  /\ db \in store.databases /\ (c.op = "DropDatabase" => c.db # db)
                => db \in Effect(c).databases
           /\ c.op = "CreateDatabase" => c.db \in Effect(c).databases
BY DEF Effect, Store

LEMMA ListedType ==
    ASSUME NEW st \in Store, NEW c
    PROVE  Listed(c, st) \in SUBSET Names
BY DEF Listed, PoliciesOn, Store

LEMMA ReplyTypes ==
    ASSUME store \in Store, NEW c
    PROVE  {Answer(c), BadStatus, BadBody} \cup Refusals \subseteq Response
<1>1. <<>> \in Seq(Seq(Row)) /\ <<>> \in Seq(SeriesResult)
  OBVIOUS
<1>2. ASSUME NEW series \in Seq(Seq(Row)), NEW error \in BOOLEAN
      PROVE  Body(series, error) \in QueryResult
  <2>1. [series |-> series, error |-> error] \in SeriesResult
    BY DEF SeriesResult
  <2>2. <<[series |-> series, error |-> error]>> \in Seq(SeriesResult)
    BY <2>1
  <2> QED BY <2>2 DEF Body, QueryResult
<1>3. <<Table(Listed(c, store))>> \in Seq(Seq(Row))
  <2>1. Table(Listed(c, store)) \in Seq(Row)
    BY ListedType, TableIsRead
  <2> QED BY <2>1
<1>4. Body(<<Table(Listed(c, store))>>, FALSE) \in QueryResult
  BY <1>2, <1>3
<1>5. Body(<<>>, TRUE) \in QueryResult /\ Body(<<>>, FALSE) \in QueryResult
  BY <1>1, <1>2
<1>6. [results |-> <<>>, error |-> TRUE] \in QueryResult
  BY <1>1 DEF QueryResult
<1>7. Answer(c) \in Response
  BY <1>4, <1>5 DEF Answer, Response, Statuses
<1>8. BadStatus \in Response /\ BadBody \in Response /\ Refusals \subseteq Response
  <2>1. BadStatus \in Response /\ BadBody \in Response
    BY DEF BadStatus, BadBody, Response, Statuses
  <2>2. /\ [status |-> "ok", body |-> [results |-> <<>>, error |-> TRUE]] \in Response
        /\ [status |-> "ok", body |-> Body(<<>>, TRUE)] \in Response
    BY <1>5, <1>6 DEF Response, Statuses
  <2> QED BY <2>1, <2>2 DEF Refusals
<1> QED BY <1>7, <1>8

-----------------------------------------------------------------------------
(* The steps.                                                              *)

(* An answer stays one, what was returned stays what it was, and what is   *)
(* done stays done.                                                        *)
LEMMA AnswersKeep ==
    ASSUME Answers,
           \A p \in Ops : pc'[p] = "sending" /\ replies'[p] # {} =>
               /\ pc[p] = "sending" /\ call'[p] = call[p]
               /\ replies'[p] = replies[p] /\ seen[p] \subseteq seen'[p]
    PROVE  Answers'
<1> SUFFICES ASSUME NEW p \in Ops, pc'[p] = "sending", call'[p].op \in Shows,
                    NEW rsp \in replies'[p], Verdict(rsp) = "none"
             PROVE  \E st \in seen'[p] :
                        rsp.body = Body(<<Table(Listed(call'[p], st))>>, FALSE)
  BY DEF Answers
<1>1. /\ pc[p] = "sending" /\ call'[p] = call[p] /\ rsp \in replies[p]
      /\ seen[p] \subseteq seen'[p]
  OBVIOUS
<1>2. PICK st \in seen[p] : rsp.body = Body(<<Table(Listed(call[p], st))>>, FALSE)
  BY <1>1 DEF Answers
<1> QED BY <1>1, <1>2

LEMMA SnapshotKeeps ==
    ASSUME ShowIsSnapshot, NEW p \in Ops, Succeeded(p)', call'[p].op \in Shows,
           pc[p] = "done", call'[p] = call[p], result'[p] = result[p],
           seen[p] \subseteq seen'[p]
    PROVE  \E st \in seen'[p] : Range(result'[p].value) = Listed(call'[p], st)
<1>1. PICK st \in seen[p] : Range(result[p].value) = Listed(call[p], st)
  BY DEF ShowIsSnapshot, Succeeded, Shows
<1> QED BY <1>1

LEMMA EarlierKeeps ==
    ASSUME Earlier, \A p \in Ops : before[p] \in SUBSET Ops,
           \A p \in Ops : pc[p] = "done" => pc'[p] = "done",
           \A p \in Ops : pc'[p] # "idle" =>
               \/ pc[p] # "idle" /\ before'[p] = before[p]
               \/ before'[p] \subseteq {q \in Ops \ {p} : pc[q] = "done"}
    PROVE  Earlier'
<1> SUFFICES ASSUME NEW p \in Ops, pc'[p] # "idle", NEW q \in before'[p]
             PROVE  pc'[q] = "done" /\ q # p
  BY DEF Earlier
<1>1. CASE pc[p] # "idle" /\ before'[p] = before[p]
  <2>1. q \in Ops /\ pc[q] = "done" /\ q # p
    BY <1>1 DEF Earlier
  <2> QED BY <2>1
<1>2. CASE before'[p] \subseteq {x \in Ops \ {p} : pc[x] = "done"}
  BY <1>2
<1> QED BY <1>1, <1>2

LEMMA LaunchKeeps ==
    ASSUME IInv, SInv, NEW o \in Ops, NEW c \in Calls, Launch(o, c)
    PROVE  SInv'
<1> USE DEF SInv
<1>1. /\ pc[o] = "idle" /\ call[o] = None /\ phase[o] = "idle" /\ ~accepted[o]
      /\ c \in Calls /\ c # None
  BY CallsAssumption DEF Launch, TypeOK, IInv, Agreed, Sent
<1>2. /\ call'[o] = c /\ pc'[o] = "spawned" /\ seen'[o] = {store}
      /\ before'[o] = {p \in Ops : pc[p] = "done"}
      /\ \A p \in Ops \ {o} : /\ call'[p] = call[p] /\ pc'[p] = pc[p]
                             /\ seen'[p] = seen[p] /\ before'[p] = before[p]
      /\ UNCHANGED <<result, store, replies, accepted, phase, executed>>
  BY DEF Launch, TypeOK, clusterVars
<1>3. TypeOK'
  <2>1. /\ call' \in [Ops -> Calls \cup {None}]
        /\ pc' \in [Ops -> {"idle", "spawned", "sending", "done"}]
        /\ seen' \in [Ops -> SUBSET Store]
        /\ before' \in [Ops -> SUBSET Ops]
    BY DEF Launch, TypeOK
  <2>2. \A p \in Ops : pc'[p] = "idle" <=> call'[p] = None
    BY <1>1, <1>2 DEF TypeOK
  <2> QED BY <1>2, <2>1, <2>2 DEF TypeOK, Net!TypeOK
<1>4. Sent' /\ Watched'
  BY <1>1, <1>2 DEF Sent, Watched, Running
<1>5. Answers' /\ ShowIsSnapshot'
  <2>1. \A p \in Ops : pc'[p] \in {"sending", "done"} => p # o
    BY <1>2
  <2>2. Answers'
    BY <1>2, <2>1, AnswersKeep
  <2>3. ASSUME NEW p \in Ops, Succeeded(p)', call'[p].op \in Shows
        PROVE  \E st \in seen'[p] : Range(result'[p].value) = Listed(call'[p], st)
    <3>1. p # o
      BY <2>1, <2>3 DEF Succeeded
    <3>2. /\ pc[p] = "done" /\ call'[p] = call[p] /\ result'[p] = result[p]
          /\ seen[p] \subseteq seen'[p]
      BY <1>2, <2>3, <3>1 DEF Succeeded
    <3> QED BY <2>3, <3>2, SnapshotKeeps
  <2> QED BY <2>2, <2>3 DEF ShowIsSnapshot, Shows
<1>6. Earlier'
  <2>1. \A p \in Ops : before[p] \in SUBSET Ops
    BY DEF TypeOK
  <2> QED BY <1>1, <1>2, <2>1, EarlierKeeps
<1>7. \A p \in Ops : Created(p)' => p # o /\ Created(p)
  BY <1>1, <1>2 DEF Created, NotDropped
<1>8. CreatedStays'
  BY <1>2, <1>7 DEF CreatedStays
<1>9. CreatedIsSeen'
  <2> SUFFICES ASSUME NEW x \in Ops, pc'[x] # "idle", NEW p \in before'[x], Created(p)',
                      NEW st \in seen'[x]
               PROVE  call'[p].db \in st.databases
    BY DEF CreatedIsSeen
  <2>1. p \in Ops /\ p # o /\ Created(p) /\ call'[p] = call[p]
    <3>1. p \in Ops
      BY <1>3 DEF TypeOK
    <3> QED BY <1>2, <1>7, <3>1
  <2>2. CASE x = o
    BY <1>2, <2>1, <2>2 DEF CreatedStays
  <2>3. CASE x # o
    BY <1>2, <2>1, <2>3 DEF CreatedIsSeen
  <2> QED BY <2>2, <2>3
<1> QED BY <1>3, <1>4, <1>5, <1>6, <1>8, <1>9

(* What changes neither the calls nor the cluster keeps what was created.  *)
LEMMA CreatedKeeps ==
    ASSUME SInv, UNCHANGED <<call, before, store, accepted, seen>>,
           \A p \in Ops : pc'[p] # "idle" => pc[p] # "idle"
    PROVE  CreatedStays' /\ CreatedIsSeen'
<1>1. \A p \in Ops : Created(p)' <=> Created(p)
  BY DEF Created, NotDropped
<1>2. \A p \in Ops : before[p] \in SUBSET Ops
  BY DEF SInv, TypeOK
<1> QED BY <1>1, <1>2 DEF SInv, CreatedStays, CreatedIsSeen

LEMMA SendKeeps ==
    ASSUME IInv, SInv, NEW o \in Ops, SendRequest(o)
    PROVE  SInv'
<1> USE DEF SInv
<1>1. /\ pc[o] = "spawned" /\ ~InvalidArguments(call[o]) /\ phase[o] = "idle"
      /\ call[o] # None /\ replies[o] = {}
  BY DEF SendRequest, Net!Begin, TypeOK, IInv, Agreed
<1>2. /\ pc'[o] = "sending" /\ phase'[o] = "sending"
      /\ \A p \in Ops \ {o} : pc'[p] = pc[p] /\ phase'[p] = phase[p]
      /\ UNCHANGED <<call, result, before, store, replies, accepted, executed, seen>>
  BY DEF SendRequest, Net!Begin, TypeOK, Net!TypeOK, clusterVars
<1>3. TypeOK'
  <2>1. /\ pc' \in [Ops -> {"idle", "spawned", "sending", "done"}]
        /\ phase' \in [Ops -> Net!Phases]
    BY DEF SendRequest, Net!Begin, TypeOK, Net!TypeOK, Net!Phases
  <2>2. \A p \in Ops : pc'[p] = "idle" <=> call'[p] = None
    BY <1>1, <1>2 DEF TypeOK
  <2> QED BY <1>2, <2>1, <2>2 DEF TypeOK, Net!TypeOK
<1>4. Sent' /\ Watched'
  BY <1>1, <1>2 DEF Sent, Watched, Running
<1>5. Answers' /\ ShowIsSnapshot' /\ Earlier'
  <2>1. Answers'
    BY <1>1, <1>2, AnswersKeep
  <2>2. ASSUME NEW p \in Ops, Succeeded(p)', call'[p].op \in Shows
        PROVE  \E st \in seen'[p] : Range(result'[p].value) = Listed(call'[p], st)
    <3>1. pc[p] = "done" /\ seen[p] \subseteq seen'[p]
      BY <1>2, <2>2 DEF Succeeded
    <3> QED BY <1>2, <2>2, <3>1, SnapshotKeeps
  <2>3. \A p \in Ops : before[p] \in SUBSET Ops
    BY DEF TypeOK
  <2>4. Earlier'
    BY <1>1, <1>2, <2>3, EarlierKeeps
  <2> QED BY <2>1, <2>2, <2>4 DEF ShowIsSnapshot, Shows
<1>6. CreatedStays' /\ CreatedIsSeen'
  BY <1>1, <1>2, CreatedKeeps
<1> QED BY <1>3, <1>4, <1>5, <1>6

(* A token is invoked.                                                     *)
LEMMA CompleteKeeps ==
    ASSUME IInv, SInv, NEW o \in Ops, pc[o] \in {"spawned", "sending"},
           NEW outcome \in Outcome, Complete(o, outcome),
           UNCHANGED <<store, replies, accepted, seen, executed>>,
           phase' \in [Ops -> Net!Phases], \A p \in Ops \ {o} : phase'[p] = phase[p],
           phase'[o] = "idle" <=> phase[o] = "idle",
           outcome.error = "none" /\ call[o].op \in Shows =>
                \E st \in seen[o] : Range(outcome.value) = Listed(call[o], st)
    PROVE  SInv'
<1> USE DEF SInv
<1>1. /\ pc'[o] = "done"
      /\ result'[o] = [outcome EXCEPT !.error = ConvertException(@)]
      /\ \A p \in Ops \ {o} : pc'[p] = pc[p] /\ result'[p] = result[p]
      /\ UNCHANGED <<call, before>>
  BY DEF Complete, TypeOK
<1>2. /\ result'[o] \in Outcome
      /\ result'[o].value = outcome.value
      /\ result'[o].error = "none" => outcome.error = "none"
  BY <1>1 DEF Outcome, ConvertException, Codes, LibraryCodes
<1>3. TypeOK'
  <2>1. /\ pc' \in [Ops -> {"idle", "spawned", "sending", "done"}]
        /\ result' \in [Ops -> Outcome]
    BY <1>1, <1>2 DEF Complete, TypeOK
  <2>2. \A p \in Ops : pc'[p] = "idle" <=> call'[p] = None
    BY <1>1 DEF TypeOK
  <2> QED BY <1>1, <2>1, <2>2 DEF TypeOK, Net!TypeOK
<1>4. Sent' /\ Watched'
  BY <1>1 DEF Sent, Watched, Running
<1>5. Answers' /\ Earlier'
  <2>1. Answers'
    BY <1>1, AnswersKeep
  <2>2. \A p \in Ops : before[p] \in SUBSET Ops
    BY DEF TypeOK
  <2>3. Earlier'
    BY <1>1, <2>2, EarlierKeeps
  <2> QED BY <2>1, <2>3
<1>6. ShowIsSnapshot'
  <2>1. ASSUME NEW p \in Ops, Succeeded(p)', call'[p].op \in Shows
        PROVE  \E st \in seen'[p] : Range(result'[p].value) = Listed(call'[p], st)
    <3>1. CASE p = o
      <4>1. outcome.error = "none" /\ call[o].op \in Shows
        BY <1>1, <1>2, <2>1, <3>1 DEF Succeeded
      <4>2. PICK st \in seen[o] : Range(outcome.value) = Listed(call[o], st)
        BY <4>1
      <4> QED BY <1>1, <1>2, <3>1, <4>2
    <3>2. CASE p # o
      <4>1. pc[p] = "done" /\ seen[p] \subseteq seen'[p]
        BY <1>1, <2>1, <3>2 DEF Succeeded
      <4> QED BY <1>1, <2>1, <3>2, <4>1, SnapshotKeeps
    <3> QED BY <3>1, <3>2
  <2> QED BY <2>1 DEF ShowIsSnapshot, Shows
<1>7. CreatedStays' /\ CreatedIsSeen'
  BY <1>1, CreatedKeeps
<1> QED BY <1>3, <1>4, <1>5, <1>6, <1>7

(* What a functor makes of a response.                                     *)
LEMMA RespondOutcome ==
    ASSUME IInv, SInv, NEW o \in Ops, pc[o] = "sending", NEW rsp \in replies[o],
           NEW outcome \in Interpret(call[o], rsp)
    PROVE  /\ outcome \in Outcome
           /\ outcome.error = "none" /\ call[o].op \in Shows =>
                \E st \in seen[o] : Range(outcome.value) = Listed(call[o], st)
<1>1. PICK e \in {"none", "foreign", "UnexpectedStatusCode", "ErrorResult"} :
          \E x : outcome = [error |-> e, value |-> x]
  <2>1. Verdict(rsp) = "none" => rsp.body.results # <<>>
    BY DEF IInv, Replied
  <2> QED BY <2>1, InterpretEnds
<1> DEFINE v == outcome.value
<1>0. outcome = [error |-> e, value |-> v]
  BY <1>1
<1> HIDE DEF v
<1>2. CASE call[o].op \notin Shows
  <2>1. outcome.value = <<>>
    BY <1>2 DEF Interpret, RunNoContent, RunQueryGet, RunStatement, Success, Failure, Shows
  <2>2. v \in Seq(Names)
    BY <2>1 DEF v
  <2> QED BY <1>0, <1>2, <2>2 DEF Outcome, Codes, LibraryCodes
<1>3. CASE call[o].op \in Shows
  <2>1. \/ call[o].op = "ShowDatabase" /\ outcome \in RunShowDatabase(rsp)
        \/ call[o].op = "ShowRetentionPolicies" /\ outcome \in RunShowRetentionPolicies(rsp)
    BY <1>3 DEF Interpret, Shows
  <2>2. CASE Verdict(rsp) # "none"
    <3>1. outcome = Failure(Verdict(rsp))
      BY <2>1, <2>2 DEF RunShowDatabase, RunShowRetentionPolicies
    <3>2. v = <<>> /\ e # "none"
      BY <1>0, <2>2, <3>1 DEF Failure
    <3>3. v \in Seq(Names)
      BY <3>2
    <3> QED BY <1>0, <3>2, <3>3 DEF Outcome, Codes, LibraryCodes
  <2>3. CASE Verdict(rsp) = "none"
    <3>1. PICK st \in seen[o] : rsp.body = Body(<<Table(Listed(call[o], st))>>, FALSE)
      BY <1>3, <2>3 DEF SInv, Answers
    <3> DEFINE L == Listed(call[o], st)
    <3>2. L \in SUBSET Names
      <4>1. st \in Store
        BY DEF SInv, TypeOK
      <4> QED BY <4>1, ListedType
    <3>3. FirstRows(rsp.body) = Table(L) /\ Crashes(rsp.body) = {}
      <4>1. \A t : FirstRows(Body(<<t>>, FALSE)) = t /\ Crashes(Body(<<t>>, FALSE)) = {}
        BY DEF FirstRows, Crashes, Body
      <4> HIDE DEF L
      <4>2. rsp.body = Body(<<Table(L)>>, FALSE)
        BY <3>1 DEF L
      <4> QED BY <4>1, <4>2
    <3>4. outcome = Success(DatabasesOf(Table(L))) \/ outcome = Success(PoliciesOf(Table(L)))
      BY <2>1, <2>3, <3>3 DEF RunShowDatabase, RunShowRetentionPolicies
    <3> HIDE DEF L
    <3>5. outcome.value \in Seq(Names) /\ Range(outcome.value) = L
      BY <3>2, <3>4, TableIsRead DEF Success
    <3> QED BY <1>0, <1>3, <3>5 DEF v, Outcome, Codes, LibraryCodes, L
  <2> QED BY <2>2, <2>3
<1> QED BY <1>2, <1>3

LEMMA EndKeeps ==
    ASSUME IInv, SInv, NEW o \in Ops,
           RejectArguments(o) \/ NothingToWrite(o) \/ NoServer(o) \/ Respond(o) \/ Throw(o)
    PROVE  SInv'
<1>1. phase \in [Ops -> Net!Phases] /\ <<>> \in Seq(Names)
  BY DEF SInv, TypeOK, Net!TypeOK
<1>2. CASE RejectArguments(o) \/ NothingToWrite(o) \/ NoServer(o)
  <2>1. /\ pc[o] = "spawned"
        /\ UNCHANGED <<store, replies, accepted, seen, executed, phase>>
        /\ \/ Complete(o, Failure("InvalidArgument"))
           \/ Complete(o, Failure("NoAvailableServer"))
           \/ call[o].op = "Write" /\ Complete(o, Success(<<>>))
    BY <1>2 DEF RejectArguments, NothingToWrite, NoServer, EmptyWrite, clusterVars
  <2>2. PICK outcome \in Outcome :
            /\ Complete(o, outcome)
            /\ outcome.error = "none" => call[o].op = "Write"
    <3>1. /\ Failure("InvalidArgument") \in Outcome /\ Failure("NoAvailableServer") \in Outcome
          /\ Success(<<>>) \in Outcome
      BY <1>1 DEF Failure, Success, Outcome, Codes, LibraryCodes
    <3>2. Failure("InvalidArgument").error # "none" /\ Failure("NoAvailableServer").error # "none"
      BY DEF Failure
    <3> QED BY <2>1, <3>1, <3>2
  <2>3. outcome.error = "none" => call[o].op \notin Shows
    BY <2>2 DEF Shows
  <2> QED BY <1>1, <2>1, <2>2, <2>3, CompleteKeeps
<1>3. CASE Throw(o)
  <2>1. /\ pc[o] = "sending" /\ Complete(o, Failure("System"))
        /\ UNCHANGED <<store, replies, accepted, seen, executed>>
        /\ phase[o] = "sending" /\ phase' = [phase EXCEPT ![o] = "failed"]
    BY <1>3 DEF Throw, Net!Fail, clusterVars
  <2>2. /\ phase' \in [Ops -> Net!Phases] /\ phase'[o] # "idle"
        /\ \A p \in Ops \ {o} : phase'[p] = phase[p]
    BY <1>1, <2>1 DEF Net!Phases
  <2>3. Failure("System") \in Outcome /\ Failure("System").error # "none"
    BY <1>1 DEF Failure, Outcome, Codes
  <2> QED BY <2>1, <2>2, <2>3, CompleteKeeps
<1>4. CASE Respond(o)
  <2>1. /\ pc[o] = "sending"
        /\ UNCHANGED <<store, replies, accepted, seen, executed>>
        /\ phase[o] = "sending" /\ phase' = [phase EXCEPT ![o] = "ok"]
        /\ \E rsp \in replies[o] : \E outcome \in Interpret(call[o], rsp) : Complete(o, outcome)
    BY <1>4 DEF Respond, Net!Return, clusterVars
  <2>2. PICK rsp \in replies[o] :
            \E outcome \in Interpret(call[o], rsp) : Complete(o, outcome)
    BY <2>1
  <2>3. /\ phase' \in [Ops -> Net!Phases] /\ phase'[o] # "idle"
        /\ \A p \in Ops \ {o} : phase'[p] = phase[p]
    BY <1>1, <2>1 DEF Net!Phases
  <2>4. PICK outcome \in Interpret(call[o], rsp) : Complete(o, outcome)
    BY <2>2
  <2>5. /\ outcome \in Outcome
        /\ outcome.error = "none" /\ call[o].op \in Shows =>
                \E st \in seen[o] : Range(outcome.value) = Listed(call[o], st)
    BY <2>1, RespondOutcome
  <2> QED BY <2>1, <2>3, <2>4, <2>5, CompleteKeeps
<1> QED BY <1>2, <1>3, <1>4

(* Of a show only the store of that moment is an answer without an error.  *)
LEMMA ClusterAnswers ==
    ASSUME NEW o \in Ops, call[o].op \in Shows, NEW rsp, Verdict(rsp) = "none"
    PROVE  /\ rsp \notin {BadStatus, BadBody} \cup Refusals
           /\ rsp = Answer(call[o]) => rsp.body = Body(<<Table(Listed(call[o], store))>>, FALSE)
<1>1. rsp \notin {BadStatus, BadBody}
  BY DEF Verdict, ParseQueryRsp, BadStatus, BadBody
<1>2. rsp \notin Refusals
  BY DEF Verdict, ParseQueryRsp, HasError, Refusals, Body
<1>3. Answer(call[o]).body = Body(<<Table(Listed(call[o], store))>>, FALSE)
  BY DEF Answer, Shows
<1> QED BY <1>1, <1>2, <1>3

LEMMA ClusterKeeps ==
    ASSUME IInv, SInv, NEW o \in Ops, ClusterStep(o)
    PROVE  SInv'
<1> USE DEF SInv
<1>1. /\ UNCHANGED <<call, pc, result, before, phase>> /\ phase[o] # "idle"
      /\ executed' \in [Ops -> Nat]
      /\ seen' = [p \in Ops |-> IF Running(p) THEN seen[p] \cup {store'} ELSE seen[p]]
  BY DEF ClusterStep, Obey, Refuse, Watch, Net!Execute, clientVars, TypeOK, Net!TypeOK
<1>2. call[o] \in AllCalls /\ call[o] # None /\ ~InvalidArguments(call[o])
  BY <1>1, CallsAssumption DEF Sent, TypeOK
<1>3. /\ store' \in Store
      /\ \A db : /\ db \in store.databases /\ (call[o].op = "DropDatabase" => call[o].db # db)
                        => db \in store'.databases
      /\ Obey(o) => store' = Effect(call[o])
  <2>1. store \in Store
    BY DEF TypeOK
  <2>2. CASE Obey(o)
    <3>1. store' = Effect(call[o])
      BY <2>2 DEF Obey
    <3>2. Effect(call[o]) \in Store
      BY <1>2, <2>1, EffectType
    <3> QED BY <2>1, <3>1, <3>2, EffectOnDatabases
  <2>3. CASE Refuse(o) /\ ~Obey(o)
    <3>1. CASE UNCHANGED store
      BY <2>1, <2>3, <3>1
    <3>2. CASE /\ call[o].op = "Write"
               /\ \E some \in SUBSET PointsOf(call[o]) :
                      store' = [store EXCEPT !.points = @ \cup some]
      <4>1. PICK some \in SUBSET PointsOf(call[o]) :
                    store' = [store EXCEPT !.points = @ \cup some]
        BY <3>2
      <4>2. some \in SUBSET (Names \X Points)
        BY <1>2, <3>2, PointsType
      <4> QED BY <2>1, <2>3, <4>1, <4>2 DEF Store
    <3> QED BY <2>3, <3>1, <3>2 DEF Refuse
  <2> QED BY <2>2, <2>3 DEF ClusterStep
<1>4. /\ accepted' \in [Ops -> BOOLEAN]
      /\ \A p \in Ops : accepted'[p] =>
            accepted[p] \/ (p = o /\ Running(o) /\ store' = Effect(call[o]))
  BY <1>3 DEF ClusterStep, Obey, Refuse, TypeOK
<1>5. PICK rsp \in {Answer(call[o]), BadStatus, BadBody} \cup Refusals :
          replies' = [replies EXCEPT ![o] = @ \cup {rsp}]
  <2>1. CASE Obey(o)
    <3>1. \E rsp \in {Answer(call[o]), BadStatus, BadBody} :
              replies' = [replies EXCEPT ![o] = @ \cup {rsp}]
      BY <2>1 DEF Obey
    <3> QED BY <3>1
  <2>2. CASE Refuse(o)
    <3>1. \E rsp \in {BadStatus} \cup (IF IsStatement(call[o]) THEN Refusals ELSE {}) :
              replies' = [replies EXCEPT ![o] = @ \cup {rsp}]
      BY <2>2 DEF Refuse
    <3> QED BY <3>1
  <2> QED BY <2>1, <2>2 DEF ClusterStep
<1>6. /\ replies'[o] = replies[o] \cup {rsp}
      /\ \A p \in Ops \ {o} : replies'[p] = replies[p]
      /\ \A p \in Ops : seen'[p] = IF Running(p) THEN seen[p] \cup {store'} ELSE seen[p]
  BY <1>1, <1>5 DEF TypeOK
<1>7. TypeOK'
  <2>1. replies' \in [Ops -> SUBSET Response]
    <3>1. rsp \in Response
      BY ReplyTypes DEF TypeOK
    <3> QED BY <1>5, <3>1 DEF TypeOK
  <2>2. seen' \in [Ops -> SUBSET Store]
    BY <1>1, <1>3 DEF TypeOK
  <2> QED BY <1>1, <1>3, <1>4, <2>1, <2>2 DEF TypeOK, Net!TypeOK
<1>8. Sent' /\ Watched'
  BY <1>1, <1>4, <1>6 DEF Sent, Watched, Running
<1>9. Answers'
  <2> SUFFICES ASSUME NEW p \in Ops, pc'[p] = "sending", call'[p].op \in Shows,
                      NEW x \in replies'[p], Verdict(x) = "none"
               PROVE  \E st \in seen'[p] :
                          x.body = Body(<<Table(Listed(call'[p], st))>>, FALSE)
    BY DEF Answers
  <2>1. pc[p] = "sending" /\ call'[p] = call[p] /\ seen[p] \subseteq seen'[p]
    BY <1>1, <1>6
  <2>2. CASE x \in replies[p]
    <3>1. PICK st \in seen[p] : x.body = Body(<<Table(Listed(call[p], st))>>, FALSE)
      BY <2>1, <2>2 DEF Answers
    <3> QED BY <2>1, <3>1
  <2>3. CASE x \notin replies[p]
    <3>1. p = o /\ x = rsp
      BY <1>6, <2>3
    <3>2. x.body = Body(<<Table(Listed(call[o], store))>>, FALSE)
      BY <1>5, <2>1, <3>1, ClusterAnswers
    <3>3. store \in seen[o]
      BY <2>1, <3>1 DEF Watched, Running
    <3> QED BY <2>1, <3>1, <3>2, <3>3
  <2> QED BY <2>2, <2>3
<1>10. ShowIsSnapshot'
  <2>1. ASSUME NEW p \in Ops, Succeeded(p)', call'[p].op \in Shows
        PROVE  \E st \in seen'[p] : Range(result'[p].value) = Listed(call'[p], st)
    <3>1. pc[p] = "done" /\ seen[p] \subseteq seen'[p]
      BY <1>1, <1>6, <2>1 DEF Succeeded
    <3> QED BY <1>1, <2>1, <3>1, SnapshotKeeps
  <2> QED BY <2>1 DEF ShowIsSnapshot, Shows
<1>11. Earlier'
  BY <1>1 DEF Earlier, TypeOK
<1>12. ASSUME NEW p \in Ops, Created(p)'
       PROVE  call[p].db \in store'.databases
  <2>1. /\ call[p].op = "CreateDatabase" /\ accepted'[p]
        /\ call[o].op = "DropDatabase" => call[o].db # call[p].db
    BY <1>1, <1>2, <1>12 DEF Created, NotDropped
  <2>2. CASE accepted[p]
    <3>1. Created(p)
      BY <1>1, <1>12, <2>2 DEF Created, NotDropped
    <3>2. call[p].db \in store.databases
      BY <3>1 DEF CreatedStays
    <3> QED BY <1>3, <2>1, <3>2
  <2>3. CASE ~accepted[p]
    <3>1. p = o /\ store' = Effect(call[o])
      BY <1>4, <2>1, <2>3
    <3> QED BY <2>1, <3>1, EffectOnDatabases DEF TypeOK
  <2> QED BY <2>2, <2>3
<1>13. CreatedStays'
  BY <1>1, <1>12 DEF CreatedStays
<1>14. CreatedIsSeen'
  <2> SUFFICES ASSUME NEW x \in Ops, pc'[x] # "idle", NEW p \in before'[x], Created(p)',
                      NEW st \in seen'[x]
               PROVE  call'[p].db \in st.databases
    BY DEF CreatedIsSeen
  <2>1. p \in Ops /\ pc[p] = "done" /\ p \in before[x] /\ pc[x] # "idle"
    BY <1>1 DEF Earlier, TypeOK
  <2>2. Created(p)
    <3>1. accepted[p]
      BY <1>4, <2>1 DEF Created, Running
    <3> QED BY <1>1, <3>1 DEF Created, NotDropped
  <2>3. CASE st \in seen[x]
    BY <1>1, <2>1, <2>2, <2>3 DEF CreatedIsSeen
  <2>4. CASE st = store'
    BY <1>1, <1>12, <2>1, <2>4
  <2> QED BY <1>6, <2>3, <2>4
<1> QED BY <1>7, <1>8, <1>9, <1>10, <1>11, <1>13, <1>14

-----------------------------------------------------------------------------
LEMMA InitSnapshots == Init => SInv
<1> SUFFICES ASSUME Init
             PROVE  SInv
  OBVIOUS
<1>1. Success(<<>>) \in Outcome
  <2>1. <<>> \in Seq(Names)
    OBVIOUS
  <2> QED BY <2>1 DEF Success, Outcome
<1>2. TypeOK
  BY <1>1, CallsAssumption, StoresAssumption DEF Init, TypeOK, Net!Init, Net!TypeOK, Net!Phases
<1> QED BY <1>2 DEF Init, Net!Init, SInv, Sent, Watched, Running, Answers, ShowIsSnapshot,
           Succeeded, Earlier, CreatedStays, Created, CreatedIsSeen

LEMMA NextKeeps == IInv /\ SInv /\ [Next]_vars => SInv'
<1> SUFFICES ASSUME IInv, SInv, [Next]_vars
             PROVE  SInv'
  OBVIOUS
<1>1. ASSUME NEW o \in Ops, NEW c \in Calls, Launch(o, c)
      PROVE  SInv'
  BY <1>1, LaunchKeeps
<1>2. ASSUME NEW o \in Ops, OpStep(o)
      PROVE  SInv'
  BY <1>2, SendKeeps, EndKeeps DEF OpStep
<1>3. ASSUME NEW o \in Ops, ClusterStep(o)
      PROVE  SInv'
  BY <1>3, ClusterKeeps
<1>4. CASE UNCHANGED vars
  <2>1. UNCHANGED <<call, pc, phase, executed, replies, result, store, accepted, seen, before>>
    BY <1>4 DEF vars, clientVars, clusterVars
  <2>2. TypeOK' /\ Sent' /\ Watched'
    BY <2>1 DEF SInv, TypeOK, Net!TypeOK, Sent, Watched, Running
  <2>3. Answers'
    BY <2>1, AnswersKeep DEF SInv
  <2>4. ShowIsSnapshot'
    BY <2>1 DEF SInv, ShowIsSnapshot, Succeeded
  <2>5. Earlier'
    BY <2>1 DEF SInv, Earlier
  <2>6. CreatedStays' /\ CreatedIsSeen'
    BY <2>1, CreatedKeeps
  <2> QED BY <2>2, <2>3, <2>4, <2>5, <2>6 DEF SInv
<1> QED BY <1>1, <1>2, <1>3, <1>4 DEF Next

(* IInv and SInv hold in every reachable state.                            *)
THEOREM InductiveSnapshots == Spec => [](IInv /\ SInv)
<1>1. Init => IInv /\ SInv
  BY InitInductive, InitSnapshots
<1>2. IInv /\ SInv /\ [Next]_vars => IInv' /\ SInv'
  BY NextInductive, NextKeeps
<1> QED BY <1>1, <1>2, PTL DEF Spec

(* Every variable keeps its type: what the functors return are lists of    *)
(* names, and the store of the cluster stays one.                          *)
THEOREM TypeCorrect == Spec => []TypeOK
<1>1. SInv => TypeOK
  BY DEF SInv
<1> QED BY <1>1, InductiveSnapshots, PTL

(* What ShowDatabase and ShowRetentionPolicies return is what the cluster  *)
(* had at one moment of the call.                                          *)
THEOREM ShowIsSnapshotCorrect == Spec => []ShowIsSnapshot
<1>1. SInv => ShowIsSnapshot
  BY DEF SInv
<1> QED BY <1>1, InductiveSnapshots, PTL

(* A ShowDatabase called after the creation of a database was reported     *)
(* lists it, unless somebody asks to drop it.                              *)
THEOREM ReadYourCreatesCorrect == Spec => []ReadYourCreates
<1>1. IInv /\ SInv => ReadYourCreates
  <2> SUFFICES ASSUME IInv, SInv, NEW o \in Ops, NEW p \in before[o],
                      Succeeded(o), call[o].op = "ShowDatabase",
                      Succeeded(p), call[p].op = "CreateDatabase",
                      NotDropped(call[p].db)
               PROVE  call[p].db \in Range(result[o].value)
    BY DEF ReadYourCreates, NotDropped
  <2>1. p \in Ops /\ pc[o] # "idle" /\ call[p] # None
    BY DEF SInv, TypeOK, Succeeded
  <2>2. accepted[p]
    BY <2>1 DEF IInv, SuccessMeansAccepted, EmptyWrite
  <2>3. Created(p)
    BY <2>1, <2>2 DEF Created
  <2>4. PICK st \in seen[o] : Range(result[o].value) = Listed(call[o], st)
    BY DEF SInv, ShowIsSnapshot
  <2>5. call[p].db \in st.databases
    BY <2>1, <2>3, <2>4 DEF SInv, CreatedIsSeen
  <2>6. Listed(call[o], st) = st.databases
    BY DEF Listed
  <2> QED BY <2>4, <2>5, <2>6
<1> QED BY <1>1, InductiveSnapshots, PTL
-----------------------------------------------------------------------------
(* ResponseHandling: what the functors make of a response, for responses   *)
(* with any number of results, series and rows. First the loops over rows. *)

(* The names that were read are those of the readable rows, in order.      *)
LEMMA NamesExact ==
    ASSUME NEW rows \in Seq(Row)
    PROVE  ReadsExactly(rows, {i \in DOMAIN rows : Readable(rows[i])}, NamesOf(rows))
<1> DEFINE K == {i \in DOMAIN rows : Readable(rows[i])}
           val == [i \in DOMAIN rows |-> rows[i].name]
<1>1. PICK N \in Nat : N = Len(rows) /\ DOMAIN rows = 1 .. N
  OBVIOUS
<1>2. K \cap (1 .. N) = K /\ \A i \in K : val[i] = rows[i].name
  BY <1>1
<1>3. \A i \in K : K \cap (1 .. i) = {j \in K : j <= i}
  BY <1>1
<1>4. NamesOf(rows) = Collect(N, K, val)
  BY <1>1 DEF NamesOf
<1> HIDE DEF K, val
<1>5. /\ Len(Collect(N, K, val)) = Cardinality(K \cap (1 .. N))
      /\ InPlace(Collect(N, K, val), N, K, val)
  BY Collected
<1>6. ReadsExactly(rows, K, NamesOf(rows))
  BY <1>2, <1>3, <1>4, <1>5 DEF InPlace, ReadsExactly
<1> QED BY <1>6 DEF K

(* The rows before the first odd one.                                      *)
LEMMA BeforeFirst ==
    ASSUME NEW rows \in Seq(Row), NEW odd \in SUBSET DOMAIN rows
    PROVE  \E stop \in 0 .. Len(rows) :
              /\ \A i \in odd : stop < i
              /\ stop = Len(rows) \/ stop + 1 \in odd
              /\ Before(rows, odd) = SubSeq(rows, 1, stop)
<1> DEFINE Stops(n) == (\A i \in odd : n < i) /\ (n = Len(rows) \/ n + 1 \in odd)
<1>1. Len(rows) \in Nat /\ DOMAIN rows = 1 .. Len(rows)
  OBVIOUS
<1>2. \E n \in 0 .. Len(rows) : Stops(n)
  <2>1. CASE odd = {}
    <3>1. Len(rows) \in 0 .. Len(rows) /\ Stops(Len(rows))
      BY <1>1, <2>1
    <3> QED BY <3>1
  <2>2. CASE odd # {}
    <3>1. PICK least \in odd : \A i \in odd : least <= i
      <4>1. odd \in SUBSET Nat
        BY <1>1
      <4> QED BY <2>2, <4>1, LeastNumber
    <3>2. least \in 1 .. Len(rows) /\ \A i \in odd : i \in 1 .. Len(rows)
      BY <1>1
    <3>3. least - 1 \in 0 .. Len(rows) /\ Stops(least - 1)
      BY <1>1, <3>1, <3>2
    <3> QED BY <3>3
  <2> QED BY <2>1, <2>2
<1>3. Before(rows, odd) = SubSeq(rows, 1, CHOOSE n \in 0 .. Len(rows) : Stops(n))
  BY DEF Before
<1> HIDE DEF Stops
<1> DEFINE stop == CHOOSE n \in 0 .. Len(rows) : Stops(n)
<1>4. stop \in 0 .. Len(rows) /\ Stops(stop)
  BY <1>2
<1> HIDE DEF stop
<1>5. Before(rows, odd) = SubSeq(rows, 1, stop)
  BY <1>3 DEF stop
<1> QED BY <1>4, <1>5 DEF Stops

(* The policies are those of the complete rows before the first short one. *)
LEMMA PoliciesRead ==
    ASSUME NEW rows \in Seq(Row)
    PROVE  ReadsExactly(rows,
              {i \in DOMAIN rows :
                  rows[i].shape = "complete" /\ \A j \in 1 .. i : rows[j].shape # "short"},
              PoliciesOf(rows))
<1> DEFINE odd == {i \in DOMAIN rows : rows[i].shape = "short"}
           counts == {i \in DOMAIN rows :
                        rows[i].shape = "complete" /\ \A j \in 1 .. i : rows[j].shape # "short"}
<1>1. PICK stop \in 0 .. Len(rows) :
          /\ \A i \in odd : stop < i
          /\ stop = Len(rows) \/ stop + 1 \in odd
          /\ Before(rows, odd) = SubSeq(rows, 1, stop)
  <2>1. odd \in SUBSET DOMAIN rows
    OBVIOUS
  <2> HIDE DEF odd
  <2> QED BY <2>1, BeforeFirst
<1> DEFINE first == SubSeq(rows, 1, stop)
<1>2. first \in Seq(Row) /\ DOMAIN first = 1 .. stop /\ \A i \in 1 .. stop : first[i] = rows[i]
  OBVIOUS
<1>3. PoliciesOf(rows) = NamesOf(first)
  BY <1>1 DEF PoliciesOf
<1> HIDE DEF first
<1>4. {i \in DOMAIN first : Readable(first[i])} = counts
  <2>1. \A i \in DOMAIN rows : i \in Nat /\ i >= 1
    OBVIOUS
  <2>2. ASSUME NEW i \in 1 .. stop, rows[i].shape = "complete"
        PROVE  i \in counts
    <3>1. i \in DOMAIN rows /\ \A j \in 1 .. i : j \in DOMAIN rows /\ ~(stop < j)
      OBVIOUS
    <3> QED BY <1>1, <2>2, <3>1
  <2>3. ASSUME NEW i \in counts
        PROVE  i \in 1 .. stop
    <3>1. CASE stop = Len(rows)
      BY <3>1
    <3>2. CASE stop + 1 \in odd
      <4>1. i \in Nat /\ i >= 1 /\ rows[stop + 1].shape = "short"
        BY <2>1, <3>2
      <4>2. ~(stop + 1 \in 1 .. i)
        BY <4>1
      <4> QED BY <4>1, <4>2
    <3> QED BY <1>1, <3>1, <3>2
  <2> QED BY <1>2, <2>2, <2>3 DEF Readable
<1>5. ReadsExactly(first, counts, NamesOf(first))
  <2>1. ReadsExactly(first, {i \in DOMAIN first : Readable(first[i])}, NamesOf(first))
    BY <1>2, NamesExact
  <2> QED BY <1>4, <2>1
<1>6. \A i \in counts : first[i] = rows[i]
  BY <1>2, <1>4
<1> HIDE DEF counts
<1>7. ReadsExactly(rows, counts, PoliciesOf(rows))
  BY <1>3, <1>5, <1>6 DEF ReadsExactly
<1> QED BY <1>7 DEF counts

-----------------------------------------------------------------------------
(* The inductive invariant: an outcome is one of those that its functor    *)
(* can have.                                                               *)
Interpreted ==
    /\ response \in Response
    /\ functor = "statement" => ending \in RunStatement(response)
    /\ functor = "databases" => ending \in RunShowDatabase(response)
    /\ functor = "policies" => ending \in RunShowRetentionPolicies(response)

THEOREM InterpretedInvariant == RSpec => []Interpreted
<1>1. RInit => Interpreted
  BY ResponsesAssumption DEF RInit, Interpreted
<1>2. Interpreted /\ [RNext]_rvars => Interpreted'
  BY DEF Interpreted, RNext, Handle, rvars
<1> QED BY <1>1, <1>2, PTL DEF RSpec

(* What the functors that read a response do when they end well.           *)
LEMMA GoodEnd ==
    ASSUME Interpreted, functor \in {"statement", "databases", "policies"},
           ending.error = "none"
    PROVE  /\ Verdict(response) = "none"
           /\ functor = "databases" => ending.value = DatabasesOf(FirstRows(response.body))
           /\ functor = "policies" => ending.value = PoliciesOf(FirstRows(response.body))
<1>1. Verdict(response) # "none" => ending = Failure(Verdict(response))
  BY DEF Interpreted, RunStatement, RunShowDatabase, RunShowRetentionPolicies
<1>2. Verdict(response) = "none"
  BY <1>1 DEF Failure
<1>3. ending \notin Crashes(response.body)
  BY DEF Crashes, Failure
<1> QED BY <1>2, <1>3 DEF Interpreted, RunShowDatabase, RunShowRetentionPolicies, Success

(* The rows that the loops go through.                                     *)
LEMMA FirstRowsType ==
    ASSUME response \in Response, Verdict(response) = "none"
    PROVE  /\ response.status = "ok" /\ response.body # Unparsable /\ response.body \in QueryResult
           /\ FirstRows(response.body) \in Seq(Row)
<1>1. response.status = "ok" /\ response.body # Unparsable /\ response.body \in QueryResult
  BY DEF Verdict, ParseQueryRsp, Response
<1>2. response.body.results \in Seq(SeriesResult)
  BY <1>1 DEF QueryResult
<1>3. CASE response.body.results = <<>> \/ response.body.results[1].series = <<>>
  <2>1. FirstRows(response.body) = <<>>
    BY <1>3 DEF FirstRows
  <2> QED BY <1>1, <2>1
<1>4. CASE ~(response.body.results = <<>> \/ response.body.results[1].series = <<>>)
  <2>1. response.body.results[1] \in SeriesResult
    BY <1>2, <1>4
  <2>2. response.body.results[1].series \in Seq(Seq(Row))
    BY <2>1 DEF SeriesResult
  <2>3. response.body.results[1].series[1] \in Seq(Row)
    BY <1>4, <2>2
  <2> QED BY <1>1, <1>4, <2>3 DEF FirstRows
<1> QED BY <1>3, <1>4

(* No error of the server gets lost: an operation other than a query that  *)
(* ends without an exception did so on a response without any error.       *)
THEOREM ErrorsSurfaceCorrect == RSpec => []ErrorsSurface
<1>1. Interpreted => ErrorsSurface
  <2> SUFFICES ASSUME Interpreted, functor \in {"statement", "databases", "policies"},
                      ending.error = "none"
               PROVE  /\ response.status = "ok" /\ response.body # Unparsable /\ ~response.body.error
                      /\ \A i \in DOMAIN response.body.results : ~response.body.results[i].error
    BY DEF ErrorsSurface
  <2>1. Verdict(response) = "none"
    BY GoodEnd
  <2>2. response.status = "ok" /\ response.body # Unparsable
    BY <2>1, FirstRowsType DEF Interpreted
  <2>3. ~HasError(response.body)
    BY <2>1 DEF Verdict, ParseQueryRsp
  <2> QED BY <2>2, <2>3 DEF HasError
<1> QED BY <1>1, InterpretedInvariant, PTL

(* ShowDatabase returns the name of every row that has one, in the order   *)
(* of the table, however many rows there are.                              *)
THEOREM DatabasesExactCorrect == RSpec => []DatabasesExact
<1>1. Interpreted => DatabasesExact
  <2> SUFFICES ASSUME Interpreted, Read, functor = "databases"
               PROVE  ReadsExactly(FirstTable,
                        {i \in DOMAIN FirstTable : FirstTable[i].shape = "complete"}, ending.value)
    BY DEF DatabasesExact
  <2>1. Verdict(response) = "none" /\ ending.value = DatabasesOf(FirstTable)
    BY GoodEnd DEF Read, FirstTable
  <2>2. FirstTable \in Seq(Row)
    BY <2>1, FirstRowsType DEF Interpreted, FirstTable
  <2>3. ReadsExactly(FirstTable, {i \in DOMAIN FirstTable : Readable(FirstTable[i])}, NamesOf(FirstTable))
    BY <2>2, NamesExact
  <2> QED BY <2>1, <2>3 DEF DatabasesOf, Readable
<1> QED BY <1>1, InterpretedInvariant, PTL

(* ShowRetentionPolicies returns a policy for every well typed row before  *)
(* the first row that is too short, and for none from there on.            *)
THEOREM PoliciesExactCorrect == RSpec => []PoliciesExact
<1>1. Interpreted => PoliciesExact
  <2> SUFFICES ASSUME Interpreted, Read, functor = "policies"
               PROVE  ReadsExactly(FirstTable,
                        {i \in DOMAIN FirstTable :
                            /\ FirstTable[i].shape = "complete"
                            /\ \A j \in 1 .. i : FirstTable[j].shape # "short"},
                        ending.value)
    BY DEF PoliciesExact
  <2>1. Verdict(response) = "none" /\ ending.value = PoliciesOf(FirstTable)
    BY GoodEnd DEF Read, FirstTable
  <2>2. FirstTable \in Seq(Row)
    BY <2>1, FirstRowsType DEF Interpreted, FirstTable
  <2> QED BY <2>1, <2>2, PoliciesRead
<1> QED BY <1>1, InterpretedInvariant, PTL
=============================================================================
