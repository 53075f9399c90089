------------------------ MODULE ClientLifecycleProofs ------------------------
(***************************************************************************)
(* Proofs about ClientLifecycle, for every number of threads and every set *)
(* of operations.                                                          *)
(***************************************************************************)
EXTENDS ClientLifecycle, SequenceLemmas

-----------------------------------------------------------------------------
(* The inductive invariant. Besides the properties it says which phases    *)
(* the flags of the context belong to, that the health check starts only   *)
(* when the construction has succeeded, and that what waits in a Sync call *)
(* is a handler.                                                           *)
Ending == phase \in {"unguarded", "joining", "destroyed", "terminated"}

Order ==
    /\ ~guard => Ending
    /\ stopped => Ending
    /\ \A h \in Threads : thr[h] = "left" => stopped
    /\ phase = "constructing" => state[Health] = "none"

SyncInHandler ==
    \A h \in Threads : waitsFor[h] # None => state[task[h]] = "handler"

IInv ==
    /\ TypeOK
    /\ OneThreadPerTask
    /\ Order
    /\ SyncInHandler
    /\ QuietAfterDestruction

(* A task may be posted that is neither queued nor on a thread.            *)
LEMMA PostKeeps ==
    ASSUME TypeOK, OneThreadPerTask, NEW t \in Tasks,
           state[t] \notin {"ready", "running", "handler"}, Post(t), task' = task
    PROVE  /\ queue' \in Seq(Tasks)
           /\ state' \in [Tasks -> {"none", "ready", "running", "waiting", "handler",
                                    "done", "abandoned"}]
           /\ OneThreadPerTask'
<1>1. t \notin Range(queue) /\ t \notin Range(task) /\ queue \in Seq(Tasks)
  BY DEF TypeOK, OneThreadPerTask
<1>2. /\ queue' \in Seq(Tasks)
      /\ IsInjective(queue')
      /\ Range(queue') = Range(queue) \cup {t}
  <2>1. IsInjective(queue) /\ queue' = Append(queue, t)
    BY DEF OneThreadPerTask, Post
  <2> QED BY <2>1, <1>1, QueueAppend
<1>3. /\ state' \in [Tasks -> {"none", "ready", "running", "waiting", "handler",
                               "done", "abandoned"}]
      /\ state'[t] = "ready" /\ \A u \in Tasks \ {t} : state'[u] = state[u]
  BY DEF TypeOK, Post
<1>4. Range(queue') = {u \in Tasks : state'[u] = "ready"}
  BY <1>2, <1>3 DEF OneThreadPerTask
<1>5. \A u \in Tasks : state'[u] \in {"running", "handler"} <=> u \in Range(task)
  BY <1>1, <1>3 DEF OneThreadPerTask
<1> QED BY <1>2, <1>3, <1>4, <1>5 DEF OneThreadPerTask

(* What a thread executes is a task of its own, and on no other thread.    *)
LEMMA BusyThread ==
    ASSUME TypeOK, OneThreadPerTask, NEW h \in Threads, thr[h] = "busy"
    PROVE  /\ task[h] \in Tasks
           /\ task[h] \in Range(task)
           /\ state[task[h]] \in {"running", "handler"}
           /\ \A g \in Threads \ {h} : task[g] # task[h]
<1>1. task[h] # None /\ task[h] \in Tasks
  BY DEF TypeOK
<1>2. task[h] \in Range(task)
  BY DEF TypeOK, Range
<1> QED BY <1>1, <1>2 DEF OneThreadPerTask

(* A thread lets go of its task, which goes on waiting or is done.         *)
LEMMA LetGo ==
    ASSUME TypeOK, OneThreadPerTask, NEW h \in Threads, thr[h] = "busy",
           NEW s \in {"waiting", "done"},
           state' = [state EXCEPT ![task[h]] = s], BackToRun(h), UNCHANGED queue
    PROVE  /\ state' \in [Tasks -> {"none", "ready", "running", "waiting", "handler",
                                    "done", "abandoned"}]
           /\ thr' \in [Threads -> {"polling", "busy", "left"}]
           /\ task' \in [Threads -> Tasks \cup {None}]
           /\ \A g \in Threads : thr'[g] = "busy" <=> task'[g] # None
           /\ OneThreadPerTask'
<1>1. /\ task[h] \in Tasks /\ state[task[h]] \in {"running", "handler"}
      /\ \A g \in Threads \ {h} : task[g] # task[h]
  BY BusyThread
<1>2. /\ task' \in [Threads -> Tasks \cup {None}]
      /\ task'[h] = None /\ \A g \in Threads \ {h} : task'[g] = task[g]
      /\ None \notin Tasks
  BY LifecycleAssumption DEF TypeOK, BackToRun, Tasks
<1>3. /\ state' \in [Tasks -> {"none", "ready", "running", "waiting", "handler",
                               "done", "abandoned"}]
      /\ state'[task[h]] = s /\ \A u \in Tasks \ {task[h]} : state'[u] = state[u]
  BY <1>1 DEF TypeOK
<1>4. \A u \in Tasks : u \in Range(task') <=> u \in Range(task) /\ u # task[h]
  <2>1. /\ Range(task) = {task[g] : g \in Threads}
        /\ Range(task') = {task'[g] : g \in Threads}
    BY <1>2 DEF Range, TypeOK
  <2>2. ASSUME NEW u \in Tasks, u \in Range(task')
        PROVE  u \in Range(task) /\ u # task[h]
    <3>1. PICK g \in Threads : task'[g] = u
      BY <2>1, <2>2
    <3>2. g # h
      BY <3>1, <1>2
    <3> QED BY <3>1, <3>2, <1>1, <1>2, <2>1
  <2>3. ASSUME NEW u \in Tasks, u \in Range(task), u # task[h]
        PROVE  u \in Range(task')
    <3>1. PICK g \in Threads : task[g] = u
      BY <2>1, <2>3
    <3> QED BY <3>1, <2>3, <1>2, <2>1
  <2> QED BY <2>2, <2>3
<1>5. /\ thr' \in [Threads -> {"polling", "busy", "left"}]
      /\ \A g \in Threads : thr'[g] = "busy" <=> task'[g] # None
  BY <1>2 DEF TypeOK, BackToRun
<1>6. OneThreadPerTask'
  <2>1. IsInjective(queue') /\ Range(queue') = {u \in Tasks : state'[u] = "ready"}
    BY <1>1, <1>3 DEF OneThreadPerTask
  <2>2. \A u \in Tasks : state'[u] \in {"running", "handler"} <=> u \in Range(task')
    BY <1>1, <1>3, <1>4 DEF OneThreadPerTask
  <2>3. \A g, k \in Threads : g # k /\ task'[g] # None => task'[g] # task'[k]
    BY <1>2 DEF OneThreadPerTask
  <2> QED BY <2>1, <2>2, <2>3 DEF OneThreadPerTask
<1> QED BY <1>2, <1>3, <1>5, <1>6

(* A step in which one thread lets go of its task, and nothing else but    *)
(* awaited changes.                                                        *)
LEMMA LetGoStep ==
    ASSUME IInv, NEW h \in Threads, thr[h] = "busy", waitsFor[h] = None,
           NEW s \in {"waiting", "done"},
           state' = [state EXCEPT ![task[h]] = s], BackToRun(h),
           awaited' \in [Tasks -> BOOLEAN],
           UNCHANGED <<phase, ctxVars, queue, cancelled, waitsFor>>
    PROVE  IInv'
<1> USE DEF ctxVars
<1>1. /\ task[h] \in Tasks /\ state[task[h]] \in {"running", "handler"}
      /\ \A g \in Threads \ {h} : task[g] # task[h]
  BY BusyThread DEF IInv
<1>2. /\ state' \in [Tasks -> {"none", "ready", "running", "waiting", "handler",
                               "done", "abandoned"}]
      /\ thr' \in [Threads -> {"polling", "busy", "left"}]
      /\ task' \in [Threads -> Tasks \cup {None}]
      /\ \A g \in Threads : thr'[g] = "busy" <=> task'[g] # None
      /\ OneThreadPerTask'
  BY LetGo DEF IInv
<1>3. /\ thr'[h] = "polling" /\ \A g \in Threads \ {h} : thr'[g] = thr[g]
      /\ task'[h] = None /\ \A g \in Threads \ {h} : task'[g] = task[g]
      /\ \A u \in Tasks \ {task[h]} : state'[u] = state[u]
  BY <1>1 DEF BackToRun, IInv, TypeOK
<1>4. TypeOK'
  <2>1. \A g \in Threads : waitsFor'[g] # None => thr'[g] = "busy"
    BY <1>3 DEF IInv, TypeOK
  <2> QED BY <1>2, <2>1 DEF IInv, TypeOK
<1>5. Order'
  <2>1. phase = "constructing" => state'[Health] = "none"
    BY <1>1, <1>3 DEF IInv, Order, Tasks
  <2> QED BY <1>3, <2>1 DEF IInv, Order, Ending
<1>6. SyncInHandler'
  <2> SUFFICES ASSUME NEW g \in Threads, waitsFor[g] # None
               PROVE  state'[task'[g]] = "handler"
    BY DEF SyncInHandler
  <2>1. g # h /\ task[g] \in Tasks /\ task[g] # task[h] /\ task'[g] = task[g]
    BY <1>1, <1>3, BusyThread DEF IInv, TypeOK
  <2> QED BY <2>1, <1>3 DEF IInv, SyncInHandler
<1>7. QuietAfterDestruction'
  BY DEF IInv, QuietAfterDestruction
<1> QED BY <1>2, <1>4, <1>5, <1>6, <1>7 DEF IInv

(* A step that posts a task while the client is alive or being destroyed.  *)
LEMMA PostStep ==
    ASSUME IInv, NEW t \in Tasks,
           state[t] \notin {"ready", "running", "handler"}, Post(t),
           phase # "destroyed", phase' \in {phase, "alive", "stopping"},
           phase' = "constructing" => t # Health,
           ~Ending \/ phase' = phase,
           destroyer' \in Threads \cup {None}, cancelled' \in BOOLEAN,
           waitsFor' \in [Threads -> Ops \cup {None}],
           \A h \in Threads :
              waitsFor'[h] # None => thr[h] = "busy" /\ state[task[h]] = "handler",
           UNCHANGED <<guard, stopped, awaited, thr, task>>
    PROVE  IInv'
<1>1. /\ queue' \in Seq(Tasks)
      /\ state' \in [Tasks -> {"none", "ready", "running", "waiting", "handler",
                               "done", "abandoned"}]
      /\ OneThreadPerTask'
  BY PostKeeps DEF IInv
<1>2. \A u \in Tasks \ {t} : state'[u] = state[u]
  BY DEF Post, IInv, TypeOK
<1>3. TypeOK'
  <2>1. phase' \in {"constructing", "alive", "stopping", "unguarded", "joining",
                    "destroyed", "terminated"}
    BY DEF IInv, TypeOK
  <2> QED BY <1>1, <2>1 DEF IInv, TypeOK
<1>4. Order'
  <2>1. phase' = "constructing" => state'[Health] = "none"
    BY <1>2 DEF IInv, Order, Tasks
  <2>2. Ending => Ending'
    BY DEF Ending
  <2> QED BY <2>1, <2>2 DEF IInv, Order
<1>5. SyncInHandler'
  <2> SUFFICES ASSUME NEW h \in Threads, waitsFor'[h] # None
               PROVE  state'[task[h]] = "handler"
    BY DEF SyncInHandler
  <2>1. task[h] \in Tasks /\ state[task[h]] = "handler"
    BY BusyThread DEF IInv
  <2> QED BY <2>1, <1>2
<1>6. QuietAfterDestruction'
  BY DEF IInv, QuietAfterDestruction
<1> QED BY <1>1, <1>3, <1>4, <1>5, <1>6 DEF IInv

-----------------------------------------------------------------------------
(* The invariant holds at the beginning and is kept by every step.         *)
LEMMA InitInductive == Init => IInv
<1> SUFFICES ASSUME Init
             PROVE  IInv
  OBVIOUS
<1>1. TypeOK
  <2>1. queue \in Seq(Tasks)
    BY DEF Init
  <2>2. /\ state \in [Tasks -> {"none"}]
        /\ awaited \in [Tasks -> {FALSE}]
        /\ thr \in [Threads -> {"polling"}]
        /\ task \in [Threads -> {None}]
        /\ waitsFor \in [Threads -> {None}]
    BY DEF Init
  <2> QED BY <2>1, <2>2 DEF Init, TypeOK
<1>2. OneThreadPerTask
  <2>1. Range(queue) = {} /\ IsInjective(queue)
    BY DEF Init, Range, IsInjective
  <2>2. Range(task) \subseteq {None}
    BY DEF Init, Range
  <2> QED BY <2>1, <2>2, LifecycleAssumption DEF Init, OneThreadPerTask, Tasks
<1>3. Order /\ SyncInHandler /\ QuietAfterDestruction
  BY DEF Init, Order, Ending, SyncInHandler, QuietAfterDestruction, Tasks
<1> QED BY <1>1, <1>2, <1>3 DEF IInv

(* The steps of the constructor and the destructor.                        *)
LEMMA ClientStepInductive ==
    ASSUME IInv,
           \/ Constructed \/ ConstructionFails \/ Destroy \/ ShutdownStep
           \/ \E h \in Threads : DestroyInHandler(h)
    PROVE  IInv'
<1> USE DEF ctxVars, taskVars, threadVars
<1>1. Health \in Tasks
  BY DEF Tasks
<1>2. ASSUME UNCHANGED <<guard, stopped, taskVars, threadVars>>,
             phase \in {"constructing", "alive"}, phase' = "stopping",
             destroyer' \in Threads \cup {None}
      PROVE  IInv'
  BY <1>2 DEF IInv, TypeOK, OneThreadPerTask, Order, Ending, SyncInHandler,
              QuietAfterDestruction
<1>3. CASE Constructed
  BY <1>1, <1>3, PostStep
  DEF Constructed, IInv, TypeOK, Order, Ending, SyncInHandler
<1>4. CASE ConstructionFails
  BY <1>4, <1>2 DEF ConstructionFails, IInv, TypeOK
<1>5. CASE Destroy
  <2>1. CASE state[Health] = "waiting" /\ cancelled' = TRUE /\ Post(Health)
    BY <1>1, <1>5, <2>1, PostStep
    DEF Destroy, IInv, TypeOK, Order, Ending, SyncInHandler
  <2>2. CASE UNCHANGED <<cancelled, queue, state>>
    BY <1>5, <2>2, <1>2 DEF Destroy, IInv, TypeOK
  <2> QED BY <1>5, <2>1, <2>2 DEF Destroy, StopHealthCheck
<1>6. ASSUME NEW h \in Threads, DestroyInHandler(h)
      PROVE  IInv'
  <2>1. CASE state[Health] = "waiting" /\ cancelled' = TRUE /\ Post(Health)
    BY <1>1, <1>6, <2>1, PostStep
    DEF DestroyInHandler, IInv, TypeOK, Order, Ending, SyncInHandler
  <2>2. CASE UNCHANGED <<cancelled, queue, state>>
    BY <1>6, <2>2, <1>2 DEF DestroyInHandler, IInv, TypeOK
  <2> QED BY <1>6, <2>1, <2>2 DEF DestroyInHandler, StopHealthCheck
<1>7. CASE ResetGuard \/ StopContext \/ Terminate
  <2>1. /\ UNCHANGED <<destroyer, taskVars, threadVars>>
        /\ phase \in {"stopping", "unguarded", "joining"}
        /\ phase' \in {"unguarded", "joining", "terminated"}
        /\ guard' \in BOOLEAN /\ stopped' \in BOOLEAN
        /\ stopped => stopped'
    BY <1>7 DEF ResetGuard, StopContext, Terminate, IInv, TypeOK
  <2>2. TypeOK' /\ Order' /\ SyncInHandler' /\ QuietAfterDestruction'
    BY <2>1 DEF IInv, TypeOK, Order, Ending, SyncInHandler, QuietAfterDestruction
  <2>3. OneThreadPerTask'
    BY <2>1 DEF IInv, OneThreadPerTask
  <2> QED BY <2>2, <2>3 DEF IInv
<1>8. CASE Joined
  <2>1. \A h \in Threads : task[h] = None /\ waitsFor[h] = None
    BY <1>8 DEF Joined, IInv, TypeOK
  <2>2. Range(task) = {None}
    BY <2>1, LifecycleAssumption DEF Range, IInv, TypeOK
  <2>3. \A t \in Tasks : state[t] \notin {"running", "handler"}
    BY <2>2, LifecycleAssumption DEF IInv, OneThreadPerTask, Tasks
  <2>4. /\ state' \in [Tasks -> {"none", "ready", "running", "waiting", "handler",
                                 "done", "abandoned"}]
        /\ \A t \in Tasks : state'[t] \in {"none", "done", "abandoned"}
    BY <1>8, <2>3 DEF Joined, Abandon, IInv, TypeOK
  <2>5. TypeOK'
    BY <1>8, <2>4 DEF Joined, Abandon, IInv, TypeOK
  <2>6. OneThreadPerTask'
    <3>1. Range(queue') = {} /\ IsInjective(queue')
      BY <1>8 DEF Joined, Abandon, Range, IsInjective
    <3> QED
      BY <1>8, <3>1, <2>1, <2>2, <2>4, LifecycleAssumption
      DEF Joined, OneThreadPerTask, Tasks
  <2>7. Order' /\ SyncInHandler' /\ QuietAfterDestruction'
    BY <1>8, <2>1, <2>4
    DEF Joined, IInv, Order, Ending, SyncInHandler, QuietAfterDestruction
  <2> QED BY <2>5, <2>6, <2>7 DEF IInv
<1> QED BY <1>3, <1>4, <1>5, <1>6, <1>7, <1>8 DEF ShutdownStep

(* The steps of the threads.                                               *)
LEMMA ThreadStepInductive ==
    ASSUME IInv, NEW h \in Threads, ThreadStep(h)
    PROVE  IInv'
<1> USE DEF ctxVars, taskVars, threadVars
<1>1. CASE Dispatch(h)
  <2> DEFINE t == Head(queue)
  <2>1. /\ t \in Tasks /\ state[t] = "ready" /\ queue' \in Seq(Tasks)
        /\ IsInjective(queue') /\ Range(queue') = Range(queue) \ {t}
    BY <1>1, QueueTail DEF Dispatch, IInv, TypeOK, OneThreadPerTask
  <2>2. t \notin Range(task) /\ t # None /\ task[h] = None /\ waitsFor[h] = None
    BY <1>1, <2>1, LifecycleAssumption
    DEF Dispatch, IInv, TypeOK, OneThreadPerTask, Tasks
  <2> HIDE DEF t
  <2>3. /\ state' \in [Tasks -> {"none", "ready", "running", "waiting", "handler",
                                 "done", "abandoned"}]
        /\ state'[t] = "running" /\ \A u \in Tasks \ {t} : state'[u] = state[u]
    BY <1>1, <2>1 DEF Dispatch, IInv, TypeOK, t
  <2>4. /\ task' \in [Threads -> Tasks \cup {None}]
        /\ task'[h] = t /\ \A g \in Threads \ {h} : task'[g] = task[g]
    BY <1>1, <2>1 DEF Dispatch, IInv, TypeOK, t
  <2>5. /\ thr' \in [Threads -> {"polling", "busy", "left"}]
        /\ thr'[h] = "busy" /\ \A g \in Threads \ {h} : thr'[g] = thr[g]
    BY <1>1 DEF Dispatch, IInv, TypeOK
  <2>6. TypeOK'
    BY <1>1, <2>1, <2>2, <2>3, <2>4, <2>5 DEF Dispatch, IInv, TypeOK
  <2>7. OneThreadPerTask'
    <3>1. /\ Range(task) = {task[g] : g \in Threads}
          /\ Range(task') = {task'[g] : g \in Threads}
      BY <2>4 DEF Range, IInv, TypeOK
    <3>2. \A u \in Tasks : u \in Range(task') <=> u \in Range(task) \/ u = t
      <4>1. ASSUME NEW u \in Tasks, u \in Range(task)
            PROVE  u \in Range(task')
        <5>1. PICK g \in Threads : task[g] = u
          BY <3>1, <4>1
        <5>2. g # h
          BY <5>1, <2>2, LifecycleAssumption DEF Tasks
        <5> QED BY <5>1, <5>2, <2>4, <3>1
      <4>2. ASSUME NEW u \in Tasks, u \in Range(task'), u # t
            PROVE  u \in Range(task)
        BY <4>2, <3>1, <2>4
      <4> QED BY <4>1, <4>2, <2>4, <3>1
    <3>3. Range(queue') = {u \in Tasks : state'[u] = "ready"}
      BY <2>1, <2>3 DEF IInv, OneThreadPerTask
    <3>4. \A u \in Tasks : state'[u] \in {"running", "handler"} <=> u \in Range(task')
      BY <3>2, <2>3 DEF IInv, OneThreadPerTask
    <3>5. \A g, k \in Threads : g # k /\ task'[g] # None => task'[g] # task'[k]
      BY <2>2, <2>4, <3>1 DEF IInv, OneThreadPerTask
    <3> QED BY <2>1, <3>3, <3>4, <3>5 DEF OneThreadPerTask
  <2>8. Order'
    BY <1>1, <2>1, <2>3, <2>5 DEF Dispatch, IInv, Order, Ending, Tasks
  <2>9. SyncInHandler'
    <3> SUFFICES ASSUME NEW g \in Threads, waitsFor[g] # None
                 PROVE  state'[task'[g]] = "handler"
      BY <1>1 DEF SyncInHandler, Dispatch
    <3>1. g # h /\ task[g] \in Tasks /\ state[task[g]] = "handler"
      BY <2>2, BusyThread DEF IInv, TypeOK, SyncInHandler
    <3> QED BY <3>1, <2>1, <2>3, <2>4
  <2>10. QuietAfterDestruction'
    BY <1>1 DEF Dispatch, IInv, QuietAfterDestruction
  <2> QED BY <2>6, <2>7, <2>8, <2>9, <2>10 DEF IInv
<1>2. CASE Leave(h)
  BY <1>2 DEF Leave, OutOfWork, IInv, TypeOK, OneThreadPerTask, Order, Ending,
              SyncInHandler, QuietAfterDestruction
<1>3. ASSUME thr[h] = "busy", state[task[h]] = "running"
      PROVE  waitsFor[h] = None
  BY <1>3 DEF IInv, SyncInHandler
<1>4. CASE Suspend(h)
  <2>1. waitsFor[h] = None /\ task[h] \in Tasks
    BY <1>4, <1>3, BusyThread DEF Suspend, IInv
  <2>2. awaited' \in [Tasks -> BOOLEAN]
    BY <1>4, <2>1 DEF Suspend, IInv, TypeOK
  <2> QED BY <1>4, <2>1, <2>2, LetGoStep DEF Suspend
<1>5. CASE Finish(h)
  <2>1. waitsFor[h] = None /\ awaited' \in [Tasks -> BOOLEAN]
    BY <1>5, <1>3 DEF Finish, IInv, TypeOK
  <2>2. CASE task[h] \in Range(waitsFor)
    BY <1>5, <2>1, <2>2, LetGoStep DEF Finish
  <2>3. CASE task[h] \notin Range(waitsFor)
    <3>1. /\ task[h] \in Tasks /\ task[h] \in Range(task)
          /\ \A g \in Threads \ {h} : task[g] # task[h]
      BY <1>5, BusyThread DEF Finish, IInv
    <3>2. /\ state' = [state EXCEPT ![task[h]] = "handler"]
          /\ UNCHANGED <<phase, ctxVars, queue, cancelled, awaited, threadVars>>
      BY <1>5, <2>3 DEF Finish
    <3>3. /\ state' \in [Tasks -> {"none", "ready", "running", "waiting", "handler",
                                   "done", "abandoned"}]
          /\ state'[task[h]] = "handler"
          /\ \A u \in Tasks \ {task[h]} : state'[u] = state[u]
      BY <3>1, <3>2 DEF IInv, TypeOK
    <3>4. TypeOK'
      BY <3>2, <3>3 DEF IInv, TypeOK
    <3>5. OneThreadPerTask'
      BY <1>5, <3>1, <3>2, <3>3 DEF Finish, IInv, OneThreadPerTask
    <3>6. Order' /\ QuietAfterDestruction'
      BY <1>5, <3>2, <3>3 DEF Finish, IInv, Order, Ending, QuietAfterDestruction, Tasks
    <3>7. SyncInHandler'
      <4> SUFFICES ASSUME NEW g \in Threads, waitsFor[g] # None
                   PROVE  state'[task[g]] = "handler"
        BY <3>2 DEF SyncInHandler
      <4>1. task[g] \in Tasks /\ state[task[g]] = "handler"
        BY BusyThread DEF IInv, TypeOK, SyncInHandler
      <4> QED BY <4>1, <3>3
    <3> QED BY <3>4, <3>5, <3>6, <3>7 DEF IInv
  <2> QED BY <2>2, <2>3
<1>6. CASE HealthEnds(h)
  <2>1. waitsFor[h] = None /\ awaited' \in [Tasks -> BOOLEAN]
    BY <1>6, <1>3 DEF HealthEnds, IInv, TypeOK
  <2> QED BY <1>6, <2>1, LetGoStep DEF HealthEnds
<1>7. CASE SyncReturns(h)
  BY <1>7 DEF SyncReturns, IInv, TypeOK, OneThreadPerTask, Order, Ending, SyncInHandler,
              QuietAfterDestruction
<1>8. CASE HandlerReturns(h) \/ HandlerThrows(h)
  <2>1. awaited' \in [Tasks -> BOOLEAN]
    BY <1>8 DEF HandlerReturns, HandlerThrows, IInv, TypeOK
  <2> QED BY <1>8, <2>1, LetGoStep DEF HandlerReturns, HandlerThrows
<1> QED BY <1>1, <1>2, <1>4, <1>5, <1>6, <1>7, <1>8 DEF ThreadStep

(* The steps of the user's thread and of the I/O.                          *)
LEMMA CallStepInductive ==
    ASSUME IInv,
           \/ \E o \in Ops : Launch(o) \/ \E h \in Threads : CallSync(h, o)
           \/ \E t \in Tasks : IoCompletes(t)
    PROVE  IInv'
<1> USE DEF ctxVars, taskVars, threadVars
<1>1. \A h \in Threads :
        waitsFor[h] # None => thr[h] = "busy" /\ state[task[h]] = "handler"
  BY DEF IInv, TypeOK, SyncInHandler
<1>2. ASSUME NEW o \in Ops, Launch(o)
      PROVE  IInv'
  <2>1. /\ o \in Tasks /\ Post(o) /\ state[o] = "none" /\ phase = "alive" /\ phase' = phase
        /\ UNCHANGED <<guard, stopped, destroyer, cancelled, awaited, thr, task, waitsFor>>
    BY <1>2 DEF Launch, Tasks
  <2> QED BY <1>1, <2>1, PostStep DEF IInv, TypeOK
<1>3. ASSUME NEW o \in Ops, NEW h \in Threads, CallSync(h, o)
      PROVE  IInv'
  <2>1. /\ o \in Tasks /\ Post(o) /\ state[o] = "none" /\ phase = "alive" /\ phase' = phase
        /\ UNCHANGED <<guard, stopped, destroyer, cancelled, awaited, thr, task>>
    BY <1>3 DEF CallSync, Tasks
  <2>2. /\ waitsFor' \in [Threads -> Ops \cup {None}]
        /\ \A g \in Threads :
              waitsFor'[g] # None => thr[g] = "busy" /\ state[task[g]] = "handler"
    BY <1>1, <1>3 DEF CallSync, IInv, TypeOK
  <2> QED BY <2>1, <2>2, PostStep DEF IInv, TypeOK
<1>4. ASSUME NEW t \in Tasks, IoCompletes(t)
      PROVE  IInv'
  <2>1. /\ Post(t) /\ state[t] = "waiting" /\ phase' = phase
        /\ UNCHANGED <<guard, stopped, destroyer, cancelled, awaited, thr, task, waitsFor>>
    BY <1>4 DEF IoCompletes
  <2>2. phase # "destroyed" /\ (phase = "constructing" => t # Health)
    BY <2>1 DEF IInv, QuietAfterDestruction, Order
  <2> QED BY <1>1, <2>1, <2>2, PostStep DEF IInv, TypeOK
<1> QED BY <1>2, <1>3, <1>4

(* IInv is an invariant.                                                   *)
THEOREM InductiveInvariant == Spec => []IInv
<1>1. IInv /\ [Next]_vars => IInv'
  <2> SUFFICES ASSUME IInv, [Next]_vars
               PROVE  IInv'
    OBVIOUS
  <2>1. CASE Next
    BY <2>1, ClientStepInductive, ThreadStepInductive, CallStepInductive DEF Next
  <2>2. CASE UNCHANGED vars
    BY <2>2 DEF vars, ctxVars, taskVars, threadVars, IInv, TypeOK, OneThreadPerTask,
                Order, Ending, SyncInHandler, QuietAfterDestruction
  <2> QED BY <2>1, <2>2
<1> QED BY <1>1, InitInductive, PTL DEF Spec

(* Every variable keeps its type; a thread is busy exactly while it        *)
(* executes a task.                                                        *)
THEOREM TypeCorrect == Spec => []TypeOK
<1>1. IInv => TypeOK
  BY DEF IInv
<1> QED BY <1>1, InductiveInvariant, PTL

(* A coroutine is never on two threads, nor queued while it runs, nor      *)
(* queued twice: resuming a task is left to whoever finds it waiting.      *)
THEOREM OneThreadPerTaskCorrect == Spec => []OneThreadPerTask
<1>1. IInv => OneThreadPerTask
  BY DEF IInv
<1> QED BY <1>1, InductiveInvariant, PTL

(* Once the destructor has returned no thread is left in run() and no task *)
(* will run again.                                                         *)
THEOREM QuietAfterDestructionCorrect == Spec => []QuietAfterDestruction
<1>1. IInv => QuietAfterDestruction
  BY DEF IInv
<1> QED BY <1>1, InductiveInvariant, PTL

(* No thread is lost before Shutdown has begun, whatever handlers throw.   *)
THEOREM ThreadsSurviveCorrect == Spec => []ThreadsSurvive
<1>1. IInv => ThreadsSurvive
  BY DEF IInv, Order, Ending, ThreadsSurvive
<1> QED BY <1>1, InductiveInvariant, PTL
=============================================================================
