-------------------------- MODULE ClientLifecycle --------------------------
(***************************************************************************)
(* A client from construction to destruction: the io_context and its       *)
(* threads (impl/comm/Context.cpp), the constructor and destructor of      *)
(* ClientImpl, and the operations spawned on the context                   *)
(* (impl/ClientImpl.tpp), one of which may be waited for inside the        *)
(* completion handler of another with the Sync token.                      *)
(*                                                                         *)
(* A task is a coroutine; the asynchronous calls an operation awaits are   *)
(* taken as one. A handler, once invoked, runs user code.                  *)
(***************************************************************************)
EXTENDS Integers, Sequences, Functions

CONSTANTS
    Threads,   \* the threads of the context
    Ops,       \* operations: calls of Ping, Query, Write, ...
    Health,    \* the health-check coroutine
    None       \* no task

ASSUME LifecycleAssumption ==
    Threads # {} /\ Health \notin Ops /\ None \notin Ops \cup {Health}

Tasks == Ops \cup {Health}

VARIABLES
    phase,     \* what the user's thread is doing with the client
    guard,     \* ctxGuard_ owns work
    stopped,   \* ctx_.stopped()
    destroyer, \* the thread of the context that runs the destructor, if one does
    queue,     \* handlers that are ready to run, in order
    state,     \* state[t]: where task t is
    cancelled, \* the health check was woken by StopHealthCheck
    awaited,   \* awaited[t]: the task has been suspended before
    thr,       \* thr[h]: in run(), out of it, or executing
    task,      \* task[h]: what it is executing
    waitsFor   \* waitsFor[h]: the operation its handler waits for with Sync

ctxVars    == <<guard, stopped, destroyer>>
taskVars   == <<queue, state, cancelled, awaited>>
threadVars == <<thr, task, waitsFor>>
vars       == <<phase, ctxVars, taskVars, threadVars>>

TypeOK ==
    /\ phase \in {"constructing", "alive", "stopping", "unguarded", "joining",
                  "destroyed", "terminated"}
    /\ guard \in BOOLEAN
    /\ stopped \in BOOLEAN
    /\ destroyer \in Threads \cup {None}
    /\ queue \in Seq(Tasks)
    /\ state \in [Tasks -> {"none", "ready", "running", "waiting", "handler",
                            "done", "abandoned"}]
    /\ cancelled \in BOOLEAN
    /\ awaited \in [Tasks -> BOOLEAN]
    /\ thr \in [Threads -> {"polling", "busy", "left"}]
    /\ task \in [Threads -> Tasks \cup {None}]
    /\ waitsFor \in [Threads -> Ops \cup {None}]
    /\ \A h \in Threads :
        /\ thr[h] = "busy" <=> task[h] # None
        /\ waitsFor[h] # None => thr[h] = "busy"

-----------------------------------------------------------------------------
(* The Context is constructed first: its threads enter run().              *)
Init ==
    /\ phase = "constructing"
    /\ guard = TRUE
    /\ stopped = FALSE
    /\ destroyer = None
    /\ queue = <<>>
    /\ state = [t \in Tasks |-> "none"]
    /\ cancelled = FALSE
    /\ awaited = [t \in Tasks |-> FALSE]
    /\ thr = [h \in Threads |-> "polling"]
    /\ task = [h \in Threads |-> None]
    /\ waitsFor = [h \in Threads |-> None]

Post(t) ==
    /\ queue' = Append(queue, t)
    /\ state' = [state EXCEPT ![t] = "ready"]

(* The HTTP client and the load balancer exist; StartHealthCheck.          *)
Constructed ==
    /\ phase = "constructing"
    /\ phase' = "alive"
    /\ Post(Health)
    /\ UNCHANGED <<ctxVars, cancelled, awaited, threadVars>>

(* One of their constructors throws: the Context is destroyed.             *)
ConstructionFails ==
    /\ phase = "constructing"
    /\ phase' = "stopping"
    /\ UNCHANGED <<ctxVars, taskVars, threadVars>>

(* ~ClientImpl begins with StopHealthCheck, which wakes the health check   *)
(* when that is waiting for its timer, not when it is waiting for a ping.  *)
(* Before it, one that resumes the coroutine wherever it is.               *)
ResumeHealthCheck ==
    /\ cancelled' = TRUE
    /\ Post(Health)

StopHealthCheck ==
    \/ /\ state[Health] = "waiting"
       /\ cancelled' = TRUE
       /\ Post(Health)
    \/ UNCHANGED <<cancelled, queue, state>>

Destroy ==
    /\ phase = "alive"
    /\ phase' = "stopping"
    /\ StopHealthCheck
    /\ UNCHANGED <<ctxVars, awaited, threadVars>>

(* The same, by user code in a completion handler.                         *)
DestroyInHandler(h) ==
    /\ phase = "alive"
    /\ thr[h] = "busy"
    /\ state[task[h]] = "handler"
    /\ waitsFor[h] = None
    /\ phase' = "stopping"
    /\ destroyer' = h
    /\ StopHealthCheck
    /\ UNCHANGED <<guard, stopped, awaited, threadVars>>

(* Shutdown: release the guard, stop the context, join the threads.        *)
ResetGuard ==
    /\ phase = "stopping"
    /\ phase' = "unguarded"
    /\ guard' = FALSE
    /\ UNCHANGED <<stopped, destroyer, taskVars, threadVars>>

(* Before StopContext, a Shutdown that leaves out the call of stop().      *)
SkipsStop ==
    /\ phase = "unguarded"
    /\ phase' = "joining"
    /\ UNCHANGED <<ctxVars, taskVars, threadVars>>

StopContext ==
    /\ phase = "unguarded"
    /\ phase' = "joining"
    /\ stopped' = TRUE
    /\ UNCHANGED <<guard, destroyer, taskVars, threadVars>>

(* Every thread is joined, and the io_context destroyed with the tasks     *)
(* that are left in it. Before it, a Shutdown that does not join.          *)
Abandon ==
    /\ queue' = <<>>
    /\ state' = [t \in Tasks |->
                    IF state[t] \in {"ready", "waiting"} THEN "abandoned" ELSE state[t]]

DoesNotJoin ==
    /\ phase = "joining"
    /\ phase' = "destroyed"
    /\ Abandon
    /\ UNCHANGED <<ctxVars, cancelled, awaited, threadVars>>

Joined ==
    /\ phase = "joining"
    /\ \A h \in Threads : thr[h] = "left"
    /\ phase' = "destroyed"
    /\ Abandon
    /\ UNCHANGED <<ctxVars, cancelled, awaited, threadVars>>

(* join() of the thread it is called on throws, out of a destructor. The   *)
(* threads before it in the loop have been joined, none or all of them.    *)
Terminate ==
    /\ phase = "joining"
    /\ destroyer # None
    /\ phase' = "terminated"
    /\ UNCHANGED <<ctxVars, taskVars, threadVars>>

-----------------------------------------------------------------------------
(* The user calls an operation; Spawn queues its coroutine.                *)
Launch(o) ==
    /\ phase = "alive"
    /\ state[o] = "none"
    /\ Post(o)
    /\ UNCHANGED <<phase, ctxVars, cancelled, awaited, threadVars>>

(* User code in a completion handler calls one with the Sync token and     *)
(* waits for its future.                                                   *)
CallSync(h, o) ==
    /\ thr[h] = "busy"
    /\ state[task[h]] = "handler"
    /\ waitsFor[h] = None
    /\ phase = "alive"
    /\ state[o] = "none"
    /\ Post(o)
    /\ waitsFor' = [waitsFor EXCEPT ![h] = o]
    /\ UNCHANGED <<phase, ctxVars, cancelled, awaited, thr, task>>

-----------------------------------------------------------------------------
(* A thread in ctx_.run().                                                 *)
Dispatch(h) ==
    /\ thr[h] = "polling"
    /\ ~stopped
    /\ queue # <<>>
    /\ queue' = Tail(queue)
    /\ state' = [state EXCEPT ![Head(queue)] = "running"]
    /\ thr' = [thr EXCEPT ![h] = "busy"]
    /\ task' = [task EXCEPT ![h] = Head(queue)]
    /\ UNCHANGED <<phase, ctxVars, cancelled, awaited, waitsFor>>

(* run() returns once the context is stopped or has run out of work.       *)
OutOfWork ==
    /\ ~guard
    /\ \A t \in Tasks : state[t] \in {"none", "done"}

Leave(h) ==
    /\ thr[h] = "polling"
    /\ stopped \/ OutOfWork
    /\ stopped' = TRUE
    /\ thr' = [thr EXCEPT ![h] = "left"]
    /\ UNCHANGED <<phase, guard, destroyer, taskVars, task, waitsFor>>

(* The handler returns to run(). Before it, one whose thread does not let  *)
(* go of the task.                                                         *)
KeepsTask(h) ==
    /\ thr' = [thr EXCEPT ![h] = "polling"]
    /\ UNCHANGED task

BackToRun(h) ==
    /\ thr' = [thr EXCEPT ![h] = "polling"]
    /\ task' = [task EXCEPT ![h] = None]

(* The coroutine starts an asynchronous call and is suspended. The health  *)
(* check does so for ever, an operation once.                              *)
Suspend(h) ==
    /\ thr[h] = "busy"
    /\ state[task[h]] = "running"
    /\ IF task[h] = Health THEN ~cancelled ELSE ~awaited[task[h]]
    /\ state' = [state EXCEPT ![task[h]] = "waiting"]
    /\ awaited' = [awaited EXCEPT ![task[h]] = TRUE]
    /\ BackToRun(h)
    /\ UNCHANGED <<phase, ctxVars, queue, cancelled, waitsFor>>

(* What a task awaits ends, and its resumption is queued.                  *)
IoCompletes(t) ==
    /\ ~stopped
    /\ phase # "terminated"
    /\ state[t] = "waiting"
    /\ Post(t)
    /\ UNCHANGED <<phase, ctxVars, cancelled, awaited, threadVars>>

(* The coroutine returns or throws, and the token is invoked: for Sync, a  *)
(* promise is set and nothing else runs.                                   *)
Finish(h) ==
    /\ thr[h] = "busy"
    /\ task[h] \in Ops
    /\ state[task[h]] = "running"
    /\ IF task[h] \in Range(waitsFor)
       THEN /\ state' = [state EXCEPT ![task[h]] = "done"]
            /\ BackToRun(h)
       ELSE /\ state' = [state EXCEPT ![task[h]] = "handler"]
            /\ UNCHANGED <<thr, task>>
    /\ UNCHANGED <<phase, ctxVars, queue, cancelled, awaited, waitsFor>>

(* The timer's wait was cancelled: the health check ends.                  *)
HealthEnds(h) ==
    /\ thr[h] = "busy"
    /\ task[h] = Health
    /\ state[Health] = "running"
    /\ cancelled
    /\ state' = [state EXCEPT ![Health] = "done"]
    /\ BackToRun(h)
    /\ UNCHANGED <<phase, ctxVars, queue, cancelled, awaited, waitsFor>>

(* future.get() returns.                                                   *)
SyncReturns(h) ==
    /\ waitsFor[h] # None
    /\ state[waitsFor[h]] = "done"
    /\ waitsFor' = [waitsFor EXCEPT ![h] = None]
    /\ UNCHANGED <<phase, ctxVars, taskVars, thr, task>>

HandlerReturns(h) ==
    /\ thr[h] = "busy"
    /\ state[task[h]] = "handler"
    /\ waitsFor[h] = None
    /\ destroyer # h
    /\ state' = [state EXCEPT ![task[h]] = "done"]
    /\ BackToRun(h)
    /\ UNCHANGED <<phase, ctxVars, queue, cancelled, awaited, waitsFor>>

(* An exception leaves the handler, and run() with it: it is caught and    *)
(* run() called again. Before it, a thread that ends after the catch.      *)
ThreadEnds(h) ==
    /\ thr[h] = "busy"
    /\ state[task[h]] = "handler"
    /\ waitsFor[h] = None
    /\ destroyer # h
    /\ state' = [state EXCEPT ![task[h]] = "done"]
    /\ thr' = [thr EXCEPT ![h] = "left"]
    /\ task' = [task EXCEPT ![h] = None]
    /\ UNCHANGED <<phase, ctxVars, queue, cancelled, awaited, waitsFor>>

HandlerThrows(h) ==
    /\ thr[h] = "busy"
    /\ state[task[h]] = "handler"
    /\ waitsFor[h] = None
    /\ destroyer # h
    /\ state' = [state EXCEPT ![task[h]] = "done"]
    /\ BackToRun(h)
    /\ UNCHANGED <<phase, ctxVars, queue, cancelled, awaited, waitsFor>>

ThreadStep(h) ==
    /\ phase # "terminated"
    /\ \/ Dispatch(h) \/ Leave(h)
       \/ Suspend(h) \/ Finish(h) \/ HealthEnds(h)
       \/ SyncReturns(h) \/ HandlerReturns(h) \/ HandlerThrows(h)

ShutdownStep == ResetGuard \/ StopContext \/ Joined \/ Terminate

-----------------------------------------------------------------------------
Next ==
    \/ Constructed \/ ConstructionFails \/ Destroy \/ ShutdownStep
    \/ \E h \in Threads : ThreadStep(h) \/ DestroyInHandler(h) \/ \E o \in Ops : CallSync(h, o)
    \/ \E o \in Ops : Launch(o)
    \/ \E t \in Tasks : IoCompletes(t)

(* Threads run, handlers return, I/O ends (every stream has a timeout),    *)
(* and a destructor goes on. Nobody has to call or to destroy.             *)
Fairness ==
    /\ \A h \in Threads : WF_vars(ThreadStep(h))
    /\ \A t \in Tasks : WF_vars(IoCompletes(t))
    /\ WF_vars(ShutdownStep)

Spec     == Init /\ [][Next]_vars
FairSpec == Spec /\ Fairness
-----------------------------------------------------------------------------
(* A coroutine runs on one thread at a time and is queued once at most,    *)
(* also when StopHealthCheck on the user's thread races with the resumption*)
(* of the health check: what is ready is what is queued, and what runs is  *)
(* what the threads execute.                                               *)
OneThreadPerTask ==
    /\ IsInjective(queue)
    /\ Range(queue) = {t \in Tasks : state[t] = "ready"}
    /\ \A t \in Tasks :
        state[t] \in {"running", "handler"} <=> t \in Range(task)
    /\ \A g, h \in Threads : g # h /\ task[g] # None => task[g] # task[h]

(* Nothing of the client runs after its destructor: neither a coroutine,   *)
(* which refers to the HTTP client and the load balancer, nor a handler of *)
(* the user's.                                                             *)
QuietAfterDestruction ==
    phase = "destroyed" =>
        /\ \A h \in Threads : thr[h] = "left"
        /\ \A t \in Tasks : state[t] \in {"none", "done", "abandoned"}

(* Exceptions that user handlers throw cost the client no thread: run() is *)
(* left for good only after Shutdown has begun.                            *)
ThreadsSurvive ==
    \A h \in Threads : thr[h] = "left" => phase \in {"unguarded", "joining", "destroyed", "terminated"}

(* The destructor (and the unwinding of a constructor that failed) ends,   *)
(* although the health check never does, unless a handler is left waiting  *)
(* in a Sync call: stop() keeps that operation from completing, and join() *)
(* then waits for the handler. A client that is destroyed in one of its    *)
(* own handlers takes the process with it; it does not hang there.         *)
DestructorReturns ==
    \/ <>[](\E h \in Threads : waitsFor[h] # None)
    \/ phase = "stopping" ~>
            phase = IF destroyer = None THEN "destroyed" ELSE "terminated"

(* The token of every operation is invoked as long as the client lives,    *)
(* unless all threads end up in handlers that wait in Sync calls.          *)
OperationsComplete ==
    \/ <>[](\A h \in Threads : waitsFor[h] # None)
    \/ \A o \in Ops :
        state[o] = "ready" ~> (state[o] \in {"handler", "done"} \/ phase # "alive")
=============================================================================
