------------------------------ MODULE ThreadPool ------------------------------
(***************************************************************************)
(* lsp::ThreadPool (src/src/lsp/server.cpp): workers that wait on a        *)
(* condition variable, callers of LspServer::evalAsync that enqueue, and   *)
(* the owner that shuts the pool down.                                     *)
(*                                                                         *)
(* One action per stretch of code another thread can interleave with:      *)
(* evaluating the wait predicate and blocking are separate steps, because  *)
(* shutdown() stores stop_ and notifies without taking the mutex.          *)
(***************************************************************************)
EXTENDS Naturals, Sequences, FiniteSets

CONSTANTS
  Workers,   \* the threads of workers_
  Clients,   \* the threads that call enqueue
  Tasks,     \* the tasks they hand over, each once
  None

ASSUME PoolAssumption ==
  /\ IsFiniteSet(Workers) /\ Workers # {}
  /\ Workers \cap Clients = {}
  /\ None \notin Workers \cup Clients \cup Tasks

VARIABLES
  queue,      \* queue_
  stop,       \* stop_
  mutex,      \* the worker that holds m_ between two of its steps
  worker,     \* where each worker stands
  task,       \* the task each worker runs
  client,     \* "idle", or "notify" once it has pushed
  owner,      \* how far shutdown() is
  answered    \* the tasks whose onDone was called

vars == <<queue, stop, mutex, worker, task, client, owner, answered>>

WorkerStates == {"lock", "test", "park", "waiting", "take", "run", "exited"}

Pushed == {queue[k] : k \in DOMAIN queue}
Taken == {task[w] : w \in Workers} \ {None}

TypeOK ==
  /\ queue \in Seq(Tasks) /\ stop \in BOOLEAN
  /\ mutex \in Workers \cup {None}
  /\ worker \in [Workers -> WorkerStates]
  /\ task \in [Workers -> Tasks \cup {None}]
  /\ client \in [Clients -> {"idle", "notify"}]
  /\ owner \in {"running", "stopping", "joining", "down"}
  /\ answered \subseteq Tasks

Init ==
  /\ queue = <<>> /\ stop = FALSE /\ mutex = None
  /\ worker = [w \in Workers |-> "lock"]
  /\ task = [w \in Workers |-> None]
  /\ client = [c \in Clients |-> "idle"]
  /\ owner = "running" /\ answered = {}
--------------------------------------------------------------------------------
(* A worker's loop.                                                        *)

Goto(w, state) == worker' = [worker EXCEPT ![w] = state]

Acquire(w) ==
  /\ worker[w] = "lock" /\ mutex = None
  /\ mutex' = w /\ Goto(w, "test")
  /\ UNCHANGED <<queue, stop, task, client, owner, answered>>

(* Mutated form: a wait without a predicate. *)
TestNothing(w) ==
  /\ worker[w] = "test"
  /\ Goto(w, "take")
  /\ UNCHANGED <<queue, stop, mutex, task, client, owner, answered>>

(* The predicate of cv_.wait, under the mutex. *)
Test(w) ==
  /\ worker[w] = "test"
  /\ Goto(w, IF stop \/ queue # <<>> THEN "take" ELSE "park")
  /\ UNCHANGED <<queue, stop, mutex, task, client, owner, answered>>

(* cv_.wait gives up the mutex and blocks in one step. *)
Park(w) ==
  /\ worker[w] = "park"
  /\ mutex' = None /\ Goto(w, "waiting")
  /\ UNCHANGED <<queue, stop, task, client, owner, answered>>

WakeSpuriously(w) ==
  /\ worker[w] = "waiting"
  /\ Goto(w, "lock")
  /\ UNCHANGED <<queue, stop, mutex, task, client, owner, answered>>

(* Mutated form: exits on stop_ alone. *)
ExitAtOnce(w) ==
  /\ worker[w] = "take" /\ stop
  /\ mutex' = None /\ Goto(w, "exited")
  /\ UNCHANGED <<queue, stop, task, client, owner, answered>>

Exit(w) ==
  /\ worker[w] = "take" /\ stop /\ queue = <<>>
  /\ mutex' = None /\ Goto(w, "exited")
  /\ UNCHANGED <<queue, stop, task, client, owner, answered>>

(* Mutated form: pop() without front(): the task is lost. *)
TakeNothing(w) ==
  /\ worker[w] = "take" /\ queue # <<>>
  /\ queue' = Tail(queue)
  /\ mutex' = None /\ Goto(w, "run")
  /\ UNCHANGED <<stop, task, client, owner, answered>>

(* Mutated form: front() without pop(). *)
TakeWithoutPop(w) ==
  /\ worker[w] = "take" /\ queue # <<>>
  /\ task' = [task EXCEPT ![w] = Head(queue)]
  /\ mutex' = None /\ Goto(w, "run")
  /\ UNCHANGED <<queue, stop, client, owner, answered>>

Take(w) ==
  /\ worker[w] = "take" /\ queue # <<>>
  /\ task' = [task EXCEPT ![w] = Head(queue)]
  /\ queue' = Tail(queue)
  /\ mutex' = None /\ Goto(w, "run")
  /\ UNCHANGED <<stop, client, owner, answered>>

(* The evaluation and its callback, outside the mutex. *)
Run(w) ==
  /\ worker[w] = "run"
  /\ answered' = answered \cup {task[w]}
  /\ task' = [task EXCEPT ![w] = None]
  /\ Goto(w, "lock")
  /\ UNCHANGED <<queue, stop, mutex, client, owner>>

WorkerStep(w) == Acquire(w) \/ Test(w) \/ Park(w) \/ Exit(w) \/ Take(w) \/ Run(w)
--------------------------------------------------------------------------------
(* enqueue(): the push under the mutex, then notify_one after it.          *)

Push(c, t) ==
  /\ client[c] = "idle" /\ mutex = None
  /\ t \notin Pushed \cup Taken \cup answered
  /\ queue' = Append(queue, t)
  /\ client' = [client EXCEPT ![c] = "notify"]
  /\ UNCHANGED <<stop, mutex, worker, task, owner, answered>>

Waiting == {w \in Workers : worker[w] = "waiting"}

(* Mutated form: nobody is notified. *)
NotifyNone(c) ==
  /\ client[c] = "notify"
  /\ client' = [client EXCEPT ![c] = "idle"]
  /\ UNCHANGED <<queue, stop, mutex, worker, task, owner, answered>>

NotifyOne(c) ==
  /\ client[c] = "notify"
  /\ client' = [client EXCEPT ![c] = "idle"]
  /\ IF Waiting = {} THEN UNCHANGED worker ELSE \E w \in Waiting : Goto(w, "lock")
  /\ UNCHANGED <<queue, stop, mutex, task, owner, answered>>
--------------------------------------------------------------------------------
(* shutdown().                                                             *)

SetStop ==
  /\ owner = "running"
  /\ owner' = "stopping" /\ stop' = TRUE
  /\ UNCHANGED <<queue, mutex, worker, task, client, answered>>

NotifyAll ==
  /\ owner = "stopping"
  /\ owner' = "joining"
  /\ worker' = [w \in Workers |-> IF worker[w] = "waiting" THEN "lock" ELSE worker[w]]
  /\ UNCHANGED <<queue, stop, mutex, task, client, answered>>

(* Mutated form: goes on after the first worker. *)
JoinFirst ==
  /\ owner = "joining" /\ \E w \in Workers : worker[w] = "exited"
  /\ owner' = "down"
  /\ UNCHANGED <<queue, stop, mutex, worker, task, client, answered>>

(* join() of every worker, then workers_.clear(): the shutdown() calls of    *)
(* the two destructors that follow find nothing to do.                       *)
Join ==
  /\ owner = "joining" /\ \A w \in Workers : worker[w] = "exited"
  /\ owner' = "down"
  /\ UNCHANGED <<queue, stop, mutex, worker, task, client, answered>>
--------------------------------------------------------------------------------
Next ==
  \/ \E w \in Workers : WorkerStep(w) \/ WakeSpuriously(w)
  \/ \E c \in Clients : NotifyOne(c) \/ \E t \in Tasks : Push(c, t)
  \/ SetStop \/ NotifyAll \/ Join

(* Every thread keeps running, and none is passed over for ever at the mutex; *)
(* callers need not enqueue, the owner need not shut down, and wake-ups       *)
(* nobody asked for need not happen.                                          *)
Fairness ==
  /\ \A w \in Workers : WF_vars(WorkerStep(w)) /\ SF_vars(Acquire(w))
  /\ \A c \in Clients : WF_vars(NotifyOne(c))
  /\ WF_vars(NotifyAll) /\ WF_vars(Join)

Spec == Init /\ [][Next]_vars /\ Fairness
--------------------------------------------------------------------------------
(* Properties.                                                             *)

(* A worker between its predicate and queue_.front() finds a task there     *)
(* unless it is about to exit: what it read of the queue is still so.        *)
FrontExists == \A w \in Workers : worker[w] = "take" => stop \/ queue # <<>>

Awake(w) == worker[w] \notin {"waiting", "exited"}

(* No task sits in the queue while every worker sleeps: either one will look *)
(* at the queue again, or a caller still owes its notification, or all have   *)
(* left.                                                                      *)
NoSleepOverWork ==
  queue # <<>> =>
    \/ \E w \in Workers : Awake(w)
    \/ \E c \in Clients : client[c] = "notify"
    \/ \A w \in Workers : worker[w] = "exited"

(* shutdown() has returned only when no worker touches the pool any more.    *)
DownIsQuiet == owner = "down" => mutex = None /\ Taken = {}

(* shutdown() drains: what was queued before stop_ was set is still run.     *)
DrainsOnShutdown == \A t \in Tasks : (t \in Pushed /\ ~stop) ~> t \in answered

(* The pool implements the service of its callers.                          *)
Service == INSTANCE TaskService
             WITH Capacity <- Cardinality(Workers), waiting <- queue, running <- Taken
ImplementsService == Service!ServiceSpec

(* shutdown() returns.                                                      *)
ShutdownReturns == owner = "stopping" ~> owner = "down"
================================================================================
