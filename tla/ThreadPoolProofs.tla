---------------------------- MODULE ThreadPoolProofs ----------------------------
(* Theorems about lsp::ThreadPool for every number of workers, callers and   *)
(* tasks.                                                                    *)
EXTENDS ThreadPool, FiniteSetTheorems, TLAPS

(* Only a running worker owns a task.                                        *)
TaskInv == \A w \in Workers : task[w] # None <=> worker[w] = "run"

(* The mutex is held by exactly the worker that is between cv_.wait's lock    *)
(* and its unlock.                                                           *)
MutexInv == \A w \in Workers : worker[w] \in {"test", "park", "take"} <=> mutex = w

(* A worker that decided to block did so on an empty queue.                  *)
ParkInv == \A w \in Workers : worker[w] = "park" => queue = <<>>

(* Workers leave only after stop_, the owner only after the workers.         *)
ExitInv ==
  /\ owner = "down" => \A w \in Workers : worker[w] = "exited"
  /\ (\E w \in Workers : worker[w] = "exited") => stop

Typed == TypeOK /\ TaskInv
Safe == Typed /\ MutexInv /\ ParkInv /\ ExitInv /\ FrontExists /\ NoSleepOverWork
--------------------------------------------------------------------------------
LEMMA TypedInit == Init => Typed
<1>1. \A S : <<>> \in Seq(S)
  OBVIOUS
<1>. QED BY <1>1 DEF Init, Typed, TypeOK, TaskInv, WorkerStates

LEMMA TypedNext == Typed /\ [Next]_vars => Typed'
<1> SUFFICES ASSUME Typed, [Next]_vars PROVE Typed'
  OBVIOUS
<1> USE PoolAssumption DEF Typed, TypeOK, TaskInv, WorkerStates, Goto
<1>1. ASSUME NEW w \in Workers, WorkerStep(w) PROVE Typed'
  <2>1. CASE Acquire(w) \/ Test(w) \/ Park(w) \/ Exit(w)
    BY <2>1 DEF Acquire, Test, Park, Exit
  <2>2. CASE Take(w)
    BY <2>2 DEF Take
  <2>3. CASE Run(w)
    BY <2>3 DEF Run
  <2>. QED BY <1>1, <2>1, <2>2, <2>3 DEF WorkerStep
<1>2. ASSUME NEW w \in Workers, WakeSpuriously(w) PROVE Typed'
  BY <1>2 DEF WakeSpuriously
<1>3. ASSUME NEW c \in Clients, NotifyOne(c) PROVE Typed'
  BY <1>3 DEF NotifyOne, Waiting
<1>4. ASSUME NEW c \in Clients, NEW t \in Tasks, Push(c, t) PROVE Typed'
  BY <1>4 DEF Push
<1>5. CASE SetStop \/ NotifyAll \/ Join
  BY <1>5 DEF SetStop, NotifyAll, Join
<1>6. CASE UNCHANGED vars
  BY <1>6 DEF vars
<1>. QED BY <1>1, <1>2, <1>3, <1>4, <1>5, <1>6 DEF Next

(* Every variable keeps its type: in particular onDone is only called for a  *)
(* task the worker has taken.                                                *)
THEOREM TypeCorrect == Spec => []TypeOK
<1>1. Typed => TypeOK
  BY DEF Typed
<1>. QED BY <1>1, TypedInit, TypedNext, PTL DEF Spec
--------------------------------------------------------------------------------
LEMMA SafeInit == Init => Safe
<1>1. Init => MutexInv /\ ParkInv /\ ExitInv /\ FrontExists /\ NoSleepOverWork
  BY PoolAssumption DEF Init, MutexInv, ParkInv, ExitInv, FrontExists, NoSleepOverWork
<1>. QED BY <1>1, TypedInit DEF Safe

(* FrontExists needs MutexInv: the queue a worker looked at can only be        *)
(* emptied by the holder of the mutex.  NoSleepOverWork needs ParkInv: a      *)
(* worker that goes to sleep does so on an empty queue.                       *)
LEMMA SafeNext == Safe /\ [Next]_vars => Safe'
<1> SUFFICES ASSUME Safe, [Next]_vars PROVE Safe'
  OBVIOUS
<1>0. Typed'
  BY TypedNext DEF Safe
<1> USE PoolAssumption DEF Safe, Typed, TypeOK, WorkerStates, Goto,
                           MutexInv, ParkInv, ExitInv, FrontExists
<1>1. ASSUME NEW w \in Workers, WorkerStep(w) \/ WakeSpuriously(w)
      PROVE MutexInv' /\ ParkInv' /\ ExitInv' /\ FrontExists' /\ NoSleepOverWork'
  <2>1. CASE Acquire(w)
    BY <2>1 DEF Acquire, NoSleepOverWork, Awake
  <2>2. CASE Test(w)
    BY <2>2 DEF Test, NoSleepOverWork, Awake
  <2>3. CASE Park(w)
    BY <2>3 DEF Park, NoSleepOverWork, Awake
  <2>4. CASE Exit(w)
    BY <2>4 DEF Exit, NoSleepOverWork, Awake
  <2>5. CASE Take(w)
    BY <2>5 DEF Take, NoSleepOverWork, Awake
  <2>6. CASE Run(w)
    BY <2>6 DEF Run, NoSleepOverWork, Awake
  <2>7. CASE WakeSpuriously(w)
    BY <2>7 DEF WakeSpuriously, NoSleepOverWork, Awake
  <2>. QED BY <1>1, <2>1, <2>2, <2>3, <2>4, <2>5, <2>6, <2>7 DEF WorkerStep
<1>2. ASSUME NEW c \in Clients, NotifyOne(c)
      PROVE MutexInv' /\ ParkInv' /\ ExitInv' /\ FrontExists' /\ NoSleepOverWork'
  <2>1. CASE Waiting = {}
    BY <1>2, <2>1 DEF NotifyOne, Waiting, NoSleepOverWork, Awake
  <2>2. CASE Waiting # {}
    <3>1. PICK w \in Waiting : Goto(w, "lock")
      BY <1>2, <2>2 DEF NotifyOne
    <3>. QED BY <1>2, <3>1 DEF NotifyOne, Waiting, NoSleepOverWork, Awake
  <2>. QED BY <2>1, <2>2
<1>3. ASSUME NEW c \in Clients, NEW t \in Tasks, Push(c, t)
      PROVE MutexInv' /\ ParkInv' /\ ExitInv' /\ FrontExists' /\ NoSleepOverWork'
  <2>1. queue' # <<>>
    BY <1>3 DEF Push
  <2>. QED BY <1>3, <2>1 DEF Push, NoSleepOverWork, Awake
<1>4. CASE SetStop
  BY <1>0, <1>4 DEF SetStop, NoSleepOverWork, Awake
<1>5. CASE NotifyAll
  BY <1>0, <1>5 DEF NotifyAll, NoSleepOverWork, Awake
<1>6. CASE Join
  BY <1>0, <1>6 DEF Join, NoSleepOverWork, Awake
<1>7. CASE UNCHANGED vars
  BY <1>0, <1>7 DEF vars, NoSleepOverWork, Awake
<1>. QED BY <1>0, <1>1, <1>2, <1>3, <1>4, <1>5, <1>6, <1>7 DEF Next

LEMMA AlwaysSafe == Spec => []Safe
BY SafeInit, SafeNext, PTL DEF Spec

(* A worker that leaves cv_.wait finds the task it was woken for, or is told  *)
(* to stop: queue_.front() is never called on an empty queue (l. 14-22).      *)
THEOREM FrontAlwaysExists == Spec => []FrontExists
<1>1. Safe => FrontExists
  BY DEF Safe
<1>. QED BY <1>1, AlwaysSafe, PTL

(* No task waits while every worker sleeps and nobody is about to notify,     *)
(* although enqueue notifies after it has released the mutex (l. 30-36).       *)
THEOREM NeverSleepsOverWork == Spec => []NoSleepOverWork
<1>1. Safe => NoSleepOverWork
  BY DEF Safe
<1>. QED BY <1>1, AlwaysSafe, PTL

(* Once shutdown() has returned no thread holds the mutex or runs a task      *)
(* (l. 38-43).                                                                *)
THEOREM DownStaysQuiet == Spec => []DownIsQuiet
<1>1. Safe => DownIsQuiet
  BY PoolAssumption DEF Safe, Typed, TypeOK, TaskInv, MutexInv, ExitInv, DownIsQuiet, Taken
<1>. QED BY <1>1, AlwaysSafe, PTL
--------------------------------------------------------------------------------
(* The refinement.  A task is in one place at a time, and at most one worker  *)
(* runs it; both follow from the assumption that no task is enqueued twice.   *)
OnePlace ==
  /\ \A i, j \in DOMAIN queue : queue[i] = queue[j] => i = j
  /\ Pushed \cap Taken = {} /\ Pushed \cap answered = {} /\ Taken \cap answered = {}
  /\ \A v, w \in Workers : task[v] # None /\ task[v] = task[w] => v = w

Queued == Safe /\ OnePlace

LEMMA Fetched ==
  ASSUME Queued, NEW w \in Workers, Take(w)
  PROVE  /\ Head(queue) \in Pushed /\ Head(queue) # None
         /\ Pushed' = Pushed \ {Head(queue)}
         /\ Taken' = Taken \cup {Head(queue)}
         /\ \A i, j \in DOMAIN queue' : queue'[i] = queue'[j] => i = j
<1> USE PoolAssumption DEF Queued, OnePlace, Safe, Typed, TypeOK, Pushed
<1>1. /\ queue # <<>> /\ Len(queue) \in Nat \ {0} /\ Head(queue) = queue[1]
      /\ queue' = Tail(queue) /\ DOMAIN queue = 1..Len(queue)
      /\ \A i \in DOMAIN queue : queue[i] \in Tasks
  BY DEF Take
<1>2. /\ DOMAIN queue' = 1..(Len(queue) - 1)
      /\ \A i \in DOMAIN queue' : i + 1 \in DOMAIN queue /\ queue'[i] = queue[i + 1]
  BY <1>1
<1>3. Head(queue) \in Pushed /\ Head(queue) # None
  BY <1>1
<1>4. \A i, j \in DOMAIN queue' : queue'[i] = queue'[j] => i = j
  BY <1>1, <1>2
<1>5. Pushed' = Pushed \ {Head(queue)}
  <2>1. ASSUME NEW t \in Pushed', TRUE PROVE t \in Pushed \ {Head(queue)}
    BY <1>1, <1>2
  <2>2. ASSUME NEW t \in Pushed, t # Head(queue) PROVE t \in Pushed'
    <3>1. PICK k \in DOMAIN queue : queue[k] = t
      OBVIOUS
    <3>2. k # 1 /\ k - 1 \in DOMAIN queue' /\ queue'[k - 1] = t
      BY <1>1, <1>2, <2>2, <3>1
    <3>. QED BY <3>2
  <2>. QED BY <2>1, <2>2
<1>6. Taken' = Taken \cup {Head(queue)}
  BY <1>3 DEF Take, Taken, TaskInv
<1>. QED BY <1>3, <1>4, <1>5, <1>6

LEMMA Handed ==
  ASSUME Queued, NEW c \in Clients, NEW t \in Tasks, Push(c, t)
  PROVE  /\ Pushed' = Pushed \cup {t} /\ t \notin Pushed \cup Taken \cup answered
         /\ \A i, j \in DOMAIN queue' : queue'[i] = queue'[j] => i = j
<1> USE DEF Queued, OnePlace, Safe, Typed, TypeOK, Pushed
<1>1. t \notin Pushed \cup Taken \cup answered
  BY DEF Push
<1>2. /\ Len(queue) \in Nat /\ DOMAIN queue = 1..Len(queue)
      /\ DOMAIN queue' = 1..(Len(queue) + 1) /\ queue'[Len(queue) + 1] = t
      /\ \A i \in DOMAIN queue : queue'[i] = queue[i]
  BY DEF Push
<1>3. DOMAIN queue' = DOMAIN queue \cup {Len(queue) + 1}
  BY <1>2
<1>4. Pushed' = Pushed \cup {t}
  BY <1>2, <1>3
<1>5. \A i, j \in DOMAIN queue' : queue'[i] = queue'[j] => i = j
  BY <1>1, <1>2, <1>3
<1>. QED BY <1>1, <1>4, <1>5

LEMMA Answered ==
  ASSUME Queued, NEW w \in Workers, Run(w)
  PROVE  task[w] \in Taken /\ Taken' = Taken \ {task[w]}
BY PoolAssumption
   DEF Queued, OnePlace, Safe, Typed, TypeOK, TaskInv, Run, Taken

(* Steps that neither hand over, fetch nor answer a task. *)
Internal ==
  \/ \E w \in Workers : Acquire(w) \/ Test(w) \/ Park(w) \/ Exit(w) \/ WakeSpuriously(w)
  \/ \E c \in Clients : NotifyOne(c)
  \/ SetStop \/ NotifyAll \/ Join \/ UNCHANGED vars

LEMMA StepCases ==
  ASSUME [Next]_vars
  PROVE  \/ \E w \in Workers : Take(w) \/ Run(w)
         \/ \E c \in Clients, t \in Tasks : Push(c, t)
         \/ Internal
BY DEF Next, WorkerStep, Internal

LEMMA InternalIsSilent == Internal => UNCHANGED <<queue, task, answered, Pushed, Taken>>
BY DEF Internal, Acquire, Test, Park, Exit, WakeSpuriously, NotifyOne, SetStop, NotifyAll,
       Join, vars, Pushed, Taken

LEMMA QueuedInit == Init => Queued
BY SafeInit DEF Init, Queued, OnePlace, Pushed, Taken

LEMMA QueuedNext == Queued /\ [Next]_vars => Queued'
<1> SUFFICES ASSUME Queued, [Next]_vars PROVE OnePlace'
  BY SafeNext DEF Queued
<1> USE DEF OnePlace
<1>1. ASSUME NEW w \in Workers, Take(w) PROVE OnePlace'
  <2>1. \A v \in Workers : task[v] # None => task[v] \in Taken
    BY DEF Taken
  <2>2. \A u, v \in Workers : task'[v] # None /\ task'[u] = task'[v] => u = v
    BY <1>1, <2>1, Fetched DEF Take, Queued, Safe, Typed, TypeOK
  <2>. QED BY <1>1, <2>2, Fetched DEF Queued, Take
<1>2. ASSUME NEW w \in Workers, Run(w) PROVE OnePlace'
  <2>1. UNCHANGED Pushed
    BY <1>2 DEF Run, Pushed
  <2>2. \A u, v \in Workers : task'[v] # None /\ task'[u] = task'[v] => u = v
    BY <1>2 DEF Run, Queued, Safe, Typed, TypeOK
  <2>. QED BY <1>2, <2>1, <2>2, Answered DEF Queued, Run
<1>3. ASSUME NEW c \in Clients, NEW t \in Tasks, Push(c, t) PROVE OnePlace'
  <2>1. UNCHANGED <<Taken, task, answered>>
    BY <1>3 DEF Push, Taken
  <2>. QED BY <1>3, <2>1, Handed DEF Queued
<1>4. CASE Internal
  BY <1>4, InternalIsSilent DEF Queued
<1>. QED BY <1>1, <1>2, <1>3, <1>4, StepCases

(* While a worker has no task, fewer tasks run than there are workers.        *)
LEMMA RoomToStart ==
  ASSUME Queued, NEW w \in Workers, task[w] = None
  PROVE  Cardinality(Taken) < Cardinality(Workers)
<1> DEFINE busy == {v \in Workers : task[v] # None}
<1>1. /\ IsFiniteSet(Workers) /\ IsFiniteSet(Workers \ {w})
      /\ Cardinality(Workers) \in Nat
      /\ Cardinality(Workers \ {w}) = Cardinality(Workers) - 1
  BY PoolAssumption, FS_RemoveElement, FS_CardinalityType
<1>2. IsFiniteSet(busy) /\ Cardinality(busy) <= Cardinality(Workers \ {w})
  <2>1. busy \in SUBSET (Workers \ {w})
    OBVIOUS
  <2>. QED BY <1>1, <2>1, FS_Subset
<1>3. [v \in busy |-> task[v]] \in Surjection(busy, Taken)
  BY DEF Surjection, Taken
<1>4. IsFiniteSet(Taken) /\ Cardinality(Taken) <= Cardinality(busy)
  BY <1>2, <1>3, FS_Surjection
<1>5. Cardinality(Taken) \in Nat /\ Cardinality(busy) \in Nat
  BY <1>2, <1>4, FS_CardinalityType
<1>. QED BY <1>1, <1>2, <1>4, <1>5

(* The pool behaves like the service its callers see: every task starts once, *)
(* in the order of the enqueue calls, at most one per worker at a time, and   *)
(* each that started runs to its callback.                                    *)
THEOREM PoolImplementsService == Spec => ImplementsService
<1>1. Init => Service!ServiceInit
  BY DEF Init, Service!ServiceInit, Taken
<1>2. Queued /\ [Next]_vars => [Service!ServiceNext]_(Service!serviceVars)
  <2> SUFFICES ASSUME Queued, [Next]_vars
               PROVE  [Service!ServiceNext]_(Service!serviceVars)
    OBVIOUS
  <2> USE DEF Service!ServiceNext, Service!serviceVars
  <2>1. ASSUME NEW w \in Workers, Take(w) PROVE Service!Start
    <3>1. task[w] = None
      BY <2>1 DEF Take, Queued, Safe, Typed, TypeOK, TaskInv, WorkerStates
    <3>2. Service!Cardinality(Taken) = Cardinality(Taken)
      BY DEF Service!Cardinality, Cardinality
    <3>. QED BY <2>1, <3>1, <3>2, RoomToStart, Fetched DEF Take, Service!Start
  <2>2. ASSUME NEW w \in Workers, Run(w) PROVE \E t \in Tasks : Service!Answer(t)
    <3>1. task[w] \in Tasks
      BY <2>2, Answered DEF Queued, Safe, Typed, TypeOK, Taken
    <3>2. Service!Answer(task[w])
      BY <2>2, Answered DEF Run, Service!Answer
    <3>. QED BY <3>1, <3>2
  <2>3. ASSUME NEW c \in Clients, NEW t \in Tasks, Push(c, t) PROVE Service!Submit(t)
    <3>1. t \notin Service!Members(queue) \cup Taken \cup answered
      BY <2>3 DEF Push, Pushed, Service!Members
    <3>. QED BY <2>3, <3>1 DEF Push, Taken, Service!Submit
  <2>4. CASE Internal
    BY <2>4, InternalIsSilent
  <2>. QED BY <2>1, <2>2, <2>3, <2>4, StepCases
<1>. QED BY <1>1, <1>2, QueuedInit, QueuedNext, PTL
     DEF Spec, ImplementsService, Service!ServiceSpec
================================================================================
