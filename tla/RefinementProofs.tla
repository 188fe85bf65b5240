---------------------------- MODULE RefinementProofs ----------------------------
(***************************************************************************)
(* Every step of Interpreter is a step of the Notebook its callers rely    *)
(* on, or leaves the notebook as it is.                                    *)
(***************************************************************************)
EXTENDS InterpreterProofs

TasksOf(js) ==
  [k \in DOMAIN js |-> [code |-> js[k].code, own |-> js[k].as # "replay"]]

(* The tasks of a queue are as many and in the same order. *)
LEMMA TasksType ==
  ASSUME NEW js \in Seq(Job)
  PROVE  /\ TasksOf(js) \in Seq(Promise!Task) /\ Len(TasksOf(js)) = Len(js)
         /\ DOMAIN TasksOf(js) = 1..Len(js)
         /\ \A k \in 1..Len(js) :
              TasksOf(js)[k] = [code |-> js[k].code, own |-> js[k].as # "replay"]
<1>1. DOMAIN js = 1..Len(js) /\ Len(js) \in Nat /\ \A k \in 1..Len(js) : js[k] \in Job
  OBVIOUS
<1>2. \A k \in 1..Len(js) :
        [code |-> js[k].code, own |-> js[k].as # "replay"] \in Promise!Task
  BY <1>1 DEF Job, Promise!Task
<1>3. TasksOf(js) \in [1..Len(js) -> Promise!Task]
  BY <1>1, <1>2 DEF TasksOf
<1> QED  BY <1>1, <1>3, SeqDef DEF TasksOf

(* An empty queue. *)
LEMMA NoTasks == TasksOf(<<>>) = <<>>
<1>1. <<>> \in Seq(Job) /\ Len(<<>>) = 0
  BY EmptySeq
<1>2. TasksOf(<<>>) \in Seq(Promise!Task) /\ Len(TasksOf(<<>>)) = 0
  BY <1>1, TasksType
<1> QED  BY <1>2, EmptySeq

(* The first job. *)
LEMMA TasksHead ==
  ASSUME NEW js \in Seq(Job), js # <<>>
  PROVE  /\ TasksOf(js) # <<>>
         /\ Head(TasksOf(js)) = [code |-> Head(js).code, own |-> Head(js).as # "replay"]
         /\ Tail(TasksOf(js)) = TasksOf(Tail(js))
<1>1. Len(js) \in Nat /\ Len(js) > 0 /\ Head(js) = js[1]
  BY HeadTailProperties, EmptySeq
<1>2. TasksOf(js) \in Seq(Promise!Task) /\ Len(TasksOf(js)) = Len(js) /\ TasksOf(js) # <<>>
  BY <1>1, TasksType, EmptySeq
<1>3. Head(TasksOf(js)) = [code |-> Head(js).code, own |-> Head(js).as # "replay"]
  <2>1. Head(TasksOf(js)) = TasksOf(js)[1]
    <3> DEFINE t == TasksOf(js)
    <3>1. t \in Seq(Promise!Task) /\ t # <<>>
      BY <1>2
    <3> HIDE DEF t
    <3>2. Head(t) = t[1]
      BY <3>1
    <3> QED  BY <3>2 DEF t
  <2>2. 1 \in 1..Len(js)
    BY <1>1
  <2>3. TasksOf(js)[1] = [code |-> js[1].code, own |-> js[1].as # "replay"]
    BY <2>2, TasksType
  <2> QED  BY <1>1, <2>1, <2>3
<1>4. /\ Tail(js) \in Seq(Job) /\ Len(Tail(js)) = Len(js) - 1
      /\ \A k \in 1..(Len(js) - 1) : Tail(js)[k] = js[k + 1]
  BY <1>1, HeadTailProperties
<1>5. /\ Tail(TasksOf(js)) \in Seq(Promise!Task) /\ Len(Tail(TasksOf(js))) = Len(js) - 1
      /\ \A k \in 1..(Len(js) - 1) : Tail(TasksOf(js))[k] = TasksOf(js)[k + 1]
  BY <1>2, HeadTailProperties
<1>6. TasksOf(Tail(js)) \in Seq(Promise!Task) /\ Len(TasksOf(Tail(js))) = Len(js) - 1
  BY <1>4, TasksType
<1>7. ASSUME NEW k \in 1..(Len(js) - 1)
      PROVE  Tail(TasksOf(js))[k] = TasksOf(Tail(js))[k]
  <2>1. k + 1 \in 1..Len(js) /\ k \in 1..Len(Tail(js))
    BY <1>1, <1>4
  <2>2. Tail(TasksOf(js))[k] = [code |-> js[k + 1].code, own |-> js[k + 1].as # "replay"]
    BY <1>5, <2>1, TasksType
  <2>3. TasksOf(Tail(js))[k]
          = [code |-> Tail(js)[k].code, own |-> Tail(js)[k].as # "replay"]
    BY <1>4, <2>1, TasksType
  <2> QED  BY <1>4, <2>2, <2>3
<1>8. Tail(TasksOf(js)) = TasksOf(Tail(js))
  BY <1>1, <1>5, <1>6, <1>7, SeqEqual
<1> QED  BY <1>2, <1>3, <1>8

(* Two queues, one after the other. *)
LEMMA TasksConcat ==
  ASSUME NEW js \in Seq(Job), NEW ks \in Seq(Job)
  PROVE  TasksOf(js \o ks) = TasksOf(js) \o TasksOf(ks)
<1> DEFINE a == TasksOf(js)  b == TasksOf(ks)
<1>1. /\ js \o ks \in Seq(Job) /\ Len(js \o ks) = Len(js) + Len(ks)
      /\ Len(js) \in Nat /\ Len(ks) \in Nat
      /\ \A k \in 1..(Len(js) + Len(ks)) :
           (js \o ks)[k] = IF k <= Len(js) THEN js[k] ELSE ks[k - Len(js)]
  BY ConcatProperties
<1>2. a \in Seq(Promise!Task) /\ Len(a) = Len(js) /\ b \in Seq(Promise!Task) /\ Len(b) = Len(ks)
  BY TasksType
<1> HIDE DEF a, b
<1>3. /\ a \o b \in Seq(Promise!Task) /\ Len(a \o b) = Len(js) + Len(ks)
      /\ \A k \in 1..(Len(js) + Len(ks)) :
           (a \o b)[k] = IF k <= Len(js) THEN a[k] ELSE b[k - Len(js)]
  <2>1. /\ a \o b \in Seq(Promise!Task) /\ Len(a \o b) = Len(a) + Len(b)
        /\ \A k \in 1..(Len(a) + Len(b)) :
             (a \o b)[k] = IF k <= Len(a) THEN a[k] ELSE b[k - Len(a)]
    BY <1>2, ConcatProperties
  <2> QED  BY <1>2, <2>1
<1>4. TasksOf(js \o ks) \in Seq(Promise!Task) /\ Len(TasksOf(js \o ks)) = Len(js) + Len(ks)
  BY <1>1, TasksType
<1>5. ASSUME NEW k \in 1..(Len(js) + Len(ks)) PROVE TasksOf(js \o ks)[k] = (a \o b)[k]
  <2>1. TasksOf(js \o ks)[k]
          = [code |-> (js \o ks)[k].code, own |-> (js \o ks)[k].as # "replay"]
    BY <1>1, TasksType
  <2>2. CASE k <= Len(js)
    <3>1. k \in 1..Len(js)
      BY <1>1, <2>2
    <3>2. a[k] = [code |-> js[k].code, own |-> js[k].as # "replay"]
      BY <3>1, TasksType DEF a
    <3> QED  BY <1>1, <1>3, <2>1, <2>2, <3>2
  <2>3. CASE ~(k <= Len(js))
    <3>1. k - Len(js) \in 1..Len(ks)
      BY <1>1, <2>3
    <3>2. b[k - Len(js)]
            = [code |-> ks[k - Len(js)].code, own |-> ks[k - Len(js)].as # "replay"]
      BY <3>1, TasksType DEF b
    <3> QED  BY <1>1, <1>3, <2>1, <2>3, <3>2
  <2> QED  BY <2>2, <2>3
<1>6. TasksOf(js \o ks) = a \o b
  BY <1>1, <1>3, <1>4, <1>5, SeqEqual
<1> QED  BY <1>6 DEF a, b

(* A replay of the history. *)
LEMMA TasksReplay ==
  ASSUME NEW h \in Seq(Inputs)
  PROVE  /\ TasksOf(Replays(h, "replay")) = Promise!Redone(h)
         /\ TasksOf(Replays(h, "strict")) = [k \in DOMAIN h |-> Promise!Own(h[k])]
<1>1. DOMAIN h = 1..Len(h)
  OBVIOUS
<1>2. /\ DOMAIN Replays(h, "replay") = DOMAIN h /\ DOMAIN Replays(h, "strict") = DOMAIN h
      /\ \A k \in DOMAIN h :
           /\ Replays(h, "replay")[k].code = h[k] /\ Replays(h, "replay")[k].as = "replay"
           /\ Replays(h, "strict")[k].code = h[k] /\ Replays(h, "strict")[k].as = "strict"
  BY <1>1 DEF Replays
<1> QED  BY <1>2 DEF TasksOf, Promise!Redone, Promise!Own

(* A new input. *)
LEMMA TasksFresh ==
  ASSUME NEW c \in Inputs
  PROVE  <<Fresh(c)>> \in Seq(Job) /\ TasksOf(<<Fresh(c)>>) = <<Promise!Own(c)>>
<1>1. Fresh(c) \in Job
  BY DEF Fresh, Job
<1>2. <<Fresh(c)>> \in Seq(Job) /\ DOMAIN <<Fresh(c)>> = {1} /\ <<Fresh(c)>>[1] = Fresh(c)
  <2> DEFINE f == Fresh(c)
  <2>1. f \in Job
    BY <1>1
  <2> HIDE DEF f
  <2>2. <<f>> \in Seq(Job) /\ DOMAIN <<f>> = {1} /\ <<f>>[1] = f
    BY <2>1
  <2> QED  BY <2>2 DEF f
<1>3. TasksOf(<<Fresh(c)>>) = [k \in {1} |-> Promise!Own(c)]
  <2> DEFINE f == Fresh(c)
  <2>1. f.code = c /\ f.as = "eval" /\ Promise!Own(c) = [code |-> c, own |-> TRUE]
    BY DEF Fresh, Promise!Own
  <2>2. DOMAIN <<f>> = {1} /\ <<f>>[1] = f
    BY <1>2
  <2> HIDE DEF f
  <2>3. [code |-> f.code, own |-> f.as # "replay"] = Promise!Own(c)
    BY <2>1
  <2>4. TasksOf(<<f>>) = [k \in {1} |-> [code |-> f.code, own |-> f.as # "replay"]]
    BY <2>2 DEF TasksOf
  <2> QED  BY <2>3, <2>4 DEF f
<1>4. <<Promise!Own(c)>> = [k \in {1} |-> Promise!Own(c)]
  <2> DEFINE o == Promise!Own(c)
  <2> HIDE DEF o
  <2>1. <<o>> = [k \in {1} |-> o]
    OBVIOUS
  <2> QED  BY <2>1 DEF o
<1> QED  BY <1>2, <1>3, <1>4
--------------------------------------------------------------------------------
(* The steps of eval().                                                     *)

(* What is known of the job at the head of the queue. *)
LEMMA FirstTask ==
  ASSUME Environment, TypeOK, pending # <<>>
  PROVE  /\ job \in Job /\ job.code \in Inputs /\ Tail(pending) \in Seq(Job)
         /\ tasks # <<>> /\ Head(tasks).code = job.code /\ Head(tasks).own = (job.as # "replay")
         /\ Tail(tasks) = TasksOf(Tail(pending)) /\ tasks = TasksOf(pending)
<1>1. pending \in Seq(Job) /\ tasks = TasksOf(pending)
  BY DEF TypeOK, tasks, TasksOf
<1>2. job \in Job /\ job.code \in Inputs /\ Tail(pending) \in Seq(Job)
  BY <1>1, JobType DEF Environment
<1>3. /\ TasksOf(pending) # <<>>
      /\ Head(TasksOf(pending)) = [code |-> job.code, own |-> job.as # "replay"]
      /\ Tail(TasksOf(pending)) = TasksOf(Tail(pending))
  BY <1>1, TasksHead DEF job
<1> QED  BY <1>1, <1>2, <1>3

(* A queue that is replaced. *)
LEMMA NextTasks ==
  ASSUME NEW js, pending' = js PROVE tasks' = TasksOf(js)
  BY DEF tasks, TasksOf

(* A job that is not kept: the loop goes on, or the command is over. *)
LEMMA ReturnMaps ==
  ASSUME Environment, TypeOK, pending # <<>>, NEW r \in BOOLEAN, Return(r),
         UNCHANGED <<history, version>>
  PROVE  Promise!Step
<1>1. CASE job.as = "strict" /\ ~r
  <2>1. tasks' = <<>> /\ ret' = FALSE /\ Head(tasks).own
    BY <1>1, FirstTask, NextTasks, NoTasks DEF Return
  <2>2. Promise!GiveUp
    BY <2>1, FirstTask DEF Promise!GiveUp, Promise!Busy
  <2> QED  BY <2>2 DEF Promise!Step
<1>2. CASE ~(job.as = "strict" /\ ~r)
  <2>1. tasks' = Tail(tasks)
    BY <1>2, FirstTask, NextTasks DEF Return
  <2>2. ret' = IF Head(tasks).own THEN r ELSE ret
    BY FirstTask DEF Return
  <2>3. Promise!Skip(r)
    BY <2>1, <2>2, FirstTask DEF Promise!Skip, Promise!Busy, Promise!Answers
  <2> QED  BY <2>3 DEF Promise!Step
<1> QED  BY <1>1, <1>2

(* A job that is kept. *)
LEMMA PushMaps ==
  ASSUME Environment, TypeOK, pending # <<>>, Push(job.code), Return(TRUE), version' = version
  PROVE  Promise!Step
<1>1. tasks' = Tail(tasks)
  BY FirstTask, NextTasks DEF Return
<1>2. ret' = IF Head(tasks).own THEN TRUE ELSE ret
  BY FirstTask DEF Return
<1>3. history' = Append(history, Head(tasks).code)
  BY FirstTask DEF Push
<1>4. Promise!Keep
  BY <1>1, <1>2, <1>3, FirstTask DEF Promise!Keep, Promise!Busy, Promise!Answers
<1> QED  BY <1>4 DEF Promise!Step

(* The rest of a failed evaluation. *)
LEMMA FailMaps ==
  ASSUME Environment, TypeOK, pending # <<>>, NEW why, NEW ps, Fail(why, ps)
  PROVE  Promise!Step
<1>1. version' = version
  BY DEF Fail, options
<1>2. \/ \E r \in BOOLEAN : Return(r) /\ history' = history
      \/ Push(job.code) /\ Return(TRUE)
  <2>1. CASE why = "redefinition" /\ job.code.kind = "decl" /\ variables[job.code.name] # None
    BY <2>1 DEF Fail, log
  <2>2. CASE ~(why = "redefinition" /\ job.code.kind = "decl" /\ variables[job.code.name] # None)
    BY Zenon, <2>2 DEF Fail, log
  <2> QED  BY <2>1, <2>2
<1>3. ASSUME NEW r \in BOOLEAN, Return(r), history' = history PROVE Promise!Step
  BY <1>1, <1>3, ReturnMaps
<1> QED  BY <1>1, <1>2, <1>3, PushMaps

(* An engine for another standard, or none: nothing of the history is kept. *)
LEMMA EnsureMaps ==
  ASSUME Books, NEW v, NEW ok, EnsureVersion(v, ok)
  PROVE  history' = <<>> /\ version' = v
<1>1. version' = v /\ IF initialized THEN DropLog ELSE UNCHANGED log
  BY DEF EnsureVersion, Boot
<1>2. ~initialized => history = <<>>
  BY DEF Books, EngineBehindHistory
<1> QED  BY <1>1, <1>2 DEF DropLog, log

(* A newer standard, with the job that asked for it still to be done. *)
LEMMA UpgradeMaps ==
  ASSUME Environment, Books, pending # <<>>, NEW v \in Versions, v > version,
         NEW ok \in InitOutcomes, EnsureVersion(v, ok),
         NEW js \in Seq(Job), TasksOf(js) = tasks, UNCHANGED ret,
         pending' = UpgradeReplays \o js
  PROVE  Promise!Step
<1>1. history' = <<>> /\ version' = v
  BY EnsureMaps
<1>2. history \in Seq(Inputs)
  BY DEF Books, TypeOK
<1>3. CASE initialized
  <2>1. Replays(history, "replay") \in Seq(Job)
    BY <1>2, ReplaysType
  <2>2. pending' = Replays(history, "replay") \o js
    BY <1>3 DEF UpgradeReplays
  <2>3. tasks' = Promise!Redone(history) \o tasks
    BY <1>2, <2>1, <2>2, NextTasks, TasksConcat, TasksReplay
  <2>4. Promise!Redo(v)
    BY <1>1, <2>3, FirstTask DEF Books, Promise!Redo, Promise!Busy
  <2> QED  BY <2>4 DEF Promise!Step, Versions
<1>4. CASE ~initialized
  <2>1. pending' = <<>> \o js
    BY <1>4 DEF UpgradeReplays
  <2>2. pending' = js
    BY <2>1, ConcatEmptySeq
  <2>3. tasks' = tasks
    BY <2>2, NextTasks
  <2>4. Promise!Lose(v)
    BY <1>1, <2>3, FirstTask DEF Books, Promise!Lose, Promise!Busy
  <2> QED  BY <2>4 DEF Promise!Step, Versions
<1> QED  BY <1>3, <1>4

(* A newer standard, and no engine for it: the job has failed. *)
LEMMA LostMaps ==
  ASSUME Environment, Books, pending # <<>>, NEW v \in Versions, v > version,
         NEW ok, EnsureVersion(v, ok), Return(FALSE)
  PROVE  Promise!Step
<1>0. TypeOK
  BY DEF Books
<1>1. history' = <<>> /\ version' = v
  BY EnsureMaps
<1>2. CASE job.as = "strict"
  <2>1. tasks' = <<>> /\ ret' = FALSE /\ Head(tasks).own
    BY <1>0, <1>2, FirstTask, NextTasks, NoTasks DEF Return
  <2>2. Promise!Lose(v)
    BY <1>0, <1>1, <2>1, FirstTask DEF Promise!Lose, Promise!Busy
  <2> QED  BY <2>2 DEF Promise!Step, Versions
<1>3. CASE job.as # "strict"
  <2>1. tasks' = Tail(tasks) /\ ret' = IF Head(tasks).own THEN FALSE ELSE ret
    BY <1>0, <1>3, FirstTask, NextTasks DEF Return
  <2>2. Promise!Lose(v)
    BY <1>0, <1>1, <2>1, FirstTask DEF Promise!Lose, Promise!Busy, Promise!Answers
  <2> QED  BY <2>2 DEF Promise!Step, Versions
<1> QED  BY <1>2, <1>3

(* The job stays at the head of the queue while it is tried again. *)
LEMMA AgainIsSameTask ==
  ASSUME Environment, TypeOK, pending # <<>>, NEW w \in Failures
  PROVE  LET js == <<[job EXCEPT !.why = w]>> \o Tail(pending)
         IN  js \in Seq(Job) /\ TasksOf(js) = tasks
<1> DEFINE a == [job EXCEPT !.why = w]
           js == <<a>> \o Tail(pending)
<1>1. a \in Job /\ a.code = job.code /\ a.as = job.as
  BY FirstTask DEF Job
<1> HIDE DEF a
<1>2. Tail(pending) \in Seq(Job) /\ <<a>> \in Seq(Job) /\ Len(<<a>>) = 1 /\ <<a>>[1] = a
  BY <1>1, FirstTask
<1>3. /\ js \in Seq(Job) /\ Len(js) = 1 + Len(Tail(pending))
      /\ \A k \in 1..(1 + Len(Tail(pending))) :
           js[k] = IF k <= 1 THEN a ELSE Tail(pending)[k - 1]
  <2> DEFINE s == <<a>>  t == Tail(pending)
  <2>1. s \in Seq(Job) /\ t \in Seq(Job) /\ Len(s) = 1 /\ s[1] = a
    BY <1>2
  <2>2. js = s \o t
    OBVIOUS
  <2> HIDE DEF s, t, js
  <2>3. /\ s \o t \in Seq(Job) /\ Len(s \o t) = Len(s) + Len(t)
        /\ \A k \in 1..(Len(s) + Len(t)) :
             (s \o t)[k] = IF k <= Len(s) THEN s[k] ELSE t[k - Len(s)]
    BY <2>1, ConcatProperties
  <2>4. \A k \in 1..(1 + Len(t)) : k <= 1 => k = 1
    BY <2>1
  <2>5. /\ js \in Seq(Job) /\ Len(js) = 1 + Len(t)
        /\ \A k \in 1..(1 + Len(t)) : js[k] = IF k <= 1 THEN a ELSE t[k - 1]
    BY <2>1, <2>2, <2>3, <2>4
  <2> QED  BY <2>5 DEF t
<1>4. /\ pending \in Seq(Job) /\ Len(pending) = 1 + Len(Tail(pending)) /\ Len(pending) \in Nat
      /\ pending[1] = job /\ \A k \in 1..Len(Tail(pending)) : Tail(pending)[k] = pending[k + 1]
  BY HeadTailProperties, EmptySeq DEF TypeOK, job
<1> HIDE DEF js
<1>5. \A k \in 1..Len(pending) : js[k].code = pending[k].code /\ js[k].as = pending[k].as
  <2> SUFFICES ASSUME NEW k \in 1..Len(pending)
               PROVE  js[k].code = pending[k].code /\ js[k].as = pending[k].as
    OBVIOUS
  <2>1. CASE k = 1
    BY <1>1, <1>3, <1>4, <2>1
  <2>2. CASE k # 1
    <3>1. k - 1 \in 1..Len(Tail(pending)) /\ ~(k <= 1) /\ k \in 1..(1 + Len(Tail(pending)))
      BY <1>4, <2>2
    <3>2. js[k] = Tail(pending)[k - 1]
      BY <1>3, <3>1
    <3>3. Tail(pending)[k - 1] = pending[(k - 1) + 1]
      BY <1>4, <3>1
    <3>4. (k - 1) + 1 = k
      BY <3>1
    <3> QED  BY <3>2, <3>3, <3>4
  <2> QED  BY <2>1, <2>2
<1>6. DOMAIN js = 1..Len(pending) /\ DOMAIN pending = 1..Len(pending)
  BY <1>3, <1>4
<1>7. TasksOf(js) = TasksOf(pending)
  BY <1>5, <1>6 DEF TasksOf
<1> QED  BY <1>3, <1>7, FirstTask DEF js, a

(* eval(), job by job: the standard headers are nothing the callers see. *)
LEMMA EvalMaps ==
  Environment /\ Books /\ EvalStep => Promise!Step \/ UNCHANGED <<history, tasks, ret, version>>
<1> SUFFICES ASSUME Environment, Books, EvalStep
             PROVE  Promise!Step \/ UNCHANGED <<history, tasks, ret, version>>
  OBVIOUS
<1>0. TypeOK /\ pending # <<>>
  BY DEF Books, EvalStep, DetectedUpgrade, ProactiveStdLib, Decide, Evaluate,
         EvaluateOtherSpelling, EvaluationFails, UpgradeOnError, RetryAfterUpgrade, Running, Ready
<1>1. CASE DetectedUpgrade
  <2>1. PICK ok \in InitOutcomes :
          /\ EnsureVersion(job.code.detects, ok)
          /\ IF ok THEN pending' = UpgradeReplays \o pending /\ ret' = ret
                   ELSE Return(FALSE)
    BY <1>1 DEF DetectedUpgrade
  <2>2. job.code.detects > version /\ job.code.detects \in Versions
    BY <1>0, <1>1, JobType DEF DetectedUpgrade, NeedsUpgrade, InputType, TypeOK, Environment
  <2>3. CASE ok
    <3>1. pending \in Seq(Job) /\ TasksOf(pending) = tasks
      BY <1>0, FirstTask DEF TypeOK
    <3>2. pending' = UpgradeReplays \o pending /\ ret' = ret
      BY <2>1, <2>3
    <3> QED  BY <1>0, <2>1, <2>2, <3>1, <3>2, UpgradeMaps
  <2>4. CASE ~ok
    BY <1>0, <2>1, <2>2, <2>4, LostMaps
  <2> QED  BY <2>3, <2>4
<1>2. CASE ProactiveStdLib
  BY <1>2 DEF ProactiveStdLib, log, options, tasks
<1>3. CASE Decide
  <2>1. history' = history /\ version' = version /\ \E r \in BOOLEAN : Return(r)
    BY <1>3 DEF Decide, log, options
  <2> QED  BY <1>0, <2>1, ReturnMaps
<1>4. CASE Evaluate
  BY <1>0, <1>4, PushMaps DEF Evaluate, options
<1>5. CASE EvaluateOtherSpelling
  BY <1>0, <1>5, PushMaps DEF EvaluateOtherSpelling, options
<1>6. CASE EvaluationFails
  BY <1>0, <1>6, FailMaps DEF EvaluationFails
<1>7. CASE UpgradeOnError
  <2> DEFINE js == <<[job EXCEPT !.why = First.outcome]>> \o Tail(pending)
             again == UpgradeReplays \o <<[job EXCEPT !.why = First.outcome]>> \o Tail(pending)
  <2>1. PICK ok \in InitOutcomes :
          /\ EnsureVersion(job.code.hints, ok)
          /\ (pending' = again /\ ret' = ret) \/ Crash \/ Return(FALSE)
    BY <1>7, Zenon DEF UpgradeOnError
  <2>2. job.code.hints > version /\ Running /\ Second.outcome # "ok"
    BY <1>7 DEF UpgradeOnError
  <2>3. job.code.hints \in Versions
    BY <1>0, JobType DEF InputType, TypeOK, Environment
  <2>4. First.outcome \in Failures
    BY <1>0, <2>2, AttemptType DEF Second, Environment
  <2>5. js \in Seq(Job) /\ TasksOf(js) = tasks
    BY <1>0, <2>4, AgainIsSameTask
  <2>6. again = UpgradeReplays \o js
    <3> DEFINE a == <<[job EXCEPT !.why = First.outcome]>>  t == Tail(pending)
    <3>1. a \in Seq(Job) /\ t \in Seq(Job)
      <4>1. [job EXCEPT !.why = First.outcome] \in Job
        BY <1>0, <2>4, FirstTask DEF Job
      <4> DEFINE b == [job EXCEPT !.why = First.outcome]
      <4> HIDE DEF b
      <4>2. <<b>> \in Seq(Job)
        BY <4>1 DEF b
      <4> QED  BY <1>0, <4>2, FirstTask DEF b
    <3>2. UpgradeReplays \in Seq(Job)
      BY <1>0, ReplaysType, EmptySeq DEF TypeOK, UpgradeReplays
    <3>3. again = UpgradeReplays \o a \o t /\ js = a \o t
      OBVIOUS
    <3> HIDE DEF again, js, a, t
    <3> QED  BY <3>1, <3>2, <3>3, ConcatAssociative
  <2> HIDE DEF js, again
  <2>7. CASE pending' = again /\ ret' = ret
    BY <1>0, <2>1, <2>2, <2>3, <2>5, <2>6, <2>7, UpgradeMaps
  <2>8. CASE Crash
    <3>1. history' = <<>> /\ version' = job.code.hints
      BY <2>1, EnsureMaps
    <3>2. tasks' = <<>> /\ ret' = ret
      BY <2>8, NextTasks, NoTasks, EmptySeq DEF Crash
    <3>3. Promise!Lose(job.code.hints)
      BY <1>0, <2>2, <3>1, <3>2, FirstTask DEF Promise!Lose, Promise!Busy
    <3> QED  BY <2>3, <3>3 DEF Promise!Step, Versions
  <2>9. CASE Return(FALSE)
    BY <1>0, <2>1, <2>2, <2>3, <2>9, LostMaps
  <2> QED  BY <2>1, <2>7, <2>8, <2>9
<1>8. CASE RetryAfterUpgrade
  <2>1. CASE initialized /\ First.outcome = "ok"
    BY <1>0, <1>8, <2>1, PushMaps DEF RetryAfterUpgrade, options
  <2>2. CASE initialized /\ First.outcome # "ok"
    BY <1>0, <1>8, <2>2, FailMaps DEF RetryAfterUpgrade
  <2>3. CASE ~initialized
    <3>1. history = <<>> /\ UNCHANGED <<history, version, ret>> /\ pending' = <<>>
      BY <1>8, <2>3 DEF RetryAfterUpgrade, Crash, log, options, Books, EngineBehindHistory
    <3>2. tasks' = <<>>
      BY <3>1, NextTasks, NoTasks, EmptySeq
    <3>3. Promise!Die
      BY <1>0, <3>1, <3>2, FirstTask DEF Promise!Die, Promise!Busy
    <3> QED  BY <3>3 DEF Promise!Step
  <2> QED  BY <2>1, <2>2, <2>3
<1> QED
  BY <1>1, <1>2, <1>3, <1>4, <1>5, <1>6, <1>7, <1>8 DEF EvalStep
--------------------------------------------------------------------------------
(* The commands.                                                            *)

(* Between commands there is nothing to do. *)
LEMMA IdleTasks ==
  ASSUME pending = <<>> PROVE tasks = <<>> /\ ~Promise!Busy
  BY NoTasks DEF tasks, TasksOf, Promise!Busy

(* A queue that stays as it is. *)
LEMMA SameTasks ==
  ASSUME pending' = pending PROVE tasks' = tasks
  BY DEF tasks

(* A command that only answers. *)
LEMMA RefuseMaps ==
  ASSUME pending = <<>>, NEW r, Refuse(r) PROVE Promise!Report(r)
  BY IdleTasks, SameTasks DEF Refuse, log, options, Promise!Report

(* A rebuild with jobs, or with the jobs that do not depend on it. *)
LEMMA RebuildMaps ==
  ASSUME Environment, TypeOK, pending = <<>>, NEW ok \in BOOLEAN,
         NEW incs, NEW lps, NEW libs, Reboot(version, incs, lps, libs, ok), ret' = ok,
         NEW js \in Seq(Job), NEW ks \in Seq(Job), pending' = (IF ok THEN js ELSE <<>>) \o ks
  PROVE  Promise!Rebuild(TasksOf(js), TasksOf(ks))
<1>1. history' = <<>> /\ version' = version
  BY DEF Reboot, Boot, DropLog
<1>2. CASE ok
  <2>1. tasks' = TasksOf(js) \o TasksOf(ks)
    BY <1>2, NextTasks, TasksConcat
  <2> QED  BY <1>1, <1>2, <2>1, IdleTasks DEF Promise!Rebuild
<1>3. CASE ~ok
  <2>1. pending' = ks
    BY <1>3, ConcatEmptySeq
  <2>2. tasks' = TasksOf(ks)
    BY <2>1, NextTasks
  <2> QED  BY <1>1, <1>3, <2>2, IdleTasks DEF Promise!Rebuild
<1> QED  BY <1>2, <1>3

(* eval, and evalAuto without an engine. *)
LEMMA EvalCommandMaps == Environment /\ Books /\ EvalCommand => Promise!Command
<1> SUFFICES ASSUME Environment, Books, NEW c \in Inputs, Eval(c) \/ EvalAuto(c)
             PROVE  Promise!Enter(c) \/ Promise!EnterAfresh(c)
  BY DEF EvalCommand, Promise!Command
<1>1. pending = <<>> /\ tasks = <<>> /\ ~Promise!Busy
  BY IdleTasks DEF Eval, EvalAuto, Command
<1>2. CASE Eval(c)
  <2>1. tasks' = <<Promise!Own(c)>>
    BY <1>2, NextTasks, TasksFresh DEF Eval
  <2> QED  BY <1>1, <1>2, <2>1 DEF Eval, log, options, Promise!Enter
<1>3. CASE EvalAuto(c)
  <2>1. PICK ok \in InitOutcomes :
          /\ EnsureVersion(c.detects, ok)
          /\ pending' = IF ok THEN <<Fresh(c)>> ELSE <<>>
          /\ ret' = IF ok THEN ret ELSE FALSE
    BY <1>3 DEF EvalAuto
  <2>2. c.detects \in Versions
    BY DEF Environment, InputsAssumption, InputType
  <2>3. history = <<>> /\ history' = <<>> /\ version' = c.detects
    BY <1>3, <2>1 DEF EvalAuto, EnsureVersion, Boot, log, Books, EngineBehindHistory
  <2>4. \/ tasks' = <<Promise!Own(c)>> /\ ret' = ret
        \/ tasks' = <<>> /\ ret' = FALSE
    <3>1. CASE ok
      BY <2>1, <3>1, NextTasks, TasksFresh
    <3>2. CASE ~ok
      BY <2>1, <3>2, NextTasks, NoTasks
    <3> QED  BY <3>1, <3>2
  <2> QED  BY <1>1, <2>2, <2>3, <2>4 DEF Promise!EnterAfresh
<1> QED  BY <1>2, <1>3

(* The body of undo and stackPop. *)
LEMMA UndoMaps ==
  ASSUME Environment, TypeOK, pending = <<>>, NEW n \in Nat, UndoUnits(n)
  PROVE  \E m \in 0..Len(history) : Promise!Undo(m)
<1>1. Len(history) \in Nat
  BY LenProperties DEF TypeOK
<1>2. CASE initialized /\ CanUndo(n)
  <2> DEFINE m == IF n < Len(history) THEN n ELSE Len(history)
  <2>1. /\ history' = SubSeq(history, 1, Len(history) - m) /\ ret' = TRUE
        /\ version' = version /\ pending' = pending
    BY <1>2 DEF UndoUnits, DropLast, options
  <2>2. m \in 0..Len(history)
    BY <1>1
  <2> HIDE DEF m
  <2>3. Len(history) - m = IF m < Len(history) THEN Len(history) - m ELSE 0
    BY <1>1, <2>2
  <2>4. Promise!Undo(m)
    BY <2>1, <2>3, IdleTasks, SameTasks DEF Promise!Undo
  <2> QED  BY <2>2, <2>4
<1>3. CASE ~(initialized /\ CanUndo(n))
  <2>1. Promise!Undo(0)
    BY <1>3, RefuseMaps DEF UndoUnits, Promise!Undo
  <2> QED  BY <1>1, <2>1
<1> QED  BY <1>2, <1>3

(* The body of stackRemove, with what stackSet evaluates behind it. *)
LEMMA ForgetMaps ==
  ASSUME Environment, TypeOK, pending = <<>>, NEW n \in Names, NEW ks \in Seq(Job), Forget(n, ks)
  PROVE  Promise!Remove(TasksOf(ks))
<1>1. history \in Seq(Inputs) /\ tasks = <<>> /\ ~Promise!Busy
  BY IdleTasks DEF TypeOK
<1>2. CASE (variables[n] = None /\ tracker[n] = None) \/ Mentions(history, n) = {}
  <2>1. pending' = ks /\ ret' \in BOOLEAN /\ history' = history /\ version' = version
    BY <1>2 DEF Forget, log, options
  <2>2. tasks' = TasksOf(ks)
    BY <2>1, NextTasks
  <2> QED  BY <1>1, <2>1, <2>2 DEF Promise!Remove
<1>3. CASE ~(variables[n] = None /\ tracker[n] = None) /\ Mentions(history, n) # {}
  <2> DEFINE m == Last(Mentions(history, n))
             js == Replays(Without(history, m), "replay")
  <2>1. PICK ok \in InitOutcomes :
          /\ Reboot(version, includePaths, libraryPaths, libraries, ok)
          /\ pending' = (IF ok THEN js ELSE <<>>) \o ks
          /\ ret' = ok
    BY <1>3 DEF Forget
  <2>2. m \in DOMAIN history
    <3>1. /\ Mentions(history, n) \in SUBSET (1..Len(history))
          /\ Len(history) \in Nat /\ DOMAIN history = 1..Len(history)
      BY <1>1 DEF Mentions
    <3>2. m \in Mentions(history, n)
      BY <1>3, <3>1, LastIsMember
    <3> QED  BY <3>1, <3>2
  <2> HIDE DEF m
  <2>3. Without(history, m) \in Seq(Inputs)
    BY <1>1, <2>2, ShorterSequences
  <2>4. js \in Seq(Job) /\ TasksOf(js) = Promise!Redone(Without(history, m))
    BY <2>3, ReplaysType, TasksReplay
  <2> HIDE DEF js
  <2>5. ok \in BOOLEAN
    BY DEF Environment, EnvironmentAssumption
  <2>6. Promise!Rebuild(TasksOf(js), TasksOf(ks))
    BY <2>1, <2>4, <2>5, RebuildMaps
  <2>7. Without(history, m) = Promise!Without(history, m)
    BY DEF Without, Promise!Without
  <2>8. Promise!Rebuild(Promise!Redone(Promise!Without(history, m)), TasksOf(ks))
    BY <2>4, <2>6, <2>7
  <2> QED  BY <2>2, <2>8 DEF Promise!Remove
<1> QED  BY <1>2, <1>3

(* A rebuild that replays the whole history. *)
LEMMA WholeRebuildMaps ==
  ASSUME Environment, TypeOK, pending = <<>>, NEW incs, NEW lps, NEW js \in Seq(Job),
         Rebuild(incs, lps, js)
  PROVE  Promise!Rebuild(TasksOf(js), <<>>)
<1>1. PICK ok \in InitOutcomes :
        /\ Reboot(version, incs, lps, libraries, ok)
        /\ pending' = (IF ok THEN js ELSE <<>>) /\ ret' = ok
  BY DEF Rebuild
<1>2. ok \in BOOLEAN /\ <<>> \in Seq(Job)
  BY EmptySeq DEF Environment, EnvironmentAssumption
<1>3. pending' = (IF ok THEN js ELSE <<>>) \o <<>>
  BY <1>1, <1>2, ConcatEmptySeq
<1>4. Promise!Rebuild(TasksOf(js), TasksOf(<<>>))
  BY <1>1, <1>2, <1>3, RebuildMaps
<1> QED  BY <1>4, NoTasks

(* reset(), and the first case of stackClear. *)
LEMMA ClearMaps ==
  ASSUME pending = <<>>, pending' = pending, history' = <<>>, ret' \in BOOLEAN, version' = version
  PROVE  Promise!Clear
  BY IdleTasks, SameTasks DEF Promise!Clear

(* Undo, reset and the stack commands. *)
LEMMA StackMaps ==
  Environment /\ Books /\ StackCommand
    => Promise!Command \/ UNCHANGED <<history, tasks, ret, version>>
<1> SUFFICES ASSUME Environment, Books, StackCommand
             PROVE  Promise!Command \/ UNCHANGED <<history, tasks, ret, version>>
  OBVIOUS
<1>0. TypeOK /\ history \in Seq(Inputs) /\ Len(history) \in Nat /\ DOMAIN history = 1..Len(history)
  BY LenProperties DEF Books, TypeOK
<1>1. ASSUME NEW n \in Nat, UndoUnits(n), pending = <<>> PROVE Promise!Command
  BY <1>0, <1>1, UndoMaps DEF Promise!Command
<1>2. ASSUME NEW n \in 1..MaxUndo, Undo(n) PROVE Promise!Command
  BY <1>1, <1>2 DEF Undo, Command, Environment, BoundsAssumption
<1>3. ASSUME NEW n \in 0..MaxUndo, StackPop(n) PROVE Promise!Command
  <2>1. pending = <<>> /\ n \in Nat
    BY <1>3 DEF StackPop, Command, Environment, BoundsAssumption
  <2>2. CASE history = <<>>
    <3>1. Promise!Report(FALSE)
      BY <1>3, <2>1, <2>2, RefuseMaps DEF StackPop
    <3>2. 0 \in 0..Len(history)
      BY <1>0
    <3>3. Promise!Undo(0)
      BY <3>1 DEF Promise!Undo
    <3> QED  BY <3>2, <3>3 DEF Promise!Command
  <2>3. CASE history # <<>>
    <3> DEFINE asked == IF n = 0 THEN 1 ELSE n
               m == IF asked < Len(history) THEN asked ELSE Len(history)
    <3>1. UndoUnits(m) /\ m \in Nat
      BY <1>0, <1>3, <2>1, <2>3 DEF StackPop
    <3> HIDE DEF m
    <3> QED  BY <1>1, <2>1, <3>1
  <2> QED  BY <2>2, <2>3
<1>4. ASSUME NEW n \in Names, StackRemove(n) PROVE Promise!Command
  <2>1. <<>> \in Seq(Job) /\ pending = <<>> /\ Forget(n, <<>>)
    BY <1>4, EmptySeq DEF StackRemove, Command
  <2>2. Promise!Remove(<<>>)
    BY <1>0, <2>1, ForgetMaps, NoTasks
  <2> QED  BY <2>2 DEF Promise!Command
<1>5. ASSUME NEW n \in Names, NEW c \in Inputs, StackSet(n, c) PROVE Promise!Command
  <2>1. pending = <<>> /\ Forget(n, <<Fresh(c)>>)
    BY <1>5 DEF StackSet, Command
  <2>2. Promise!Remove(<<Promise!Own(c)>>)
    BY <1>0, <2>1, ForgetMaps, TasksFresh
  <2> QED  BY <2>2 DEF Promise!Command, Promise!Set
<1>6. ASSUME NEW i \in 1..MaxHistory, NEW j \in 1..MaxHistory, StackSwap(i, j)
      PROVE  Promise!Command
  <2>1. pending = <<>>
    BY <1>6 DEF StackSwap, Command
  <2>2. CASE i \notin DOMAIN history \/ j \notin DOMAIN history \/ i = j
    <3>1. Promise!Report(TRUE) \/ Promise!Report(FALSE)
      BY <1>6, <2>1, <2>2, RefuseMaps DEF StackSwap
    <3> QED  BY <3>1 DEF Promise!Command, Promise!Option
  <2>3. CASE i \in DOMAIN history /\ j \in DOMAIN history /\ i # j
    <3> DEFINE h == [history EXCEPT ![i] = history[j], ![j] = history[i]]
               js == Replays(h, "strict")
    <3>1. Rebuild(includePaths, libraryPaths, js)
      BY <1>6, <2>3 DEF StackSwap
    <3>2. h \in Seq(Inputs) /\ DOMAIN h = DOMAIN history
      BY <1>0, <2>3
    <3>3. h = Promise!Exchanged(history, i, j)
      BY DEF Promise!Exchanged
    <3> HIDE DEF h
    <3>4. js \in Seq(Job) /\ TasksOf(js) = [k \in DOMAIN h |-> Promise!Own(h[k])]
      BY <3>2, ReplaysType, TasksReplay
    <3> HIDE DEF js
    <3>5. Promise!Rebuild(TasksOf(js), <<>>)
      BY <1>0, <2>1, <3>1, <3>4, WholeRebuildMaps
    <3>6. TasksOf(js) = [k \in DOMAIN history |-> Promise!Own(Promise!Exchanged(history, i, j)[k])]
      BY <3>2, <3>3, <3>4
    <3>7. Promise!Swap(i, j)
      BY <2>3, <3>5, <3>6 DEF Promise!Swap
    <3> QED  BY <2>3, <3>7 DEF Promise!Command
  <2> QED  BY <2>2, <2>3
<1>7. ASSUME NEW ok \in InitOutcomes, ResetTo(ok), pending = <<>> PROVE Promise!Command
  <2>1. ok \in BOOLEAN
    BY DEF Environment, EnvironmentAssumption
  <2>2. history' = <<>> /\ ret' \in BOOLEAN /\ version' = version /\ pending' = pending
    BY <1>7, <2>1 DEF ResetTo, Reboot, Boot, DropLog
  <2> QED  BY <1>7, <2>2, ClearMaps DEF Promise!Command
<1>8. ASSUME StackClear PROVE Promise!Command \/ UNCHANGED <<history, tasks, ret, version>>
  <2>1. pending = <<>>
    BY <1>8 DEF StackClear, Command
  <2>2. CASE history = <<>> \/ (initialized /\ CanUndo(Len(history)))
    <3>1. history' = <<>> /\ ret' = TRUE /\ version' = version /\ pending' = pending
      BY <1>8, <2>2 DEF StackClear, DropLog, options
    <3> QED  BY <2>1, <3>1, ClearMaps DEF Promise!Command
  <2>3. CASE ~(history = <<>> \/ (initialized /\ CanUndo(Len(history)))) /\ initialized
    BY <1>7, <1>8, <2>1, <2>3 DEF StackClear
  <2>4. CASE ~(history = <<>> \/ (initialized /\ CanUndo(Len(history)))) /\ ~initialized
    BY <1>8, <2>4, SameTasks DEF StackClear, log, options
  <2> QED  BY <2>2, <2>3, <2>4
<1>9. CASE Reset
  BY <1>7, <1>9 DEF Reset, Command
<1> QED  BY <1>2, <1>3, <1>4, <1>5, <1>6, <1>8, <1>9 DEF StackCommand

(* Paths, libraries and the sandbox. *)
LEMMA OptionMaps ==
  Environment /\ Books /\ OptionCommand
    => Promise!Command \/ UNCHANGED <<history, tasks, ret, version>>
<1> SUFFICES ASSUME Environment, Books, OptionCommand
             PROVE  Promise!Command \/ UNCHANGED <<history, tasks, ret, version>>
  OBVIOUS
<1>0. TypeOK /\ history \in Seq(Inputs)
  BY DEF Books, TypeOK
<1>1. pending = <<>>
  BY DEF OptionCommand, AddIncludePath, AddLibraryPath, AddLibrary, LoadLibrary,
         SetSecurityConfig, Command
<1>2. ASSUME NEW r \in BOOLEAN, Promise!Report(r) PROVE Promise!Command
  BY <1>2 DEF Promise!Command, Promise!Option
<1>3. ASSUME NEW incs, NEW lps, Rebuild(incs, lps, Replays(history, "replay"))
      PROVE  Promise!Command
  <2>1. Promise!Rebuild(Promise!Redone(history), <<>>)
    BY <1>0, <1>1, <1>3, ReplaysType, TasksReplay, WholeRebuildMaps
  <2> QED  BY <2>1 DEF Promise!Command, Promise!Option
<1>4. ASSUME NEW p \in Paths, AddIncludePath(p) \/ AddLibraryPath(p) PROVE Promise!Command
  <2>1. CASE Refuse(TRUE)
    BY <1>1, <1>2, <2>1, RefuseMaps
  <2>2. CASE ~Refuse(TRUE)
    BY <1>3, <1>4, <2>2 DEF AddIncludePath, AddLibraryPath
  <2> QED  BY <2>1, <2>2
<1>5. ASSUME NEW l \in Libs, AddLibrary(l) \/ LoadLibrary(l) PROVE Promise!Command
  <2>1. /\ ret' \in BOOLEAN /\ history' = history /\ version' = version /\ pending' = pending
    BY <1>0, <1>5 DEF AddLibrary, LoadLibrary, log, options, TypeOK
  <2>2. Promise!Report(ret')
    BY <1>1, <2>1, IdleTasks, SameTasks DEF Promise!Report
  <2> QED  BY <1>2, <2>1, <2>2
<1>6. ASSUME NEW b \in BOOLEAN, SetSecurityConfig(b)
      PROVE  UNCHANGED <<history, tasks, ret, version>>
  BY <1>6, SameTasks DEF SetSecurityConfig, log
<1> QED  BY <1>4, <1>5, <1>6 DEF OptionCommand
--------------------------------------------------------------------------------
(* Every behaviour of the class is, step by step, one of the notebook: it     *)
(* starts empty, and each of its steps is a step of Notebook or changes       *)
(* nothing its callers can see.                                               *)
THEOREM InterpreterIsNotebook ==
  Spec => Promise!Init /\ [][Promise!Next]_(Promise!vars)
<1>1. Init => Promise!Init
  <2> SUFFICES ASSUME Init PROVE Promise!Init
    OBVIOUS
  <2>1. tasks = <<>> /\ version \in Versions
    BY IdleTasks, EnvironmentHolds DEF Init, Environment, EnvironmentAssumption
  <2> QED  BY <2>1 DEF Init, Promise!Init
<1>2. Environment /\ Books /\ [Next]_vars => [Promise!Next]_(Promise!vars)
  <2> SUFFICES ASSUME Environment, Books, [Next]_vars
               PROVE  Promise!Next \/ UNCHANGED <<history, tasks, ret, version>>
    BY DEF Promise!vars
  <2>1. CASE EvalStep
    BY <2>1, EvalMaps DEF Promise!Next
  <2>2. CASE EvalCommand
    BY <2>2, EvalCommandMaps DEF Promise!Next
  <2>3. CASE StackCommand
    BY <2>3, StackMaps DEF Promise!Next
  <2>4. CASE OptionCommand
    BY <2>4, OptionMaps DEF Promise!Next
  <2>5. CASE UNCHANGED vars
    BY <2>5, SameTasks DEF vars, log, options
  <2> QED  BY <2>1, <2>2, <2>3, <2>4, <2>5 DEF Next
<1> QED  BY <1>1, <1>2, AlwaysBooks, EnvironmentHolds, PTL DEF Spec
================================================================================
