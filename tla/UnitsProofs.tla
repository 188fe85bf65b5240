------------------------------- MODULE UnitsProofs -------------------------------
(***************************************************************************)
(* Proofs about Interpreter: the engine's units, the history and what is   *)
(* replayed of it.  Each theorem names the inputs it speaks of: clang      *)
(* counts units and the class counts entries, and it is the inputs that    *)
(* say by how much the two differ.                                         *)
(***************************************************************************)
EXTENDS InterpreterProofs
--------------------------------------------------------------------------------
(* The units of the engine: that the inputs among them are the history.       *)

(* The program as main() starts it, where building an engine does not fail:   *)
(* it stays at the newest standard.                                           *)
Steady == InitialVersions = {23} /\ InitOutcomes = {TRUE}
AtTop == Steady => version = 23 /\ initialized

(* No input whose errors can ask for a newer standard can fail to link: the   *)
(* error that would be reported after the rebuild is none of symbols.         *)
HintsAreNoSymbols == \A c \in Inputs : c.hints > 17 => c.lib = None /\ c.uses = {}
(* What a standard accepts the newer ones accept. *)
NewerAccepts ==
  \A c \in Inputs : \A v \in c.valid, w \in Versions : v <= w => w \in c.valid

(* What the two say of the engine's standard. *)
HintsPlain == \A c \in Inputs : c.hints > version => c.lib = None /\ c.uses = {}
StaysValid ==
  \A c \in Inputs, w \in Versions : version \in c.valid /\ version <= w => w \in c.valid

(* At the newest standard both hold of every input. *)
LEMMA HintsAndStandards ==
  ASSUME Environment, TypeOK, AtTop
  PROVE  /\ Steady \/ HintsAreNoSymbols => HintsPlain
         /\ Steady \/ NewerAccepts => StaysValid
<1>1. /\ version \in Versions
      /\ \A c \in Inputs : c.hints \in Versions /\ c.valid \subseteq Versions
  BY DEF TypeOK, Environment, InputsAssumption, InputType
<1>2. CASE Steady
  <2>1. version = 23
    BY <1>2 DEF AtTop
  <2>2. HintsPlain /\ StaysValid
    BY <1>1, <2>1 DEF HintsPlain, StaysValid, Versions
  <2>. QED BY <2>2
<1>3. CASE ~Steady
  <2>1. HintsAreNoSymbols => HintsPlain
    BY <1>1 DEF HintsAreNoSymbols, HintsPlain, Versions
  <2>2. NewerAccepts => StaysValid
    BY <1>1 DEF NewerAccepts, StaysValid
  <2>. QED BY <1>3, <2>1, <2>2
<1>. QED BY <1>2, <1>3

(* A program that started there stays there. *)
LEMMA TopStays ==
  /\ Init => AtTop
  /\ Environment /\ Books /\ AtTop /\ [Next]_vars => AtTop'
<1>1. Init => AtTop
  BY DEF Init, AtTop, Steady
<1>2. ASSUME Environment, Books, AtTop, [Next]_vars, Steady PROVE (version = 23 /\ initialized)'
  <2>1. version = 23 /\ initialized /\ \A ok \in InitOutcomes : ok = TRUE
    BY <1>2 DEF AtTop, Steady
  <2>2. version' = 23
    <3>1. version' \in Versions /\ version' >= version
      BY <1>2, <2>1, VersionStep, TypeNext DEF Books, TypeOK
    <3>. QED BY <2>1, <3>1 DEF Versions
  <2>3. ASSUME NEW v, NEW incs, NEW lps, NEW libs, NEW ok \in InitOutcomes,
               Boot(v, incs, lps, libs, ok)
        PROVE  initialized'
    BY <2>1, <2>3 DEF Boot
  <2>4. ASSUME EvalStep PROVE initialized'
    BY <2>1, <2>3, <2>4 DEF EvalStep, DetectedUpgrade, UpgradeOnError, EnsureVersion,
       ProactiveStdLib, Decide, Evaluate, EvaluateOtherSpelling, EvaluationFails, RetryAfterUpgrade, Fail, engine
  <2>5. ASSUME EvalCommand PROVE initialized'
    BY <2>1, <2>3, <2>5 DEF EvalCommand, Eval, EvalAuto, EnsureVersion, engine
  <2>6. ASSUME StackCommand PROVE initialized'
    BY <2>1, <2>3, <2>6 DEF StackCommand, Undo, UndoUnits, StackPop, StackRemove, StackSet, Forget,
       StackSwap, Rebuild, StackClear, Reset, ResetTo, Refuse, Reboot, engine
  <2>7. ASSUME OptionCommand PROVE initialized'
    BY <2>1, <2>3, <2>7 DEF OptionCommand, AddIncludePath, AddLibraryPath, AddLibrary, LoadLibrary,
       SetSecurityConfig, Rebuild, Refuse, Reboot, engine
  <2>8. ASSUME UNCHANGED vars PROVE initialized'
    BY <2>1, <2>8 DEF vars, engine
  <2>9. initialized'
    BY <1>2, <2>4, <2>5, <2>6, <2>7, <2>8 DEF Next
  <2>. QED BY <2>2, <2>9
<1>. QED BY <1>1, <1>2 DEF AtTop, Steady

(* A queue in which what is tried again after a rebuild cannot fail to link. *)
Plain(j) == j.why # "fresh" => j.why # "symbols" /\ j.code.lib = None /\ j.code.uses = {}
AllPlain(js) == \A k \in DOMAIN js : Plain(js[k])

(* What is queued is plain. *)
LEMMA PlainFacts ==
  /\ AllPlain(<<>>) /\ \A j : Plain(j) => AllPlain(<<j>>)
  /\ \A c : Plain(Fresh(c))
  /\ \A js \in Seq(Job) : js # <<>> /\ AllPlain(js) => Plain(Head(js)) /\ AllPlain(Tail(js))
  /\ \A js, ks \in Seq(Job) : AllPlain(js) /\ AllPlain(ks) => AllPlain(js \o ks)
  /\ \A h \in Seq(Inputs) : \A as : AllPlain(Replays(h, as))
<1>1. AllPlain(<<>>) /\ \A j : Plain(j) => AllPlain(<<j>>)
  BY DEF AllPlain
<1>2. ASSUME NEW js \in Seq(Job), js # <<>>, AllPlain(js)
      PROVE  Plain(Head(js)) /\ AllPlain(Tail(js))
  <2>1. /\ 1 \in DOMAIN js /\ Head(js) = js[1] /\ DOMAIN js = 1..Len(js) /\ Len(js) \in Nat
        /\ DOMAIN Tail(js) = 1..(Len(js) - 1)
        /\ \A k \in 1..(Len(js) - 1) : Tail(js)[k] = js[k + 1]
    BY <1>2, HeadTailProperties
  <2>. QED BY <1>2, <2>1 DEF AllPlain
<1>3. ASSUME NEW js \in Seq(Job), NEW ks \in Seq(Job), AllPlain(js), AllPlain(ks)
      PROVE  AllPlain(js \o ks)
  <2>1. \A k \in DOMAIN (js \o ks) :
          (js \o ks)[k] = IF k <= Len(js) THEN js[k] ELSE ks[k - Len(js)]
    OBVIOUS
  <2>2. DOMAIN (js \o ks) = 1..(Len(js) + Len(ks))
    OBVIOUS
  <2>. QED BY <1>3, <2>1, <2>2 DEF AllPlain
<1>4. \A h \in Seq(Inputs) : \A as : AllPlain(Replays(h, as))
  BY DEF AllPlain, Plain, Replays
<1>5. \A c : Plain(Fresh(c))
  BY DEF Plain, Fresh
<1>. QED BY <1>1, <1>2, <1>3, <1>4, <1>5

(* A job that returns takes itself off the queue. *)
LEMMA PlainReturn ==
  ASSUME TypeOK, pending # <<>>, AllPlain(pending), NEW r, Return(r)
  PROVE  AllPlain(pending')
BY PlainFacts DEF Return, TypeOK

(* So does one that fails. *)
LEMMA PlainFail ==
  ASSUME TypeOK, pending # <<>>, AllPlain(pending), NEW why, NEW ps, Fail(why, ps)
  PROVE  AllPlain(pending')
<1>1. \E r : Return(r)
  BY DEF Fail
<1>. QED BY <1>1, PlainReturn

(* An input that needs no symbol does not fail for one. *)
LEMMA NoSymbols ==
  ASSUME NEW c, c.lib = None, c.uses = {}, NEW ps, NEW w
  PROVE  Outcome(c, ps, w) # "symbols"
BY DEF Outcome

(* No job that fails to link is tried again after a rebuild.                  *)
LEMMA PlainEval ==
  ASSUME Environment, TypeOK, HintsPlain, AllPlain(pending), EvalStep
  PROVE  AllPlain(pending')
<1>0. pending # <<>> /\ pending \in Seq(Job) /\ history \in Seq(Inputs)
  BY DEF TypeOK, EvalStep, DetectedUpgrade, ProactiveStdLib, Decide, Ready, Evaluate, Running,
         EvaluateOtherSpelling, EvaluationFails, UpgradeOnError, RetryAfterUpgrade
<1>1. AllPlain(Tail(pending)) /\ Tail(pending) \in Seq(Job) /\ job \in Job
      /\ job.code \in Inputs /\ job.code \in InputType
  BY <1>0, PlainFacts, JobType DEF Environment
<1>2. AllPlain(UpgradeReplays) /\ UpgradeReplays \in Seq(Job)
  BY <1>0, PlainFacts, ReplaysType DEF UpgradeReplays
<1>4. CASE DetectedUpgrade
  <2>1. AllPlain(UpgradeReplays \o pending)
    BY <1>0, <1>2, PlainFacts
  <2>. QED BY <1>0, <1>4, <2>1, PlainReturn DEF DetectedUpgrade
<1>5. CASE ProactiveStdLib
  BY <1>5 DEF ProactiveStdLib
<1>6. CASE Decide
  BY <1>0, <1>6, PlainReturn DEF Decide
<1>7. CASE Evaluate \/ EvaluateOtherSpelling
  BY <1>0, <1>7, PlainReturn DEF Evaluate, EvaluateOtherSpelling
<1>8. CASE EvaluationFails
  BY <1>0, <1>8, PlainFail DEF EvaluationFails
<1>9. CASE UpgradeOnError
  <2> DEFINE again == [job EXCEPT !.why = First.outcome]
  <2>2. job.code.lib = None /\ job.code.uses = {}
    BY <1>1, <1>9 DEF UpgradeOnError, HintsPlain
  <2>3. First.outcome # "symbols"
    BY <2>2, NoSymbols DEF First, ParseAndExecute
  <2>4. First.outcome \in Failures
    <3>1. First.outcome \in Failures \cup {"ok"}
      BY <1>0, AttemptType DEF Environment
    <3>2. First.outcome = "ok" => Second = First
      BY DEF Second
    <3>3. Second.outcome # "ok"
      BY <1>9 DEF UpgradeOnError
    <3>. QED BY <3>1, <3>2, <3>3
  <2>5. again \in Job /\ again.code = job.code /\ again.why = First.outcome
    BY <1>1, <2>4 DEF Job
  <2>. HIDE DEF again
  <2>6. Plain(again)
    BY <2>2, <2>3, <2>5 DEF Plain
  <2>7. <<again>> \in Seq(Job) /\ AllPlain(<<again>>) /\ AllPlain(<<>>) /\ <<>> \in Seq(Job)
    BY <2>5, <2>6, PlainFacts
  <2>8. \/ pending' = UpgradeReplays \o <<again>> \o Tail(pending)
        \/ pending' = <<>>
        \/ Return(FALSE)
    BY <1>9, Zenon DEF UpgradeOnError, Crash, again
  <2> DEFINE one == <<again>>
  <2>9. CASE pending' = UpgradeReplays \o <<again>> \o Tail(pending)
    <3>1. one \in Seq(Job) /\ AllPlain(one) /\ pending' = UpgradeReplays \o one \o Tail(pending)
      BY <2>7, <2>9
    <3>. HIDE DEF one
    <3>2. UpgradeReplays \o one \in Seq(Job) /\ AllPlain(UpgradeReplays \o one)
      BY <1>2, <3>1, PlainFacts
    <3>. QED BY <1>1, <3>1, <3>2, PlainFacts
  <2>10. CASE pending' = <<>>
    BY <2>7, <2>10
  <2>11. CASE Return(FALSE)
    BY <1>0, <2>11, PlainReturn
  <2>. QED BY <2>8, <2>9, <2>10, <2>11
<1>10. CASE RetryAfterUpgrade
  <2>1. pending' = <<>> \/ Return(TRUE) \/ Fail(job.why, First.ptus)
    BY <1>10, Zenon DEF RetryAfterUpgrade, Crash
  <2>. QED BY <1>0, <2>1, PlainFacts, PlainFail, PlainReturn
<1>. QED BY <1>4, <1>5, <1>6, <1>7, <1>8, <1>9, <1>10 DEF EvalStep

(* What stackRemove queues. *)
LEMMA PlainForget ==
  ASSUME Environment, TypeOK, AllPlain(pending), NEW n \in Names, NEW jobs \in Seq(Job),
         AllPlain(jobs), Forget(n, jobs)
  PROVE  AllPlain(pending')
<1>1. history \in Seq(Inputs) /\ Len(history) \in Nat
  BY DEF TypeOK
<1>2. CASE (variables[n] = None /\ tracker[n] = None) \/ Mentions(history, n) = {}
  BY <1>2 DEF Forget
<1>3. CASE ~(variables[n] = None /\ tracker[n] = None) /\ Mentions(history, n) # {}
  <2> DEFINE kept == Without(history, Last(Mentions(history, n)))
  <2>1. Last(Mentions(history, n)) \in DOMAIN history
    <3>1. Mentions(history, n) \in SUBSET (1..Len(history)) /\ DOMAIN history = 1..Len(history)
      BY <1>1 DEF Mentions
    <3>. QED BY <1>1, <1>3, <3>1, LastIsMember
  <2>2. kept \in Seq(Inputs)
    BY <1>1, <2>1, ShorterSequences
  <2>3. PICK ok \in InitOutcomes :
          pending' = (IF ok THEN Replays(kept, "replay") ELSE <<>>) \o jobs
    BY <1>3 DEF Forget
  <2>. HIDE DEF kept
  <2>4. /\ Replays(kept, "replay") \in Seq(Job) /\ AllPlain(Replays(kept, "replay"))
        /\ <<>> \in Seq(Job) /\ AllPlain(<<>>)
    BY <2>2, PlainFacts, ReplaysType
  <2>. QED BY <2>3, <2>4, PlainFacts
<1>. QED BY <1>2, <1>3

(* What the other commands queue. *)
LEMMA PlainCommand ==
  ASSUME Environment, TypeOK, AllPlain(pending), StackCommand \/ EvalCommand \/ OptionCommand
  PROVE  AllPlain(pending')
<1>0. history \in Seq(Inputs) /\ Len(history) \in Nat
  BY DEF TypeOK
<1>1. \A r : Refuse(r) => AllPlain(pending')
  BY DEF Refuse
<1>2. ASSUME NEW incs, NEW lps, NEW jobs, AllPlain(jobs), Rebuild(incs, lps, jobs)
      PROVE  AllPlain(pending')
  BY <1>2, PlainFacts DEF Rebuild
<1>3. \A h \in Seq(Inputs) : \A as : AllPlain(Replays(h, as))
  BY PlainFacts
<1>4. ASSUME NEW c \in Inputs, Eval(c) \/ EvalAuto(c) PROVE AllPlain(pending')
  BY <1>4, PlainFacts DEF Eval, EvalAuto
<1>5. \A n : UndoUnits(n) => AllPlain(pending')
  BY <1>1 DEF UndoUnits
<1>6. ASSUME NEW n \in Names, StackRemove(n) \/ \E c \in Inputs : StackSet(n, c)
      PROVE  AllPlain(pending')
  <2>1. CASE StackRemove(n)
    <3>1. <<>> \in Seq(Job) /\ AllPlain(<<>>)
      BY PlainFacts
    <3>. QED BY <2>1, <3>1, PlainForget DEF StackRemove
  <2>2. ASSUME NEW c \in Inputs, StackSet(n, c) PROVE AllPlain(pending')
    <3>1. <<Fresh(c)>> \in Seq(Job) /\ AllPlain(<<Fresh(c)>>)
      BY PlainFacts DEF Fresh, Job
    <3>. QED BY <2>2, <3>1, PlainForget DEF StackSet
  <2>. QED BY <1>6, <2>1, <2>2
<1>7. ASSUME NEW i, NEW j, StackSwap(i, j) PROVE AllPlain(pending')
  <2>1. CASE i \notin DOMAIN history \/ j \notin DOMAIN history \/ i = j
    BY <1>1, <1>7, <2>1 DEF StackSwap
  <2>2. CASE i \in DOMAIN history /\ j \in DOMAIN history /\ i # j
    <3> DEFINE swapped == [history EXCEPT ![i] = history[j], ![j] = history[i]]
    <3>1. swapped \in Seq(Inputs)
      BY <1>0, <2>2
    <3>2. Rebuild(includePaths, libraryPaths, Replays(swapped, "strict"))
      BY <1>7, <2>2 DEF StackSwap
    <3>. HIDE DEF swapped
    <3>. QED BY <1>2, <1>3, <3>1, <3>2
  <2>. QED BY <2>1, <2>2
<1>8. CASE StackClear \/ Reset
  BY <1>8 DEF StackClear, Reset, ResetTo
<1>9. ASSUME NEW p \in Paths, AddIncludePath(p) \/ AddLibraryPath(p) PROVE AllPlain(pending')
  BY <1>0, <1>1, <1>2, <1>3, <1>9 DEF AddIncludePath, AddLibraryPath
<1>10. ASSUME NEW l, AddLibrary(l) \/ LoadLibrary(l) PROVE AllPlain(pending')
  BY <1>10 DEF AddLibrary, LoadLibrary
<1>11. ASSUME NEW b, SetSecurityConfig(b) PROVE AllPlain(pending')
  BY <1>11 DEF SetSecurityConfig
<1>12. CASE EvalCommand
  BY <1>4, <1>12 DEF EvalCommand
<1>13. CASE OptionCommand
  BY <1>9, <1>10, <1>11, <1>13 DEF OptionCommand
<1>14. CASE StackCommand
  <2>1. \A n : StackPop(n) => AllPlain(pending')
    BY <1>1, <1>5 DEF StackPop
  <2>. QED BY <1>5, <1>6, <1>7, <1>8, <1>14, <2>1 DEF StackCommand, Undo
<1>. QED BY <1>12, <1>13, <1>14
--------------------------------------------------------------------------------
(* A sequence of units that goes on with others.                              *)
Extends(ps, qs) == Len(ps) <= Len(qs) /\ \A k \in 1..Len(ps) : qs[k] = ps[k]

(* How units are added and taken back. *)
LEMMA ExtendsFacts ==
  /\ \A ps \in Seq(Ptu) : Extends(ps, ps)
  /\ \A ps, qs, rs \in Seq(Ptu) : Extends(ps, qs) /\ Extends(qs, rs) => Extends(ps, rs)
  /\ \A ps \in Seq(Ptu), u \in Ptu :
       LET qs == Append(ps, u)
       IN  /\ qs \in Seq(Ptu) /\ Extends(ps, qs) /\ Len(qs) = Len(ps) + 1 /\ qs[Len(qs)] = u
           /\ DropLast(qs, 1) = ps
  /\ \A ps, qs \in Seq(Ptu) : Extends(ps, ps \o qs) /\ ps \o qs \in Seq(Ptu)
<1>1. \A ps \in Seq(Ptu) : Extends(ps, ps)
  BY DEF Extends
<1>2. ASSUME NEW ps \in Seq(Ptu), NEW qs \in Seq(Ptu), NEW rs \in Seq(Ptu),
             Extends(ps, qs), Extends(qs, rs)
      PROVE  Extends(ps, rs)
  <2>1. Len(ps) \in Nat /\ Len(qs) \in Nat /\ Len(rs) \in Nat
    OBVIOUS
  <2>. QED BY <1>2, <2>1 DEF Extends
<1>3. ASSUME NEW ps \in Seq(Ptu), NEW u \in Ptu
      PROVE  /\ Append(ps, u) \in Seq(Ptu) /\ Extends(ps, Append(ps, u))
             /\ Len(Append(ps, u)) = Len(ps) + 1 /\ Append(ps, u)[Len(Append(ps, u))] = u
             /\ DropLast(Append(ps, u), 1) = ps
  <2>1. /\ Append(ps, u) \in Seq(Ptu) /\ Len(Append(ps, u)) = Len(ps) + 1
        /\ Append(ps, u)[Len(ps) + 1] = u /\ \A k \in 1..Len(ps) : Append(ps, u)[k] = ps[k]
    BY AppendProperties
  <2>2. DropLast(Append(ps, u), 1) = ps
    BY <2>1 DEF DropLast
  <2>. QED BY <2>1, <2>2 DEF Extends
<1>4. \A ps, qs \in Seq(Ptu) : Extends(ps, ps \o qs) /\ ps \o qs \in Seq(Ptu)
  BY ConcatProperties DEF Extends
<1>. QED BY <1>1, <1>2, <1>3, <1>4
--------------------------------------------------------------------------------
(* What a step does to the units of the engine and to the history.            *)

NoInput(ps) == \A k \in DOMAIN ps : ps[k].code \notin Inputs

(* A new engine, or none. *)
Restarts == history' = <<>> /\ NoInput(ptus')
(* Nothing. *)
Keeps == history' = history /\ ptus' = ptus
(* Units are taken back, and as many entries. *)
Cuts == \E n \in 0..Len(ptus) :
          /\ ptus' = DropLast(ptus, n)
          /\ history' = DropLast(history, IF n < Len(history) THEN n ELSE Len(history))

(* Where the standard headers cannot be refused, a new engine has them. *)
StdLibStays == initialized /\ StdLibOutcomes = {TRUE} => stdLibIncluded

(* The units init() starts with. *)
LEMMA PreambleUnits ==
  ASSUME Environment, NEW std \in BOOLEAN
  PROVE  NoInput([k \in 1..Preambles |-> Unit(Preamble, TRUE)]
                    \o (IF std THEN <<Unit(StdLib, TRUE)>> ELSE <<>>))
<1> DEFINE pre == [k \in 1..Preambles |-> Unit(Preamble, TRUE)]
           post == IF std THEN <<Unit(StdLib, TRUE)>> ELSE <<>>
<1>1. Preambles \in Nat /\ Preamble \notin Inputs /\ StdLib \notin Inputs
  BY DEF Environment, BoundsAssumption, InputsAssumption
<1>2. pre \in Seq(Ptu) /\ Len(pre) = Preambles /\ NoInput(pre)
  BY <1>1 DEF Unit, Ptu, NoInput
<1>3. post \in Seq(Ptu) /\ NoInput(post)
  <2>1. <<Unit(StdLib, TRUE)>> \in Seq(Ptu) /\ NoInput(<<Unit(StdLib, TRUE)>>)
    BY <1>1 DEF Unit, Ptu, NoInput
  <2>2. <<>> \in Seq(Ptu) /\ NoInput(<<>>)
    BY DEF NoInput
  <2>. QED BY <2>1, <2>2
<1>. HIDE DEF pre, post
<1>4. ASSUME NEW ps \in Seq(Ptu), NEW qs \in Seq(Ptu)
      PROVE  /\ DOMAIN (ps \o qs) = 1..(Len(ps) + Len(qs))
             /\ \A k \in DOMAIN (ps \o qs) :
                  (ps \o qs)[k] = IF k <= Len(ps) THEN ps[k] ELSE qs[k - Len(ps)]
  OBVIOUS
<1>5. NoInput(pre \o post)
  <2> DEFINE all == pre \o post
  <2>1. /\ DOMAIN all = 1..(Len(pre) + Len(post)) /\ Len(pre) \in Nat /\ Len(post) \in Nat
        /\ \A k \in DOMAIN all : all[k] = IF k <= Len(pre) THEN pre[k] ELSE post[k - Len(pre)]
        /\ DOMAIN pre = 1..Len(pre) /\ DOMAIN post = 1..Len(post)
    BY <1>2, <1>3, <1>4
  <2>. HIDE DEF all
  <2>2. NoInput(all)
    BY <1>2, <1>3, <2>1 DEF NoInput
  <2>. QED BY <2>2 DEF all
<1>. QED BY <1>5 DEF pre, post

(* An engine starts without any input. *)
LEMMA BootUnits ==
  ASSUME Environment, NEW v, NEW incs, NEW lps, NEW libs, NEW ok \in InitOutcomes,
         Boot(v, incs, lps, libs, ok)
  PROVE  NoInput(ptus') /\ StdLibStays'
<1>1. PICK std \in IF ok THEN StdLibOutcomes ELSE {FALSE} :
        /\ stdLibIncluded' = std
        /\ ptus' = IF ~ok THEN <<>>
                   ELSE [k \in 1..Preambles |-> Unit(Preamble, TRUE)]
                          \o (IF std THEN <<Unit(StdLib, TRUE)>> ELSE <<>>)
  BY DEF Boot
<1>2. ok \in BOOLEAN /\ std \in BOOLEAN
  BY DEF Environment, EnvironmentAssumption
<1>3. initialized' = ok
  BY DEF Boot
<1>4. NoInput(<<>>)
  BY DEF NoInput
<1>5. NoInput(ptus')
  BY <1>1, <1>2, <1>4, PreambleUnits
<1>6. StdLibStays'
  BY <1>1, <1>2, <1>3 DEF StdLibStays
<1>. QED BY <1>5, <1>6

(* Neither has the one a command builds, *)
LEMMA RebootUnits ==
  ASSUME Environment, NEW v, NEW incs, NEW lps, NEW libs, NEW ok \in InitOutcomes,
         Reboot(v, incs, lps, libs, ok)
  PROVE  Restarts /\ StdLibStays'
BY BootUnits DEF Reboot, DropLog, Restarts

(* nor the one ensureVersion() builds. *)
LEMMA EnsureUnits ==
  ASSUME Environment, Books, NEW v, NEW ok \in InitOutcomes, EnsureVersion(v, ok)
  PROVE  Restarts /\ StdLibStays'
<1>1. history' = <<>>
  BY DEF EnsureVersion, DropLog, log, Books, EngineBehindHistory
<1>. QED BY <1>1, BootUnits DEF EnsureVersion, Restarts

(* A command outside eval() never adds a unit: it starts another engine, cuts *)
(* both lists, or leaves both alone.                                          *)
Moves == (Restarts \/ Cuts \/ Keeps) /\ (StdLibStays => StdLibStays')

(* A command that leaves the engine and the log alone adds none. *)
LEMMA QuietUnits ==
  ASSUME UNCHANGED <<history, ptus, initialized, stdLibIncluded>>
  PROVE  Moves
BY DEF Moves, Keeps, StdLibStays

(* undo() and stackPop() cut both lists by as much. *)
LEMMA UndoMoves ==
  ASSUME Books, NEW n \in Nat, UndoUnits(n)
  PROVE  Moves
<1>1. CASE initialized /\ CanUndo(n)
  <2>1. n \in 0..Len(ptus)
    BY <1>1 DEF CanUndo, Books, TypeOK
  <2>2. /\ ptus' = DropLast(ptus, n) /\ UNCHANGED <<initialized, stdLibIncluded>>
        /\ history' = DropLast(history, IF n < Len(history) THEN n ELSE Len(history))
    BY <1>1 DEF UndoUnits
  <2>. QED BY <2>1, <2>2 DEF Moves, Cuts, StdLibStays
<1>2. CASE ~(initialized /\ CanUndo(n))
  BY <1>2, QuietUnits DEF UndoUnits, Refuse, engine, log
<1>. QED BY <1>1, <1>2

(* What the commands do, one by one. *)
LEMMA CommandMoves ==
  ASSUME Environment, Books, StackCommand \/ EvalCommand \/ OptionCommand
  PROVE  Moves
<1>0. history \in Seq(Inputs) /\ Len(history) \in Nat /\ ptus \in Seq(Ptu) /\ Len(ptus) \in Nat
  BY DEF Books, TypeOK
<1>1. \A r : Refuse(r) => Moves
  BY QuietUnits DEF Refuse, engine, log
<1>2. ASSUME NEW incs, NEW lps, NEW jobs, Rebuild(incs, lps, jobs) PROVE Moves
  BY <1>2, RebootUnits DEF Rebuild, Moves
<1>3. ASSUME NEW n \in Names, NEW jobs, Forget(n, jobs) PROVE Moves
  <2>1. CASE variables[n] = None /\ tracker[n] = None
    BY <1>3, <2>1, QuietUnits DEF Forget, engine, log
  <2>2. CASE ~(variables[n] = None /\ tracker[n] = None) /\ Mentions(history, n) = {}
    BY <1>3, <2>2, QuietUnits DEF Forget, engine
  <2>3. CASE ~(variables[n] = None /\ tracker[n] = None) /\ Mentions(history, n) # {}
    BY <1>3, <2>3, RebootUnits DEF Forget, Moves
  <2>. QED BY <2>1, <2>2, <2>3
<1>4. ASSUME NEW c \in Inputs, Eval(c) \/ EvalAuto(c) PROVE Moves
  <2>1. CASE Eval(c)
    BY <2>1, QuietUnits DEF Eval, engine, log
  <2>2. CASE EvalAuto(c)
    BY <2>2, EnsureUnits DEF EvalAuto, Moves
  <2>. QED BY <1>4, <2>1, <2>2
<1>5. ASSUME NEW n \in Nat, StackPop(n) PROVE Moves
  <2> DEFINE asked == IF n = 0 THEN 1 ELSE n
             m == IF asked < Len(history) THEN asked ELSE Len(history)
  <2>1. m \in Nat
    BY <1>0
  <2>2. CASE history = <<>>
    BY <1>1, <1>5, <2>2 DEF StackPop
  <2>3. CASE history # <<>>
    <3>1. UndoUnits(m)
      BY <1>5, <2>3 DEF StackPop
    <3>. HIDE DEF m
    <3>. QED BY <2>1, <3>1, UndoMoves
  <2>. QED BY <2>2, <2>3
<1>6. ASSUME NEW i, NEW j, StackSwap(i, j) PROVE Moves
  BY <1>1, <1>2, <1>6 DEF StackSwap
<1>7. ASSUME NEW ok \in InitOutcomes, ResetTo(ok) PROVE Moves
  BY <1>7, RebootUnits DEF ResetTo, Moves
<1>8. CASE StackClear
  <2>1. CASE history = <<>> \/ (initialized /\ CanUndo(Len(history)))
    <3>1. /\ history' = <<>> /\ ptus' = DropLast(ptus, Len(history))
          /\ UNCHANGED <<initialized, stdLibIncluded>>
      BY <1>8, <2>1 DEF StackClear, DropLog
    <3>2. Len(history) \in 0..Len(ptus)
      BY <1>0, <2>1 DEF CanUndo
    <3>3. <<>> = DropLast(history, Len(history))
      BY <1>0 DEF DropLast
    <3>. QED BY <1>0, <3>1, <3>2, <3>3 DEF Moves, Cuts, StdLibStays
  <2>2. CASE ~(history = <<>> \/ (initialized /\ CanUndo(Len(history)))) /\ initialized
    BY <1>7, <1>8, <2>2 DEF StackClear
  <2>3. CASE ~(history = <<>> \/ (initialized /\ CanUndo(Len(history)))) /\ ~initialized
    BY <1>8, <2>3, QuietUnits DEF StackClear, engine, log
  <2>. QED BY <2>1, <2>2, <2>3
<1>9. CASE EvalCommand
  BY <1>4, <1>9 DEF EvalCommand
<1>10. CASE StackCommand
  <2>1. ASSUME NEW n \in Nat, Undo(n) PROVE Moves
    BY <2>1, UndoMoves DEF Undo
  <2>2. ASSUME NEW n \in Names, StackRemove(n) PROVE Moves
    BY <1>3, <2>2 DEF StackRemove
  <2>3. ASSUME NEW n \in Names, NEW c \in Inputs, StackSet(n, c) PROVE Moves
    BY <1>3, <2>3 DEF StackSet
  <2>4. CASE Reset
    BY <1>7, <2>4 DEF Reset
  <2>5. 1..MaxUndo \subseteq Nat /\ 0..MaxUndo \subseteq Nat
    BY DEF Environment, BoundsAssumption
  <2>. QED BY <1>5, <1>6, <1>8, <1>10, <2>1, <2>2, <2>3, <2>4, <2>5 DEF StackCommand
<1>11. CASE OptionCommand
  <2>1. ASSUME NEW p, AddIncludePath(p) \/ AddLibraryPath(p) PROVE Moves
    BY <1>1, <1>2, <2>1 DEF AddIncludePath, AddLibraryPath
  <2>2. ASSUME NEW l, AddLibrary(l) \/ LoadLibrary(l) PROVE Moves
    BY <2>2, QuietUnits DEF AddLibrary, LoadLibrary, log
  <2>3. ASSUME NEW b, SetSecurityConfig(b) PROVE Moves
    BY <2>3, QuietUnits DEF SetSecurityConfig, engine, log
  <2>. QED BY <1>11, <2>1, <2>2, <2>3 DEF OptionCommand
<1>. QED BY <1>9, <1>10, <1>11
--------------------------------------------------------------------------------
(* What eval() does to the units and to the history.                          *)

(* Units may be left that are no entry; *)
Widens == history' = history /\ Extends(ptus, ptus')
(* an entry comes with a unit of its own. *)
Grows ==
  \E c \in Inputs :
    /\ history' = Append(history, c) /\ Extends(ptus, ptus')
    /\ \E k \in (Len(ptus) + 1)..Len(ptus') : ptus'[k] = Unit(c, TRUE)

(* What one attempt leaves in the engine. *)
LEMMA ParseUnits ==
  ASSUME NEW c \in Inputs, NEW ps \in Seq(Ptu), NEW w
  PROVE  LET r == ParseAndExecute(c, ps, w)
         IN  /\ r.ptus \in Seq(Ptu) /\ Extends(ps, r.ptus)
             /\ r.outcome = Outcome(c, ps, w)
             /\ r.outcome = "ok" => r.ptus = Append(ps, Unit(c, TRUE))
             /\ r.outcome = "symbols" => r.ptus = Append(ps, Unit(c, FALSE))
             /\ r.outcome \notin {"ok", "symbols"} => r.ptus = ps
<1>1. \A b \in BOOLEAN : Unit(c, b) \in Ptu
  BY DEF Unit, Ptu
<1>2. /\ ParseAndExecute(c, ps, w).outcome = Outcome(c, ps, w)
      /\ Outcome(c, ps, w) = "ok" =>
           ParseAndExecute(c, ps, w).ptus = Append(ps, Unit(c, TRUE))
      /\ Outcome(c, ps, w) = "symbols" =>
           ParseAndExecute(c, ps, w).ptus = Append(ps, Unit(c, FALSE))
      /\ Outcome(c, ps, w) \notin {"ok", "symbols"} => ParseAndExecute(c, ps, w).ptus = ps
  BY DEF ParseAndExecute
<1>3. \A b \in BOOLEAN : /\ Append(ps, Unit(c, b)) \in Seq(Ptu)
                         /\ Extends(ps, Append(ps, Unit(c, b)))
  BY <1>1, ExtendsFacts
<1>4. Extends(ps, ps)
  BY ExtendsFacts
<1> DEFINE r == ParseAndExecute(c, ps, w)
<1>. HIDE DEF r
<1>5. r.ptus \in Seq(Ptu) /\ Extends(ps, r.ptus)
  <2>1. CASE Outcome(c, ps, w) = "ok"
    BY <1>2, <1>3, <2>1 DEF r
  <2>2. CASE Outcome(c, ps, w) = "symbols"
    BY <1>2, <1>3, <2>2 DEF r
  <2>3. CASE Outcome(c, ps, w) \notin {"ok", "symbols"}
    BY <1>2, <1>4, <2>3 DEF r
  <2>. QED BY <2>1, <2>2, <2>3
<1>. QED BY <1>2, <1>5 DEF r

(* The recovery takes back no unit that was there before the attempt. *)
LEMMA RecoverExtends ==
  ASSUME NEW base \in Seq(Ptu), NEW ps \in Seq(Ptu), NEW why, Extends(base, ps),
         why = "symbols" => Len(base) < Len(ps)
  PROVE  Recover(why, ps) \in Seq(Ptu) /\ Extends(base, Recover(why, ps))
<1>0. Len(base) \in Nat /\ Len(ps) \in Nat
  OBVIOUS
<1>1. CASE why = "symbols" /\ ps # <<>>
  <2>1. Len(base) <= Len(ps) - 1 /\ 1 <= Len(ps)
    BY <1>0, <1>1
  <2>2. /\ DropLast(ps, 1) \in Seq(Ptu) /\ Len(DropLast(ps, 1)) = Len(ps) - 1
        /\ \A k \in 1..(Len(ps) - 1) : DropLast(ps, 1)[k] = ps[k]
    BY <2>1, ShorterSequences
  <2>3. Extends(base, DropLast(ps, 1))
    BY <1>0, <2>1, <2>2 DEF Extends
  <2>. QED BY <1>1, <2>2, <2>3 DEF Recover
<1>2. CASE ~(why = "symbols" /\ ps # <<>>)
  BY <1>2 DEF Recover
<1>. QED BY <1>1, <1>2

(* A failure leaves more units than there were, and an entry only if the      *)
(* retry with the standard headers succeeded.                                 *)
LEMMA FailUnits ==
  ASSUME Environment, TypeOK, pending # <<>>, NEW why, NEW ps \in Seq(Ptu), Fail(why, ps),
         Extends(ptus, ps), why = "symbols" => Len(ptus) < Len(ps)
  PROVE  Widens \/ Grows
<1>0. job.code \in Inputs /\ ptus \in Seq(Ptu) /\ Len(ptus) \in Nat /\ Len(ps) \in Nat
  BY JobType DEF TypeOK, Environment
<1>4. CASE why = "redefinition" /\ job.code.kind = "decl" /\ variables[job.code.name] # None
  BY <1>4 DEF Fail, Widens, log
<1>5. CASE ~(why = "redefinition" /\ job.code.kind = "decl" /\ variables[job.code.name] # None)
  <2> DEFINE more == Append(ps, Unit(StdLib, TRUE))
             retry == ParseAndExecute(job.code, more, job.code.tries # "second")
  <2>1. /\ more \in Seq(Ptu) /\ Extends(ptus, more) /\ Len(more) = Len(ps) + 1
        /\ Len(ptus) < Len(more) /\ Len(ptus) <= Len(ps)
    <3>1. Unit(StdLib, TRUE) \in Ptu
      BY DEF Unit, Ptu
    <3>2. more \in Seq(Ptu) /\ Extends(ps, more) /\ Len(more) = Len(ps) + 1
      BY <3>1, ExtendsFacts
    <3>3. Len(ptus) <= Len(ps)
      BY DEF Extends
    <3>. HIDE DEF more
    <3>. QED BY <1>0, <3>2, <3>3, ExtendsFacts
  <2>. HIDE DEF more
  <2>2. /\ retry.ptus \in Seq(Ptu) /\ Extends(more, retry.ptus)
        /\ retry.outcome = "ok" => retry.ptus = Append(more, Unit(job.code, TRUE))
    BY <1>0, <2>1, ParseUnits
  <2>. HIDE DEF retry
  <2>3. Extends(ptus, retry.ptus) /\ Len(ptus) < Len(retry.ptus)
    <3>1. Len(more) <= Len(retry.ptus) /\ Len(retry.ptus) \in Nat /\ Len(more) \in Nat
      BY <2>1, <2>2 DEF Extends
    <3>2. Extends(ptus, retry.ptus)
      BY <1>0, <2>1, <2>2, ExtendsFacts
    <3>. QED BY <1>0, <2>1, <3>1, <3>2
  <2>4. PICK std \in BOOLEAN :
         IF std /\ retry.outcome = "ok"
           THEN ptus' = retry.ptus /\ Push(job.code)
           ELSE /\ ptus' = IF std THEN Recover(retry.outcome, retry.ptus) ELSE Recover(why, ps)
                /\ UNCHANGED log
    BY <1>5 DEF Fail, Environment, EnvironmentAssumption, retry, more
  <2>5. CASE std /\ retry.outcome = "ok"
    <3>1. ptus' = Append(more, Unit(job.code, TRUE)) /\ history' = Append(history, job.code)
      BY <2>2, <2>4, <2>5 DEF Push
    <3>2. Unit(job.code, TRUE) \in Ptu
      BY <1>0 DEF Unit, Ptu
    <3>3. Len(ptus') = Len(more) + 1 /\ ptus'[Len(ptus')] = Unit(job.code, TRUE)
      BY <2>1, <3>1, <3>2, ExtendsFacts
    <3>4. Len(ptus') \in (Len(ptus) + 1)..Len(ptus')
      BY <1>0, <2>1, <3>3
    <3>5. Extends(ptus, ptus')
      BY <2>3, <2>4, <2>5
    <3>. QED BY <1>0, <3>1, <3>3, <3>4, <3>5 DEF Grows
  <2>6. CASE ~(std /\ retry.outcome = "ok")
    <3>1. Extends(ptus, Recover(retry.outcome, retry.ptus)) /\ Extends(ptus, Recover(why, ps))
      BY <1>0, <2>2, <2>3, RecoverExtends
    <3>2. Extends(ptus, ptus') /\ history' = history
      BY <2>4, <2>6, <3>1 DEF log
    <3>. QED BY <3>2 DEF Widens
  <2>. QED BY <2>5, <2>6
<1>. QED BY <1>4, <1>5

(* What the text and then its other spelling leave in the engine. *)
LEMMA AttemptUnits ==
  ASSUME Environment, TypeOK, pending # <<>>
  PROVE  /\ First.ptus \in Seq(Ptu) /\ Extends(ptus, First.ptus)
         /\ First.outcome = "ok" => First.ptus = Append(ptus, Unit(job.code, TRUE))
         /\ First.outcome = "symbols" => First.ptus = Append(ptus, Unit(job.code, FALSE))
         /\ First.outcome \notin {"ok", "symbols"} => First.ptus = ptus
         /\ Second.ptus \in Seq(Ptu) /\ Extends(First.ptus, Second.ptus)
         /\ Extends(ptus, Second.ptus)
         /\ First.outcome # "ok" /\ Second.outcome = "ok" =>
              Second.ptus = Append(First.ptus, Unit(job.code, TRUE))
         /\ First.outcome = "symbols" => Len(ptus) < Len(Second.ptus)
<1>0. job.code \in Inputs /\ ptus \in Seq(Ptu) /\ Len(ptus) \in Nat
  BY JobType DEF TypeOK, Environment
<1>1. /\ First.ptus \in Seq(Ptu) /\ Extends(ptus, First.ptus)
      /\ First.outcome = "ok" => First.ptus = Append(ptus, Unit(job.code, TRUE))
      /\ First.outcome = "symbols" => First.ptus = Append(ptus, Unit(job.code, FALSE))
      /\ First.outcome \notin {"ok", "symbols"} => First.ptus = ptus
  BY <1>0, ParseUnits DEF First
<1>2. LET r == ParseAndExecute(job.code, First.ptus, TRUE)
      IN  /\ r.ptus \in Seq(Ptu) /\ Extends(First.ptus, r.ptus)
          /\ r.outcome = "ok" => r.ptus = Append(First.ptus, Unit(job.code, TRUE))
  BY <1>0, <1>1, ParseUnits
<1>3. /\ Second.ptus \in Seq(Ptu) /\ Extends(First.ptus, Second.ptus)
      /\ First.outcome # "ok" /\ Second.outcome = "ok" =>
           Second.ptus = Append(First.ptus, Unit(job.code, TRUE))
  <2>1. CASE First.outcome = "ok" \/ job.code.tries = "once"
    BY <1>1, <2>1, ExtendsFacts DEF Second
  <2>2. CASE ~(First.outcome = "ok" \/ job.code.tries = "once")
    BY <1>2, <2>2 DEF Second
  <2>. QED BY <2>1, <2>2
<1>4. Extends(ptus, Second.ptus)
  BY <1>0, <1>1, <1>3, ExtendsFacts
<1>5. ASSUME First.outcome = "symbols" PROVE Len(ptus) < Len(Second.ptus)
  <2>1. Unit(job.code, FALSE) \in Ptu
    BY <1>0 DEF Unit, Ptu
  <2>2. Len(First.ptus) = Len(ptus) + 1
    BY <1>0, <1>1, <1>5, <2>1, ExtendsFacts
  <2>3. Len(First.ptus) <= Len(Second.ptus) /\ Len(Second.ptus) \in Nat
    BY <1>3 DEF Extends
  <2>. QED BY <1>0, <2>2, <2>3
<1>. QED BY <1>1, <1>3, <1>4, <1>5

(* eval() starts another engine, or adds units, with a unit for its entry.    *)
LEMMA EvalUnits ==
  ASSUME Environment, Books, AllPlain(pending), EvalStep
  PROVE  Restarts \/ Widens \/ Grows
<1>0. /\ TypeOK /\ ptus \in Seq(Ptu) /\ Len(ptus) \in Nat /\ Extends(ptus, ptus)
      /\ pending # <<>> /\ job.code \in Inputs /\ Unit(job.code, TRUE) \in Ptu
  <2>1. pending # <<>>
    BY DEF EvalStep, DetectedUpgrade, ProactiveStdLib, Decide, Ready, Evaluate, Running,
           EvaluateOtherSpelling, EvaluationFails, UpgradeOnError, RetryAfterUpgrade
  <2>2. TypeOK /\ ptus \in Seq(Ptu) /\ Len(ptus) \in Nat
    BY DEF Books, TypeOK
  <2>3. job.code \in Inputs
    BY <2>1, <2>2, JobType DEF TypeOK, Environment
  <2>4. Unit(job.code, TRUE) \in Ptu
    BY <2>3 DEF Unit, Ptu
  <2>. QED BY <2>1, <2>2, <2>3, <2>4, ExtendsFacts
<1>1. CASE DetectedUpgrade
  BY <1>1, EnsureUnits DEF DetectedUpgrade
<1>2. CASE ProactiveStdLib
  <2>1. Unit(StdLib, TRUE) \in Ptu
    BY DEF Unit, Ptu
  <2>. QED BY <1>0, <1>2, <2>1, ExtendsFacts DEF ProactiveStdLib, Widens, log
<1>3. CASE Decide
  BY <1>0, <1>3 DEF Decide, Widens, engine, log
<1>4. ASSUME NEW ps \in Seq(Ptu), Extends(ptus, ps), Push(job.code),
             Extends(Append(ps, Unit(job.code, TRUE)), ptus'), ptus' \in Seq(Ptu)
      PROVE  Grows
  <2> DEFINE qs == Append(ps, Unit(job.code, TRUE))
  <2>1. /\ qs \in Seq(Ptu) /\ Extends(ps, qs) /\ Len(qs) = Len(ps) + 1
        /\ qs[Len(qs)] = Unit(job.code, TRUE)
    BY <1>0, ExtendsFacts
  <2>2. Extends(qs, ptus')
    BY <1>4
  <2>. HIDE DEF qs
  <2>3. Extends(ptus, ptus')
    <3>1. Extends(ptus, qs)
      BY <1>0, <1>4, <2>1, ExtendsFacts
    <3>. QED BY <1>0, <1>4, <2>1, <2>2, <3>1, ExtendsFacts
  <2>4. /\ Len(ps) \in Nat /\ Len(ptus) <= Len(ps) /\ Len(qs) <= Len(ptus')
        /\ Len(ptus') \in Nat
    BY <1>4, <2>2 DEF Extends
  <2>5. Len(qs) \in (Len(ptus) + 1)..Len(ptus') /\ Len(qs) \in 1..Len(qs)
    BY <1>0, <2>1, <2>4
  <2>6. ptus'[Len(qs)] = Unit(job.code, TRUE)
    BY <2>1, <2>2, <2>5 DEF Extends
  <2>7. history' = Append(history, job.code)
    BY <1>4 DEF Push
  <2>. QED BY <1>0, <2>3, <2>5, <2>6, <2>7 DEF Grows
<1>5. ASSUME NEW ps \in Seq(Ptu), Extends(ptus, ps), Push(job.code),
             ptus' = Append(ps, Unit(job.code, TRUE))
      PROVE  Grows
  BY <1>0, <1>4, <1>5, ExtendsFacts
<1>6. CASE Evaluate
  <2> DEFINE qs == Append(ptus, Unit(job.code, TRUE))
  <2>1. PICK shown \in Shown(job.code) : ptus' = First.ptus \o shown
    BY <1>6 DEF Evaluate
  <2>2. qs \in Seq(Ptu) /\ shown \in Seq(Ptu)
    BY <1>0, <2>1, ExtendsFacts, ShownType DEF Environment
  <2>3. ptus' = qs \o shown /\ Push(job.code)
    BY <1>0, <1>6, <2>1, AttemptUnits DEF Evaluate
  <2>4. Extends(qs, ptus') /\ ptus' \in Seq(Ptu)
    <3>. HIDE DEF qs
    <3>. QED BY <2>2, <2>3, ExtendsFacts
  <2>5. Grows
    BY <1>0, <1>4, <2>3, <2>4
  <2>. QED BY <2>5
<1>7. CASE EvaluateOtherSpelling
  <2>1. /\ First.ptus \in Seq(Ptu) /\ Extends(ptus, First.ptus) /\ Push(job.code)
        /\ ptus' = Append(First.ptus, Unit(job.code, TRUE))
    BY <1>0, <1>7, AttemptUnits DEF EvaluateOtherSpelling
  <2>. QED BY <1>5, <2>1
<1>8. CASE EvaluationFails
  <2>1. Fail(First.outcome, Second.ptus)
    BY <1>8 DEF EvaluationFails
  <2>. QED BY <1>0, <2>1, AttemptUnits, FailUnits
<1>9. CASE UpgradeOnError
  BY <1>9, EnsureUnits DEF UpgradeOnError
<1>10. CASE RetryAfterUpgrade
  <2>1. job.why # "symbols"
    <3>1. Plain(job)
      BY <1>0, PlainFacts DEF job, TypeOK
    <3>. QED BY <1>10, <3>1 DEF Plain, RetryAfterUpgrade
  <2>2. CASE ~initialized
    BY <1>0, <1>10, <2>2 DEF RetryAfterUpgrade, Widens, engine, log
  <2>3. CASE initialized /\ First.outcome = "ok"
    <3>1. Push(job.code) /\ ptus' = Append(ptus, Unit(job.code, TRUE))
      BY <1>0, <1>10, <2>3, AttemptUnits DEF RetryAfterUpgrade
    <3>. QED BY <1>0, <1>5, <3>1
  <2>4. CASE initialized /\ First.outcome # "ok"
    <3>1. Fail(job.why, First.ptus)
      BY <1>10, <2>4 DEF RetryAfterUpgrade
    <3>. QED BY <1>0, <2>1, <3>1, AttemptUnits, FailUnits
  <2>. QED BY <2>2, <2>3, <2>4
<1>. QED BY <1>1, <1>2, <1>3, <1>6, <1>7, <1>8, <1>9, <1>10 DEF EvalStep
--------------------------------------------------------------------------------
(* Every entry has a unit of its own that ran, in the order of the history:   *)
(* f says which.                                                              *)
Placed(f, h, ps) ==
  /\ f \in [1..Len(h) -> 1..Len(ps)]
  /\ \A k \in 1..Len(h) : ps[f[k]] = Unit(h[k], TRUE) /\ f[k] + (Len(h) - k) <= Len(ps)
  /\ \A k \in 1..Len(h) : k < Len(h) => f[k] < f[k + 1]
InPlace(h, ps) == \E f : Placed(f, h, ps)

(* The unit the search of Backed finds for entry k. *)
AfterUnits(h, ps, g, k) == {j \in DOMAIN ps : j > g[k - 1] /\ ps[j] = Unit(h[k], TRUE)}
SearchStep(h, ps, g, k) ==
  IF k = 0 THEN 0
  ELSE IF g[k - 1] > Len(ps) \/ AfterUnits(h, ps, g, k) = {} THEN Len(ps) + 1
  ELSE CHOOSE j \in AfterUnits(h, ps, g, k) : \A i \in AfterUnits(h, ps, g, k) : j <= i

(* The search exists for every history. *)
LEMMA SearchExists ==
  ASSUME NEW h \in Seq(Inputs), NEW ps
  PROVE  \E g : g = [k \in 0..Len(h) |-> SearchStep(h, ps, g, k)]
<1> DEFINE Solved(n) == \E g : g = [k \in 0..n |-> SearchStep(h, ps, g, k)]
           S == {n \in 0..Len(h) : Solved(n)}
<1>1. Len(h) \in Nat
  OBVIOUS
<1>2. Solved(0)
  <2> DEFINE g0 == [k \in 0..0 |-> 0]
  <2>1. g0 = [k \in 0..0 |-> SearchStep(h, ps, g0, k)]
    BY DEF SearchStep
  <2>. HIDE DEF g0
  <2>. QED BY <2>1
<1>3. ASSUME NEW n \in 0..Len(h), n \in S, n < Len(h) PROVE n + 1 \in S
  <2>1. PICK g : g = [k \in 0..n |-> SearchStep(h, ps, g, k)]
    BY <1>3
  <2> DEFINE next == SearchStep(h, ps, g, n + 1)
             gg == [k \in 0..(n + 1) |-> IF k = n + 1 THEN next ELSE g[k]]
  <2>2. ASSUME NEW k \in 0..(n + 1) PROVE gg[k] = SearchStep(h, ps, gg, k)
    <3>. HIDE DEF next
    <3>1. CASE k = n + 1
      <4>1. gg[k] = next /\ gg[k - 1] = g[k - 1] /\ k # 0
        BY <3>1
      <4>. HIDE DEF gg
      <4>. QED BY <3>1, <4>1 DEF SearchStep, AfterUnits, next
    <3>2. CASE k = 0
      BY <2>1, <3>2 DEF SearchStep
    <3>3. CASE k # n + 1 /\ k # 0
      <4>1. k \in 0..n /\ k - 1 \in 0..(n + 1) /\ k - 1 # n + 1
        BY <3>3
      <4>2. g[k] = SearchStep(h, ps, g, k)
        BY <2>1, <4>1
      <4>3. gg[k] = g[k] /\ gg[k - 1] = g[k - 1]
        BY <3>3, <4>1
      <4>. HIDE DEF gg
      <4>. QED BY <3>3, <4>2, <4>3 DEF SearchStep, AfterUnits
    <3>. QED BY <3>1, <3>2, <3>3
  <2>3. gg = [k \in 0..(n + 1) |-> SearchStep(h, ps, gg, k)]
    <3>1. gg = [k \in 0..(n + 1) |-> gg[k]]
      OBVIOUS
    <3>. HIDE DEF gg
    <3>. QED BY <2>2, <3>1
  <2>4. n + 1 \in 0..Len(h)
    BY <1>1, <1>3
  <2>. HIDE DEF gg
  <2>. QED BY <2>3, <2>4
<1>4. 0..Len(h) \subseteq S
  <2>1. 0 \in S
    BY <1>1, <1>2
  <2>. HIDE DEF S
  <2>. QED BY <1>1, <1>3, <2>1, SetInduction
<1>. QED BY <1>1, <1>4

(* A bounded set of numbers has a least element. *)
LEMMA LeastIsMember ==
  ASSUME NEW A \in SUBSET Nat, A # {}
  PROVE  \E j \in A : \A i \in A : j <= i
<1>1. PICK x \in A : \A y \in A : ~ (<<y, x>> \in OpToRel(<, Nat))
  BY NatLessThanWellFounded, WFMin, Zenon
<1>2. \A y \in A : ~ (y < x)
  BY <1>1 DEF OpToRel
<1>. QED BY <1>2

(* Taking the first unit that fits is never worse than any other choice.      *)
LEMMA InPlaceIsBacked ==
  ASSUME NEW h \in Seq(Inputs), NEW ps \in Seq(Ptu), InPlace(h, ps)
  PROVE  Backed(h, ps)
<1>0. Len(h) \in Nat /\ Len(ps) \in Nat /\ DOMAIN ps = 1..Len(ps)
  OBVIOUS
<1>1. PICK f : Placed(f, h, ps)
  BY DEF InPlace
<1> DEFINE g == CHOOSE s : s = [k \in 0..Len(h) |-> SearchStep(h, ps, s, k)]
<1>2. g = [k \in 0..Len(h) |-> SearchStep(h, ps, g, k)]
  BY SearchExists
<1>3. g[Len(h)] <= Len(ps) => Backed(h, ps)
  BY DEF Backed, SearchStep, AfterUnits
<1>. HIDE DEF g
<1> DEFINE S == {k \in 0..Len(h) : g[k] \in 0..Len(ps) /\ (k # 0 => g[k] <= f[k])}
<1>4. 0 \in S
  BY <1>0, <1>2 DEF SearchStep
<1>5. ASSUME NEW k \in 0..Len(h), k \in S, k < Len(h) PROVE k + 1 \in S
  <2>1. /\ k + 1 \in 1..Len(h) /\ k + 1 \in 0..Len(h) /\ (k + 1) - 1 = k /\ k + 1 # 0
        /\ k # 0 => k \in 1..Len(h)
    BY <1>0, <1>5
  <2>2. g[k + 1] = SearchStep(h, ps, g, k + 1) /\ g[k] \in 0..Len(ps)
    BY <1>2, <1>5, <2>1
  <2>3. f[k + 1] \in 1..Len(ps) /\ ps[f[k + 1]] = Unit(h[k + 1], TRUE)
    BY <1>1, <2>1 DEF Placed
  <2>4. f[k + 1] > g[k]
    <3>1. CASE k = 0
      BY <1>2, <1>0, <2>3, <3>1 DEF SearchStep
    <3>2. CASE k # 0
      <4>1. f[k] < f[k + 1] /\ f[k] \in 1..Len(ps) /\ g[k] <= f[k]
        BY <1>1, <1>5, <2>1, <3>2 DEF Placed
      <4>. QED BY <1>0, <2>2, <2>3, <4>1
    <3>. QED BY <3>1, <3>2
  <2> DEFINE A == AfterUnits(h, ps, g, k + 1)
  <2>5. f[k + 1] \in A /\ A \subseteq 1..Len(ps)
    BY <1>0, <2>1, <2>3, <2>4 DEF AfterUnits
  <2>6. g[k + 1] = CHOOSE j \in A : \A i \in A : j <= i
    BY <1>0, <2>1, <2>2, <2>5 DEF SearchStep
  <2>. HIDE DEF A
  <2>7. \E j \in A : \A i \in A : j <= i
    BY <1>0, <2>5, LeastIsMember
  <2>8. g[k + 1] \in A /\ g[k + 1] <= f[k + 1]
    BY <2>5, <2>6, <2>7
  <2>9. g[k + 1] \in 0..Len(ps)
    <3>1. g[k + 1] \in 1..Len(ps)
      BY <2>5, <2>8
    <3> HIDE DEF S
    <3>. QED BY <3>1
  <2>. QED BY <2>1, <2>8, <2>9
<1>6. Len(h) \in S
  <2>1. 0..Len(h) \subseteq S
    <3>. HIDE DEF S
    <3>. QED BY <1>0, <1>4, <1>5, SetInduction
  <2>. QED BY <1>0, <2>1
<1>7. g[Len(h)] <= Len(ps)
  BY <1>0, <1>6
<1>. QED BY <1>3, <1>7

(* The empty history is in place. *)
LEMMA NothingInPlace == \A ps : InPlace(<<>>, ps)
<1> SUFFICES ASSUME NEW ps PROVE InPlace(<<>>, ps)
  OBVIOUS
<1> DEFINE f == [k \in 1..0 |-> 0]
<1>1. f \in [1..Len(<<>>) -> 1..Len(ps)]
  OBVIOUS
<1>2. 1..Len(<<>>) = {}
  OBVIOUS
<1>3. Placed(f, <<>>, ps)
  BY <1>1, <1>2 DEF Placed
<1>. QED BY <1>3 DEF InPlace

(* It stays so when units are added, *)
LEMMA InPlaceExtends ==
  ASSUME NEW h \in Seq(Inputs), NEW ps \in Seq(Ptu), NEW qs \in Seq(Ptu),
         InPlace(h, ps), Extends(ps, qs)
  PROVE  InPlace(h, qs)
<1>1. PICK f : Placed(f, h, ps)
  BY DEF InPlace
<1>2. Len(h) \in Nat /\ Len(ps) \in Nat /\ Len(qs) \in Nat /\ Len(ps) <= Len(qs)
  BY DEF Extends
<1>3. /\ f \in [1..Len(h) -> 1..Len(ps)]
      /\ \A k \in 1..Len(h) : ps[f[k]] = Unit(h[k], TRUE) /\ f[k] + (Len(h) - k) <= Len(ps)
      /\ \A k \in 1..Len(h) : k < Len(h) => f[k] < f[k + 1]
  BY <1>1 DEF Placed
<1>4. f \in [1..Len(h) -> 1..Len(qs)]
  BY <1>2, <1>3
<1>5. ASSUME NEW k \in 1..Len(h)
      PROVE  qs[f[k]] = Unit(h[k], TRUE) /\ f[k] + (Len(h) - k) <= Len(qs)
  <2>1. f[k] \in 1..Len(ps) /\ qs[f[k]] = ps[f[k]]
    BY <1>3 DEF Extends
  <2>2. f[k] + (Len(h) - k) <= Len(ps) /\ f[k] \in Nat /\ k \in Nat
    <3>1. f[k] + (Len(h) - k) <= Len(ps)
      BY <1>3
    <3>2. f[k] \in Nat /\ k \in Nat
      BY <2>1
    <3>. QED BY <3>1, <3>2
  <2>3. f[k] + (Len(h) - k) <= Len(qs)
    BY <1>2, <2>2
  <2>. QED BY <1>3, <2>1, <2>3
<1>6. Placed(f, h, qs)
  BY <1>3, <1>4, <1>5 DEF Placed
<1>. QED BY <1>6 DEF InPlace

(* when an entry comes with a unit behind the others, *)
LEMMA InPlaceGrows ==
  ASSUME NEW h \in Seq(Inputs), NEW ps \in Seq(Ptu), NEW qs \in Seq(Ptu), NEW c \in Inputs,
         InPlace(h, ps), Extends(ps, qs), NEW m \in (Len(ps) + 1)..Len(qs),
         qs[m] = Unit(c, TRUE)
  PROVE  InPlace(Append(h, c), qs)
<1> DEFINE hh == Append(h, c)
<1>1. PICK f : Placed(f, h, ps)
  BY DEF InPlace
<1>2. /\ Len(h) \in Nat /\ Len(ps) \in Nat /\ Len(qs) \in Nat /\ Len(ps) <= Len(qs)
      /\ m \in Nat /\ Len(ps) < m /\ m <= Len(qs) /\ m \in 1..Len(qs)
  BY DEF Extends
<1>3. Len(hh) = Len(h) + 1 /\ hh[Len(h) + 1] = c /\ \A k \in 1..Len(h) : hh[k] = h[k]
  BY AppendProperties
<1>. HIDE DEF hh
<1>4. /\ f \in [1..Len(h) -> 1..Len(ps)]
      /\ \A k \in 1..Len(h) : ps[f[k]] = Unit(h[k], TRUE) /\ f[k] + (Len(h) - k) <= Len(ps)
      /\ \A k \in 1..Len(h) : k < Len(h) => f[k] < f[k + 1]
  BY <1>1 DEF Placed
<1> DEFINE ff == [k \in 1..(Len(h) + 1) |-> IF k = Len(h) + 1 THEN m ELSE f[k]]
<1>5. /\ ff[Len(h) + 1] = m
      /\ \A k \in 1..Len(h) : ff[k] = f[k] /\ f[k] \in 1..Len(ps)
  <2>1. /\ Len(h) + 1 \in 1..(Len(h) + 1)
        /\ \A k \in 1..Len(h) : k \in 1..(Len(h) + 1) /\ k # Len(h) + 1
    BY <1>2
  <2>. QED BY <1>4, <2>1
<1>6. ff \in [1..(Len(h) + 1) -> 1..Len(qs)]
  BY <1>2, <1>4
<1>. HIDE DEF ff
<1>7. ASSUME NEW k \in 1..(Len(h) + 1)
      PROVE  qs[ff[k]] = Unit(hh[k], TRUE) /\ ff[k] + ((Len(h) + 1) - k) <= Len(qs)
  <2>1. CASE k = Len(h) + 1
    <3>1. ff[k] = m /\ hh[k] = c
      BY <1>3, <1>5, <2>1
    <3>2. (Len(h) + 1) - k = 0
      BY <1>2, <2>1
    <3>3. qs[ff[k]] = Unit(hh[k], TRUE)
      BY <3>1
    <3>4. m + ((Len(h) + 1) - k) <= Len(qs)
      BY <1>2, <3>2
    <3>. QED BY <3>1, <3>3, <3>4
  <2>2. CASE k # Len(h) + 1
    <3>1. k \in 1..Len(h)
      BY <1>2, <2>2
    <3>2. /\ ff[k] = f[k] /\ f[k] \in 1..Len(ps) /\ ps[f[k]] = Unit(h[k], TRUE) /\ hh[k] = h[k]
          /\ f[k] + (Len(h) - k) <= Len(ps)
      BY <1>3, <1>4, <1>5, <3>1
    <3>3. qs[f[k]] = ps[f[k]]
      BY <3>2 DEF Extends
    <3>. QED BY <1>2, <3>1, <3>2, <3>3
  <2>. QED BY <2>1, <2>2
<1>8. ASSUME NEW k \in 1..(Len(h) + 1), k < Len(h) + 1 PROVE ff[k] < ff[k + 1]
  <2>1. k \in 1..Len(h) /\ ff[k] = f[k] /\ f[k] \in 1..Len(ps)
    BY <1>2, <1>5, <1>8
  <2>2. CASE k = Len(h)
    BY <1>2, <1>5, <2>1, <2>2
  <2>3. CASE k < Len(h)
    <3>1. k + 1 \in 1..Len(h)
      BY <1>2, <2>1, <2>3
    <3>. QED BY <1>4, <1>5, <2>1, <2>3, <3>1
  <2>. QED BY <1>2, <2>1, <2>2, <2>3
<1>9. Placed(ff, hh, qs)
  BY <1>3, <1>6, <1>7, <1>8 DEF Placed
<1>. QED BY <1>9 DEF InPlace, hh

(* and when units are taken back with as many entries. *)
LEMMA InPlaceCut ==
  ASSUME NEW h \in Seq(Inputs), NEW ps \in Seq(Ptu), InPlace(h, ps), NEW n \in 0..Len(ps)
  PROVE  InPlace(DropLast(h, IF n < Len(h) THEN n ELSE Len(h)), DropLast(ps, n))
<1>0. Len(h) \in Nat /\ Len(ps) \in Nat /\ n \in Nat
  OBVIOUS
<1>1. CASE n < Len(h)
  <2> DEFINE hh == DropLast(h, n)
             qs == DropLast(ps, n)
             r == Len(h) - n
             w == Len(ps) - n
  <2>0. n <= Len(h) /\ n <= Len(ps)
    BY <1>0, <1>1
  <2>1. Len(hh) = r /\ \A k \in 1..r : hh[k] = h[k]
    BY <1>0, <2>0, ShorterSequences
  <2>2. Len(qs) = w /\ \A k \in 1..w : qs[k] = ps[k]
    BY <1>0, <2>0, ShorterSequences
  <2>3. r \in Nat /\ w \in Nat /\ Len(h) = r + n /\ Len(ps) = w + n
    BY <1>0, <1>1
  <2>. HIDE DEF hh, qs, r, w
  <2>4. PICK f : Placed(f, h, ps)
    BY DEF InPlace
  <2>5. /\ f \in [1..Len(h) -> 1..Len(ps)]
        /\ \A k \in 1..Len(h) : ps[f[k]] = Unit(h[k], TRUE) /\ f[k] + (Len(h) - k) <= Len(ps)
        /\ \A k \in 1..Len(h) : k < Len(h) => f[k] < f[k + 1]
    BY <2>4 DEF Placed
  <2>6. ASSUME NEW k \in 1..r
        PROVE  f[k] \in 1..w /\ f[k] + (r - k) <= w /\ qs[f[k]] = Unit(hh[k], TRUE)
               /\ (k < r => f[k] < f[k + 1])
    <3>1. k \in 1..Len(h) /\ (k < r => k < Len(h))
      BY <1>0, <2>3
    <3>2. f[k] \in 1..Len(ps) /\ f[k] + (Len(h) - k) <= Len(ps)
      BY <2>5, <3>1
    <3>3. f[k] \in 1..w /\ f[k] + (r - k) <= w
      BY <1>0, <2>3, <3>1, <3>2
    <3>. QED BY <2>1, <2>2, <2>5, <3>1, <3>3
  <2> DEFINE ff == [k \in 1..r |-> f[k]]
  <2>7. ff \in [1..r -> 1..w] /\ \A k \in 1..r : ff[k] = f[k]
    BY <2>6
  <2>. HIDE DEF ff
  <2>8. \A k \in 1..r : k < r => ff[k] < ff[k + 1]
    <3>1. \A k \in 1..r : k < r => k + 1 \in 1..r
      BY <2>3
    <3>. QED BY <2>6, <2>7, <3>1
  <2>9. Placed(ff, hh, qs)
    BY <2>1, <2>2, <2>6, <2>7, <2>8 DEF Placed
  <2>. QED BY <1>1, <2>9 DEF InPlace, hh, qs
<1>2. CASE ~(n < Len(h))
  <2>1. DropLast(h, Len(h)) = <<>>
    BY <1>0 DEF DropLast
  <2>. QED BY <1>2, <2>1, NothingInPlace
<1>. QED BY <1>1, <1>2
--------------------------------------------------------------------------------
(* The theorem about HistoryIsBacked.                                         *)

(* At the start there is nothing to place, *)
LEMMA InPlaceInit == Environment /\ Init => InPlace(history, ptus) /\ AllPlain(pending)
BY NothingInPlace, PlainFacts DEF Init

(* and every step keeps what is placed. *)
LEMMA InPlaceNext ==
  ASSUME Environment, HintsPlain, Books, InPlace(history, ptus), AllPlain(pending),
         [Next]_vars
  PROVE  InPlace(history, ptus)' /\ AllPlain(pending)'
<1>0. /\ history \in Seq(Inputs) /\ ptus \in Seq(Ptu) /\ Len(ptus) \in Nat
      /\ ptus' \in Seq(Ptu) /\ TypeOK
  BY TypeNext DEF Books, TypeOK
<1>1. AllPlain(pending')
  BY <1>0, PlainEval, PlainCommand DEF Next, vars
<1>2. Restarts \/ Widens \/ Grows \/ Cuts
  <2>1. CASE EvalStep
    BY <2>1, EvalUnits
  <2>2. CASE StackCommand \/ EvalCommand \/ OptionCommand
    BY <1>0, <2>2, CommandMoves, ExtendsFacts DEF Moves, Keeps, Widens
  <2>3. CASE UNCHANGED vars
    BY <1>0, <2>3, ExtendsFacts DEF Widens, vars, engine, log
  <2>. QED BY <2>1, <2>2, <2>3 DEF Next
<1>3. CASE Restarts
  BY <1>1, <1>3, NothingInPlace DEF Restarts
<1>4. CASE Widens
  <2>1. InPlace(history, ptus')
    BY <1>0, <1>4, InPlaceExtends DEF Widens
  <2>. QED BY <1>1, <1>4, <2>1 DEF Widens
<1>5. CASE Grows
  <2>1. PICK c \in Inputs :
          /\ history' = Append(history, c) /\ Extends(ptus, ptus')
          /\ \E k \in (Len(ptus) + 1)..Len(ptus') : ptus'[k] = Unit(c, TRUE)
    BY <1>5 DEF Grows
  <2>2. InPlace(Append(history, c), ptus')
    BY <1>0, <2>1, InPlaceGrows
  <2>. QED BY <1>1, <2>1, <2>2
<1>6. CASE Cuts
  <2>1. PICK n \in 0..Len(ptus) :
          /\ ptus' = DropLast(ptus, n)
          /\ history' = DropLast(history, IF n < Len(history) THEN n ELSE Len(history))
    BY <1>6 DEF Cuts
  <2>2. InPlace(DropLast(history, IF n < Len(history) THEN n ELSE Len(history)),
                DropLast(ptus, n))
    BY <1>0, InPlaceCut
  <2>. QED BY <1>1, <2>1, <2>2
<1>. QED BY <1>2, <1>3, <1>4, <1>5, <1>6

(* What :dump lists is what the engine executed, in order: in the program as  *)
(* main() starts it, and from an older standard for the inputs that need no   *)
(* symbol if their error asks for a newer one.  The recovery after a rebuild  *)
(* (lines 1150-1169) goes by the error of the attempt before it, and would    *)
(* take back a unit of the replay.                                            *)
THEOREM HistoryAlwaysBacked == Steady \/ HintsAreNoSymbols => (Spec => []HistoryIsBacked)
<1> SUFFICES ASSUME Steady \/ HintsAreNoSymbols PROVE Spec => []HistoryIsBacked
  OBVIOUS
<1> DEFINE I == Books /\ AtTop /\ InPlace(history, ptus) /\ AllPlain(pending)
<1>1. Init => I
  BY BooksInit, TopStays, InPlaceInit, EnvironmentHolds
<1>2. I /\ [Next]_vars => I'
  <2> SUFFICES ASSUME I, [Next]_vars PROVE I'
    OBVIOUS
  <2>1. HintsPlain
    BY HintsAndStandards, EnvironmentHolds DEF Books
  <2>. QED BY <2>1, BooksNext, TopStays, InPlaceNext, EnvironmentHolds
<1>3. I => HistoryIsBacked
  BY InPlaceIsBacked DEF Books, TypeOK, HistoryIsBacked
<1>. QED BY <1>1, <1>2, <1>3, PTL DEF Spec
--------------------------------------------------------------------------------
(* Names: where every accepted input leaves one unit and every other none.    *)

(* No unit but the input's own: nothing is run again or printed, the standard *)
(* headers are never a unit of a later time, and what fails to link is not    *)
(* accepted a second time in its other spelling.                              *)
OneUnitEach ==
  \A c \in Inputs :
    /\ c.extra = 0
    /\ c.std => StdLibOutcomes = {TRUE}
    /\ c.lib # None => c.tries = "once" \/ (c.tries = "again" /\ c.declares # {})

(* The newest units are the entries of the history, the others no input. *)
InStep(h, ps) ==
  \E m \in 0..Len(ps) :
    /\ Len(ps) = m + Len(h)
    /\ \A k \in 1..m : ps[k].code \notin Inputs
    /\ \A k \in 1..Len(h) : ps[m + k] = Unit(h[k], TRUE)

(* Then the names the engine knows are those of the history. *)
LEMMA InStepNames ==
  ASSUME NEW h \in Seq(Inputs), NEW ps \in Seq(Ptu), InStep(h, ps)
  PROVE  Broken(ps) = {} /\ Declared(ps) = UNION {h[k].declares : k \in DOMAIN h}
<1>0. DOMAIN h = 1..Len(h) /\ DOMAIN ps = 1..Len(ps) /\ Len(h) \in Nat /\ Len(ps) \in Nat
  OBVIOUS
<1>1. PICK m \in 0..Len(ps) :
        /\ Len(ps) = m + Len(h)
        /\ \A k \in 1..m : ps[k].code \notin Inputs
        /\ \A k \in 1..Len(h) : ps[m + k] = Unit(h[k], TRUE)
  BY DEF InStep
<1>2. ASSUME NEW u \in InputUnits(ps) PROVE \E k \in DOMAIN h : u = Unit(h[k], TRUE)
  <2>1. PICK j \in 1..Len(ps) : u = ps[j] /\ ps[j].code \in Inputs
    BY <1>0 DEF InputUnits, Units
  <2>2. j - m \in 1..Len(h) /\ m + (j - m) = j
    BY <1>0, <1>1, <2>1
  <2>. QED BY <1>0, <1>1, <2>1, <2>2
<1>3. ASSUME NEW k \in DOMAIN h PROVE Unit(h[k], TRUE) \in InputUnits(ps)
  <2>1. m + k \in DOMAIN ps /\ ps[m + k] = Unit(h[k], TRUE) /\ h[k] \in Inputs
    <3>1. k \in 1..Len(h) /\ h[k] \in Inputs
      BY <1>0
    <3>2. m + k \in 1..Len(ps)
      BY <1>0, <1>1, <3>1
    <3>. QED BY <1>0, <1>1, <3>1, <3>2
  <2>. QED BY <2>1 DEF InputUnits, Units, Unit
<1>4. Broken(ps) = {}
  BY <1>2 DEF Broken, Unit
<1>5. ASSUME NEW n, n \in Declared(ps) PROVE \E k \in DOMAIN h : n \in h[k].declares
  <2>1. PICK u \in InputUnits(ps) : n \in u.code.declares
    BY <1>5 DEF Declared
  <2>. QED BY <1>2, <2>1 DEF Unit
<1>6. ASSUME NEW k \in DOMAIN h, NEW n \in h[k].declares PROVE n \in Declared(ps)
  <2>1. Unit(h[k], TRUE) \in InputUnits(ps) /\ Unit(h[k], TRUE).code = h[k]
    BY <1>3 DEF Unit
  <2>2. n \in Unit(h[k], TRUE).code.declares
    BY <1>6, <2>1
  <2>. QED BY <2>1, <2>2 DEF Declared
<1>. QED BY <1>4, <1>5, <1>6

(* Units are in step with an empty history, *)
LEMMA InStepEmpty ==
  ASSUME NEW ps \in Seq(Ptu), NoInput(ps)
  PROVE  InStep(<<>>, ps)
<1>1. Len(ps) \in 0..Len(ps) /\ Len(ps) = Len(ps) + Len(<<>>) /\ 1..Len(<<>>) = {}
      /\ DOMAIN ps = 1..Len(ps)
  OBVIOUS
<1>. QED BY <1>1 DEF InStep, NoInput

(* after an entry and its unit, *)
LEMMA InStepAppend ==
  ASSUME NEW h \in Seq(Inputs), NEW ps \in Seq(Ptu), InStep(h, ps), NEW c \in Inputs
  PROVE  InStep(Append(h, c), Append(ps, Unit(c, TRUE)))
<1> DEFINE hh == Append(h, c)
           qs == Append(ps, Unit(c, TRUE))
<1>0. Len(h) \in Nat /\ Len(ps) \in Nat /\ Unit(c, TRUE) \in Ptu
  BY DEF Unit, Ptu
<1>1. Len(hh) = Len(h) + 1 /\ hh[Len(h) + 1] = c /\ \A k \in 1..Len(h) : hh[k] = h[k]
  BY AppendProperties
<1>2. /\ Len(qs) = Len(ps) + 1 /\ qs[Len(ps) + 1] = Unit(c, TRUE)
      /\ \A k \in 1..Len(ps) : qs[k] = ps[k]
  <2>1. \A u \in Ptu : /\ Len(Append(ps, u)) = Len(ps) + 1 /\ Append(ps, u)[Len(ps) + 1] = u
                      /\ \A k \in 1..Len(ps) : Append(ps, u)[k] = ps[k]
    BY AppendProperties
  <2>. QED BY <1>0, <2>1
<1>. HIDE DEF hh, qs
<1>3. PICK m \in 0..Len(ps) :
        /\ Len(ps) = m + Len(h)
        /\ \A k \in 1..m : ps[k].code \notin Inputs
        /\ \A k \in 1..Len(h) : ps[m + k] = Unit(h[k], TRUE)
  BY DEF InStep
<1>4. m \in 0..Len(qs) /\ Len(qs) = m + Len(hh)
  BY <1>0, <1>1, <1>2, <1>3
<1>5. \A k \in 1..m : qs[k].code \notin Inputs
  <2>1. \A k \in 1..m : k \in 1..Len(ps)
    BY <1>0
  <2>. QED BY <1>2, <1>3, <2>1
<1>6. ASSUME NEW k \in 1..Len(hh) PROVE qs[m + k] = Unit(hh[k], TRUE)
  <2>1. CASE k = Len(h) + 1
    <3>1. m + k = Len(ps) + 1
      BY <1>0, <1>3, <2>1
    <3>. QED BY <1>1, <1>2, <2>1, <3>1
  <2>2. CASE k # Len(h) + 1
    <3>1. k \in 1..Len(h) /\ m + k \in 1..Len(ps)
      BY <1>0, <1>1, <1>3, <2>2
    <3>. QED BY <1>1, <1>2, <1>3, <3>1
  <2>. QED BY <2>1, <2>2
<1>7. InStep(hh, qs)
  BY <1>4, <1>5, <1>6 DEF InStep
<1>. QED BY <1>7 DEF hh, qs

(* and after a cut. *)
LEMMA InStepCut ==
  ASSUME NEW h \in Seq(Inputs), NEW ps \in Seq(Ptu), InStep(h, ps), NEW n \in 0..Len(ps)
  PROVE  InStep(DropLast(h, IF n < Len(h) THEN n ELSE Len(h)), DropLast(ps, n))
<1> DEFINE d == IF n < Len(h) THEN n ELSE Len(h)
           hh == DropLast(h, d)
           qs == DropLast(ps, n)
           w == Len(ps) - n
           r == Len(h) - d
<1>0. Len(h) \in Nat /\ Len(ps) \in Nat /\ n \in Nat /\ d \in Nat /\ d <= Len(h) /\ n <= Len(ps)
      /\ d <= n /\ (d < n => d = Len(h))
  OBVIOUS
<1>. HIDE DEF d
<1>1. Len(hh) = r /\ \A k \in 1..r : hh[k] = h[k]
  BY <1>0, ShorterSequences
<1>2. Len(qs) = w /\ \A k \in 1..w : qs[k] = ps[k]
  BY <1>0, ShorterSequences
<1>3. r \in Nat /\ w \in Nat /\ Len(h) = r + d /\ Len(ps) = w + n
  BY <1>0
<1>. HIDE DEF hh, qs, w, r
<1>4. PICK m \in 0..Len(ps) :
        /\ Len(ps) = m + Len(h)
        /\ \A k \in 1..m : ps[k].code \notin Inputs
        /\ \A k \in 1..Len(h) : ps[m + k] = Unit(h[k], TRUE)
  BY DEF InStep
<1> DEFINE mm == w - r
<1>5. mm \in 0..w /\ w = mm + r /\ mm <= m /\ (r # 0 => mm = m)
  BY <1>0, <1>3, <1>4
<1>. HIDE DEF mm
<1>6. \A k \in 1..mm : qs[k].code \notin Inputs
  <2>1. \A k \in 1..mm : k \in 1..w /\ k \in 1..m
    BY <1>3, <1>5
  <2>. QED BY <1>2, <1>4, <2>1
<1>7. ASSUME NEW k \in 1..r PROVE qs[mm + k] = Unit(hh[k], TRUE)
  <2>1. mm = m /\ mm + k \in 1..w /\ k \in 1..Len(h)
    BY <1>0, <1>3, <1>5
  <2>. QED BY <1>1, <1>2, <1>4, <2>1
<1>8. InStep(hh, qs)
  BY <1>1, <1>2, <1>5, <1>6, <1>7 DEF InStep
<1>. QED BY <1>8 DEF hh, qs, d

(* An entry comes with one unit, and clang accepts it as things are.          *)
Adds ==
  \E c \in Inputs :
    /\ Outcome(c, ptus, TRUE) = "ok"
    /\ history' = Append(history, c) /\ ptus' = Append(ptus, Unit(c, TRUE))

(* An input whose own unit is in the engine, accepted or not, redeclares.     *)
LEMMA AgainIsRedefinition ==
  ASSUME NEW c \in Inputs, c.declares # {}, NEW ps \in Seq(Ptu), NEW w,
         Outcome(c, ps, w) = "symbols"
  PROVE  Outcome(c, Append(ps, Unit(c, FALSE)), TRUE) = "redefinition"
<1> DEFINE u == Unit(c, FALSE)
           qs == Append(ps, u)
<1>0. u \in Ptu /\ u.code = c
  BY DEF Unit, Ptu
<1>1. /\ qs \in Seq(Ptu) /\ Len(qs) = Len(ps) + 1 /\ Len(ps) \in Nat /\ qs[Len(ps) + 1] = u
      /\ \A k \in 1..Len(ps) : qs[k] = ps[k]
      /\ DOMAIN qs = 1..Len(qs) /\ DOMAIN ps = 1..Len(ps)
  <2>1. \A x \in Ptu : /\ Append(ps, x) \in Seq(Ptu) /\ Len(Append(ps, x)) = Len(ps) + 1
                       /\ Append(ps, x)[Len(ps) + 1] = x
                       /\ \A k \in 1..Len(ps) : Append(ps, x)[k] = ps[k]
    BY AppendProperties
  <2>2. qs \in Seq(Ptu)
    BY <1>0, <2>1
  <2>3. DOMAIN qs = 1..Len(qs) /\ DOMAIN ps = 1..Len(ps) /\ Len(ps) \in Nat
    <3>. HIDE DEF qs
    <3>. QED BY <2>2
  <2>. QED BY <1>0, <2>1, <2>3
<1>. HIDE DEF qs, u
<1>2. Units(ps) \subseteq Units(qs) /\ u \in Units(qs)
  <2>1. \A k \in DOMAIN ps : k \in DOMAIN qs /\ qs[k] = ps[k]
    BY <1>1
  <2>2. Len(ps) + 1 \in DOMAIN qs
    BY <1>1
  <2>. QED BY <1>1, <2>1, <2>2 DEF Units
<1>3. Declared(ps) \subseteq Declared(qs) /\ c.declares \subseteq Declared(qs)
  <2>1. InputUnits(ps) \subseteq InputUnits(qs) /\ u \in InputUnits(qs)
    BY <1>0, <1>2 DEF InputUnits
  <2>. QED BY <1>0, <2>1 DEF Declared
<1>4. /\ c.uses \subseteq Declared(ps) /\ c.header \in includePaths \cup {None}
      /\ c.std => Unit(StdLib, TRUE) \in Units(ps)
      /\ version \in c.valid
  BY DEF Outcome
<1>5. c.declares \cap Declared(qs) # {}
  BY <1>3
<1>6. Outcome(c, qs, TRUE) = "redefinition"
  BY <1>2, <1>3, <1>4, <1>5 DEF Outcome
<1>. QED BY <1>6 DEF qs, u

(* What the two attempts leave, exactly. *)
LEMMA AttemptsExact ==
  ASSUME Environment, OneUnitEach, TypeOK, pending # <<>>, InStep(history, ptus),
         First.outcome # "ok"
  PROVE  /\ Second.outcome = "ok" => /\ Second.ptus = Append(ptus, Unit(job.code, TRUE))
                                     /\ Outcome(job.code, ptus, TRUE) = "ok"
         /\ Second.outcome # "ok" /\ First.outcome = "symbols" =>
              Second.ptus = Append(ptus, Unit(job.code, FALSE))
         /\ Second.outcome # "ok" /\ First.outcome # "symbols" => Second.ptus = ptus
<1> DEFINE c == job.code
<1>0. /\ c \in Inputs /\ ptus \in Seq(Ptu) /\ history \in Seq(Inputs) /\ Broken(ptus) = {}
      /\ Unit(c, FALSE) \in Ptu
  <2>1. job.code \in Inputs /\ ptus \in Seq(Ptu) /\ history \in Seq(Inputs)
    BY JobType DEF TypeOK, Environment
  <2>. QED BY <2>1, InStepNames DEF Unit, Ptu
<1>1. \A ps, w : Broken(ps) = {} /\ Outcome(c, ps, w) = "symbols" =>
                   c.lib # None
  BY DEF Outcome
<1>2. /\ First.outcome = Outcome(c, ptus, c.tries # "second")
      /\ First.outcome = "symbols" => First.ptus = Append(ptus, Unit(c, FALSE))
      /\ First.outcome # "symbols" => First.ptus = ptus
  BY <1>0, ParseUnits DEF First
<1>3. c.tries = "once" => Second = First
  BY DEF Second
<1>4. c.tries # "once" => Second = ParseAndExecute(c, First.ptus, TRUE)
  BY DEF Second
<1>5. CASE First.outcome = "symbols"
  <2>1. c.lib # None
    BY <1>0, <1>1, <1>2, <1>5
  <2>2. CASE c.tries = "once"
    BY <1>2, <1>3, <1>5, <2>2
  <2>3. CASE c.tries # "once"
    <3>1. c.declares # {}
      BY <1>0, <2>1, <2>3 DEF OneUnitEach
    <3>2. First.ptus \in Seq(Ptu) /\ First.ptus = Append(ptus, Unit(c, FALSE))
      BY <1>2, <1>5, AttemptUnits
    <3>3. Outcome(c, First.ptus, TRUE) = "redefinition"
      BY <1>0, <1>2, <1>5, <3>1, <3>2, AgainIsRedefinition
    <3>4. /\ Second.outcome = Outcome(c, First.ptus, TRUE)
          /\ Second.outcome \notin {"ok", "symbols"} => Second.ptus = First.ptus
      <4>1. First.ptus \in Seq(Ptu) /\ c \in Inputs
        BY <1>0, <3>2
      <4>2. LET a == ParseAndExecute(c, First.ptus, TRUE)
            IN  /\ a.outcome = Outcome(c, First.ptus, TRUE)
                /\ a.outcome \notin {"ok", "symbols"} => a.ptus = First.ptus
        <5>. HIDE DEF c
        <5>. QED BY <4>1, ParseUnits
      <4>. QED BY <1>4, <2>3, <4>2
    <3>. QED BY <1>5, <3>2, <3>3, <3>4
  <2>. QED BY <2>2, <2>3
<1>6. CASE First.outcome # "symbols"
  <2>1. First.ptus = ptus
    BY <1>2, <1>6
  <2>2. CASE c.tries = "once"
    BY <1>3, <1>6, <2>1, <2>2
  <2>3. CASE c.tries # "once"
    <3>1. Second = ParseAndExecute(c, ptus, TRUE)
      BY <1>4, <2>1, <2>3
    <3>2. /\ Second.outcome = Outcome(c, ptus, TRUE)
          /\ Second.outcome = "ok" => Second.ptus = Append(ptus, Unit(c, TRUE))
          /\ Second.outcome \notin {"ok", "symbols"} => Second.ptus = ptus
      BY <1>0, <3>1, ParseUnits
    <3>3. Second.outcome # "symbols"
      <4>1. SUFFICES ASSUME Second.outcome = "symbols" PROVE FALSE
        OBVIOUS
      <4>2. c.lib # None
        BY <1>0, <1>1, <3>2, <4>1
      <4>3. c.tries = "again"
        BY <1>0, <2>3, <4>2 DEF OneUnitEach
      <4>4. First.outcome = Outcome(c, ptus, TRUE)
        BY <1>2, <4>3
      <4>. QED BY <1>6, <3>2, <4>1, <4>4
    <3>. QED BY <1>6, <3>2, <3>3
  <2>. QED BY <2>2, <2>3
<1>. QED BY <1>5, <1>6

(* A failure leaves what its attempts left, less the unit that did not link.  *)
LEMMA FailExact ==
  ASSUME Environment, OneUnitEach, TypeOK, pending # <<>>, initialized, StdLibStays,
         NEW why, NEW ps, Fail(why, ps)
  PROVE  /\ history' = history /\ StdLibStays'
         /\ why = "symbols" => ptus' = Recover(why, ps)
         /\ why # "symbols" => ptus' = ps
<1>0. job.code \in Inputs /\ initialized' = initialized
  BY JobType DEF TypeOK, Environment, Fail
<1>1. ~NeedsStdLib
  BY <1>0 DEF NeedsStdLib, OneUnitEach, StdLibStays
<1>2. CASE why = "redefinition" /\ job.code.kind = "decl" /\ variables[job.code.name] # None
  <2>1. ptus' = ps /\ history' = history /\ stdLibIncluded' = stdLibIncluded
    BY <1>2 DEF Fail, log
  <2>. QED BY <1>0, <1>2, <2>1 DEF StdLibStays
<1>3. CASE ~(why = "redefinition" /\ job.code.kind = "decl" /\ variables[job.code.name] # None)
  <2>1. stdLibIncluded' = stdLibIncluded /\ ptus' = Recover(why, ps) /\ UNCHANGED log
    BY <1>1, <1>3 DEF Fail, TypeOK
  <2>. QED BY <1>0, <2>1 DEF Recover, log, StdLibStays
<1>. QED BY <1>2, <1>3

(* eval() keeps units and entries in step. *)
LEMMA EvalExact ==
  ASSUME Environment, OneUnitEach, Books, AllPlain(pending), StdLibStays,
         InStep(history, ptus), EvalStep
  PROVE  (Restarts \/ Keeps \/ Adds) /\ StdLibStays'
<1>0. TypeOK /\ ptus \in Seq(Ptu) /\ pending # <<>> /\ job.code \in Inputs
  <2>1. pending # <<>>
    BY DEF EvalStep, DetectedUpgrade, ProactiveStdLib, Decide, Ready, Evaluate, Running,
           EvaluateOtherSpelling, EvaluationFails, UpgradeOnError, RetryAfterUpgrade
  <2>2. TypeOK /\ ptus \in Seq(Ptu)
    BY DEF Books, TypeOK
  <2>. QED BY <2>1, <2>2, JobType DEF TypeOK, Environment
<1>11. First.outcome = "ok" => Outcome(job.code, ptus, TRUE) = "ok"
  <2>1. First.outcome = Outcome(job.code, ptus, job.code.tries # "second")
    BY DEF First, ParseAndExecute
  <2>. QED BY <2>1 DEF Outcome
<1>1. CASE DetectedUpgrade
  BY <1>1, EnsureUnits DEF DetectedUpgrade
<1>2. CASE ProactiveStdLib
  <2>1. FALSE
    BY <1>0, <1>2 DEF ProactiveStdLib, NeedsStdLib, OneUnitEach, StdLibStays
  <2>. QED BY <2>1
<1>3. CASE Decide
  BY <1>3 DEF Decide, Keeps, StdLibStays, engine, log
<1>4. ASSUME Push(job.code), Outcome(job.code, ptus, TRUE) = "ok",
             ptus' = Append(ptus, Unit(job.code, TRUE)),
             UNCHANGED <<initialized, stdLibIncluded>>
      PROVE  Adds /\ StdLibStays'
  BY <1>0, <1>4 DEF Adds, Push, StdLibStays
<1>5. Recover("symbols", Append(ptus, Unit(job.code, FALSE))) = ptus
  <2> DEFINE qs == Append(ptus, Unit(job.code, FALSE))
  <2>1. Unit(job.code, FALSE) \in Ptu
    BY <1>0 DEF Unit, Ptu
  <2>2. qs \in Seq(Ptu) /\ Len(qs) = Len(ptus) + 1 /\ DropLast(qs, 1) = ptus
    BY <1>0, <2>1, ExtendsFacts
  <2>. HIDE DEF qs
  <2>3. qs # <<>>
    BY <1>0, <2>2
  <2>4. Recover("symbols", qs) = ptus
    BY <2>2, <2>3 DEF Recover
  <2>. QED BY <2>4 DEF qs
<1>6. CASE Evaluate
  <2>1. PICK shown \in Shown(job.code) : ptus' = First.ptus \o shown
    BY <1>6 DEF Evaluate
  <2>2. shown = <<>>
    <3>1. job.code.extra = 0
      BY <1>0 DEF OneUnitEach
    <3>2. PICK n \in 0..0 : shown \in [1..n -> {Unit(job.code, TRUE), Unit(job.code, FALSE)}]
      BY <2>1, <3>1 DEF Shown
    <3>3. shown \in Seq(Ptu)
      BY <1>0, <2>1, ShownType DEF Environment
    <3>4. DOMAIN shown = 1..0 /\ DOMAIN shown = 1..Len(shown) /\ Len(shown) \in Nat
      BY <3>2, <3>3
    <3>5. Len(shown) = 0
      BY <3>4
    <3>. QED BY <3>3, <3>5, EmptySeq
  <2>3. First.ptus \in Seq(Ptu) /\ First.ptus = Append(ptus, Unit(job.code, TRUE))
    BY <1>0, <1>6, AttemptUnits DEF Evaluate
  <2>4. ptus' = First.ptus
    BY <2>1, <2>2, <2>3, ConcatEmptySeq
  <2>. QED BY <1>4, <1>6, <1>11, <2>3, <2>4 DEF Evaluate
<1>7. CASE EvaluateOtherSpelling
  BY <1>0, <1>4, <1>7, AttemptsExact DEF EvaluateOtherSpelling
<1>8. CASE EvaluationFails
  <2>1. Fail(First.outcome, Second.ptus) /\ Second.outcome # "ok" /\ initialized
    BY <1>8 DEF EvaluationFails, Running, Verdict
  <2>2. First.outcome # "ok"
    BY <2>1 DEF Second
  <2>3. CASE First.outcome = "symbols"
    <3>1. Second.ptus = Append(ptus, Unit(job.code, FALSE))
      BY <1>0, <2>1, <2>2, <2>3, AttemptsExact
    <3>3. ptus' = ptus
      <4>1. ptus' = Recover("symbols", Second.ptus)
        BY <1>0, <2>1, <2>3, FailExact
      <4>. QED BY <1>5, <3>1, <4>1
    <3>. QED BY <1>0, <2>1, <3>3, FailExact DEF Keeps
  <2>4. CASE First.outcome # "symbols"
    <3>1. Second.ptus = ptus
      BY <1>0, <2>1, <2>2, <2>4, AttemptsExact
    <3>. QED BY <1>0, <2>1, <2>4, <3>1, FailExact DEF Keeps
  <2>. QED BY <2>3, <2>4
<1>9. CASE UpgradeOnError
  BY <1>9, EnsureUnits DEF UpgradeOnError
<1>10. CASE RetryAfterUpgrade
  <2>1. job.why # "symbols" /\ job.code.lib = None /\ job.code.uses = {}
    <3>1. Plain(job)
      BY <1>0, PlainFacts DEF job, TypeOK
    <3>. QED BY <1>10, <3>1 DEF Plain, RetryAfterUpgrade
  <2>2. CASE ~initialized
    BY <1>10, <2>2 DEF RetryAfterUpgrade, Keeps, StdLibStays, engine, log
  <2>3. CASE initialized /\ First.outcome = "ok"
    <3>1. Push(job.code) /\ ptus' = First.ptus /\ UNCHANGED <<initialized, stdLibIncluded>>
      BY <1>10, <2>3 DEF RetryAfterUpgrade
    <3>. QED BY <1>0, <1>4, <1>11, <2>3, <3>1, AttemptUnits
  <2>4. CASE initialized /\ First.outcome # "ok"
    <3>1. First.outcome # "symbols"
      BY <2>1, NoSymbols DEF First, ParseAndExecute
    <3>2. First.ptus = ptus
      BY <1>0, <2>4, <3>1, AttemptUnits
    <3>3. Fail(job.why, First.ptus)
      BY <1>10, <2>4 DEF RetryAfterUpgrade
    <3>. QED BY <1>0, <2>1, <2>4, <3>2, <3>3, FailExact DEF Keeps
  <2>. QED BY <2>2, <2>3, <2>4
<1>. QED BY <1>1, <1>2, <1>3, <1>6, <1>7, <1>8, <1>9, <1>10 DEF EvalStep

(* The parts of the invariant that speak of one state. *)
LEMMA InStepInit == Environment /\ Init => InStep(history, ptus) /\ StdLibStays
<1> SUFFICES ASSUME Environment, Init PROVE InStep(history, ptus) /\ StdLibStays
  OBVIOUS
<1>1. stdLibIncluded \in BOOLEAN /\ ptus \in Seq(Ptu) /\ history = <<>>
  BY TypeInit DEF TypeOK, Init
<1>2. NoInput(ptus)
  BY <1>1, PreambleUnits DEF Init
<1>3. StdLibStays
  BY DEF Init, StdLibStays
<1>. QED BY <1>1, <1>2, <1>3, InStepEmpty

(* A step keeps units and entries in step in one of four ways. *)
LEMMA UnitsStep ==
  ASSUME Environment, OneUnitEach, Books, AllPlain(pending), StdLibStays,
         InStep(history, ptus), [Next]_vars
  PROVE  (Restarts \/ Keeps \/ Adds \/ Cuts) /\ StdLibStays'
<1>1. CASE EvalStep
  BY <1>1, EvalExact
<1>2. CASE StackCommand \/ EvalCommand \/ OptionCommand
  BY <1>2, CommandMoves DEF Moves
<1>3. CASE UNCHANGED vars
  BY <1>3 DEF Keeps, StdLibStays, vars, engine, log
<1>. QED BY <1>1, <1>2, <1>3 DEF Next

(* Every step keeps units and entries in step. *)
LEMMA InStepNext ==
  ASSUME Environment, OneUnitEach, Books, AllPlain(pending), StdLibStays,
         InStep(history, ptus), [Next]_vars
  PROVE  InStep(history, ptus)' /\ StdLibStays'
<1>0. /\ history \in Seq(Inputs) /\ ptus \in Seq(Ptu) /\ ptus' \in Seq(Ptu)
  BY TypeNext DEF Books, TypeOK
<1>1. (Restarts \/ Keeps \/ Adds \/ Cuts) /\ StdLibStays'
  BY UnitsStep
<1>2. CASE Restarts
  BY <1>0, <1>1, <1>2, InStepEmpty DEF Restarts
<1>3. CASE Keeps
  BY <1>1, <1>3 DEF Keeps
<1>4. CASE Adds
  <2>1. PICK c \in Inputs :
          history' = Append(history, c) /\ ptus' = Append(ptus, Unit(c, TRUE))
    BY <1>4 DEF Adds
  <2>2. InStep(Append(history, c), Append(ptus, Unit(c, TRUE)))
    BY <1>0, InStepAppend
  <2>. QED BY <1>1, <2>1, <2>2
<1>5. CASE Cuts
  <2>1. PICK n \in 0..Len(ptus) :
          /\ ptus' = DropLast(ptus, n)
          /\ history' = DropLast(history, IF n < Len(history) THEN n ELSE Len(history))
    BY <1>5 DEF Cuts
  <2>2. InStep(DropLast(history, IF n < Len(history) THEN n ELSE Len(history)),
               DropLast(ptus, n))
    BY <1>0, InStepCut
  <2>. QED BY <1>1, <2>1, <2>2
<1>. QED BY <1>1, <1>2, <1>3, <1>4, <1>5

(* If moreover every accepted input leaves one unit, then undo, removal,      *)
(* failures and replays leave no name behind and lose none; a unit more than  *)
(* entries is enough for one to stay (run undo_names).                        *)
THEOREM NoNameStays ==
  OneUnitEach /\ (Steady \/ HintsAreNoSymbols) => (Spec => []NoNameLeftBehind)
<1> SUFFICES ASSUME OneUnitEach, Steady \/ HintsAreNoSymbols PROVE Spec => []NoNameLeftBehind
  OBVIOUS
<1> DEFINE I == Books /\ AtTop /\ AllPlain(pending) /\ StdLibStays /\ InStep(history, ptus)
<1>1. Init => I
  BY BooksInit, TopStays, InPlaceInit, InStepInit, EnvironmentHolds
<1>2. I /\ [Next]_vars => I'
  <2> SUFFICES ASSUME I, [Next]_vars PROVE I'
    OBVIOUS
  <2>1. Books' /\ AtTop'
    BY BooksNext, TopStays, EnvironmentHolds
  <2>2. HintsPlain
    BY HintsAndStandards, EnvironmentHolds DEF Books
  <2>3. AllPlain(pending)'
    BY <2>2, PlainEval, PlainCommand, EnvironmentHolds DEF Next, vars, Books
  <2>4. InStep(history, ptus)' /\ StdLibStays'
    BY InStepNext, EnvironmentHolds
  <2>. QED BY <2>1, <2>3, <2>4
<1>3. I => NoNameLeftBehind
  <2> SUFFICES ASSUME I PROVE NoNameLeftBehind
    OBVIOUS
  <2>1. history \in Seq(Inputs) /\ ptus \in Seq(Ptu)
    BY DEF Books, TypeOK
  <2>. QED BY <2>1, InStepNames DEF NoNameLeftBehind
<1>. QED BY <1>1, <1>2, <1>3, PTL DEF Spec
--------------------------------------------------------------------------------
(* Replays: where they keep every entry.                                      *)

(* What can be replayed at all: the libraries a rebuild finds again are those *)
(* the options name (loadLibrary's are forgotten); an accepted input is not   *)
(* refused by a stricter sandbox, nor before it reaches clang; and what the   *)
(* table calls a declaration of a name declares it.                           *)
Replayable ==
  /\ \A l \in Libs : None \notin FoundIn[l]
  /\ \A c \in Inputs :
       /\ c.text = "code" /\ ~c.dangerous
       /\ c.kind = "decl" => c.name \in c.declares

(* Every entry uses what earlier ones declare, and declares none of it again. *)
NamesBefore(h, k) == UNION {h[j].declares : j \in 1..(k - 1)}
ClosedAt(h, k) ==
  h[k].uses \subseteq NamesBefore(h, k) /\ h[k].declares \cap NamesBefore(h, k) = {}
Closed(h) == \A k \in DOMAIN h : ClosedAt(h, k)

(* The options and the engine have what an input needs. *)
Suits(c, incs, libs, v) ==
  c.header \in incs \cup {None} /\ c.lib \in libs \cup {None} /\ v \in c.valid
AllSuit(h, incs, libs, v) == \A k \in DOMAIN h : Suits(h[k], incs, libs, v)

(* What a history declares. *)
NamesOf(h) == UNION {h[k].declares : k \in DOMAIN h}

(* Cutting a closed history, or adding what finds its names, leaves it closed. *)
LEMMA ClosedFacts ==
  /\ Closed(<<>>)
  /\ \A h \in Seq(Inputs), n \in Nat : n <= Len(h) /\ Closed(h) => Closed(DropLast(h, n))
  /\ \A h \in Seq(Inputs), c \in Inputs :
       Closed(h) /\ c.uses \subseteq NamesOf(h) /\ c.declares \cap NamesOf(h) = {}
         => Closed(Append(h, c))
<1>1. Closed(<<>>)
  BY DEF Closed
<1>2. ASSUME NEW h \in Seq(Inputs), NEW n \in Nat, n <= Len(h), Closed(h)
      PROVE  Closed(DropLast(h, n))
  <2> DEFINE g == DropLast(h, n)
             r == Len(h) - n
  <2>1. g \in Seq(Inputs) /\ Len(g) = r /\ \A k \in 1..r : g[k] = h[k]
    BY <1>2, ShorterSequences
  <2>2. r \in Nat /\ Len(h) \in Nat /\ r <= Len(h) /\ DOMAIN h = 1..Len(h)
    BY <1>2
  <2>. HIDE DEF g, r
  <2>3. DOMAIN g = 1..r
    BY <2>1
  <2>4. ASSUME NEW k \in 1..r PROVE ClosedAt(g, k)
    <3>1. k \in DOMAIN h /\ g[k] = h[k] /\ \A j \in 1..(k - 1) : g[j] = h[j]
      <4>1. \A j \in 1..(k - 1) : j \in 1..r
        BY <2>2
      <4>. QED BY <2>1, <2>2, <4>1
    <3>2. NamesBefore(g, k) = NamesBefore(h, k)
      BY <3>1 DEF NamesBefore
    <3>. QED BY <1>2, <3>1, <3>2 DEF Closed, ClosedAt
  <2>5. Closed(g)
    BY <2>3, <2>4 DEF Closed
  <2>. QED BY <2>5 DEF g
<1>3. ASSUME NEW h \in Seq(Inputs), NEW c \in Inputs, Closed(h), c.uses \subseteq NamesOf(h),
             c.declares \cap NamesOf(h) = {}
      PROVE  Closed(Append(h, c))
  <2> DEFINE g == Append(h, c)
  <2>1. /\ g \in Seq(Inputs) /\ Len(g) = Len(h) + 1 /\ g[Len(h) + 1] = c
        /\ \A k \in 1..Len(h) : g[k] = h[k]
    BY AppendProperties
  <2>2. Len(h) \in Nat /\ DOMAIN h = 1..Len(h)
    OBVIOUS
  <2>. HIDE DEF g
  <2>3. DOMAIN g = 1..(Len(h) + 1)
    BY <2>1
  <2>4. ASSUME NEW k \in 1..Len(h) PROVE ClosedAt(g, k)
    <3>1. k \in DOMAIN h /\ g[k] = h[k] /\ \A j \in 1..(k - 1) : g[j] = h[j]
      <4>1. \A j \in 1..(k - 1) : j \in 1..Len(h)
        BY <2>2
      <4>. QED BY <2>1, <2>2, <4>1
    <3>2. NamesBefore(g, k) = NamesBefore(h, k)
      BY <3>1 DEF NamesBefore
    <3>. QED BY <1>3, <3>1, <3>2 DEF Closed, ClosedAt
  <2>5. ClosedAt(g, Len(h) + 1)
    <3>1. (Len(h) + 1) - 1 = Len(h)
      BY <2>2
    <3>2. NamesBefore(g, Len(h) + 1) = NamesOf(h)
      BY <2>1, <2>2, <3>1 DEF NamesBefore, NamesOf
    <3>. QED BY <1>3, <2>1, <3>2 DEF ClosedAt
  <2>6. Closed(g)
    <3>1. \A k \in 1..(Len(h) + 1) : k \in 1..Len(h) \/ k = Len(h) + 1
      BY <2>2
    <3>. QED BY <2>3, <2>4, <2>5, <3>1 DEF Closed
  <2>. QED BY <2>6 DEF g
<1>. QED BY <1>1, <1>2, <1>3

(* The next entry to replay finds the names it needs and none of its own. *)
LEMMA ClosedNext ==
  ASSUME NEW h \in Seq(Inputs), NEW g \in Seq(Inputs), g # <<>>, Closed(h \o g)
  PROVE  /\ Head(g).uses \subseteq NamesOf(h) /\ Head(g).declares \cap NamesOf(h) = {}
         /\ Append(h, Head(g)) \o Tail(g) = h \o g
<1> DEFINE s == h \o g
           n == Len(h) + 1
<1>1. /\ Len(h) \in Nat /\ Len(g) \in Nat /\ Len(g) > 0 /\ DOMAIN h = 1..Len(h)
      /\ Head(g) = g[1] /\ Head(g) \in Inputs /\ Tail(g) \in Seq(Inputs)
  BY HeadTailProperties
<1>2. /\ s \in Seq(Inputs) /\ Len(s) = Len(h) + Len(g)
      /\ \A k \in 1..Len(h) : s[k] = h[k]
      /\ s[n] = g[1]
  BY <1>1
<1>3. n \in DOMAIN s /\ n - 1 = Len(h)
  BY <1>1
<1>. HIDE DEF s, n
<1>4. NamesBefore(s, n) = NamesOf(h)
  BY <1>1, <1>2, <1>3 DEF NamesBefore, NamesOf
<1>5. ClosedAt(s, n)
  BY <1>3 DEF Closed, s
<1>6. Append(h, Head(g)) \o Tail(g) = h \o g
  BY <1>1
<1>. QED BY <1>1, <1>2, <1>4, <1>5, <1>6 DEF ClosedAt
--------------------------------------------------------------------------------
(* The options, and that the history can be replayed under them.              *)

(* The engine has no library that the options do not name. *)
LibsAsked == loaded \subseteq {l \in libraries : Loads(l, libraryPaths)}
(* The options and the libraries of a history that goes on only grow. *)
Grown == version' = version /\ includePaths \subseteq includePaths' /\ loaded \subseteq loaded'
(* A step leaves the options alone. *)
SameOptions == UNCHANGED <<loaded, version, includePaths, libraryPaths, libraries>>

(* A new engine is given what the options name, *)
LEMMA OptionsBoot ==
  ASSUME NEW v, NEW incs, NEW lps, NEW libs, NEW ok, Boot(v, incs, lps, libs, ok)
  PROVE  LibsAsked'
BY DEF Boot, LibsAsked

(* and nothing changes where they do not. *)
LEMMA OptionsSame ==
  ASSUME LibsAsked, SameOptions
  PROVE  LibsAsked' /\ Grown
BY DEF LibsAsked, SameOptions, Grown

(* What a step does to the options and the libraries. *)
LEMMA OptionsStep ==
  ASSUME Environment, Books, Replayable, LibsAsked, [Next]_vars
  PROVE  LibsAsked' /\ (history' = <<>> \/ Grown)
<1> DEFINE Goal == LibsAsked' /\ (history' = <<>> \/ Grown)
<1> SUFFICES Goal
  OBVIOUS
<1>1. ASSUME NEW v, NEW ok \in InitOutcomes, EnsureVersion(v, ok) PROVE Goal
  BY <1>1, EnsureUnits, OptionsBoot DEF EnsureVersion, Restarts
<1>2. ASSUME NEW v, NEW incs, NEW lps, NEW libs, NEW ok, Reboot(v, incs, lps, libs, ok)
      PROVE  Goal
  BY <1>2, OptionsBoot DEF Reboot, DropLog
<1>3. ASSUME SameOptions PROVE Goal
  BY <1>3, OptionsSame
<1>. HIDE DEF Goal
<1>4. CASE DetectedUpgrade \/ UpgradeOnError
  BY <1>1, <1>4 DEF DetectedUpgrade, UpgradeOnError
<1>5. CASE ProactiveStdLib \/ Decide \/ Evaluate \/ EvaluateOtherSpelling
  BY <1>3, <1>5
     DEF ProactiveStdLib, Decide, Evaluate, EvaluateOtherSpelling, engine, options, SameOptions
<1>6. CASE EvaluationFails \/ RetryAfterUpgrade
  BY <1>3, <1>6 DEF EvaluationFails, RetryAfterUpgrade, Fail, engine, options, SameOptions
<1>7. CASE EvalCommand
  BY <1>1, <1>3, <1>7 DEF EvalCommand, Eval, EvalAuto, engine, options, SameOptions
<1>8. ASSUME NEW r, Refuse(r) PROVE Goal
  BY <1>3, <1>8 DEF Refuse, engine, options, SameOptions
<1>9. ASSUME NEW n, UndoUnits(n) PROVE Goal
  BY <1>3, <1>8, <1>9 DEF UndoUnits, options, SameOptions
<1>10. ASSUME NEW n, NEW jobs, Forget(n, jobs) PROVE Goal
  BY <1>2, <1>3, <1>10 DEF Forget, engine, options, SameOptions
<1>11. ASSUME NEW incs, NEW lps, NEW jobs, Rebuild(incs, lps, jobs) PROVE Goal
  BY <1>2, <1>11 DEF Rebuild
<1>12. ASSUME NEW ok, ResetTo(ok) PROVE Goal
  BY <1>2, <1>12 DEF ResetTo
<1>13. CASE StackClear
  BY <1>3, <1>12, <1>13 DEF StackClear, engine, options, SameOptions
<1>14. ASSUME NEW i, NEW j, StackSwap(i, j) PROVE Goal
  BY <1>8, <1>11, <1>14 DEF StackSwap
<1>15. CASE StackCommand
  BY <1>8, <1>9, <1>10, <1>12, <1>13, <1>14, <1>15
     DEF StackCommand, Undo, StackPop, StackRemove, StackSet, Reset
<1>16. ASSUME NEW p, AddIncludePath(p) \/ AddLibraryPath(p) PROVE Goal
  BY <1>8, <1>11, <1>16 DEF AddIncludePath, AddLibraryPath
<1>17. ASSUME NEW l \in Libs, AddLibrary(l) PROVE Goal
  BY <1>17 DEF AddLibrary, LibsAsked, Grown, Goal
<1>18. ASSUME NEW l \in Libs, LoadLibrary(l) PROVE Goal
  <2>1. ~Loads(l, {})
    BY DEF Replayable, Loads
  <2>. QED BY <1>3, <1>18, <2>1 DEF LoadLibrary, options, SameOptions
<1>19. ASSUME NEW b, SetSecurityConfig(b) PROVE Goal
  BY <1>3, <1>19 DEF SetSecurityConfig, engine, SameOptions
<1>20. CASE UNCHANGED vars
  BY <1>3, <1>20 DEF vars, engine, options, SameOptions
<1>. QED
  BY <1>4, <1>5, <1>6, <1>7, <1>15, <1>16, <1>17, <1>18, <1>19, <1>20
     DEF Next, EvalStep, OptionCommand

(* The history can be replayed as it is. *)
HistoryFits == Closed(history) /\ AllSuit(history, includePaths, loaded, version)

(* Suiting a list is suiting each of its inputs. *)
LEMMA SuitFacts ==
  /\ \A incs, libs, v : AllSuit(<<>>, incs, libs, v)
  /\ \A h \in Seq(Inputs), n \in Nat : \A incs, libs, v :
       n <= Len(h) /\ AllSuit(h, incs, libs, v) => AllSuit(DropLast(h, n), incs, libs, v)
  /\ \A h \in Seq(Inputs), c \in Inputs : \A incs, libs, v :
       AllSuit(h, incs, libs, v) /\ Suits(c, incs, libs, v) => AllSuit(Append(h, c), incs, libs, v)
  /\ \A h \in Seq(Inputs) : \A incs, libs, v : h # <<>> /\ AllSuit(h, incs, libs, v) =>
       Suits(Head(h), incs, libs, v) /\ AllSuit(Tail(h), incs, libs, v)
<1>1. \A incs, libs, v : AllSuit(<<>>, incs, libs, v)
  BY DEF AllSuit
<1>2. ASSUME NEW h \in Seq(Inputs), NEW n \in Nat, NEW incs, NEW libs, NEW v, n <= Len(h),
             AllSuit(h, incs, libs, v)
      PROVE  AllSuit(DropLast(h, n), incs, libs, v)
  <2> DEFINE g == DropLast(h, n)
  <2>1. g \in Seq(Inputs) /\ \A k \in DOMAIN g : k \in DOMAIN h /\ g[k] = h[k]
    <3>1. g \in Seq(Inputs) /\ Len(g) = Len(h) - n /\ \A k \in 1..(Len(h) - n) : g[k] = h[k]
      BY <1>2, ShorterSequences
    <3>2. DOMAIN h = 1..Len(h) /\ Len(h) \in Nat
      OBVIOUS
    <3>. HIDE DEF g
    <3>. QED BY <3>1, <3>2
  <2>. HIDE DEF g
  <2>2. AllSuit(g, incs, libs, v)
    BY <1>2, <2>1 DEF AllSuit
  <2>. QED BY <2>2 DEF g
<1>3. ASSUME NEW h \in Seq(Inputs), NEW c \in Inputs, NEW incs, NEW libs, NEW v,
             AllSuit(h, incs, libs, v), Suits(c, incs, libs, v)
      PROVE  AllSuit(Append(h, c), incs, libs, v)
  <2>1. \A k \in DOMAIN Append(h, c) :
          (k \in DOMAIN h /\ Append(h, c)[k] = h[k]) \/ Append(h, c)[k] = c
    OBVIOUS
  <2>. QED BY <1>3, <2>1 DEF AllSuit
<1>4. ASSUME NEW h \in Seq(Inputs), NEW incs, NEW libs, NEW v, h # <<>>,
             AllSuit(h, incs, libs, v)
      PROVE  Suits(Head(h), incs, libs, v) /\ AllSuit(Tail(h), incs, libs, v)
  <2>1. /\ 1 \in DOMAIN h /\ Head(h) = h[1]
        /\ \A k \in DOMAIN Tail(h) : k + 1 \in DOMAIN h /\ Tail(h)[k] = h[k + 1]
    BY <1>4, HeadTailProperties
  <2>. QED BY <1>4, <2>1 DEF AllSuit
<1>. QED BY <1>1, <1>2, <1>3, <1>4

(* What suits goes on suiting. *)
LEMMA SuitsGrow ==
  ASSUME NEW h, AllSuit(h, includePaths, loaded, version), Grown
  PROVE  AllSuit(h, includePaths', loaded', version')
BY DEF AllSuit, Suits, Grown

(* What clang accepts. *)
LEMMA AcceptedFits ==
  ASSUME Books, InStep(history, ptus), NEW c \in Inputs, Outcome(c, ptus, TRUE) = "ok"
  PROVE  /\ c.uses \subseteq NamesOf(history) /\ c.declares \cap NamesOf(history) = {}
         /\ Suits(c, includePaths, loaded, version)
<1>1. Declared(ptus) = NamesOf(history)
  BY InStepNames DEF Books, TypeOK, NamesOf
<1>2. /\ c.uses \subseteq Declared(ptus) /\ c.header \in includePaths \cup {None}
      /\ version \in c.valid /\ c.declares \cap Declared(ptus) = {}
      /\ c.lib \in loaded \cup {None}
  BY DEF Outcome
<1>. QED BY <1>1, <1>2 DEF Suits

(* A history that can be replayed stays one. *)
LEMMA HistoryFitsNext ==
  ASSUME Environment, OneUnitEach, Replayable, Books, AllPlain(pending),
         StdLibStays, InStep(history, ptus), LibsAsked, HistoryFits, [Next]_vars
  PROVE  HistoryFits'
<1>0. history \in Seq(Inputs) /\ Len(history) \in Nat /\ ptus \in Seq(Ptu) /\ Len(ptus) \in Nat
  BY DEF Books, TypeOK
<1>1. Restarts \/ Keeps \/ Adds \/ Cuts
  BY UnitsStep
<1>2. CASE history' = <<>>
  BY <1>2, ClosedFacts, SuitFacts DEF HistoryFits
<1>3. CASE history' # <<>>
  <2>1. Grown
    BY <1>3, OptionsStep
  <2>2. AllSuit(history, includePaths', loaded', version') /\ Closed(history)
    BY <2>1, SuitsGrow DEF HistoryFits
  <2>3. CASE Keeps
    BY <2>2, <2>3 DEF Keeps, HistoryFits
  <2>4. CASE Adds
    <3>1. PICK c \in Inputs : Outcome(c, ptus, TRUE) = "ok" /\ history' = Append(history, c)
      BY <2>4 DEF Adds
    <3>2. /\ c.uses \subseteq NamesOf(history) /\ c.declares \cap NamesOf(history) = {}
          /\ Suits(c, includePaths, loaded, version)
      BY <3>1, AcceptedFits
    <3>3. Suits(c, includePaths', loaded', version')
      BY <2>1, <3>2 DEF Suits, Grown
    <3>4. Closed(Append(history, c))
      BY <1>0, <2>2, <3>2, ClosedFacts
    <3>5. AllSuit(Append(history, c), includePaths', loaded', version')
      BY <1>0, <2>2, <3>3, SuitFacts
    <3>. QED BY <3>1, <3>4, <3>5 DEF HistoryFits
  <2>5. CASE Cuts
    <3>1. PICK n \in 0..Len(ptus) :
            history' = DropLast(history, IF n < Len(history) THEN n ELSE Len(history))
      BY <2>5 DEF Cuts
    <3> DEFINE d == IF n < Len(history) THEN n ELSE Len(history)
    <3>2. d \in Nat /\ d <= Len(history) /\ history' = DropLast(history, d)
      BY <1>0, <3>1
    <3>. HIDE DEF d
    <3>3. Closed(DropLast(history, d))
      BY <1>0, <2>2, <3>2, ClosedFacts
    <3>4. AllSuit(DropLast(history, d), includePaths', loaded', version')
      BY <1>0, <2>2, <3>2, SuitFacts
    <3>. QED BY <3>2, <3>3, <3>4 DEF HistoryFits
  <2>. QED BY <1>1, <1>3, <2>3, <2>4, <2>5 DEF Restarts
<1>. QED BY <1>2, <1>3
--------------------------------------------------------------------------------
(* The queue of replays, and the entry at its head.                           *)

(* The engine an upgrade or a new path has built. *)
EngineReady == initialized /\ (StdLibOutcomes = {TRUE} => Unit(StdLib, TRUE) \in Units(ptus))

(* Entries to replay, then the command's own evaluation. *)
Queued(js, g, own) ==
  /\ g \in Seq(Inputs) /\ own \in Seq(Job) /\ js = Replays(g, "replay") \o own
  /\ \A k \in DOMAIN own : own[k].as = "eval"

(* What an upgrade or a new path has still to replay goes on from the history *)
(* without a gap.                                                             *)
Replaying == cmd.op \in {"eval", "option"}
QueueFits ==
  Replaying =>
    \E g, own : /\ Queued(pending, g, own) /\ Closed(history \o g)
                /\ AllSuit(g, includePaths, loaded, version)
                /\ g # <<>> => EngineReady

(* How a queue of replays is taken apart and put together. *)
LEMMA QueuedFacts ==
  /\ Queued(<<>>, <<>>, <<>>)
  /\ \A h \in Seq(Inputs) : Queued(Replays(h, "replay"), h, <<>>)
  /\ \A js \in Seq(Job) : (\A k \in DOMAIN js : js[k].as = "eval") <=> Queued(js, <<>>, js)
  /\ \A js, own : Queued(js, <<>>, own) => js = own
  /\ \A js, g, own : Queued(js, g, own) /\ g # <<>> =>
       /\ js # <<>> /\ Head(js) = [code |-> Head(g), as |-> "replay", why |-> "fresh"]
       /\ Queued(Tail(js), Tail(g), own)
  /\ \A own, g : Queued(own, <<>>, own) /\ g \in Seq(Inputs) =>
       Queued(Replays(g, "replay") \o own, g, own)
<1>0. Replays(<<>>, "replay") = <<>>
  BY DEF Replays
<1>1. \A h \in Seq(Inputs) : Replays(h, "replay") \in Seq(Job)
  BY ReplaysType
<1>2. <<>> \in Seq(Inputs) /\ <<>> \in Seq(Job) /\ DOMAIN <<>> = {}
  OBVIOUS
<1>3. \A js \in Seq(Job) : js \o <<>> = js /\ <<>> \o js = js
  BY ConcatEmptySeq
<1>4. Queued(<<>>, <<>>, <<>>)
  BY <1>0, <1>2, <1>3 DEF Queued
<1>5. \A h \in Seq(Inputs) : Queued(Replays(h, "replay"), h, <<>>)
  BY <1>1, <1>2, <1>3 DEF Queued
<1>6. \A js \in Seq(Job) : (\A k \in DOMAIN js : js[k].as = "eval") <=> Queued(js, <<>>, js)
  BY <1>0, <1>2, <1>3 DEF Queued
<1>7. \A js, own : Queued(js, <<>>, own) => js = own
  BY <1>0, <1>3 DEF Queued
<1>8. ASSUME NEW js, NEW g, NEW own, Queued(js, g, own), g # <<>>
      PROVE  /\ js # <<>> /\ Head(js) = [code |-> Head(g), as |-> "replay", why |-> "fresh"]
             /\ Queued(Tail(js), Tail(g), own)
  <2> DEFINE rs == Replays(g, "replay")
             ts == Replays(Tail(g), "replay")
  <2>1. /\ g \in Seq(Inputs) /\ own \in Seq(Job) /\ js = rs \o own
        /\ \A k \in DOMAIN own : own[k].as = "eval"
    BY <1>8 DEF Queued
  <2>2. /\ Len(g) \in Nat /\ Len(g) > 0 /\ Head(g) = g[1] /\ Tail(g) \in Seq(Inputs)
        /\ Len(Tail(g)) = Len(g) - 1 /\ \A k \in 1..(Len(g) - 1) : Tail(g)[k] = g[k + 1]
    BY <1>8, <2>1, HeadTailProperties
  <2>3. rs \in Seq(Job) /\ ts \in Seq(Job) /\ Len(rs) = Len(g) /\ Len(ts) = Len(g) - 1
    BY <2>1, <2>2, ReplaysType
  <2>4. \A k \in 1..Len(g) : rs[k] = [code |-> g[k], as |-> "replay", why |-> "fresh"]
    BY DEF Replays
  <2>5. \A k \in 1..(Len(g) - 1) :
          ts[k] = [code |-> Tail(g)[k], as |-> "replay", why |-> "fresh"]
    BY <2>2 DEF Replays
  <2>. HIDE DEF rs, ts
  <2>6. \A k \in 1..(Len(g) - 1) : ts[k] = rs[k + 1]
    <3>1. \A k \in 1..(Len(g) - 1) : k + 1 \in 1..Len(g)
      BY <2>2
    <3>. QED BY <2>2, <2>4, <2>5, <3>1
  <2>7. Head(rs) = [code |-> Head(g), as |-> "replay", why |-> "fresh"] /\ rs # <<>>
    <3>1. rs # <<>> /\ Head(rs) = rs[1] /\ 1 \in 1..Len(g)
      BY <2>2, <2>3
    <3>. QED BY <2>2, <2>4, <3>1
  <2>8. Tail(rs) = ts
    <3>1. /\ Tail(rs) \in Seq(Job) /\ Len(Tail(rs)) = Len(g) - 1
          /\ \A k \in 1..(Len(g) - 1) : Tail(rs)[k] = rs[k + 1]
      BY <2>2, <2>3, <2>7, HeadTailProperties
    <3>. QED BY <2>3, <2>6, <3>1, SeqEqual
  <2>9. js # <<>> /\ Head(js) = Head(rs) /\ Tail(js) = Tail(rs) \o own
    BY <2>1, <2>3, <2>7
  <2>. QED BY <2>1, <2>2, <2>7, <2>8, <2>9 DEF Queued, ts
<1>9. ASSUME NEW own, NEW g \in Seq(Inputs), Queued(own, <<>>, own)
      PROVE  Queued(Replays(g, "replay") \o own, g, own)
  BY <1>9 DEF Queued
<1>. QED BY <1>4, <1>5, <1>6, <1>7, <1>8, <1>9

(* A new engine is ready for a replay. *)
LEMMA BootReady ==
  ASSUME Environment, NEW v, NEW incs, NEW lps, NEW libs, Boot(v, incs, lps, libs, TRUE)
  PROVE  EngineReady'
<1> DEFINE pre == [k \in 1..Preambles |-> Unit(Preamble, TRUE)]
           u == Unit(StdLib, TRUE)
<1>1. initialized' = TRUE
  BY DEF Boot
<1>2. StdLibOutcomes = {TRUE} => ptus' = pre \o <<u>>
  BY DEF Boot
<1>3. pre \in Seq(Ptu) /\ u \in Ptu
  BY DEF Unit, Ptu, Environment, BoundsAssumption
<1>. HIDE DEF pre, u
<1>4. /\ pre \o <<u>> \in Seq(Ptu) /\ Len(pre \o <<u>>) = Len(pre) + 1
      /\ (pre \o <<u>>)[Len(pre) + 1] = u
      /\ Len(pre) \in Nat
  BY <1>3
<1>5. u \in Units(pre \o <<u>>)
  <2> DEFINE qs == pre \o <<u>>
  <2>1. qs \in Seq(Ptu) /\ Len(qs) = Len(pre) + 1 /\ qs[Len(pre) + 1] = u /\ Len(pre) \in Nat
    BY <1>4
  <2>. HIDE DEF qs
  <2>2. Len(pre) + 1 \in DOMAIN qs
    BY <2>1
  <2>3. u \in Units(qs)
    BY <2>1, <2>2 DEF Units
  <2>. QED BY <2>3 DEF qs
<1>. QED BY <1>1, <1>2, <1>5 DEF EngineReady, u

(* What suited the old engine suits the one a rebuild makes. *)
LEMMA BootSuits ==
  ASSUME TypeOK, StaysValid, LibsAsked, NEW v \in Versions, v >= version, NEW incs, NEW lps,
         includePaths \subseteq incs, libraryPaths \subseteq lps,
         Boot(v, incs, lps, libraries, TRUE),
         NEW h \in Seq(Inputs), AllSuit(h, includePaths, loaded, version)
  PROVE  AllSuit(h, includePaths', loaded', version')
<1>1. /\ includePaths' = incs /\ version' = v
      /\ loaded' = {l \in libraries : Loads(l, lps)}
  BY DEF Boot
<1>2. loaded \subseteq loaded'
  BY <1>1 DEF LibsAsked, Loads
<1>3. ASSUME NEW k \in DOMAIN h PROVE Suits(h[k], includePaths', loaded', version')
  <2>1. /\ h[k] \in Inputs /\ h[k].header \in includePaths \cup {None}
        /\ h[k].lib \in loaded \cup {None} /\ version \in h[k].valid
    BY DEF AllSuit, Suits
  <2>2. v \in h[k].valid
    BY <2>1 DEF StaysValid, TypeOK, Versions
  <2>. QED BY <1>1, <1>2, <2>1, <2>2 DEF Suits
<1>. QED BY <1>3 DEF AllSuit

(* All that is known of a state in which a replay can go on. *)
Sound ==
  /\ Books /\ RecordedIsInHistory /\ HistoryFitsVersion /\ AllPlain(pending) /\ StdLibStays
  /\ InStep(history, ptus) /\ LibsAsked /\ HistoryFits

(* The entry to be replayed is accepted, and nothing else happens. *)
LEMMA ReplayStep ==
  ASSUME Environment, OneUnitEach, Replayable, Sound, NEW g, NEW own,
         Queued(pending, g, own), g # <<>>, Closed(history \o g),
         AllSuit(g, includePaths, loaded, version), EngineReady, EvalStep
  PROVE  /\ history' = Append(history, Head(g)) /\ pending' = Tail(pending)
         /\ ptus' = Append(ptus, Unit(Head(g), TRUE))
         /\ UNCHANGED <<cmd, initialized, loaded, version, includePaths>>
<1> DEFINE c == job.code
<1>0. /\ g \in Seq(Inputs) /\ TypeOK /\ history \in Seq(Inputs) /\ ptus \in Seq(Ptu)
      /\ pending # <<>> /\ InStep(history, ptus) /\ initialized
  BY QueuedFacts DEF Queued, Sound, Books, TypeOK, EngineReady
<1>1. job.code = Head(g) /\ job.as = "replay" /\ job.why = "fresh" /\ c \in Inputs
  <2>1. job = [code |-> Head(g), as |-> "replay", why |-> "fresh"]
    BY QueuedFacts DEF job
  <2>2. Head(g) \in Inputs
    BY <1>0, HeadTailProperties
  <2>. QED BY <2>1, <2>2
<1>2. /\ c.uses \subseteq NamesOf(history) /\ c.declares \cap NamesOf(history) = {}
      /\ Suits(c, includePaths, loaded, version)
  <2>1. Suits(Head(g), includePaths, loaded, version)
    BY <1>0, SuitFacts
  <2>. QED BY <1>0, <1>1, <2>1, ClosedNext
<1>3. ~NeedsUpgrade
  <2>1. 1 \in DOMAIN pending /\ job = pending[1]
    BY <1>0, HeadTailProperties DEF job, TypeOK
  <2>2. Settled(job)
    BY <1>1 DEF Settled
  <2>3. c.detects <= version
    BY <2>1, <2>2 DEF Sound, HistoryFitsVersion
  <2>4. c.detects \in Versions /\ version \in Versions
    BY <1>0, <1>1 DEF TypeOK, Environment, InputsAssumption, InputType
  <2>. QED BY <2>3, <2>4 DEF NeedsUpgrade, Versions
<1>4. ~NeedsStdLib
  BY <1>0, <1>1 DEF NeedsStdLib, OneUnitEach, Sound, StdLibStays
<1>5. Verdict(c) = "run"
  <2>1. ~Redeclares(c)
    <3>1. SUFFICES ASSUME Redeclares(c) PROVE FALSE
      OBVIOUS
    <3>2. c.kind = "decl" /\ variables[c.name] # None
      BY <3>1 DEF Redeclares, Sound, Books, CopiesAgree
    <3>3. c.name \in Names
      BY <1>1 DEF Environment, InputsAssumption, InputType
    <3>4. PICK k \in DOMAIN history : Declares(history[k], c.name)
      BY <3>2, <3>3 DEF Sound, RecordedIsInHistory
    <3>5. history[k] \in Inputs
      BY <1>0
    <3>6. c.name \in history[k].declares /\ c.name \in c.declares
      BY <1>1, <3>2, <3>4, <3>5 DEF Declares, Replayable
    <3>. QED BY <1>2, <3>6 DEF NamesOf
  <2>. QED BY <1>0, <1>1, <2>1 DEF Verdict, Replayable
<1>6. Outcome(c, ptus, TRUE) = "ok"
  <2>1. Declared(ptus) = NamesOf(history) /\ Broken(ptus) = {}
    BY <1>0, InStepNames DEF NamesOf
  <2>2. c.std => Unit(StdLib, TRUE) \in Units(ptus)
    BY <1>1 DEF EngineReady, OneUnitEach
  <2>3. /\ c.uses \subseteq Declared(ptus) /\ c.declares \cap Declared(ptus) = {}
        /\ c.uses \cap Broken(ptus) = {}
    BY <1>2, <2>1
  <2>4. /\ c.header \in includePaths \cup {None} /\ c.lib \in loaded \cup {None}
        /\ version \in c.valid
    BY <1>2 DEF Suits
  <2>. QED BY <2>2, <2>3, <2>4 DEF Outcome
<1>7. First.outcome = "ok" \/ (First.outcome # "ok" /\ Second.outcome = "ok")
  <2>1. CASE c.tries # "second"
    <3>1. First.outcome = Outcome(c, ptus, TRUE)
      BY <2>1 DEF First, ParseAndExecute
    <3>. QED BY <1>6, <3>1
  <2>2. CASE c.tries = "second"
    <3>1. First.outcome = "undeclared" /\ First.ptus = ptus
      BY <2>2 DEF First, ParseAndExecute, Outcome
    <3>2. Second = ParseAndExecute(c, ptus, TRUE)
      BY <2>2, <3>1 DEF Second
    <3>3. Second.outcome = Outcome(c, ptus, TRUE)
      BY <3>2 DEF ParseAndExecute
    <3>. QED BY <1>6, <3>1, <3>3
  <2>. QED BY <2>1, <2>2
<1>8. Evaluate \/ EvaluateOtherSpelling
  <2>1. ~DetectedUpgrade
    BY <1>3 DEF DetectedUpgrade
  <2>2. ~ProactiveStdLib
    BY <1>4 DEF ProactiveStdLib
  <2>3. ~Decide
    BY <1>5 DEF Decide
  <2>4. Second.outcome = "ok"
    BY <1>7 DEF Second
  <2>5. ~EvaluationFails /\ ~UpgradeOnError
    BY <2>4 DEF EvaluationFails, UpgradeOnError
  <2>6. ~RetryAfterUpgrade
    BY <1>1 DEF RetryAfterUpgrade
  <2>. QED BY <2>1, <2>2, <2>3, <2>5, <2>6 DEF EvalStep
<1>9. Push(job.code) /\ Return(TRUE) /\ UNCHANGED <<initialized, loaded, options>>
  BY <1>8 DEF Evaluate, EvaluateOtherSpelling
<1>10. history' = Append(history, Head(g))
  BY <1>1, <1>9 DEF Push
<1>11. ptus' = Append(ptus, Unit(Head(g), TRUE))
  <2>1. Restarts \/ Keeps \/ Adds
    BY EvalExact DEF Sound
  <2>2. Len(history') = Len(history) + 1 /\ Len(history) \in Nat
    BY <1>0, <1>1, <1>10, AppendProperties
  <2>3. ~Restarts /\ ~Keeps
    <3>1. Len(history') # 0 /\ Len(history') # Len(history)
      BY <2>2
    <3>2. Len(<<>>) = 0
      OBVIOUS
    <3>. QED BY <3>1, <3>2 DEF Restarts, Keeps
  <2>5. Adds
    BY <2>1, <2>3
  <2>6. PICK d \in Inputs : history' = Append(history, d) /\ ptus' = Append(ptus, Unit(d, TRUE))
    BY <2>5 DEF Adds
  <2>4. d = Head(g)
    <3>1. \A e \in Inputs : Append(history, e)[Len(history) + 1] = e
      BY <1>0, AppendProperties
    <3>. QED BY <1>1, <1>10, <2>6, <3>1
  <2>. QED BY <2>6, <2>4
<1>12. pending' = Tail(pending) /\ cmd' = cmd
  BY <1>9 DEF Return
<1>. QED BY <1>9, <1>10, <1>11, <1>12 DEF options

(* No replay is left to do. *)
LEMMA NothingToReplay ==
  ASSUME TypeOK', HistoryFits', \A k \in DOMAIN pending' : pending'[k].as = "eval"
  PROVE  QueueFits'
<1>1. history' \in Seq(Inputs) /\ pending' \in Seq(Job)
  BY DEF TypeOK
<1>2. Queued(pending', <<>>, pending')
  BY <1>1, QueuedFacts
<1>3. history' \o <<>> = history'
  BY <1>1, ConcatEmptySeq
<1>4. Closed(history' \o <<>>) /\ AllSuit(<<>>, includePaths', loaded', version')
  BY <1>3, SuitFacts DEF HistoryFits
<1>. QED BY <1>2, <1>4 DEF QueueFits

(* The whole history is to be replayed on a new engine. *)
LEMMA AllToReplay ==
  ASSUME Environment, Sound, StaysValid, NEW v \in Versions, v >= version, NEW incs, NEW lps,
         includePaths \subseteq incs, libraryPaths \subseteq lps,
         Boot(v, incs, lps, libraries, TRUE), history' = <<>>,
         NEW own \in Seq(Job), \A k \in DOMAIN own : own[k].as = "eval",
         pending' = Replays(history, "replay") \o own
  PROVE  QueueFits'
<1>1. /\ history \in Seq(Inputs) /\ TypeOK /\ LibsAsked
      /\ Closed(history) /\ AllSuit(history, includePaths, loaded, version)
  BY DEF Sound, Books, TypeOK, HistoryFits
<1>2. Queued(pending', history, own)
  BY <1>1, QueuedFacts
<1>3. history' \o history = history
  BY <1>1, ConcatEmptySeq
<1>4. AllSuit(history, includePaths', loaded', version')
  BY <1>1, BootSuits
<1>5. EngineReady'
  BY BootReady
<1>6. Closed(history' \o history)
  BY <1>1, <1>3
<1>7. \E g, w : /\ Queued(pending', g, w) /\ Closed(history' \o g)
                /\ AllSuit(g, includePaths', loaded', version') /\ (g # <<>> => EngineReady')
  BY <1>2, <1>4, <1>5, <1>6
<1>. QED BY <1>7 DEF QueueFits

(* A replay goes on. *)
LEMMA ReplayFits ==
  ASSUME Environment, OneUnitEach, Replayable, Sound, NEW g, NEW own,
         Queued(pending, g, own), g # <<>>, Closed(history \o g),
         AllSuit(g, includePaths, loaded, version), EngineReady, EvalStep
  PROVE  QueueFits'
<1>1. /\ history' = Append(history, Head(g)) /\ pending' = Tail(pending)
      /\ ptus' = Append(ptus, Unit(Head(g), TRUE))
      /\ UNCHANGED <<cmd, initialized, loaded, version, includePaths>>
  BY ReplayStep
<1>2. /\ g \in Seq(Inputs) /\ history \in Seq(Inputs) /\ ptus \in Seq(Ptu)
      /\ Head(g) \in Inputs
  BY HeadTailProperties DEF Queued, Sound, Books, TypeOK
<1>3. Queued(pending', Tail(g), own)
  BY <1>1, QueuedFacts
<1>4. Closed(history' \o Tail(g))
  <2>1. history' \o Tail(g) = history \o g
    BY <1>1, <1>2, ClosedNext
  <2>. QED BY <2>1
<1>5. AllSuit(Tail(g), includePaths', loaded', version')
  BY <1>1, <1>2, SuitFacts
<1>6. EngineReady'
  <2> DEFINE u == Unit(Head(g), TRUE)
             qs == Append(ptus, u)
  <2>1. u \in Ptu
    BY <1>2 DEF Unit, Ptu
  <2>2. qs \in Seq(Ptu) /\ Len(qs) = Len(ptus) + 1 /\ \A k \in 1..Len(ptus) : qs[k] = ptus[k]
    <3>. HIDE DEF u
    <3>. QED BY <1>2, <2>1, AppendProperties
  <2>3. ptus' = qs
    BY <1>1
  <2>. HIDE DEF qs, u
  <2>4. \A k \in DOMAIN ptus : k \in DOMAIN qs /\ qs[k] = ptus[k]
    BY <1>2, <2>2
  <2>5. Units(ptus) \subseteq Units(ptus')
    BY <2>3, <2>4 DEF Units
  <2>. QED BY <1>1, <2>5 DEF EngineReady
<1>. QED BY <1>3, <1>4, <1>5, <1>6 DEF QueueFits

(* The jobs of a command's own evaluation. *)
LEMMA OwnJobs ==
  ASSUME TypeOK, pending # <<>>, \A k \in DOMAIN pending : pending[k].as = "eval"
  PROVE  /\ job \in Job /\ job.as = "eval" /\ Tail(pending) \in Seq(Job)
         /\ \A k \in DOMAIN Tail(pending) : Tail(pending)[k].as = "eval"
         /\ \A x \in Job : x.as = "eval" =>
              /\ <<x>> \o Tail(pending) \in Seq(Job)
              /\ \A k \in DOMAIN (<<x>> \o Tail(pending)) : (<<x>> \o Tail(pending))[k].as = "eval"
<1> DEFINE t == Tail(pending)
<1>1. /\ pending \in Seq(Job) /\ 1 \in DOMAIN pending /\ job = pending[1] /\ t \in Seq(Job)
      /\ \A k \in DOMAIN t : k + 1 \in DOMAIN pending /\ t[k] = pending[k + 1]
  BY HeadTailProperties DEF job, TypeOK
<1>2. job \in Job /\ job.as = "eval" /\ \A k \in DOMAIN t : t[k].as = "eval"
  BY <1>1
<1>t. t \in Seq(Job)
  BY <1>1
<1>. HIDE DEF t
<1>3. ASSUME NEW x \in Job, x.as = "eval"
      PROVE  /\ <<x>> \o t \in Seq(Job)
             /\ \A k \in DOMAIN (<<x>> \o t) : (<<x>> \o t)[k].as = "eval"
  <2> DEFINE s == <<x>>
  <2>1. s \in Seq(Job) /\ Len(s) = 1 /\ s[1] = x
    OBVIOUS
  <2>t. s \in Seq(Job)
    BY <2>1
  <2>. HIDE DEF s
  <2>2. s \o t \in Seq(Job) /\ \A k \in DOMAIN (s \o t) :
          (s \o t)[k] = x \/ \E i \in DOMAIN t : (s \o t)[k] = t[i]
    <3> DEFINE w == s \o t
    <3>5. /\ w \in Seq(Job) /\ Len(w) = Len(s) + Len(t)
          /\ \A k \in 1..(Len(s) + Len(t)) : w[k] = IF k <= Len(s) THEN s[k] ELSE t[k - Len(s)]
      BY <1>t, <2>t, ConcatProperties
    <3>. HIDE DEF w
    <3>1. w \in Seq(Job) /\ Len(w) = 1 + Len(t) /\ Len(t) \in Nat
      BY <1>t, <2>1, <3>5
    <3>2. DOMAIN w = 1..(1 + Len(t)) /\ DOMAIN t = 1..Len(t)
      BY <1>t, <3>1
    <3>3. \A k \in 1..(1 + Len(t)) : w[k] = IF k <= 1 THEN s[k] ELSE t[k - 1]
      BY <2>1, <3>5
    <3>4. \A k \in 1..(1 + Len(t)) : k = 1 \/ (k > 1 /\ k - 1 \in 1..Len(t))
      BY <3>1
    <3>. QED BY <2>1, <3>1, <3>2, <3>3, <3>4 DEF w
  <2>3. \A k \in DOMAIN (s \o t) : (s \o t)[k].as = "eval"
    BY <1>2, <1>3, <2>2
  <2>. QED BY <2>2, <2>3 DEF s
<1>. QED BY <1>1, <1>2, <1>3 DEF t

(* What an evaluation of the command's own leaves to replay. *)
LEMMA OwnEvalFits ==
  ASSUME Environment, StaysValid, Sound, TypeOK', HistoryFits', EvalStep,
         \A k \in DOMAIN pending : pending[k].as = "eval"
  PROVE  QueueFits'
<1>0. /\ pending # <<>> /\ TypeOK /\ pending \in Seq(Job) /\ version \in Versions
      /\ Tail(pending) \in Seq(Job)
  <2>1. pending # <<>>
    BY DEF EvalStep, DetectedUpgrade, ProactiveStdLib, Decide, Ready, Evaluate, Running,
           EvaluateOtherSpelling, EvaluationFails, UpgradeOnError, RetryAfterUpgrade
  <2>2. TypeOK /\ pending \in Seq(Job) /\ version \in Versions
    BY DEF Sound, Books, TypeOK
  <2>. QED BY <2>1, <2>2, HeadTailProperties
<1>1. /\ job \in Job /\ job.as = "eval" /\ job.code \in Inputs
      /\ \A k \in DOMAIN Tail(pending) : Tail(pending)[k].as = "eval"
      /\ job.code.detects \in Versions /\ job.code.hints \in Versions
  <2>1. /\ job \in Job /\ job.as = "eval"
        /\ \A k \in DOMAIN Tail(pending) : Tail(pending)[k].as = "eval"
    BY <1>0, OwnJobs
  <2>2. job.code \in Inputs
    BY <2>1 DEF Job
  <2>. QED BY <2>1, <2>2 DEF Environment, InputsAssumption, InputType
<1>2. ASSUME NEW r, Return(r) PROVE QueueFits'
  <2>1. pending' = Tail(pending)
    BY <1>1, <1>2 DEF Return
  <2>. QED BY <1>1, <2>1, NothingToReplay
<1>3. ASSUME NEW v \in Versions, v > version, EnsureVersion(v, TRUE), NEW own \in Seq(Job),
             \A k \in DOMAIN own : own[k].as = "eval", pending' = UpgradeReplays \o own
      PROVE  QueueFits'
  <2>1. CASE initialized
    <3>1. history' = <<>> /\ Boot(v, includePaths, libraryPaths, libraries, TRUE)
      BY <1>3, <2>1 DEF EnsureVersion, DropLog
    <3>2. pending' = Replays(history, "replay") \o own
      BY <1>3, <2>1 DEF UpgradeReplays
    <3>3. v >= version
      BY <1>0, <1>3 DEF Versions
    <3>. QED BY <1>3, <3>1, <3>2, <3>3, AllToReplay
  <2>2. CASE ~initialized
    <3>1. pending' = own
      BY <1>3, <2>2, ConcatEmptySeq DEF UpgradeReplays
    <3>. QED BY <1>3, <3>1, NothingToReplay
  <2>. QED BY <2>1, <2>2
<1>4. CASE DetectedUpgrade
  <2>1. PICK ok \in InitOutcomes :
          /\ EnsureVersion(job.code.detects, ok)
          /\ IF ok THEN pending' = UpgradeReplays \o pending ELSE Return(FALSE)
    BY <1>4 DEF DetectedUpgrade
  <2>2. job.code.detects > version
    BY <1>4 DEF DetectedUpgrade, NeedsUpgrade
  <2>3. CASE ok = TRUE
    BY <1>0, <1>1, <1>3, <2>1, <2>2, <2>3
  <2>4. CASE ok # TRUE
    <3>1. ok = FALSE
      BY <2>4 DEF Environment, EnvironmentAssumption
    <3>. QED BY <1>2, <2>1, <3>1
  <2>. QED BY <2>3, <2>4
<1>5. CASE ProactiveStdLib
  <2>1. pending' = pending
    BY <1>5 DEF ProactiveStdLib
  <2>. QED BY <2>1, NothingToReplay
<1>6. CASE Decide \/ Evaluate \/ EvaluateOtherSpelling \/ EvaluationFails \/ RetryAfterUpgrade
  <2>1. pending' = <<>> \/ \E r : Return(r)
    BY <1>6, Zenon
       DEF Decide, Evaluate, EvaluateOtherSpelling, EvaluationFails, RetryAfterUpgrade, Fail, Crash
  <2>. QED BY <1>2, <2>1, NothingToReplay
<1>7. CASE UpgradeOnError
  <2> DEFINE again == [job EXCEPT !.why = First.outcome]
             own == <<again>> \o Tail(pending)
  <2>1. \/ /\ TRUE \in InitOutcomes /\ EnsureVersion(job.code.hints, TRUE)
           /\ pending' = UpgradeReplays \o <<again>> \o Tail(pending)
        \/ pending' = <<>>
        \/ Return(FALSE)
    <3>1. PICK ok \in InitOutcomes :
            /\ EnsureVersion(job.code.hints, ok)
            /\ \/ ok /\ pending' = UpgradeReplays \o <<again>> \o Tail(pending)
               \/ pending' = <<>>
               \/ Return(FALSE)
      BY <1>7, Zenon DEF UpgradeOnError, Crash
    <3>2. ok \in BOOLEAN
      BY DEF Environment, EnvironmentAssumption
    <3>3. CASE ok = TRUE
      BY <3>1, <3>3
    <3>4. CASE ok = FALSE
      BY <3>1, <3>4
    <3>. QED BY <3>2, <3>3, <3>4
  <2>2. again \in Job /\ again.as = "eval"
    <3>1. Second.outcome # "ok"
      BY <1>7 DEF UpgradeOnError
    <3>2. First.outcome \in Failures
      BY <1>0, <3>1, AttemptType DEF Second, Environment
    <3>. QED BY <1>1, <3>2 DEF Job
  <2>3. own \in Seq(Job) /\ \A k \in DOMAIN own : own[k].as = "eval"
    <3>. HIDE DEF again
    <3>. QED BY <1>0, <2>2, OwnJobs
  <2>5. job.code.hints > version
    BY <1>7 DEF UpgradeOnError
  <2>6. ASSUME EnsureVersion(job.code.hints, TRUE),
               pending' = UpgradeReplays \o <<again>> \o Tail(pending)
        PROVE  QueueFits'
    <3> DEFINE one == <<again>>
    <3>1. one \in Seq(Job)
      BY <2>2
    <3>2. UpgradeReplays \in Seq(Job)
      BY ReplaysType DEF UpgradeReplays, Sound, Books, TypeOK
    <3>3. pending' = (UpgradeReplays \o one) \o Tail(pending)
      BY <2>6
    <3>. HIDE DEF one
    <3>4. pending' = UpgradeReplays \o (one \o Tail(pending))
      BY <1>0, <3>1, <3>2, <3>3, ConcatAssociative
    <3>5. pending' = UpgradeReplays \o own
      BY <3>4 DEF one
    <3>. HIDE DEF own, again
    <3>. QED BY <1>1, <1>3, <2>3, <2>5, <2>6, <3>5
  <2>7. CASE pending' = <<>>
    BY <2>7, NothingToReplay
  <2>. QED BY <1>2, <2>1, <2>6, <2>7
<1>. QED BY <1>4, <1>5, <1>6, <1>7 DEF EvalStep

(* What an evaluation leaves to replay. *)
LEMMA EvalQueue ==
  ASSUME Environment, OneUnitEach, Replayable, StaysValid, Sound, QueueFits,
         TypeOK', HistoryFits', EvalStep
  PROVE  QueueFits'
<1>1. SUFFICES ASSUME Replaying' PROVE QueueFits'
  BY DEF QueueFits
<1>2. cmd' = cmd
  BY DEF EvalStep, DetectedUpgrade, ProactiveStdLib, Decide, Evaluate, EvaluateOtherSpelling,
         EvaluationFails, UpgradeOnError, RetryAfterUpgrade, Fail, Return, Crash
<1>3. PICK g, own : /\ Queued(pending, g, own) /\ Closed(history \o g)
                    /\ AllSuit(g, includePaths, loaded, version)
                    /\ g # <<>> => EngineReady
  BY <1>1, <1>2 DEF QueueFits, Replaying
<1>4. CASE g # <<>>
  BY <1>3, <1>4, ReplayFits
<1>5. CASE g = <<>>
  <2>1. pending = own
    BY <1>3, <1>5, QueuedFacts
  <2>2. \A k \in DOMAIN pending : pending[k].as = "eval"
    BY <1>3, <2>1 DEF Queued
  <2>. QED BY <2>2, OwnEvalFits
<1>. QED BY <1>4, <1>5

(* What a command leaves to replay. *)
LEMMA CommandQueue ==
  ASSUME Environment, StaysValid, Sound, TypeOK', HistoryFits', EvalCommand \/ OptionCommand
  PROVE  QueueFits'
<1>0. /\ pending = <<>> /\ TypeOK /\ version \in Versions /\ history \in Seq(Inputs)
  <2>1. pending = <<>>
    BY DEF EvalCommand, OptionCommand, Eval, EvalAuto, AddIncludePath, AddLibraryPath,
           AddLibrary, LoadLibrary, SetSecurityConfig, Command
  <2>. QED BY <2>1 DEF Sound, Books, TypeOK
<1>1. ASSUME pending' = <<>> \/ \E c \in Inputs : pending' = <<Fresh(c)>>
      PROVE  QueueFits'
  BY <1>1, NothingToReplay DEF Fresh
<1>2. CASE EvalCommand
  BY <1>1, <1>2 DEF EvalCommand, Eval, EvalAuto
<1>3. ASSUME NEW incs, NEW lps, includePaths \subseteq incs, libraryPaths \subseteq lps,
             Rebuild(incs, lps, Replays(history, "replay"))
      PROVE  QueueFits'
  <2>1. PICK ok \in InitOutcomes :
          /\ Reboot(version, incs, lps, libraries, ok)
          /\ pending' = IF ok THEN Replays(history, "replay") ELSE <<>>
    BY <1>3 DEF Rebuild
  <2>2. CASE ok = TRUE
    <3>1. Boot(version, incs, lps, libraries, TRUE) /\ history' = <<>>
      BY <2>1, <2>2 DEF Reboot, DropLog
    <3>2. pending' = Replays(history, "replay") \o <<>>
      BY <1>0, <2>1, <2>2, ReplaysType, ConcatEmptySeq
    <3>3. <<>> \in Seq(Job) /\ (\A k \in DOMAIN <<>> : <<>>[k].as = "eval") /\ version >= version
      BY <1>0 DEF Versions
    <3>. QED BY <1>0, <1>3, <3>1, <3>2, <3>3, AllToReplay
  <2>3. CASE ok # TRUE
    <3>1. ok = FALSE
      BY <2>3 DEF Environment, EnvironmentAssumption
    <3>. QED BY <1>1, <2>1, <3>1
  <2>. QED BY <2>2, <2>3
<1>4. CASE OptionCommand
  <2>1. ASSUME NEW p, AddIncludePath(p) \/ AddLibraryPath(p) PROVE QueueFits'
    BY <1>0, <1>1, <1>3, <2>1 DEF AddIncludePath, AddLibraryPath, Refuse
  <2>2. ASSUME NEW l, NEW b, AddLibrary(l) \/ LoadLibrary(l) \/ SetSecurityConfig(b)
        PROVE  QueueFits'
    BY <1>0, <1>1, <2>2 DEF AddLibrary, LoadLibrary, SetSecurityConfig
  <2>. QED BY <1>4, <2>1, <2>2 DEF OptionCommand
<1>. QED BY <1>2, <1>4

(* Every step keeps the queue of replays one that can be carried out. *)
LEMMA QueueFitsNext ==
  ASSUME Environment, OneUnitEach, Replayable, StaysValid, Sound, QueueFits,
         TypeOK', HistoryFits', [Next]_vars
  PROVE  QueueFits'
<1>1. CASE EvalStep
  BY <1>1, EvalQueue
<1>2. CASE EvalCommand \/ OptionCommand
  BY <1>2, CommandQueue
<1>3. CASE StackCommand
  <2>1. \E o \in {"undo", "pop", "clear", "rm", "set", "swap", "reset"} : \E n : Command(o, n)
    BY <1>3 DEF StackCommand, Undo, StackPop, StackRemove, StackSet, StackSwap, StackClear, Reset
  <2>2. ~Replaying'
    BY <2>1 DEF Command, Replaying
  <2>. QED BY <2>2 DEF QueueFits
<1>4. CASE UNCHANGED vars
  BY <1>4 DEF QueueFits, Replaying, EngineReady, vars, engine, options, log
<1>. QED BY <1>1, <1>2, <1>3, <1>4 DEF Next

(* If moreover what is replayed can be, then carrying the history out again   *)
(* on a new engine loses no entry, whatever the order the commands came in.   *)
(* Below the newest standard that also takes that newer ones accept the same  *)
(* (run replay_loss shows an entry lost where they do not).                   *)
THEOREM ReplaysLoseNothing ==
  OneUnitEach /\ Replayable /\ (Steady \/ (HintsAreNoSymbols /\ NewerAccepts))
    => (Spec => ReplayKeepsEntries)
<1> SUFFICES ASSUME OneUnitEach, Replayable,
                    Steady \/ (HintsAreNoSymbols /\ NewerAccepts)
             PROVE  Spec => ReplayKeepsEntries
  OBVIOUS
<1> DEFINE Lost == /\ cmd.op \in {"eval", "option"} /\ pending # <<>> /\ job.as = "replay"
                   /\ pending' = Tail(pending)
           I == Sound /\ AtTop /\ QueueFits
<1>1. Init => I
  <2> SUFFICES ASSUME Init PROVE I
    OBVIOUS
  <2>1. Books /\ AllPlain(pending) /\ StdLibStays /\ InStep(history, ptus)
    BY BooksInit, InPlaceInit, InStepInit, EnvironmentHolds
  <2>2. RecordedIsInHistory /\ HistoryFitsVersion
    BY RecordedInit, FitInit, EnvironmentHolds
  <2>3. LibsAsked
    BY DEF Init, LibsAsked
  <2>4. HistoryFits
    BY ClosedFacts, SuitFacts DEF Init, HistoryFits
  <2>5. QueueFits
    <3>1. pending = <<>> /\ history = <<>> /\ <<>> \o <<>> = <<>>
      BY DEF Init
    <3>. QED BY <3>1, QueuedFacts, ClosedFacts, SuitFacts DEF QueueFits
  <2>. QED BY <2>1, <2>2, <2>3, <2>4, <2>5, TopStays DEF Sound
<1>2. I /\ [Next]_vars => I'
  <2> SUFFICES ASSUME I, [Next]_vars PROVE I'
    OBVIOUS
  <2>0. HintsPlain /\ StaysValid
    BY HintsAndStandards, EnvironmentHolds DEF Sound, Books
  <2>1. Books' /\ AtTop'
    BY BooksNext, TopStays, EnvironmentHolds DEF Sound
  <2>2. AllPlain(pending)'
    BY <2>0, PlainEval, PlainCommand, EnvironmentHolds DEF Next, vars, Books, Sound
  <2>3. InStep(history, ptus)' /\ StdLibStays'
    BY InStepNext, EnvironmentHolds DEF Sound
  <2>4. RecordedIsInHistory'
    BY RecordedNext, EnvironmentHolds DEF Sound, Books
  <2>5. HistoryFitsVersion'
    BY FitNext, EnvironmentHolds DEF Sound, Books
  <2>6. LibsAsked'
    BY OptionsStep, EnvironmentHolds DEF Sound
  <2>7. HistoryFits'
    BY HistoryFitsNext, EnvironmentHolds DEF Sound
  <2>8. QueueFits'
    BY <2>0, <2>1, <2>7, QueueFitsNext, EnvironmentHolds DEF Books
  <2>. QED BY <2>1, <2>2, <2>3, <2>4, <2>5, <2>6, <2>7, <2>8 DEF Sound
<1>3. I /\ [Next]_vars => [Lost => history' = Append(history, job.code)]_vars
  <2> SUFFICES ASSUME I, [Next]_vars, Lost PROVE history' = Append(history, job.code)
    OBVIOUS
  <2>1. PICK g, own : /\ Queued(pending, g, own) /\ Closed(history \o g)
                      /\ AllSuit(g, includePaths, loaded, version)
                      /\ g # <<>> => EngineReady
    BY DEF QueueFits, Replaying
  <2>2. g # <<>>
    <3>1. SUFFICES ASSUME g = <<>> PROVE FALSE
      OBVIOUS
    <3>2. pending \in Seq(Job) /\ \A k \in DOMAIN pending : pending[k].as = "eval"
      BY <2>1, <3>1, QueuedFacts DEF Queued
    <3>3. job.as = "eval"
      BY <3>2, OwnJobs DEF Sound, Books
    <3>. QED BY <3>3
  <2>3. EvalStep
    <3>1. pending' # pending
      <4>1. pending \in Seq(Job) /\ pending # <<>> /\ pending' = Tail(pending)
        BY DEF Sound, Books, TypeOK
      <4> DEFINE t == Tail(pending)
                 n == Len(pending)
                 m == Len(t)
      <4>2. m = n - 1 /\ n \in Nat
        BY <4>1, HeadTailProperties
      <4>3. t # pending
        <5>1. t = pending => m = n
          OBVIOUS
        <5>. HIDE DEF m, n, t
        <5>. QED BY <4>2, <5>1
      <4>. QED BY <4>1, <4>3
    <3>2. ~(EvalCommand \/ StackCommand \/ OptionCommand)
      BY DEF EvalCommand, OptionCommand, StackCommand, Eval, EvalAuto, AddIncludePath,
             AddLibraryPath, AddLibrary, LoadLibrary, SetSecurityConfig, Undo, StackPop,
             StackRemove, StackSet, StackSwap, StackClear, Reset, Command
    <3>. QED BY <3>1, <3>2 DEF Next, vars
  <2>4. history' = Append(history, Head(g))
    BY <2>1, <2>2, <2>3, ReplayStep, EnvironmentHolds
  <2>5. job.code = Head(g)
    <3>1. Head(pending) = [code |-> Head(g), as |-> "replay", why |-> "fresh"]
      BY <2>1, <2>2, QueuedFacts
    <3>. QED BY <3>1 DEF job
  <2>. QED BY <2>4, <2>5
<1>. QED BY <1>1, <1>2, <1>3, PTL DEF Spec, ReplayKeepsEntries
================================================================================
