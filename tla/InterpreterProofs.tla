--------------------------- MODULE InterpreterProofs ---------------------------
(* Theorems about the interpreter's bookkeeping for every set of inputs,      *)
(* names, libraries and paths, and histories of any length.                   *)
EXTENDS Interpreter, WellFoundedInduction, SequenceTheorems, TLAPS

Environment == InputsAssumption /\ EnvironmentAssumption /\ BoundsAssumption
--------------------------------------------------------------------------------
(* Recursion over the history.  The library's induction theorems quantify     *)
(* over a predicate; this one is about a set.                                 *)
LEMMA SetInduction ==
  ASSUME NEW n \in Nat, NEW S, 0 \in S, \A k \in 0..n : k \in S /\ k < n => k + 1 \in S
  PROVE  0..n \subseteq S
<1> DEFINE T == (0..n) \ S
<1> SUFFICES ASSUME T # {} PROVE FALSE
  OBVIOUS
<1>1. T \subseteq Nat
  OBVIOUS
<1>2. PICK x \in T : \A y \in T : ~ (<<y, x>> \in OpToRel(<, Nat))
  <2> HIDE DEF T
  <2>. QED BY <1>1, NatLessThanWellFounded, WFMin, Zenon
<1>3. \A y \in T : ~ (y < x)
  BY <1>1, <1>2 DEF OpToRel
<1>4. x # 0 /\ x - 1 \in 0..n /\ x - 1 < n /\ x - 1 < x /\ x = (x - 1) + 1
  OBVIOUS
<1>5. x - 1 \in S
  BY <1>3, <1>4
<1>. QED BY <1>4, <1>5

(* The table undo rebuilds exists and obeys its recursion. *)
LEMMA TableAfterDef ==
  ASSUME NEW h \in Seq(Inputs)
  PROVE  TableAfter(h) = [k \in 0..Len(h) |->
           IF k = 0 THEN NoVars ELSE Noted(h[k], TableAfter(h)[k - 1], TableAfter(h)[k - 1])]
<1> DEFINE Step(g, k) == IF k = 0 THEN NoVars ELSE Noted(h[k], g[k - 1], g[k - 1])
           Solved(n) == \E g : g = [k \in 0..n |-> Step(g, k)]
           S == {n \in 0..Len(h) : Solved(n)}
<1>1. Len(h) \in Nat
  OBVIOUS
<1>2. Solved(0)
  <2> DEFINE g0 == [k \in 0..0 |-> NoVars]
  <2>1. g0 = [k \in 0..0 |-> Step(g0, k)]
    OBVIOUS
  <2>. HIDE DEF g0
  <2>. QED BY <2>1
<1>3. ASSUME NEW n \in 0..Len(h), n \in S, n < Len(h) PROVE n + 1 \in S
  <2>1. PICK g : g = [k \in 0..n |-> Step(g, k)]
    BY <1>3
  <2> DEFINE gg == [k \in 0..(n + 1) |-> IF k = n + 1 THEN Noted(h[n + 1], g[n], g[n]) ELSE g[k]]
  <2>2. ASSUME NEW k \in 0..(n + 1) PROVE gg[k] = Step(gg, k)
    <3>1. CASE k = n + 1
      BY <3>1
    <3>2. CASE k = 0
      BY <2>1, <3>2
    <3>3. CASE k # n + 1 /\ k # 0
      <4>1. k \in 0..n /\ k - 1 \in 0..(n + 1) /\ k - 1 # n + 1
        BY <3>3
      <4>2. g[k] = Step(g, k)
        BY <2>1, <4>1
      <4>3. gg[k] = g[k] /\ gg[k - 1] = g[k - 1]
        BY <3>3, <4>1
      <4>. QED BY <3>3, <4>2, <4>3
    <3>. QED BY <3>1, <3>2, <3>3
  <2>3. gg = [k \in 0..(n + 1) |-> Step(gg, k)]
    BY <2>2
  <2>4. n + 1 \in 0..Len(h)
    BY <1>1, <1>3
  <2>. QED BY <2>3, <2>4
<1>4. 0..Len(h) \subseteq S
  <2>1. 0 \in S
    BY <1>1, <1>2
  <2>. HIDE DEF S
  <2>. QED BY <1>1, <1>3, <2>1, SetInduction
<1>5. Solved(Len(h))
  BY <1>1, <1>4
<1>6. TableAfter(h) = CHOOSE g : g = [k \in 0..Len(h) |-> Step(g, k)]
  BY DEF TableAfter
<1>. QED BY <1>5, <1>6

LEMMA NotedType ==
  ASSUME InputsAssumption, NEW c \in Inputs, NEW vs \in VarMap, NEW table \in VarMap
  PROVE  Noted(c, vs, table) \in VarMap
<1>1. c.name \in Names /\ Info(c) \in VarInfo
  BY DEF InputsAssumption, InputType, Info, VarInfo
<1>2. vs[c.name] # None => [type |-> vs[c.name].type, value |-> c.value] \in VarInfo
  BY <1>1 DEF VarMap, VarInfo, Info
<1>. QED BY <1>1, <1>2 DEF Noted, VarMap

(* What undo rebuilds: only names that an entry declares. *)
LEMMA RebuiltType ==
  ASSUME InputsAssumption, NEW h \in Seq(Inputs)
  PROVE  /\ Rebuilt(h) \in VarMap
         /\ \A n \in Names : Rebuilt(h)[n] # None => \E k \in DOMAIN h : Declares(h[k], n)
<1> DEFINE T == TableAfter(h)
           Good(k) == /\ T[k] \in VarMap
                      /\ \A n \in Names : T[k][n] # None => \E j \in 1..k : Declares(h[j], n)
           S == {k \in 0..Len(h) : Good(k)}
<1>1. /\ Len(h) \in Nat /\ DOMAIN h = 1..Len(h)
      /\ \A k \in 1..Len(h) : h[k] \in Inputs
  OBVIOUS
<1>2. T[0] = NoVars /\ \A k \in 1..Len(h) : T[k] = Noted(h[k], T[k - 1], T[k - 1])
  <2> HIDE DEF T
  <2>1. T = [k \in 0..Len(h) |->
              IF k = 0 THEN NoVars ELSE Noted(h[k], T[k - 1], T[k - 1])]
    BY TableAfterDef DEF T
  <2>. QED BY <1>1, <2>1
<1>. HIDE DEF T
<1>3. Good(0)
  BY <1>2 DEF NoVars, VarMap
<1>4. ASSUME NEW k \in 0..Len(h), k \in S, k < Len(h) PROVE k + 1 \in S
  <2>1. /\ k + 1 \in 1..Len(h) /\ (k + 1) - 1 = k /\ h[k + 1] \in Inputs
        /\ 1..(k + 1) = (1..k) \cup {k + 1}
    BY <1>1, <1>4
  <2>2. T[k + 1] = Noted(h[k + 1], T[k], T[k])
    BY <1>2, <2>1
  <2>3. Good(k)
    BY <1>4
  <2>4. T[k + 1] \in VarMap
    BY <2>1, <2>2, <2>3, NotedType
  <2>5. ASSUME NEW n \in Names, T[k + 1][n] # None
        PROVE  \E j \in 1..(k + 1) : Declares(h[j], n)
    <3>1. CASE Declares(h[k + 1], n)
      BY <2>1, <3>1
    <3>2. CASE ~Declares(h[k + 1], n)
      <4>1. T[k][n] # None
        BY <2>1, <2>2, <2>3, <2>5, <3>2 DEF Noted, Declares, VarMap, InputsAssumption, InputType
      <4>. QED BY <2>1, <2>3, <4>1
    <3>. QED BY <3>1, <3>2
  <2>. QED BY <2>1, <2>4, <2>5
<1>5. Good(Len(h))
  <2>1. 0 \in S
    BY <1>1, <1>3
  <2>2. 0..Len(h) \subseteq S
    <3> HIDE DEF S
    <3>. QED BY <1>1, <1>4, <2>1, SetInduction
  <2>. QED BY <1>1, <2>2
<1>. QED BY <1>1, <1>5 DEF T, Rebuilt
--------------------------------------------------------------------------------
(* Types of the pieces the actions are made of.                               *)

LEMMA ShorterSequences ==
  ASSUME NEW A, NEW s \in Seq(A)
  PROVE  /\ \A n \in Nat : n <= Len(s) =>
              /\ DropLast(s, n) \in Seq(A) /\ Len(DropLast(s, n)) = Len(s) - n
              /\ \A k \in 1..(Len(s) - n) : DropLast(s, n)[k] = s[k]
         /\ \A k \in DOMAIN s : Without(s, k) \in Seq(A)
<1>1. ASSUME NEW n \in Nat, n <= Len(s)
      PROVE  /\ DropLast(s, n) \in Seq(A) /\ Len(DropLast(s, n)) = Len(s) - n
             /\ \A k \in 1..(Len(s) - n) : DropLast(s, n)[k] = s[k]
  BY <1>1 DEF DropLast
<1>2. ASSUME NEW k \in DOMAIN s
      PROVE  Without(s, k) \in Seq(A)
  BY DEF Without
<1>. QED BY <1>1, <1>2

LEMMA WithoutElements ==
  ASSUME NEW A, NEW s \in Seq(A), NEW k \in DOMAIN s
  PROVE  \A i \in DOMAIN Without(s, k) : \E j \in DOMAIN s : Without(s, k)[i] = s[j]
<1> DEFINE p == SubSeq(s, 1, k - 1)
           q == SubSeq(s, k + 1, Len(s))
<1>1. Len(s) \in Nat /\ k \in 1..Len(s) /\ \A j \in 1..Len(s) : s[j] \in A
  OBVIOUS
<1>2. /\ p \in Seq(A) /\ Len(p) = k - 1
      /\ \A i \in 1..(k - 1) : p[i] = s[i]
  BY <1>1
<1>3. /\ q \in Seq(A) /\ Len(q) = Len(s) - k
      /\ \A i \in 1..(Len(s) - k) : q[i] = s[k + i]
  BY <1>1
<1>. HIDE DEF p, q
<1>4. /\ p \o q \in Seq(A) /\ Len(p \o q) = Len(s) - 1
      /\ \A i \in 1..(Len(s) - 1) : (p \o q)[i] = IF i <= k - 1 THEN p[i] ELSE q[i - (k - 1)]
  <2>1. /\ p \o q \in Seq(A) /\ Len(p \o q) = Len(p) + Len(q)
        /\ \A i \in 1..(Len(p) + Len(q)) : (p \o q)[i] = IF i <= Len(p) THEN p[i] ELSE q[i - Len(p)]
    BY <1>2, <1>3, ConcatProperties
  <2>2. Len(p) + Len(q) = Len(s) - 1
    BY <1>1, <1>2, <1>3
  <2>. QED BY <1>2, <2>1, <2>2
<1>5. ASSUME NEW i \in 1..(Len(s) - 1) PROVE \E j \in 1..Len(s) : (p \o q)[i] = s[j]
  <2>1. CASE i <= k - 1
    BY <1>1, <1>2, <1>4, <2>1
  <2>2. CASE ~(i <= k - 1)
    <3>1. i - (k - 1) \in 1..(Len(s) - k) /\ i + 1 \in 1..Len(s) /\ k + (i - (k - 1)) = i + 1
      BY <1>1, <2>2
    <3>2. (p \o q)[i] = s[i + 1]
      BY <1>3, <1>4, <2>2, <3>1
    <3>. QED BY <3>1, <3>2
  <2>. QED BY <2>1, <2>2
<1>6. Without(s, k) = p \o q
  BY DEF Without, p, q
<1>7. DOMAIN (p \o q) = 1..(Len(s) - 1) /\ DOMAIN s = 1..Len(s)
  <2>1. DOMAIN (p \o q) = 1..Len(p \o q)
    BY <1>4, LenProperties
  <2>. QED BY <1>4, <2>1
<1>. QED BY <1>5, <1>6, <1>7

LEMMA LastIsMember ==
  ASSUME NEW n \in Nat, NEW A \in SUBSET (1..n), A # {}
  PROVE  Last(A) \in A /\ \A j \in A : j <= Last(A)
<1>1. \E k \in A : \A j \in A : j <= k
  <2> DEFINE B == {m \in 0..n : \A j \in A : j <= m}
  <2>1. n \in B /\ B \subseteq Nat
    OBVIOUS
  <2>2. PICK m \in B : \A y \in B : ~ (<<y, m>> \in OpToRel(<, Nat))
    <3> HIDE DEF B
    <3>. QED BY <2>1, NatLessThanWellFounded, WFMin, Zenon
  <2>3. \A y \in B : ~ (y < m)
    BY <2>1, <2>2 DEF OpToRel
  <2>4. m # 0
    <3>1. PICK a \in A : TRUE
      OBVIOUS
    <3>2. a \in 1..n /\ a <= m
      OBVIOUS
    <3>. QED BY <3>2
  <2>5. m - 1 \in 0..n /\ m - 1 < m /\ m - 1 \notin B
    BY <2>3, <2>4
  <2>6. PICK j \in A : ~(j <= m - 1)
    BY <2>5
  <2>7. j = m
    BY <2>6
  <2>. QED BY <2>7
<1>. QED BY <1>1 DEF Last

LEMMA ReplaysType ==
  ASSUME NEW h \in Seq(Inputs), NEW as \in {"eval", "replay", "strict"}
  PROVE  /\ Replays(h, as) \in Seq(Job)
         /\ Len(Replays(h, as)) = Len(h)
         /\ \A k \in 1..Len(h) : Replays(h, as)[k].code = h[k] /\ Replays(h, as)[k].as = as
<1>1. Len(h) \in Nat /\ \A k \in 1..Len(h) : h[k] \in Inputs
  OBVIOUS
<1>2. Replays(h, as) \in [1..Len(h) -> Job]
  BY <1>1 DEF Replays, Job
<1>3. Replays(h, as) \in Seq(Job)
  BY <1>1, <1>2, SeqDef
<1>4. Len(Replays(h, as)) = Len(h)
  BY <1>1 DEF Replays
<1>5. \A k \in 1..Len(h) : Replays(h, as)[k].code = h[k] /\ Replays(h, as)[k].as = as
  BY DEF Replays
<1>. QED BY <1>3, <1>4, <1>5

LEMMA BootType ==
  ASSUME Environment, NEW v \in Versions, NEW incs \in SUBSET Paths, NEW lps \in SUBSET Paths,
         NEW libs \in SUBSET Libs, NEW ok \in InitOutcomes, strict \in BOOLEAN,
         Boot(v, incs, lps, libs, ok)
  PROVE  /\ initialized' \in BOOLEAN /\ stdLibIncluded' \in BOOLEAN /\ strict' \in BOOLEAN
         /\ ptus' \in Seq(Ptu) /\ loaded' \subseteq Libs
         /\ version' \in Versions /\ includePaths' \subseteq Paths
         /\ libraryPaths' \subseteq Paths /\ libraries' \subseteq Libs
<1> USE DEF Environment
<1>1. /\ initialized' \in BOOLEAN /\ strict' \in BOOLEAN /\ loaded' \subseteq Libs
      /\ version' \in Versions /\ includePaths' \subseteq Paths
      /\ libraryPaths' \subseteq Paths /\ libraries' \subseteq Libs
  BY DEF Boot, EnvironmentAssumption
<1>3. PICK std \in BOOLEAN :
        /\ stdLibIncluded' = std
        /\ ptus' = IF ~ok THEN <<>>
                   ELSE [k \in 1..Preambles |-> Unit(Preamble, TRUE)]
                          \o (IF std THEN <<Unit(StdLib, TRUE)>> ELSE <<>>)
  BY DEF Boot, EnvironmentAssumption
<1>4. [k \in 1..Preambles |-> Unit(Preamble, TRUE)] \in Seq(Ptu)
  BY DEF BoundsAssumption, Unit, Ptu
<1>5. <<Unit(StdLib, TRUE)>> \in Seq(Ptu) /\ <<>> \in Seq(Ptu)
  BY DEF Unit, Ptu
<1>6. ptus' \in Seq(Ptu)
  <2> DEFINE pre == [k \in 1..Preambles |-> Unit(Preamble, TRUE)]
  <2>1. pre \o <<Unit(StdLib, TRUE)>> \in Seq(Ptu) /\ pre \o <<>> \in Seq(Ptu)
    BY <1>4, <1>5, ConcatProperties
  <2>. QED BY <1>3, <1>5, <2>1
<1>. QED BY <1>1, <1>3, <1>6

LEMMA LogType ==
  ASSUME TypeOK, DropLog \/ UNCHANGED log
  PROVE  history' \in Seq(Inputs) /\ variables' \in VarMap /\ tracker' \in VarMap
<1>1. NoVars \in VarMap
  BY DEF NoVars, VarMap
<1>2. CASE DropLog
  BY <1>1, <1>2 DEF DropLog
<1>3. CASE UNCHANGED log
  BY <1>3 DEF log, TypeOK
<1>. QED BY <1>2, <1>3

(* A step that starts an engine. *)
LEMMA TypeReboot ==
  ASSUME Environment, TypeOK, cmd' \in [op: Ops, name: Names \cup {None}],
         NEW v \in Versions, NEW incs \in SUBSET Paths, NEW lps \in SUBSET Paths,
         NEW libs \in SUBSET Libs, NEW ok \in InitOutcomes, Boot(v, incs, lps, libs, ok),
         DropLog \/ UNCHANGED log,
         pending' \in Seq(Job), ret' \in BOOLEAN, crashed' \in BOOLEAN
  PROVE  TypeOK'
<1>1. history' \in Seq(Inputs) /\ variables' \in VarMap /\ tracker' \in VarMap
  BY LogType
<1>2. strict \in BOOLEAN
  BY DEF TypeOK
<1>. QED BY <1>1, <1>2, BootType DEF TypeOK

LEMMA TypeEnsure ==
  ASSUME Environment, TypeOK, cmd' \in [op: Ops, name: Names \cup {None}],
         NEW v \in Versions, NEW ok \in InitOutcomes, EnsureVersion(v, ok),
         pending' \in Seq(Job), ret' \in BOOLEAN, crashed' \in BOOLEAN
  PROVE  TypeOK'
<1>1. /\ includePaths \in SUBSET Paths /\ libraryPaths \in SUBSET Paths
      /\ libraries \in SUBSET Libs
  BY DEF TypeOK
<1>2. DropLog \/ UNCHANGED log
  BY DEF EnsureVersion
<1>. QED BY <1>1, <1>2, TypeReboot DEF EnsureVersion

LEMMA ParseType ==
  ASSUME NEW c \in Inputs, NEW ps \in Seq(Ptu), NEW w \in BOOLEAN
  PROVE  /\ ParseAndExecute(c, ps, w).outcome \in Failures \cup {"ok"}
         /\ ParseAndExecute(c, ps, w).ptus \in Seq(Ptu)
<1>1. Outcome(c, ps, w) \in Failures \cup {"ok"}
  BY DEF Outcome, Failures
<1>2. \A b \in BOOLEAN : Append(ps, Unit(c, b)) \in Seq(Ptu)
  BY DEF Unit, Ptu
<1>. QED BY <1>1, <1>2 DEF ParseAndExecute

LEMMA ShownType ==
  ASSUME InputsAssumption, NEW c \in Inputs
  PROVE  Shown(c) \subseteq Seq(Ptu)
<1>1. {Unit(c, TRUE), Unit(c, FALSE)} \subseteq Ptu
  BY DEF Unit, Ptu
<1>2. 0..c.extra \subseteq Nat
  BY DEF InputsAssumption, InputType
<1>3. ASSUME NEW n \in Nat PROVE [1..n -> {Unit(c, TRUE), Unit(c, FALSE)}] \subseteq Seq(Ptu)
  <2> SUFFICES ASSUME NEW f \in [1..n -> {Unit(c, TRUE), Unit(c, FALSE)}] PROVE f \in Seq(Ptu)
    OBVIOUS
  <2>1. f \in [1..n -> Ptu]
    BY <1>1
  <2>. QED BY <2>1, SeqDef
<1>. QED BY <1>2, <1>3 DEF Shown

LEMMA JobType ==
  ASSUME InputsAssumption, pending \in Seq(Job), pending # <<>>
  PROVE  /\ job \in Job /\ Tail(pending) \in Seq(Job)
         /\ job.code \in Inputs /\ job.code \in InputType
         /\ job.why \in Failures \cup {"fresh"}
<1>1. job \in Job /\ Tail(pending) \in Seq(Job)
  BY HeadTailProperties DEF job
<1>. QED BY <1>1 DEF Job, InputsAssumption

LEMMA AttemptType ==
  ASSUME TypeOK, InputsAssumption, pending # <<>>
  PROVE  /\ First.outcome \in Failures \cup {"ok"} /\ First.ptus \in Seq(Ptu)
         /\ Second.outcome \in Failures \cup {"ok"} /\ Second.ptus \in Seq(Ptu)
<1>1. job.code \in Inputs /\ ptus \in Seq(Ptu)
  BY JobType DEF TypeOK
<1>2. First.outcome \in Failures \cup {"ok"} /\ First.ptus \in Seq(Ptu)
  BY <1>1, ParseType DEF First
<1>. QED BY <1>1, <1>2, ParseType DEF Second

LEMMA ReturnType ==
  ASSUME TypeOK, InputsAssumption, pending # <<>>, NEW r \in BOOLEAN, Return(r)
  PROVE  pending' \in Seq(Job) /\ ret' \in BOOLEAN /\ cmd' = cmd
BY JobType DEF Return, TypeOK

LEMMA PushType ==
  ASSUME TypeOK, InputsAssumption, NEW c \in Inputs, Push(c)
  PROVE  history' \in Seq(Inputs) /\ variables' \in VarMap /\ tracker' \in VarMap
BY NotedType DEF Push, TrackVariable, TypeOK
--------------------------------------------------------------------------------
(* Type correctness, job by job and command by command.                       *)

LEMMA TypeInit == Environment /\ Init => TypeOK
<1> SUFFICES ASSUME Environment, Init PROVE TypeOK
  OBVIOUS
<1> USE DEF Environment
<1>1. [k \in 1..Preambles |-> Unit(Preamble, TRUE)] \in Seq(Ptu)
  BY DEF BoundsAssumption, Unit, Ptu
<1>2. <<Unit(StdLib, TRUE)>> \in Seq(Ptu) /\ <<>> \in Seq(Ptu)
  BY DEF Unit, Ptu
<1>3. ptus \in Seq(Ptu)
  <2> DEFINE pre == [k \in 1..Preambles |-> Unit(Preamble, TRUE)]
  <2>1. pre \o <<Unit(StdLib, TRUE)>> \in Seq(Ptu) /\ pre \o <<>> \in Seq(Ptu)
    BY <1>1, <1>2, ConcatProperties
  <2>. QED BY <2>1 DEF Init
<1>4. variables \in VarMap /\ tracker \in VarMap /\ history \in Seq(Inputs) /\ pending \in Seq(Job)
  BY DEF Init, NoVars, VarMap
<1>5. stdLibIncluded \in BOOLEAN
  BY DEF Init, EnvironmentAssumption
<1>. QED BY <1>3, <1>4, <1>5 DEF Init, TypeOK, Ops

LEMMA TypeFail ==
  ASSUME Environment, TypeOK, pending # <<>>, NEW why, NEW ps \in Seq(Ptu), Fail(why, ps)
  PROVE  TypeOK'
<1> USE DEF Environment
<1>1. job.code \in Inputs
  BY JobType DEF TypeOK
<1>2. \A r \in BOOLEAN : Return(r) => pending' \in Seq(Job) /\ ret' \in BOOLEAN /\ cmd' = cmd
  BY ReturnType
<1>3. \A w : \A q \in Seq(Ptu) : Recover(w, q) \in Seq(Ptu)
  BY ShorterSequences DEF Recover
<1>4. CASE why = "redefinition" /\ job.code.kind = "decl" /\ variables[job.code.name] # None
  <2>1. pending' \in Seq(Job) /\ ret' \in BOOLEAN /\ cmd' = cmd
    BY <1>2, <1>4 DEF Fail
  <2>. QED BY <1>4, <2>1 DEF Fail, TypeOK, log, options
<1>5. CASE ~(why = "redefinition" /\ job.code.kind = "decl" /\ variables[job.code.name] # None)
  <2> DEFINE retry == ParseAndExecute(job.code, Append(ps, Unit(StdLib, TRUE)), job.code.tries # "second")
  <2>1. retry.ptus \in Seq(Ptu)
    <3>1. Append(ps, Unit(StdLib, TRUE)) \in Seq(Ptu)
      BY DEF Unit, Ptu
    <3>. QED BY <1>1, <3>1, ParseType
  <2>. HIDE DEF retry
  <2>2. PICK std \in BOOLEAN :
         /\ stdLibIncluded' = (std \/ stdLibIncluded)
         /\ IF std /\ retry.outcome = "ok"
              THEN /\ ptus' = retry.ptus
                   /\ Push(job.code) /\ Return(TRUE)
              ELSE /\ ptus' = IF std THEN Recover(retry.outcome, retry.ptus) ELSE Recover(why, ps)
                   /\ UNCHANGED log /\ Return(FALSE)
    BY <1>5 DEF Fail, EnvironmentAssumption, retry
  <2>3. /\ stdLibIncluded' \in BOOLEAN
        /\ pending' \in Seq(Job) /\ ret' \in BOOLEAN /\ cmd' = cmd
    BY <1>2, <2>2 DEF TypeOK
  <2>7. Recover(retry.outcome, retry.ptus) \in Seq(Ptu) /\ Recover(why, ps) \in Seq(Ptu)
    BY <1>3, <2>1
  <2>4. ptus' \in Seq(Ptu)
    <3>1. CASE std /\ retry.outcome = "ok"
      BY <2>1, <2>2, <3>1
    <3>2. CASE ~(std /\ retry.outcome = "ok")
      BY <2>2, <2>7, <3>2
    <3>. QED BY <3>1, <3>2
  <2>5. history' \in Seq(Inputs) /\ variables' \in VarMap /\ tracker' \in VarMap
    BY <1>1, <2>2, PushType DEF TypeOK, log
  <2>6. UNCHANGED <<initialized, loaded, options, crashed>>
    BY DEF Fail
  <2>. QED BY <2>3, <2>4, <2>5, <2>6 DEF TypeOK, options
<1>. QED BY <1>4, <1>5

LEMMA TypeEval == Environment /\ TypeOK /\ EvalStep => TypeOK'
<1> SUFFICES ASSUME Environment, TypeOK, EvalStep PROVE TypeOK'
  OBVIOUS
<1> USE DEF Environment
<1>0. pending # <<>>
  BY DEF EvalStep, DetectedUpgrade, ProactiveStdLib, Decide, Evaluate, EvaluateOtherSpelling,
         EvaluationFails, UpgradeOnError, RetryAfterUpgrade, Running, Ready
<1>1. /\ job \in Job /\ job.code \in Inputs /\ job.code \in InputType
      /\ Tail(pending) \in Seq(Job) /\ job.why \in Failures \cup {"fresh"}
  BY <1>0, JobType DEF TypeOK
<1>2. \A r \in BOOLEAN : Return(r) => pending' \in Seq(Job) /\ ret' \in BOOLEAN /\ cmd' = cmd
  BY <1>0, ReturnType
<1>3. Push(job.code) => history' \in Seq(Inputs) /\ variables' \in VarMap /\ tracker' \in VarMap
  BY <1>1, PushType
<1>4. /\ First.ptus \in Seq(Ptu) /\ Second.ptus \in Seq(Ptu)
      /\ First.outcome \in Failures \cup {"ok"}
  BY <1>0, AttemptType
<1>5. UpgradeReplays \in Seq(Job) /\ <<>> \in Seq(Job)
  BY ReplaysType DEF TypeOK, UpgradeReplays
<1>6. \A s, t \in Seq(Job) : s \o t \in Seq(Job)
  BY ConcatProperties
<1>7. CASE DetectedUpgrade
  <2>1. PICK ok \in InitOutcomes :
          /\ EnsureVersion(job.code.detects, ok)
          /\ IF ok THEN /\ pending' = UpgradeReplays \o pending
                        /\ UNCHANGED <<cmd, ret>>
                   ELSE Return(FALSE)
    BY <1>7 DEF DetectedUpgrade
  <2>2. job.code.detects \in Versions
    BY <1>1 DEF InputType
  <2>3. pending' \in Seq(Job) /\ ret' \in BOOLEAN /\ cmd' = cmd
    <3>1. CASE ok = TRUE
      <4>1. pending' = UpgradeReplays \o pending /\ UNCHANGED <<cmd, ret>>
        BY <2>1, <3>1, Zenon
      <4>2. pending \in Seq(Job) /\ ret \in BOOLEAN
        BY DEF TypeOK
      <4>. QED BY <1>5, <1>6, <4>1, <4>2
    <3>2. CASE ok = FALSE
      BY <1>2, <2>1, <3>2
    <3>. QED BY <3>1, <3>2 DEF EnvironmentAssumption
  <2>. QED BY <1>7, <2>1, <2>2, <2>3, TypeEnsure DEF DetectedUpgrade, TypeOK
<1>8. CASE ProactiveStdLib
  <2>1. ptus' \in Seq(Ptu)
    BY <1>8 DEF ProactiveStdLib, TypeOK, Unit, Ptu
  <2>. QED BY <1>8, <2>1 DEF ProactiveStdLib, TypeOK, log, options
<1>9. CASE Decide
  <2>1. Return(TRUE) \/ Return(FALSE)
    <3>1. CASE Verdict(job.code) = "ignore"
      BY <1>9, <3>1 DEF Decide, Return
    <3>2. CASE Verdict(job.code) # "ignore"
      BY <1>9, <3>2 DEF Decide, Return
    <3>. QED BY <3>1, <3>2
  <2>2. pending' \in Seq(Job) /\ ret' \in BOOLEAN /\ cmd' = cmd
    BY <1>2, <1>9, <2>1 DEF Decide
  <2>. QED BY <1>9, <2>2 DEF Decide, TypeOK, engine, log, options
<1>10. CASE Evaluate
  <2>1. PICK shown \in Shown(job.code) : ptus' = First.ptus \o shown
    BY <1>10 DEF Evaluate
  <2>2. ptus' \in Seq(Ptu)
    <3>1. shown \in Seq(Ptu)
      BY <1>1, ShownType
    <3>. QED BY <1>4, <2>1, <3>1, ConcatProperties
  <2>. QED BY <1>2, <1>3, <1>10, <2>2 DEF Evaluate, TypeOK, options
<1>11. CASE EvaluateOtherSpelling
  BY <1>2, <1>3, <1>4, <1>11 DEF EvaluateOtherSpelling, TypeOK, options
<1>12. CASE EvaluationFails
  BY <1>0, <1>4, <1>12, TypeFail DEF EvaluationFails
<1>13. CASE UpgradeOnError
  <2> DEFINE again == [job EXCEPT !.why = First.outcome]
  <2>1. PICK ok \in InitOutcomes :
          /\ EnsureVersion(job.code.hints, ok)
          /\ \/ pending' = UpgradeReplays \o <<again>> \o Tail(pending) /\ UNCHANGED <<cmd, ret, crashed>>
             \/ Crash
             \/ Return(FALSE) /\ UNCHANGED crashed
    BY <1>13, Zenon DEF UpgradeOnError
  <2>2. again \in Job
    <3>1. First.outcome # "ok"
      BY <1>13 DEF UpgradeOnError, Second
    <3>. QED BY <1>1, <1>4, <3>1 DEF Job
  <2>3. job.code.hints \in Versions
    BY <1>1 DEF InputType
  <2>. HIDE DEF again
  <2>4. <<again>> \in Seq(Job)
    BY <2>2
  <2>5. pending' \in Seq(Job) /\ ret' \in BOOLEAN /\ cmd' = cmd /\ crashed' \in BOOLEAN
    <3>1. CASE pending' = UpgradeReplays \o <<again>> \o Tail(pending) /\ UNCHANGED <<cmd, ret, crashed>>
      <4>1. pending' \in Seq(Job)
        BY <1>1, <1>5, <1>6, <2>4, <3>1
      <4>. QED BY <3>1, <4>1 DEF TypeOK
    <3>2. CASE Crash
      BY <1>5, <3>2 DEF Crash, TypeOK
    <3>3. CASE Return(FALSE) /\ UNCHANGED crashed
      BY <1>2, <3>3 DEF TypeOK
    <3>. QED BY <2>1, <3>1, <3>2, <3>3
  <2>. QED BY <2>1, <2>3, <2>5, TypeEnsure DEF TypeOK
<1>14. CASE RetryAfterUpgrade
  <2>1. CASE initialized /\ First.outcome = "ok"
    BY <1>2, <1>3, <1>4, <1>14, <2>1 DEF RetryAfterUpgrade, TypeOK, options
  <2>2. CASE initialized /\ First.outcome # "ok"
    BY <1>0, <1>4, <1>14, <2>2, TypeFail DEF RetryAfterUpgrade
  <2>3. CASE ~initialized
    BY <1>5, <1>14, <2>3 DEF RetryAfterUpgrade, Crash, TypeOK, engine, log, options
  <2>. QED BY <2>1, <2>2, <2>3
<1>. QED BY <1>7, <1>8, <1>9, <1>10, <1>11, <1>12, <1>13, <1>14 DEF EvalStep

LEMMA TypeUndo ==
  ASSUME Environment, TypeOK, NEW n \in Nat, UndoUnits(n), cmd' \in [op: Ops, name: Names \cup {None}]
  PROVE  TypeOK'
<1>1. CASE initialized /\ CanUndo(n)
  <2> DEFINE m == IF n < Len(history) THEN n ELSE Len(history)
             kept == DropLast(history, m)
  <2>1. m \in Nat /\ m <= Len(history)
    BY DEF TypeOK
  <2>2. kept \in Seq(Inputs)
    BY <2>1, ShorterSequences DEF TypeOK
  <2>3. Rebuilt(kept) \in VarMap
    BY <2>2, RebuiltType DEF Environment
  <2>4. DropLast(ptus, n) \in Seq(Ptu)
    BY <1>1, ShorterSequences DEF CanUndo, TypeOK
  <2>5. /\ ptus' = DropLast(ptus, n) /\ history' = kept
        /\ variables' = Rebuilt(kept) /\ tracker' = Rebuilt(kept) /\ ret' = TRUE
        /\ UNCHANGED <<initialized, loaded, stdLibIncluded, options, pending, crashed>>
    BY <1>1 DEF UndoUnits
  <2>. HIDE DEF kept
  <2>. QED BY <2>2, <2>3, <2>4, <2>5 DEF TypeOK, options
<1>2. CASE ~(initialized /\ CanUndo(n))
  BY <1>2 DEF UndoUnits, Refuse, TypeOK, engine, log, options
<1>. QED BY <1>1, <1>2

LEMMA TypeRebuild ==
  ASSUME Environment, TypeOK, cmd' \in [op: Ops, name: Names \cup {None}],
         NEW incs \in SUBSET Paths, NEW lps \in SUBSET Paths, NEW jobs \in Seq(Job),
         Rebuild(incs, lps, jobs)
  PROVE  TypeOK'
<1>1. PICK ok \in InitOutcomes :
        /\ Reboot(version, incs, lps, libraries, ok)
        /\ pending' = IF ok THEN jobs ELSE <<>>
        /\ ret' = ok
  BY DEF Rebuild
<1>2. pending' \in Seq(Job) /\ ret' \in BOOLEAN /\ crashed' \in BOOLEAN
  BY <1>1 DEF Rebuild, Environment, EnvironmentAssumption, TypeOK
<1>3. version \in Versions /\ libraries \in SUBSET Libs
  BY DEF TypeOK
<1>. QED BY <1>1, <1>2, <1>3, TypeReboot DEF Reboot

LEMMA TypeForget ==
  ASSUME Environment, TypeOK, cmd' \in [op: Ops, name: Names \cup {None}],
         NEW n \in Names, NEW jobs \in Seq(Job), Forget(n, jobs)
  PROVE  TypeOK'
<1>1. CASE variables[n] = None /\ tracker[n] = None
  BY <1>1 DEF Forget, TypeOK, engine, log, options
<1>2. CASE ~(variables[n] = None /\ tracker[n] = None) /\ Mentions(history, n) = {}
  <2>1. variables' \in VarMap /\ tracker' \in VarMap
    BY <1>2 DEF Forget, TypeOK, VarMap
  <2>. QED BY <1>2, <2>1 DEF Forget, TypeOK, engine, options
<1>3. CASE ~(variables[n] = None /\ tracker[n] = None) /\ Mentions(history, n) # {}
  <2> DEFINE replays == Replays(Without(history, Last(Mentions(history, n))), "replay")
  <2>1. replays \in Seq(Job)
    <3>1. Last(Mentions(history, n)) \in DOMAIN history
      <4>1. Len(history) \in Nat /\ Mentions(history, n) \in SUBSET (1..Len(history))
            /\ DOMAIN history = 1..Len(history)
        BY DEF Mentions, TypeOK
      <4>. QED BY <1>3, <4>1, LastIsMember
    <3>. QED BY <3>1, ShorterSequences, ReplaysType DEF TypeOK
  <2>2. PICK ok \in InitOutcomes :
          /\ Reboot(version, includePaths, libraryPaths, libraries, ok)
          /\ pending' = (IF ok THEN replays ELSE <<>>) \o jobs
          /\ ret' = ok
    BY <1>3 DEF Forget
  <2>. HIDE DEF replays
  <2>3. pending' \in Seq(Job)
    <3>1. replays \o jobs \in Seq(Job) /\ <<>> \o jobs \in Seq(Job)
      BY <2>1, ConcatProperties, EmptySeq
    <3>. QED BY <2>2, <3>1
  <2>4. ret' \in BOOLEAN /\ crashed' \in BOOLEAN
    BY <1>3, <2>2 DEF Forget, Environment, EnvironmentAssumption, TypeOK
  <2>5. /\ version \in Versions /\ libraries \in SUBSET Libs
        /\ includePaths \in SUBSET Paths /\ libraryPaths \in SUBSET Paths
    BY DEF TypeOK
  <2>. QED BY <2>2, <2>3, <2>4, <2>5, TypeReboot DEF Reboot
<1>. QED BY <1>1, <1>2, <1>3

LEMMA TypeStack == Environment /\ TypeOK /\ (StackCommand \/ EvalCommand) => TypeOK'
<1> SUFFICES ASSUME Environment, TypeOK, StackCommand \/ EvalCommand PROVE TypeOK'
  OBVIOUS
<1>0. /\ version \in Versions /\ libraries \in SUBSET Libs /\ history \in Seq(Inputs)
      /\ includePaths \in SUBSET Paths /\ libraryPaths \in SUBSET Paths
      /\ Len(history) \in Nat /\ {} \in SUBSET Paths /\ {} \in SUBSET Libs
      /\ MaxUndo \in Nat /\ MaxHistory \in Nat
  BY DEF TypeOK, Environment, BoundsAssumption
<1>1. \A op \in Ops, n \in Names \cup {None} :
        Command(op, n) => cmd' \in [op: Ops, name: Names \cup {None}] /\ pending = <<>>
  BY DEF Command
<1>2. ASSUME NEW c \in Inputs PROVE <<Fresh(c)>> \in Seq(Job)
  BY DEF Fresh, Job
<1>3. \A ok \in InitOutcomes : ok \in BOOLEAN
  BY DEF Environment, EnvironmentAssumption
<1>4. ASSUME NEW c \in Inputs, Eval(c) PROVE TypeOK'
  BY <1>1, <1>2, <1>4 DEF Eval, TypeOK, Ops, engine, log, options
<1>5. ASSUME NEW c \in Inputs, EvalAuto(c) PROVE TypeOK'
  <2>1. PICK ok \in InitOutcomes :
          /\ EnsureVersion(c.detects, ok)
          /\ pending' = IF ok THEN <<Fresh(c)>> ELSE <<>>
          /\ ret' = IF ok THEN ret ELSE FALSE
    BY <1>5 DEF EvalAuto
  <2>2. pending' \in Seq(Job) /\ ret' \in BOOLEAN /\ crashed' \in BOOLEAN
    <3>1. <<>> \in Seq(Job) /\ ret \in BOOLEAN /\ crashed \in BOOLEAN
      BY DEF TypeOK
    <3>. QED BY <1>2, <1>5, <2>1, <3>1 DEF EvalAuto
  <2>3. c.detects \in Versions
    BY DEF Environment, InputsAssumption, InputType
  <2>4. cmd' \in [op: Ops, name: Names \cup {None}]
    BY <1>1, <1>5 DEF EvalAuto, Ops
  <2>. QED BY <2>1, <2>2, <2>3, <2>4, TypeEnsure
<1>6. ASSUME NEW n \in 1..MaxUndo, Undo(n) PROVE TypeOK'
  BY <1>0, <1>1, <1>6, TypeUndo DEF Undo, Ops
<1>7. ASSUME NEW n \in 0..MaxUndo, StackPop(n) PROVE TypeOK'
  <2> DEFINE asked == IF n = 0 THEN 1 ELSE n
             m == IF asked < Len(history) THEN asked ELSE Len(history)
  <2>1. m \in Nat
    BY <1>0
  <2>2. cmd' \in [op: Ops, name: Names \cup {None}]
    BY <1>1, <1>7 DEF StackPop, Ops
  <2>3. CASE history = <<>>
    BY <1>7, <2>2, <2>3 DEF StackPop, Refuse, TypeOK, engine, log, options
  <2>4. CASE history # <<>>
    <3>1. UndoUnits(m)
      BY <1>7, <2>4 DEF StackPop
    <3>. HIDE DEF m
    <3>. QED BY <2>1, <2>2, <3>1, TypeUndo
  <2>. QED BY <2>3, <2>4
<1>8. ASSUME NEW n \in Names, StackRemove(n) PROVE TypeOK'
  BY <1>1, <1>8, TypeForget, EmptySeq DEF StackRemove, Ops
<1>9. ASSUME NEW n \in Names, NEW c \in Inputs, StackSet(n, c) PROVE TypeOK'
  BY <1>1, <1>2, <1>9, TypeForget DEF StackSet, Ops
<1>10. ASSUME NEW i \in 1..MaxHistory, NEW j \in 1..MaxHistory, StackSwap(i, j) PROVE TypeOK'
  <2>1. cmd' \in [op: Ops, name: Names \cup {None}]
    BY <1>1, <1>10 DEF StackSwap, Ops
  <2>2. CASE i \notin DOMAIN history \/ j \notin DOMAIN history \/ i = j
    BY <1>10, <2>1, <2>2 DEF StackSwap, Refuse, TypeOK, engine, log, options
  <2>3. CASE i \in DOMAIN history /\ j \in DOMAIN history /\ i # j
    <3> DEFINE swapped == [history EXCEPT ![i] = history[j], ![j] = history[i]]
    <3>1. swapped \in Seq(Inputs)
      BY <1>0, <2>3
    <3>2. Replays(swapped, "strict") \in Seq(Job)
      <4> HIDE DEF swapped
      <4>. QED BY <3>1, ReplaysType
    <3>3. Rebuild(includePaths, libraryPaths, Replays(swapped, "strict"))
      BY <1>10, <2>3 DEF StackSwap
    <3>. HIDE DEF swapped
    <3>. QED BY <1>0, <2>1, <3>2, <3>3, TypeRebuild
  <2>. QED BY <2>2, <2>3
<1>11. ASSUME NEW ok \in InitOutcomes, ResetTo(ok), cmd' \in [op: Ops, name: Names \cup {None}]
       PROVE TypeOK'
  BY <1>0, <1>3, <1>11, TypeReboot DEF ResetTo, Reboot, TypeOK
<1>12. CASE StackClear
  <2>1. cmd' \in [op: Ops, name: Names \cup {None}]
    BY <1>1, <1>12 DEF StackClear, Ops
  <2>2. CASE history = <<>> \/ (initialized /\ CanUndo(Len(history)))
    <3>1. DropLast(ptus, Len(history)) \in Seq(Ptu)
      BY <1>0, <2>2, ShorterSequences DEF CanUndo, TypeOK
    <3>2. NoVars \in VarMap /\ <<>> \in Seq(Inputs)
      BY DEF NoVars, VarMap
    <3>. QED BY <1>12, <2>1, <2>2, <3>1, <3>2 DEF StackClear, DropLog, TypeOK, options
  <2>3. CASE history # <<>> /\ initialized /\ ~CanUndo(Len(history))
    BY <1>11, <1>12, <2>1, <2>3 DEF StackClear
  <2>4. CASE history # <<>> /\ ~initialized
    BY <1>12, <2>1, <2>4 DEF StackClear, TypeOK, engine, log, options
  <2>. QED BY <2>2, <2>3, <2>4
<1>13. CASE Reset
  BY <1>1, <1>11, <1>13 DEF Reset, Ops
<1>. QED BY <1>4, <1>5, <1>6, <1>7, <1>8, <1>9, <1>10, <1>12, <1>13
     DEF StackCommand, EvalCommand

LEMMA TypeOption == Environment /\ TypeOK /\ OptionCommand => TypeOK'
<1> SUFFICES ASSUME Environment, TypeOK, OptionCommand PROVE TypeOK'
  OBVIOUS
<1>1. \A op \in Ops : Command(op, None) => cmd' \in [op: Ops, name: Names \cup {None}]
  BY DEF Command
<1>2. Replays(history, "replay") \in Seq(Job)
  BY ReplaysType DEF TypeOK
<1>3. ASSUME NEW p \in Paths, AddIncludePath(p) PROVE TypeOK'
  <2>1. cmd' \in [op: Ops, name: Names \cup {None}]
    BY <1>1, <1>3 DEF AddIncludePath, Ops
  <2>2. includePaths \cup {p} \in SUBSET Paths /\ libraryPaths \in SUBSET Paths
    BY DEF TypeOK
  <2>3. CASE p \in includePaths
    BY <1>3, <2>1, <2>3 DEF AddIncludePath, Refuse, TypeOK, engine, log, options
  <2>4. CASE p \notin includePaths
    BY <1>2, <1>3, <2>1, <2>2, <2>4, TypeRebuild DEF AddIncludePath
  <2>. QED BY <2>3, <2>4
<1>4. ASSUME NEW p \in Paths, AddLibraryPath(p) PROVE TypeOK'
  <2>1. cmd' \in [op: Ops, name: Names \cup {None}]
    BY <1>1, <1>4 DEF AddLibraryPath, Ops
  <2>2. libraryPaths \cup {p} \in SUBSET Paths /\ includePaths \in SUBSET Paths
    BY DEF TypeOK
  <2>3. CASE p \in libraryPaths
    BY <1>4, <2>1, <2>3 DEF AddLibraryPath, Refuse, TypeOK, engine, log, options
  <2>4. CASE p \notin libraryPaths
    BY <1>2, <1>4, <2>1, <2>2, <2>4, TypeRebuild DEF AddLibraryPath
  <2>. QED BY <2>3, <2>4
<1>5. ASSUME NEW l \in Libs, AddLibrary(l) PROVE TypeOK'
  <2>1. ret' \in BOOLEAN /\ loaded' \subseteq Libs
    BY <1>5 DEF AddLibrary, TypeOK, Loads
  <2>. QED BY <1>1, <1>5, <2>1 DEF AddLibrary, TypeOK, Ops, log
<1>6. ASSUME NEW l \in Libs, LoadLibrary(l) PROVE TypeOK'
  <2>1. ret' \in BOOLEAN /\ loaded' \subseteq Libs
    BY <1>6 DEF LoadLibrary, TypeOK, Loads
  <2>. QED BY <1>1, <1>6, <2>1 DEF LoadLibrary, TypeOK, Ops, log, options
<1>7. ASSUME NEW b \in BOOLEAN, SetSecurityConfig(b) PROVE TypeOK'
  BY <1>1, <1>7 DEF SetSecurityConfig, TypeOK, Ops, engine, log
<1>. QED BY <1>3, <1>4, <1>5, <1>6, <1>7 DEF OptionCommand

LEMMA TypeNext == Environment /\ TypeOK /\ [Next]_vars => TypeOK'
<1>1. TypeOK /\ UNCHANGED vars => TypeOK'
  BY DEF TypeOK, vars, engine, log, options
<1>. QED BY <1>1, TypeEval, TypeStack, TypeOption DEF Next

LEMMA EnvironmentHolds == Environment
BY InputsAssumption, EnvironmentAssumption, BoundsAssumption DEF Environment

(* Every variable keeps its type, in whatever order inputs, upgrades, undo    *)
(* and replays follow each other.                                             *)
THEOREM TypeCorrect == Spec => []TypeOK
BY TypeInit, TypeNext, EnvironmentHolds, PTL DEF Spec
--------------------------------------------------------------------------------
(* What a step does to the engine and the log, whichever action it is.        *)

Undoes ==
  \E n \in 0..Len(history) :
    /\ history' = DropLast(history, n)
    /\ variables' = Rebuilt(history') /\ tracker' = Rebuilt(history')

Forgets ==
  \E n \in Names :
    /\ Mentions(history, n) = {} /\ history' = history
    /\ variables' = [variables EXCEPT ![n] = None]
    /\ tracker' = [tracker EXCEPT ![n] = None]

Records == pending # <<>> /\ Push(job.code)

(* A new engine, or none: the log is empty. *)
Boots == DropLog /\ initialized' \in BOOLEAN /\ (~initialized' => ptus' = <<>> /\ loaded' = {})
(* The engine at work. *)
Works ==
  /\ initialized /\ initialized'
  /\ UNCHANGED log \/ Records \/ Undoes \/ Forgets \/ DropLog
(* Nothing happens without an engine. *)
Rests ==
  /\ ~initialized /\ ~initialized' /\ ptus' = <<>> /\ loaded' = {}
  /\ UNCHANGED log \/ DropLog

Effect == Boots \/ Works \/ Rests

Books == TypeOK /\ EngineBehindHistory /\ CopiesAgree

LEMMA BootEffect ==
  ASSUME Environment, NEW v, NEW incs, NEW lps, NEW libs, NEW ok \in InitOutcomes,
         Reboot(v, incs, lps, libs, ok)
  PROVE  Boots
BY DEF Environment, EnvironmentAssumption, Reboot, Boot, Boots

LEMMA EnsureEffect ==
  ASSUME Environment, Books, NEW v, NEW ok \in InitOutcomes, EnsureVersion(v, ok)
  PROVE  Boots
<1>1. DropLog
  <2>1. CASE initialized
    BY <2>1 DEF EnsureVersion
  <2>2. CASE ~initialized
    <3>1. history = <<>> /\ variables = NoVars /\ tracker = NoVars /\ UNCHANGED log
      BY <2>2 DEF EnsureVersion, Books, EngineBehindHistory, CopiesAgree
    <3>. QED BY <3>1 DEF DropLog, log
  <2>. QED BY <2>1, <2>2
<1>. QED BY <1>1 DEF Environment, EnvironmentAssumption, EnsureVersion, Boot, Boots

LEMMA QuietEffect ==
  ASSUME Books, UNCHANGED log, UNCHANGED <<initialized, ptus, loaded>>
  PROVE  Effect
BY DEF Books, TypeOK, EngineBehindHistory, Effect, Works, Rests, log

LEMMA FailEffect ==
  ASSUME Environment, Books, initialized, pending # <<>>, NEW why, NEW ps, Fail(why, ps)
  PROVE  Effect
<1>1. UNCHANGED <<initialized, loaded>>
  BY DEF Fail
<1>2. UNCHANGED log \/ Push(job.code)
  BY DEF Fail, log
<1>. QED BY <1>1, <1>2 DEF Effect, Works, Records, Books, TypeOK

LEMMA EvalEffect == Environment /\ Books /\ EvalStep => Effect
<1> SUFFICES ASSUME Environment, Books, EvalStep PROVE Effect
  OBVIOUS
<1>1. CASE DetectedUpgrade
  BY <1>1, EnsureEffect DEF DetectedUpgrade, Effect
<1>2. CASE ProactiveStdLib
  BY <1>2 DEF ProactiveStdLib, Effect, Works
<1>3. CASE Decide
  BY <1>3, QuietEffect DEF Decide, engine
<1>4. ASSUME Running PROVE initialized /\ pending # <<>>
  BY <1>4 DEF Running, Ready, Verdict
<1>5. CASE Evaluate
  BY <1>4, <1>5 DEF Evaluate, Effect, Works, Records
<1>6. CASE EvaluateOtherSpelling
  BY <1>4, <1>6 DEF EvaluateOtherSpelling, Effect, Works, Records
<1>7. CASE EvaluationFails
  BY <1>4, <1>7, FailEffect DEF EvaluationFails
<1>8. CASE UpgradeOnError
  BY <1>8, EnsureEffect DEF UpgradeOnError, Effect
<1>9. CASE RetryAfterUpgrade
  <2>1. pending # <<>>
    BY <1>9 DEF RetryAfterUpgrade, Ready
  <2>2. CASE initialized /\ First.outcome = "ok"
    BY <1>9, <2>1, <2>2 DEF RetryAfterUpgrade, Effect, Works, Records
  <2>3. CASE initialized /\ First.outcome # "ok"
    BY <1>9, <2>1, <2>3, FailEffect DEF RetryAfterUpgrade
  <2>4. CASE ~initialized
    BY <1>9, <2>4, QuietEffect DEF RetryAfterUpgrade, engine
  <2>. QED BY <2>2, <2>3, <2>4
<1>. QED BY <1>1, <1>2, <1>3, <1>5, <1>6, <1>7, <1>8, <1>9 DEF EvalStep

LEMMA UndoEffect ==
  ASSUME Environment, Books, NEW n \in Nat, UndoUnits(n)
  PROVE  Effect
<1>1. CASE initialized /\ CanUndo(n)
  <2> DEFINE m == IF n < Len(history) THEN n ELSE Len(history)
  <2>1. m \in 0..Len(history)
    BY DEF Books, TypeOK
  <2>2. /\ history' = DropLast(history, m) /\ initialized' = initialized
        /\ variables' = Rebuilt(history') /\ tracker' = Rebuilt(history')
    BY <1>1 DEF UndoUnits
  <2>3. Undoes
    BY <2>1, <2>2 DEF Undoes
  <2>. QED BY <1>1, <2>2, <2>3 DEF Effect, Works
<1>2. CASE ~(initialized /\ CanUndo(n))
  BY <1>2, QuietEffect DEF UndoUnits, Refuse, engine
<1>. QED BY <1>1, <1>2

LEMMA ForgetEffect ==
  ASSUME Environment, Books, NEW n \in Names, NEW jobs, Forget(n, jobs)
  PROVE  Effect
<1>1. CASE variables[n] = None /\ tracker[n] = None
  BY <1>1, QuietEffect DEF Forget, engine
<1>2. CASE ~(variables[n] = None /\ tracker[n] = None) /\ Mentions(history, n) = {}
  <2>1. initialized
    BY <1>2 DEF Books, EngineBehindHistory, CopiesAgree, NoVars
  <2>2. Forgets /\ initialized' = initialized
    BY <1>2 DEF Forget, Forgets, engine
  <2>. QED BY <2>1, <2>2 DEF Effect, Works
<1>3. CASE ~(variables[n] = None /\ tracker[n] = None) /\ Mentions(history, n) # {}
  BY <1>3, BootEffect DEF Forget, Effect
<1>. QED BY <1>1, <1>2, <1>3

LEMMA StackEffect == Environment /\ Books /\ (StackCommand \/ EvalCommand) => Effect
<1> SUFFICES ASSUME Environment, Books, StackCommand \/ EvalCommand PROVE Effect
  OBVIOUS
<1>1. ASSUME NEW c \in Inputs, Eval(c) \/ EvalAuto(c) PROVE Effect
  <2>1. CASE Eval(c)
    BY <2>1, QuietEffect DEF Eval, engine
  <2>2. CASE EvalAuto(c)
    BY <2>2, EnsureEffect DEF EvalAuto, Effect
  <2>. QED BY <1>1, <2>1, <2>2
<1>2. ASSUME NEW n \in Nat, Undo(n) PROVE Effect
  BY <1>2, UndoEffect DEF Undo
<1>3. ASSUME NEW n \in Nat, StackPop(n) PROVE Effect
  <2> DEFINE asked == IF n = 0 THEN 1 ELSE n
             m == IF asked < Len(history) THEN asked ELSE Len(history)
  <2>1. m \in Nat
    BY DEF Books, TypeOK
  <2>2. CASE history = <<>>
    BY <1>3, <2>2, QuietEffect DEF StackPop, Refuse, engine
  <2>3. CASE history # <<>>
    <3>1. UndoUnits(m)
      BY <1>3, <2>3 DEF StackPop
    <3>. HIDE DEF m
    <3>. QED BY <2>1, <3>1, UndoEffect
  <2>. QED BY <2>2, <2>3
<1>4. ASSUME NEW n \in Names, StackRemove(n) \/ \E c \in Inputs : StackSet(n, c) PROVE Effect
  BY <1>4, ForgetEffect DEF StackRemove, StackSet
<1>5. ASSUME NEW i, NEW j, StackSwap(i, j) PROVE Effect
  <2>1. CASE i \notin DOMAIN history \/ j \notin DOMAIN history \/ i = j
    BY <1>5, <2>1, QuietEffect DEF StackSwap, Refuse, engine
  <2>2. CASE i \in DOMAIN history /\ j \in DOMAIN history /\ i # j
    BY <1>5, <2>2, BootEffect DEF StackSwap, Rebuild, Effect
  <2>. QED BY <2>1, <2>2
<1>6. ASSUME NEW ok \in InitOutcomes, ResetTo(ok) PROVE Effect
  BY <1>6, BootEffect DEF ResetTo, Effect
<1>7. CASE StackClear
  <2>1. CASE history = <<>> \/ (initialized /\ CanUndo(Len(history)))
    <3>1. DropLog /\ ptus' = DropLast(ptus, Len(history)) /\ UNCHANGED <<initialized, loaded>>
      BY <1>7, <2>1 DEF StackClear
    <3>2. CASE initialized
      BY <3>1, <3>2 DEF Effect, Works, Books, TypeOK
    <3>3. CASE ~initialized
      <4>1. ptus = <<>> /\ history = <<>> /\ loaded = {}
        BY <3>3 DEF Books, EngineBehindHistory
      <4>2. ptus' = <<>>
        BY <3>1, <4>1 DEF DropLast
      <4>. QED BY <3>1, <3>3, <4>1, <4>2 DEF Effect, Rests
    <3>. QED BY <3>2, <3>3
  <2>2. CASE history # <<>> /\ initialized /\ ~CanUndo(Len(history))
    BY <1>6, <1>7, <2>2 DEF StackClear
  <2>3. CASE history # <<>> /\ ~initialized
    BY <2>3 DEF Books, EngineBehindHistory
  <2>. QED BY <2>1, <2>2, <2>3
<1>8. CASE Reset
  BY <1>6, <1>8 DEF Reset
<1>. QED BY <1>1, <1>2, <1>3, <1>4, <1>5, <1>7, <1>8
     DEF StackCommand, EvalCommand, Environment, BoundsAssumption

LEMMA OptionEffect == Environment /\ Books /\ OptionCommand => Effect
<1> SUFFICES ASSUME Environment, Books, OptionCommand PROVE Effect
  OBVIOUS
<1>1. ASSUME NEW p \in Paths, AddIncludePath(p) PROVE Effect
  <2>1. CASE p \in includePaths
    BY <1>1, <2>1, QuietEffect DEF AddIncludePath, Refuse, engine
  <2>2. CASE p \notin includePaths
    BY <1>1, <2>2, BootEffect DEF AddIncludePath, Rebuild, Effect
  <2>. QED BY <2>1, <2>2
<1>2. ASSUME NEW p \in Paths, AddLibraryPath(p) PROVE Effect
  <2>1. CASE p \in libraryPaths
    BY <1>2, <2>1, QuietEffect DEF AddLibraryPath, Refuse, engine
  <2>2. CASE p \notin libraryPaths
    BY <1>2, <2>2, BootEffect DEF AddLibraryPath, Rebuild, Effect
  <2>. QED BY <2>1, <2>2
<1>3. ASSUME NEW l \in Libs, AddLibrary(l) \/ LoadLibrary(l) PROVE Effect
  <2>1. /\ UNCHANGED <<initialized, ptus, log>>
        /\ ~initialized => loaded' = loaded
    BY <1>3 DEF AddLibrary, LoadLibrary
  <2>. QED BY <2>1 DEF Effect, Works, Rests, Books, EngineBehindHistory, TypeOK
<1>4. ASSUME NEW b \in BOOLEAN, SetSecurityConfig(b) PROVE Effect
  BY <1>4, QuietEffect DEF SetSecurityConfig, engine
<1>. QED BY <1>1, <1>2, <1>3, <1>4 DEF OptionCommand

LEMMA StepEffect == Environment /\ Books /\ [Next]_vars => Effect
<1>1. Books /\ UNCHANGED vars => Effect
  BY QuietEffect DEF vars, engine
<1>. QED BY <1>1, EvalEffect, StackEffect, OptionEffect DEF Next
--------------------------------------------------------------------------------
(* The books: engine, history and the two copies of the table.                *)

LEMMA BooksInit == Environment /\ Init => Books
BY TypeInit DEF Init, Books, EngineBehindHistory, CopiesAgree

LEMMA BooksNext == Environment /\ Books /\ [Next]_vars => Books'
<1> SUFFICES ASSUME Environment, Books, [Next]_vars PROVE Books'
  OBVIOUS
<1>1. TypeOK'
  BY TypeNext DEF Books
<1>2. Effect
  BY StepEffect
<1>3. EngineBehindHistory'
  BY <1>2 DEF Effect, Boots, Works, Rests, DropLog, log, Books, EngineBehindHistory
<1>4. CopiesAgree'
  <2>1. Records => CopiesAgree'
    BY DEF Records, Push, TrackVariable, Books, CopiesAgree
  <2>2. Undoes \/ Forgets \/ DropLog \/ UNCHANGED log => CopiesAgree'
    BY DEF Undoes, Forgets, DropLog, log, Books, CopiesAgree
  <2>. QED BY <1>2, <2>1, <2>2 DEF Effect, Boots, Works, Rests
<1>. QED BY <1>1, <1>3, <1>4 DEF Books

LEMMA AlwaysBooks == Spec => []Books
BY BooksInit, BooksNext, EnvironmentHolds, PTL DEF Spec

(* Without an engine nothing is recorded and nothing is loaded; so stackClear *)
(* never reaches its Undo call with a null interp_ (interpreter.cpp           *)
(* 1423-1446).                                                                *)
THEOREM EngineAlwaysBehindHistory == Spec => []EngineBehindHistory
<1>1. Books => EngineBehindHistory
  BY DEF Books
<1>. QED BY <1>1, AlwaysBooks, PTL

(* variables_ and tracker_ never differ (830-852, 1296-1314).                 *)
THEOREM CopiesAlwaysAgree == Spec => []CopiesAgree
<1>1. Books => CopiesAgree
  BY DEF Books
<1>. QED BY <1>1, AlwaysBooks, PTL

LEMMA RequestedBoot ==
  ASSUME NEW v, NEW incs, NEW lps, NEW libs, NEW ok, Boot(v, incs, lps, libs, ok)
  PROVE  RequestedAreLoaded'
BY DEF Boot, RequestedAreLoaded

LEMMA RequestedQuiet ==
  ASSUME RequestedAreLoaded, initialized' = initialized, loaded \subseteq loaded',
         libraries' = libraries, libraryPaths' = libraryPaths
  PROVE  RequestedAreLoaded'
BY DEF RequestedAreLoaded

LEMMA RequestedNext == RequestedAreLoaded /\ [Next]_vars => RequestedAreLoaded'
<1> SUFFICES ASSUME RequestedAreLoaded, [Next]_vars PROVE RequestedAreLoaded'
  OBVIOUS
<1>1. CASE DetectedUpgrade \/ UpgradeOnError
  BY <1>1, RequestedBoot DEF DetectedUpgrade, UpgradeOnError, EnsureVersion
<1>2. CASE ProactiveStdLib \/ Decide \/ Evaluate \/ EvaluateOtherSpelling
  BY <1>2, RequestedQuiet
     DEF ProactiveStdLib, Decide, Evaluate, EvaluateOtherSpelling, engine, options
<1>3. CASE EvaluationFails \/ RetryAfterUpgrade
  BY <1>3, RequestedQuiet DEF EvaluationFails, RetryAfterUpgrade, Fail, engine, options
<1>4. CASE EvalCommand
  BY <1>4, RequestedBoot, RequestedQuiet DEF EvalCommand, Eval, EvalAuto, EnsureVersion, engine, options
<1>5. ASSUME NEW n, UndoUnits(n) PROVE RequestedAreLoaded'
  BY <1>5, RequestedQuiet DEF UndoUnits, Refuse, engine, options
<1>6. ASSUME NEW n, NEW jobs, Forget(n, jobs) PROVE RequestedAreLoaded'
  BY <1>6, RequestedBoot, RequestedQuiet DEF Forget, Reboot, engine, options
<1>7. ASSUME NEW incs, NEW lps, NEW jobs, Rebuild(incs, lps, jobs) PROVE RequestedAreLoaded'
  BY <1>7, RequestedBoot DEF Rebuild, Reboot
<1>8. ASSUME NEW r, Refuse(r) PROVE RequestedAreLoaded'
  BY <1>8, RequestedQuiet DEF Refuse, engine, options
<1>9. ASSUME NEW ok, ResetTo(ok) PROVE RequestedAreLoaded'
  BY <1>9, RequestedBoot DEF ResetTo, Reboot
<1>10. CASE StackClear
  BY <1>9, <1>10, RequestedQuiet DEF StackClear, engine, options
<1>11. ASSUME NEW i, NEW j, StackSwap(i, j) PROVE RequestedAreLoaded'
  BY <1>7, <1>8, <1>11 DEF StackSwap
<1>12. CASE StackCommand
  BY <1>5, <1>6, <1>8, <1>9, <1>10, <1>11, <1>12
     DEF StackCommand, Undo, StackPop, StackRemove, StackSet, Reset
<1>13. ASSUME NEW p, AddIncludePath(p) \/ AddLibraryPath(p) PROVE RequestedAreLoaded'
  BY <1>7, <1>8, <1>13 DEF AddIncludePath, AddLibraryPath
<1>14. ASSUME NEW l, AddLibrary(l) PROVE RequestedAreLoaded'
  BY <1>14 DEF AddLibrary, RequestedAreLoaded
<1>15. ASSUME NEW l, LoadLibrary(l) PROVE RequestedAreLoaded'
  BY <1>15, RequestedQuiet DEF LoadLibrary, options
<1>16. ASSUME NEW b, SetSecurityConfig(b) PROVE RequestedAreLoaded'
  BY <1>16, RequestedQuiet DEF SetSecurityConfig, engine
<1>17. CASE UNCHANGED vars
  BY <1>17, RequestedQuiet DEF vars, engine, options
<1>. QED BY <1>1, <1>2, <1>3, <1>4, <1>12, <1>13, <1>14, <1>15, <1>16, <1>17
     DEF Next, EvalStep, OptionCommand

(* Every engine has the libraries asked for (init 333-399, addLibrary         *)
(* 439-492): neither the order of :lib and :L nor a rebuild loses one.        *)
THEOREM RequestedAlwaysLoaded == Spec => []RequestedAreLoaded
<1>1. Init => RequestedAreLoaded
  BY DEF Init, RequestedAreLoaded
<1>. QED BY <1>1, RequestedNext, PTL DEF Spec

LEMMA RecordedInit == Environment /\ Init => RecordedIsInHistory
BY DEF Init, NoVars, RecordedIsInHistory

LEMMA RecordedNext ==
  Environment /\ Books /\ RecordedIsInHistory /\ [Next]_vars => RecordedIsInHistory'
<1> SUFFICES ASSUME Environment, Books, RecordedIsInHistory, Effect,
                    NEW n \in Names, variables'[n] # None
             PROVE  \E k \in DOMAIN history' : Declares(history'[k], n)
  BY StepEffect DEF RecordedIsInHistory
<1>1. CASE UNCHANGED log
  BY <1>1 DEF RecordedIsInHistory, log
<1>2. CASE Records
  <2>1. /\ job.code \in Inputs /\ history \in Seq(Inputs) /\ variables \in VarMap
        /\ history' = Append(history, job.code) /\ TrackVariable(job.code)
    BY <1>2, JobType DEF Records, Push, Books, TypeOK, Environment
  <2>2. /\ DOMAIN history' = DOMAIN history \cup {Len(history) + 1}
        /\ \A k \in DOMAIN history : history'[k] = history[k]
        /\ history'[Len(history) + 1] = job.code
    BY <2>1
  <2>3. CASE Declares(job.code, n)
    BY <2>2, <2>3
  <2>4. CASE ~Declares(job.code, n)
    <3>1. variables[n] # None
      BY <2>1, <2>4 DEF TrackVariable, Noted, Declares, VarMap, Environment,
                        InputsAssumption, InputType
    <3>. QED BY <2>2, <3>1 DEF RecordedIsInHistory
  <2>. QED BY <2>3, <2>4
<1>3. CASE Undoes
  <2>1. PICK m \in 0..Len(history) :
          history' = DropLast(history, m) /\ variables' = Rebuilt(history')
    BY <1>3 DEF Undoes
  <2>2. history' \in Seq(Inputs)
    BY <2>1, ShorterSequences DEF Books, TypeOK
  <2>. QED BY <2>1, <2>2, RebuiltType DEF Environment
<1>4. CASE Forgets
  BY <1>4 DEF Forgets, RecordedIsInHistory, Books, TypeOK, VarMap
<1>5. CASE DropLog
  BY <1>5 DEF DropLog, NoVars
<1>. QED BY <1>1, <1>2, <1>3, <1>4, <1>5 DEF Effect, Boots, Works, Rests

(* Every recorded variable is declared by an entry of the history, whatever   *)
(* is undone, replayed, removed or swapped (830-852, 1286-1317, 1447-1503).    *)
THEOREM RecordedAlwaysInHistory == Spec => []RecordedIsInHistory
BY AlwaysBooks, RecordedInit, RecordedNext, EnvironmentHolds, PTL DEF Spec
--------------------------------------------------------------------------------
(* Language versions.                                                         *)

Fit(js, v) == \A k \in DOMAIN js : Settled(js[k]) => js[k].code.detects <= v
Old(h, v) == \A k \in DOMAIN h : h[k].detects <= v

LEMMA FitFacts ==
  ASSUME InputsAssumption
  PROVE  /\ \A v \in Versions : Fit(<<>>, v) /\ Old(<<>>, v)
         /\ \A js \in Seq(Job), v \in Versions : js # <<>> /\ Fit(js, v) => Fit(Tail(js), v)
         /\ \A js, ks \in Seq(Job), v \in Versions : Fit(js, v) /\ Fit(ks, v) => Fit(js \o ks, v)
         /\ \A js \in Seq(Job), v, w \in Versions : Fit(js, v) /\ v <= w => Fit(js, w)
         /\ \A h \in Seq(Inputs), v, w \in Versions : Old(h, v) /\ v <= w => Old(h, w)
<1>1. \A v \in Versions : Fit(<<>>, v) /\ Old(<<>>, v)
  BY DEF Fit, Old
<1>2. ASSUME NEW js \in Seq(Job), NEW v \in Versions, js # <<>>, Fit(js, v) PROVE Fit(Tail(js), v)
  BY <1>2 DEF Fit
<1>3. ASSUME NEW js \in Seq(Job), NEW ks \in Seq(Job), NEW v \in Versions, Fit(js, v), Fit(ks, v)
      PROVE  Fit(js \o ks, v)
  <2>1. /\ js \o ks \in Seq(Job) /\ Len(js \o ks) = Len(js) + Len(ks)
        /\ \A i \in 1..(Len(js) + Len(ks)) :
             (js \o ks)[i] = IF i <= Len(js) THEN js[i] ELSE ks[i - Len(js)]
    BY ConcatProperties
  <2>2. ASSUME NEW i \in DOMAIN (js \o ks), Settled((js \o ks)[i])
        PROVE  (js \o ks)[i].code.detects <= v
    <3>1. CASE i <= Len(js)
      BY <1>3, <2>1, <2>2, <3>1 DEF Fit
    <3>2. CASE ~(i <= Len(js))
      <4>1. i - Len(js) \in DOMAIN ks
        BY <2>1, <3>2
      <4>. QED BY <1>3, <2>1, <2>2, <3>2, <4>1 DEF Fit
    <3>. QED BY <3>1, <3>2
  <2>. QED BY <2>2 DEF Fit
<1>4. \A c \in Inputs : c.detects \in Versions
  BY DEF InputsAssumption, InputType
<1>5. ASSUME NEW js \in Seq(Job), NEW v \in Versions, NEW w \in Versions, Fit(js, v), v <= w
      PROVE  Fit(js, w)
  <2>1. \A k \in DOMAIN js : js[k].code.detects \in Versions
    <3>1. ASSUME NEW k \in DOMAIN js PROVE js[k].code \in Inputs
      <4>1. js[k] \in Job
        OBVIOUS
      <4>. QED BY <4>1 DEF Job
    <3>. QED BY <1>4, <3>1
  <2>. QED BY <1>5, <2>1 DEF Fit, Versions
<1>6. ASSUME NEW h \in Seq(Inputs), NEW v \in Versions, NEW w \in Versions, Old(h, v), v <= w
      PROVE  Old(h, w)
  BY <1>4, <1>6 DEF Old, Versions
<1>. QED BY <1>1, <1>2, <1>3, <1>5, <1>6

LEMMA FitReplays ==
  ASSUME NEW h \in Seq(Inputs), NEW as \in {"eval", "replay", "strict"}, NEW v \in Versions, Old(h, v)
  PROVE  Fit(Replays(h, as), v)
<1>1. DOMAIN Replays(h, as) = 1..Len(h) /\ DOMAIN h = 1..Len(h)
  BY DEF Replays
<1>2. ASSUME NEW k \in 1..Len(h) PROVE Replays(h, as)[k].code.detects <= v
  <2>1. Replays(h, as)[k].code = h[k]
    BY DEF Replays
  <2>2. h[k].detects <= v
    BY <1>1 DEF Old
  <2>. QED BY <2>1, <2>2
<1>. QED BY <1>1, <1>2 DEF Fit

LEMMA FitReturn ==
  ASSUME Environment, TypeOK, pending # <<>>, Fit(pending, version), NEW r \in BOOLEAN, Return(r)
  PROVE  Fit(pending', version)
BY FitFacts DEF Return, TypeOK, Environment

(* A job that reached clang, and so every entry pushed, fits the engine. *)
LEMMA FitPush ==
  ASSUME Environment, TypeOK, pending # <<>>, HistoryFitsVersion,
         job.code.detects <= version, Push(job.code)
  PROVE  Old(history', version)
<1>1. job.code \in Inputs /\ history \in Seq(Inputs)
  BY JobType DEF TypeOK, Environment
<1>. QED BY <1>1 DEF Push, Old, HistoryFitsVersion

LEMMA FitFail ==
  ASSUME Environment, TypeOK, pending # <<>>, HistoryFitsVersion, job.code.detects <= version,
         NEW why, NEW ps, Fail(why, ps)
  PROVE  HistoryFitsVersion'
<1>1. version' = version
  BY DEF Fail, options
<1>2. Return(TRUE) \/ Return(FALSE)
  <2>1. CASE why = "redefinition" /\ job.code.kind = "decl" /\ variables[job.code.name] # None
    <3>1. Return(variables[job.code.name] = Info(job.code))
      BY <2>1 DEF Fail
    <3>2. CASE variables[job.code.name] = Info(job.code)
      BY <3>1, <3>2 DEF Return
    <3>3. CASE variables[job.code.name] # Info(job.code)
      BY <3>1, <3>3 DEF Return
    <3>. QED BY <3>2, <3>3
  <2>2. CASE ~(why = "redefinition" /\ job.code.kind = "decl" /\ variables[job.code.name] # None)
    BY <2>2 DEF Fail
  <2>. QED BY <2>1, <2>2
<1>3. Push(job.code) \/ history' = history
  BY DEF Fail, log
<1>4. Fit(pending', version)
  BY <1>2, FitReturn DEF HistoryFitsVersion, Fit
<1>5. Old(history', version)
  BY <1>3, FitPush DEF HistoryFitsVersion, Old
<1>. QED BY <1>1, <1>4, <1>5 DEF HistoryFitsVersion, Fit, Old

LEMMA FitEval == Environment /\ Books /\ HistoryFitsVersion /\ EvalStep => HistoryFitsVersion'
<1> SUFFICES ASSUME Environment, Books, HistoryFitsVersion, EvalStep
             PROVE  Old(history', version') /\ Fit(pending', version')
  BY DEF HistoryFitsVersion, Old, Fit
<1> USE DEF Environment
<1>0. pending # <<>>
  BY DEF EvalStep, DetectedUpgrade, ProactiveStdLib, Decide, Evaluate, EvaluateOtherSpelling,
         EvaluationFails, UpgradeOnError, RetryAfterUpgrade, Running, Ready
<1>1. /\ TypeOK /\ job \in Job /\ job.code \in InputType /\ Tail(pending) \in Seq(Job)
      /\ job.code.detects \in Versions /\ job.code.hints \in Versions
      /\ history \in Seq(Inputs) /\ pending \in Seq(Job) /\ version \in Versions
  BY <1>0, JobType DEF Books, TypeOK, InputType
<1>2. Old(history, version) /\ Fit(pending, version)
  BY DEF HistoryFitsVersion, Old, Fit
<1>3. \A r \in BOOLEAN : Return(r) => Fit(pending', version)
  BY <1>0, <1>1, <1>2, FitReturn
<1>4. ~NeedsUpgrade => job.code.detects <= version
  <2>1. CASE job.why = "fresh"
    BY <1>1, <2>1 DEF NeedsUpgrade, Versions
  <2>2. CASE job.why # "fresh"
    <3>1. 1 \in DOMAIN pending /\ job = pending[1]
      BY <1>0, <1>1 DEF job
    <3>. QED BY <1>2, <2>2, <3>1 DEF Fit, Settled
  <2>. QED BY <2>1, <2>2
<1>5. ASSUME Ready, Push(job.code) PROVE Old(history', version)
  BY <1>0, <1>1, <1>4, <1>5, FitPush DEF Ready
<1>6. Fit(UpgradeReplays, version) /\ UpgradeReplays \in Seq(Job)
  <2>1. Fit(<<>>, version) /\ <<>> \in Seq(Job)
    BY DEF Fit
  <2>. QED BY <1>1, <1>2, <2>1, FitReplays, ReplaysType DEF UpgradeReplays
<1>7. ASSUME NEW v \in Versions, version <= v
      PROVE  /\ Fit(pending, v) /\ Fit(UpgradeReplays, v) /\ Fit(Tail(pending), v)
             /\ Fit(<<>>, v) /\ Old(<<>>, v)
  BY <1>0, <1>1, <1>2, <1>6, <1>7, FitFacts
<1>8. CASE DetectedUpgrade
  <2>1. PICK ok \in InitOutcomes :
          /\ EnsureVersion(job.code.detects, ok)
          /\ IF ok THEN /\ pending' = UpgradeReplays \o pending
                        /\ UNCHANGED <<cmd, ret>>
                   ELSE Return(FALSE)
    BY <1>8 DEF DetectedUpgrade
  <2>2. version <= job.code.detects
    BY <1>1, <1>8 DEF DetectedUpgrade, NeedsUpgrade, Versions
  <2>3. version' = job.code.detects /\ history' = <<>>
    BY <2>1, EnsureEffect DEF EnsureVersion, Boot, Boots, DropLog
  <2>4. pending' = UpgradeReplays \o pending \/ Return(FALSE)
    BY <2>1, Zenon
  <2>5. Fit(pending', job.code.detects)
    <3>1. CASE pending' = UpgradeReplays \o pending
      BY <1>1, <1>6, <1>7, <2>2, <3>1, FitFacts
    <3>2. CASE Return(FALSE)
      <4>1. pending' \in {<<>>, Tail(pending)}
        BY <3>2 DEF Return
      <4>. QED BY <1>1, <1>7, <2>2, <4>1
    <3>. QED BY <2>4, <3>1, <3>2
  <2>. QED BY <1>1, <1>7, <2>2, <2>3, <2>5
<1>9. CASE ProactiveStdLib
  BY <1>2, <1>9 DEF ProactiveStdLib, log, options
<1>10. CASE Decide
  <2>1. Return(TRUE) \/ Return(FALSE)
    <3>1. CASE Verdict(job.code) = "ignore"
      BY <1>10, <3>1 DEF Decide, Return
    <3>2. CASE Verdict(job.code) # "ignore"
      BY <1>10, <3>2 DEF Decide, Return
    <3>. QED BY <3>1, <3>2
  <2>. QED BY <1>2, <1>3, <1>10, <2>1 DEF Decide, log, options
<1>11. CASE Evaluate
  BY <1>3, <1>5, <1>11 DEF Evaluate, Running, options
<1>12. CASE EvaluateOtherSpelling
  BY <1>3, <1>5, <1>12 DEF EvaluateOtherSpelling, Running, options
<1>13. ASSUME Ready, NEW why, NEW ps, Fail(why, ps)
       PROVE  Old(history', version') /\ Fit(pending', version')
  BY <1>0, <1>1, <1>4, <1>13, FitFail DEF Ready, HistoryFitsVersion, Old, Fit
<1>14. CASE EvaluationFails
  BY <1>13, <1>14 DEF EvaluationFails, Running
<1>15. CASE UpgradeOnError
  <2> DEFINE again == [job EXCEPT !.why = First.outcome]
  <2>1. PICK ok \in InitOutcomes :
          /\ EnsureVersion(job.code.hints, ok)
          /\ \/ pending' = UpgradeReplays \o <<again>> \o Tail(pending)
             \/ pending' \in {<<>>, Tail(pending)}
    BY <1>15, Zenon DEF UpgradeOnError, Crash, Return
  <2>2. version <= job.code.hints
    BY <1>1, <1>15 DEF UpgradeOnError, Versions
  <2>3. version' = job.code.hints /\ history' = <<>>
    BY <2>1, EnsureEffect DEF EnsureVersion, Boot, Boots, DropLog
  <2>4. again \in Job /\ again.code = job.code
    <3>1. First.outcome # "ok"
      BY <1>15 DEF UpgradeOnError, Second
    <3>. QED BY <1>0, <1>1, <3>1, AttemptType DEF Job
  <2>5. job.code.detects <= job.code.hints
    <3>1. job.code.detects <= version
      BY <1>4, <1>15 DEF UpgradeOnError, Running, Ready
    <3>. QED BY <1>1, <2>2, <3>1 DEF Versions
  <2>. HIDE DEF again
  <2>6. <<again>> \in Seq(Job) /\ Fit(<<again>>, job.code.hints)
    BY <2>4, <2>5 DEF Fit
  <2>7. Fit(pending', job.code.hints)
    <3>1. \A js, ks \in Seq(Job), v \in Versions : Fit(js, v) /\ Fit(ks, v) => Fit(js \o ks, v)
      BY FitFacts
    <3>2. CASE pending' = UpgradeReplays \o <<again>> \o Tail(pending)
      <4>1. UpgradeReplays \in Seq(Job) /\ Fit(UpgradeReplays, job.code.hints)
        BY <1>1, <1>6, <1>7, <2>2
      <4>2. UpgradeReplays \o <<again>> \in Seq(Job)
        BY <2>6, <4>1, ConcatProperties
      <4>3. Fit(UpgradeReplays \o <<again>>, job.code.hints)
        BY <1>1, <2>6, <3>1, <4>1
      <4>4. Fit((UpgradeReplays \o <<again>>) \o Tail(pending), job.code.hints)
        BY <1>1, <1>7, <2>2, <3>1, <4>2, <4>3
      <4>. QED BY <3>2, <4>4
    <3>3. CASE pending' \in {<<>>, Tail(pending)}
      BY <1>1, <1>7, <2>2, <3>3
    <3>. QED BY <2>1, <3>2, <3>3
  <2>. QED BY <1>1, <1>7, <2>2, <2>3, <2>7
<1>16. CASE RetryAfterUpgrade
  <2>1. CASE initialized /\ First.outcome = "ok"
    BY <1>3, <1>5, <1>16, <2>1 DEF RetryAfterUpgrade, options
  <2>2. CASE initialized /\ First.outcome # "ok"
    BY <1>13, <1>16, <2>2 DEF RetryAfterUpgrade
  <2>3. CASE ~initialized
    <3>1. Fit(<<>>, version)
      BY DEF Fit
    <3>. QED BY <1>2, <1>16, <2>3, <3>1 DEF RetryAfterUpgrade, Crash, log, options
  <2>. QED BY <2>1, <2>2, <2>3
<1>. QED BY <1>8, <1>9, <1>10, <1>11, <1>12, <1>14, <1>15, <1>16 DEF EvalStep

(* A command that boots an engine starts from nothing recorded. *)
LEMMA FitBoot ==
  ASSUME NEW v \in Versions, NEW incs, NEW lps, NEW libs, NEW ok, Boot(v, incs, lps, libs, ok),
         DropLog, Fit(pending', v)
  PROVE  HistoryFitsVersion'
BY DEF Boot, DropLog, HistoryFitsVersion, Fit

LEMMA FitForget ==
  ASSUME Environment, Books, HistoryFitsVersion, NEW n \in Names, NEW jobs \in Seq(Job),
         Fit(jobs, version), Forget(n, jobs)
  PROVE  HistoryFitsVersion'
<1>0. TypeOK /\ version \in Versions /\ history \in Seq(Inputs) /\ Len(history) \in Nat
  BY DEF Books, TypeOK
<1>1. CASE (variables[n] = None /\ tracker[n] = None) \/ Mentions(history, n) = {}
  BY <1>1 DEF Forget, HistoryFitsVersion, Fit, log, options
<1>2. CASE ~(variables[n] = None /\ tracker[n] = None) /\ Mentions(history, n) # {}
  <2> DEFINE kept == Without(history, Last(Mentions(history, n)))
  <2>1. Last(Mentions(history, n)) \in DOMAIN history
    <3>1. Mentions(history, n) \in SUBSET (1..Len(history)) /\ DOMAIN history = 1..Len(history)
      BY <1>0 DEF Mentions
    <3>. QED BY <1>0, <1>2, <3>1, LastIsMember
  <2>2. kept \in Seq(Inputs) /\ Old(kept, version)
    <3>1. ASSUME NEW k \in DOMAIN history PROVE Old(Without(history, k), version)
      <4>1. \A i \in DOMAIN Without(history, k) :
              \E j \in DOMAIN history : Without(history, k)[i] = history[j]
        BY <1>0, WithoutElements
      <4>. QED BY <1>0, <4>1 DEF HistoryFitsVersion, Old
    <3>. QED BY <1>0, <2>1, <3>1, ShorterSequences
  <2>3. PICK ok \in InitOutcomes :
          /\ Reboot(version, includePaths, libraryPaths, libraries, ok)
          /\ pending' = (IF ok THEN Replays(kept, "replay") ELSE <<>>) \o jobs
    BY <1>2 DEF Forget
  <2>. HIDE DEF kept
  <2>4. Fit(pending', version)
    <3>1. Replays(kept, "replay") \in Seq(Job) /\ Fit(Replays(kept, "replay"), version)
      BY <1>0, <2>2, FitReplays, ReplaysType
    <3>2. \A js, ks \in Seq(Job), v \in Versions : Fit(js, v) /\ Fit(ks, v) => Fit(js \o ks, v)
      BY FitFacts DEF Environment
    <3>3. <<>> \in Seq(Job) /\ Fit(<<>>, version)
      BY DEF Fit
    <3>. QED BY <1>0, <2>3, <3>1, <3>2, <3>3
  <2>. QED BY <1>0, <2>3, <2>4, FitBoot DEF Reboot
<1>. QED BY <1>1, <1>2

LEMMA FitCommand ==
  Environment /\ Books /\ HistoryFitsVersion /\ (StackCommand \/ EvalCommand \/ OptionCommand)
    => HistoryFitsVersion'
<1> SUFFICES ASSUME Environment, Books, HistoryFitsVersion,
                    StackCommand \/ EvalCommand \/ OptionCommand
             PROVE  HistoryFitsVersion'
  OBVIOUS
<1>0. /\ TypeOK /\ version \in Versions /\ history \in Seq(Inputs) /\ Len(history) \in Nat
      /\ Old(history, version)
  BY DEF Books, TypeOK, HistoryFitsVersion, Old
<1>1. UNCHANGED <<history, version, pending>> => HistoryFitsVersion'
  BY DEF HistoryFitsVersion
<1>2. \A r : Refuse(r) => UNCHANGED <<history, version, pending>>
  BY DEF Refuse, log, options
<1>3. ASSUME NEW c \in Inputs, NEW v \in Versions PROVE Fit(<<Fresh(c)>>, v) /\ Fit(<<>>, v)
  BY DEF Fit, Fresh, Settled
<1>4. ASSUME NEW ok, NEW jobs, Fit(jobs, version), pending' = IF ok THEN jobs ELSE <<>>
      PROVE  Fit(pending', version)
  BY <1>4 DEF Fit
<1>5. ASSUME NEW incs, NEW lps, NEW jobs, Fit(jobs, version), Rebuild(incs, lps, jobs)
      PROVE  HistoryFitsVersion'
  BY <1>0, <1>4, <1>5, FitBoot DEF Rebuild, Reboot
<1>6. Fit(Replays(history, "replay"), version)
  BY <1>0, FitReplays
<1>7. ASSUME NEW c \in Inputs, Eval(c) PROVE HistoryFitsVersion'
  BY <1>0, <1>3, <1>7 DEF Eval, HistoryFitsVersion, Fit, log, options
<1>8. ASSUME NEW c \in Inputs, EvalAuto(c) PROVE HistoryFitsVersion'
  <2>1. c.detects \in Versions
    BY DEF Environment, InputsAssumption, InputType
  <2>2. Fit(pending', c.detects)
    BY <1>3, <1>8, <2>1 DEF EvalAuto
  <2>3. PICK ok \in InitOutcomes : EnsureVersion(c.detects, ok)
    BY <1>8 DEF EvalAuto
  <2>4. DropLog
    BY <2>3, EnsureEffect DEF Boots
  <2>. QED BY <2>1, <2>2, <2>3, <2>4, FitBoot DEF EnsureVersion
<1>9. ASSUME NEW n \in Nat, UndoUnits(n) PROVE HistoryFitsVersion'
  <2>1. CASE initialized /\ CanUndo(n)
    <3> DEFINE m == IF n < Len(history) THEN n ELSE Len(history)
    <3>1. m \in Nat /\ m <= Len(history)
      BY <1>0
    <3>2. history' = DropLast(history, m) /\ UNCHANGED <<version, pending>>
      BY <1>9, <2>1 DEF UndoUnits, options
    <3>. HIDE DEF m
    <3>3. Old(history', version)
      BY <1>0, <3>1, <3>2 DEF DropLast, Old
    <3>. QED BY <3>2, <3>3 DEF HistoryFitsVersion, Old
  <2>2. CASE ~(initialized /\ CanUndo(n))
    BY <1>1, <1>2, <1>9, <2>2 DEF UndoUnits
  <2>. QED BY <2>1, <2>2
<1>10. ASSUME NEW n \in Nat, StackPop(n) PROVE HistoryFitsVersion'
  <2> DEFINE asked == IF n = 0 THEN 1 ELSE n
             m == IF asked < Len(history) THEN asked ELSE Len(history)
  <2>1. m \in Nat
    BY <1>0
  <2>2. Refuse(FALSE) \/ UndoUnits(m)
    BY <1>10 DEF StackPop
  <2>. HIDE DEF m
  <2>. QED BY <1>1, <1>2, <1>9, <2>1, <2>2
<1>11. ASSUME NEW n \in Names, StackRemove(n) \/ \E c \in Inputs : StackSet(n, c)
       PROVE  HistoryFitsVersion'
  <2>1. CASE StackRemove(n)
    <3>1. <<>> \in Seq(Job) /\ Fit(<<>>, version)
      BY DEF Fit
    <3>. QED BY <2>1, <3>1, FitForget DEF StackRemove
  <2>2. ASSUME NEW c \in Inputs, StackSet(n, c) PROVE HistoryFitsVersion'
    <3>1. <<Fresh(c)>> \in Seq(Job)
      BY DEF Fresh, Job
    <3>. QED BY <1>0, <1>3, <2>2, <3>1, FitForget DEF StackSet
  <2>. QED BY <1>11, <2>1, <2>2
<1>12. ASSUME NEW i, NEW j, StackSwap(i, j) PROVE HistoryFitsVersion'
  <2>1. CASE i \notin DOMAIN history \/ j \notin DOMAIN history \/ i = j
    BY <1>1, <1>2, <1>12, <2>1 DEF StackSwap
  <2>2. CASE i \in DOMAIN history /\ j \in DOMAIN history /\ i # j
    <3> DEFINE swapped == [history EXCEPT ![i] = history[j], ![j] = history[i]]
    <3>1. swapped \in Seq(Inputs) /\ Old(swapped, version)
      BY <1>0, <2>2 DEF Old
    <3>2. Rebuild(includePaths, libraryPaths, Replays(swapped, "strict"))
      BY <1>12, <2>2 DEF StackSwap
    <3>. HIDE DEF swapped
    <3>. QED BY <1>0, <1>5, <3>1, <3>2, FitReplays
  <2>. QED BY <2>1, <2>2
<1>13. ASSUME NEW ok, ResetTo(ok) PROVE HistoryFitsVersion'
  BY <1>0, <1>13, FitBoot DEF ResetTo, Reboot, HistoryFitsVersion, Fit
<1>14. CASE StackClear
  <2>1. CASE history = <<>> \/ (initialized /\ CanUndo(Len(history)))
    BY <1>14, <2>1 DEF StackClear, DropLog, HistoryFitsVersion, options
  <2>2. CASE ~(history = <<>> \/ (initialized /\ CanUndo(Len(history))))
    BY <1>1, <1>13, <1>14, <2>2 DEF StackClear, log, options
  <2>. QED BY <2>1, <2>2
<1>15. ASSUME NEW p \in Paths, AddIncludePath(p) \/ AddLibraryPath(p) PROVE HistoryFitsVersion'
  BY <1>1, <1>2, <1>5, <1>6, <1>15 DEF AddIncludePath, AddLibraryPath
<1>16. ASSUME NEW l, AddLibrary(l) \/ LoadLibrary(l) PROVE HistoryFitsVersion'
  BY <1>1, <1>16 DEF AddLibrary, LoadLibrary, log, options
<1>17. ASSUME NEW b, SetSecurityConfig(b) PROVE HistoryFitsVersion'
  BY <1>1, <1>17 DEF SetSecurityConfig, log
<1>18. CASE EvalCommand
  BY <1>7, <1>8, <1>18 DEF EvalCommand
<1>19. CASE OptionCommand
  BY <1>15, <1>16, <1>17, <1>19 DEF OptionCommand
<1>20. CASE StackCommand
  <2>1. MaxUndo \in Nat
    BY DEF Environment, BoundsAssumption
  <2>. QED BY <1>9, <1>10, <1>11, <1>12, <1>13, <1>14, <1>20, <2>1
           DEF StackCommand, Undo, Reset
<1>. QED BY <1>18, <1>19, <1>20

LEMMA FitInit == Environment /\ Init => HistoryFitsVersion
BY DEF Init, HistoryFitsVersion

LEMMA FitNext == Environment /\ Books /\ HistoryFitsVersion /\ [Next]_vars => HistoryFitsVersion'
<1>1. HistoryFitsVersion /\ UNCHANGED vars => HistoryFitsVersion'
  BY DEF HistoryFitsVersion, vars, log, options
<1>. QED BY <1>1, FitEval, FitCommand DEF Next

(* Replaying the history never asks ensureVersion for a newer engine          *)
(* (494-520, 857-864): the recursion of eval is bounded.                      *)
THEOREM HistoryAlwaysFits == Spec => []HistoryFitsVersion
BY AlwaysBooks, FitInit, FitNext, EnvironmentHolds, PTL DEF Spec

(* No command lowers the standard of a live engine (494-520, 1006-1048).      *)
LEMMA VersionStep == Environment /\ Books /\ [Next]_vars => (initialized => version' >= version)
<1> SUFFICES ASSUME Environment, Books, [Next]_vars, initialized PROVE version' >= version
  OBVIOUS
<1>0. TypeOK /\ version \in Versions /\ (version' = version => version' >= version)
  BY DEF Books, TypeOK, Versions
<1>1. CASE EvalStep
  <2>1. CASE DetectedUpgrade
    <3>1. /\ version' = job.code.detects /\ job.code.detects > version
      BY <2>1 DEF DetectedUpgrade, NeedsUpgrade, EnsureVersion, Boot
    <3>2. pending # <<>>
      BY <2>1 DEF DetectedUpgrade
    <3>3. job.code.detects \in Versions
      BY <1>0, <3>2, JobType DEF InputType, TypeOK, Environment
    <3>. QED BY <1>0, <3>1, <3>3 DEF Versions
  <2>2. CASE UpgradeOnError
    <3>1. /\ version' = job.code.hints /\ job.code.hints > version
      BY <2>2 DEF UpgradeOnError, EnsureVersion, Boot
    <3>2. pending # <<>>
      BY <2>2 DEF UpgradeOnError, Running, Ready
    <3>3. job.code.hints \in Versions
      BY <1>0, <3>2, JobType DEF InputType, TypeOK, Environment
    <3>. QED BY <1>0, <3>1, <3>3 DEF Versions
  <2>3. CASE ~DetectedUpgrade /\ ~UpgradeOnError
    BY <1>0, <1>1, <2>3 DEF EvalStep, ProactiveStdLib, Decide, Evaluate, EvaluateOtherSpelling,
                            EvaluationFails, RetryAfterUpgrade, Fail, Crash, options
  <2>. QED BY <2>1, <2>2, <2>3
<1>2. CASE EvalCommand
  BY <1>0, <1>2 DEF EvalCommand, Eval, EvalAuto, options
<1>6. \A incs, lps, libs, ok : Reboot(version, incs, lps, libs, ok) => version' = version
  BY DEF Reboot, Boot
<1>3. CASE StackCommand
  BY <1>0, <1>3, <1>6 DEF StackCommand, Undo, UndoUnits, StackPop, StackRemove, StackSet, Forget,
                          StackSwap, Rebuild, StackClear, Reset, ResetTo, Refuse, options
<1>4. CASE OptionCommand
  BY <1>0, <1>4, <1>6 DEF OptionCommand, AddIncludePath, AddLibraryPath, AddLibrary, LoadLibrary,
                          SetSecurityConfig, Rebuild, Refuse, options
<1>5. CASE UNCHANGED vars
  BY <1>0, <1>5 DEF vars, options
<1>. QED BY <1>1, <1>2, <1>3, <1>4, <1>5 DEF Next

--------------------------------------------------------------------------------
(* The table read off the history.                                            *)

LEMMA LastIs ==
  ASSUME NEW A \in SUBSET Nat, NEW k \in A, \A j \in A : j <= k
  PROVE  Last(A) = k
<1>1. \A i \in A : (\A j \in A : j <= i) => i = k
  OBVIOUS
<1>. QED BY <1>1 DEF Last

(* What an input makes of the information about one name. *)
NotedFor(c, n, old) ==
  IF Declares(c, n) THEN Info(c)
  ELSE IF Assigns(c, n) /\ old # None THEN [type |-> old.type, value |-> c.value]
  ELSE old

LEMMA NotedAt ==
  ASSUME Environment, NEW c \in Inputs, NEW vs \in VarMap, NEW n \in Names
  PROVE  Noted(c, vs, vs)[n] = NotedFor(c, n, vs[n])
<1>1. c.name \in Names
  BY DEF Environment, InputsAssumption, InputType
<1>. QED BY <1>1 DEF Noted, NotedFor, Declares, Assigns, VarMap

LEMMA RecordedAppend ==
  ASSUME Environment, NEW h \in Seq(Inputs), NEW c \in Inputs, NEW n \in Names
  PROVE  Recorded(Append(h, c), n) = NotedFor(c, n, Recorded(h, n))
<1> DEFINE hh == Append(h, c)
           new == Len(h) + 1
<1>1. /\ Len(h) \in Nat /\ DOMAIN h = 1..Len(h) /\ DOMAIN hh = (DOMAIN h) \cup {new}
      /\ \A k \in DOMAIN h : hh[k] = h[k] /\ h[k] \in Inputs
      /\ hh[new] = c /\ new \notin DOMAIN h
  OBVIOUS
<1>. HIDE DEF hh
<1>2. DeclarationsOf(hh, n) = IF Declares(c, n) THEN DeclarationsOf(h, n) \cup {new}
                              ELSE DeclarationsOf(h, n)
  BY <1>1 DEF DeclarationsOf
<1>3. Mentions(hh, n) = IF Declares(c, n) \/ Assigns(c, n) THEN Mentions(h, n) \cup {new}
                        ELSE Mentions(h, n)
  BY <1>1 DEF Mentions
<1>4. /\ DeclarationsOf(h, n) \subseteq Mentions(h, n) /\ Mentions(h, n) \subseteq 1..Len(h)
      /\ \A A \in SUBSET (1..Len(h)) : Last(A \cup {new}) = new
  <2>1. ASSUME NEW A \in SUBSET (1..Len(h)) PROVE Last(A \cup {new}) = new
    <3>1. Len(h) \in Nat /\ new \in Nat /\ \A j \in 1..Len(h) : j \in Nat /\ j <= new
      BY <1>1
    <3>2. \A j \in A : j \in 1..Len(h)
      OBVIOUS
    <3>. HIDE DEF new
    <3>3. /\ A \cup {new} \in SUBSET Nat /\ new \in A \cup {new}
          /\ \A j \in A \cup {new} : j <= new
      BY <3>1, <3>2
    <3>. QED BY <3>3, LastIs
  <2>. QED BY <1>1, <2>1 DEF DeclarationsOf, Mentions
<1>5. CASE Declares(c, n)
  <2>1. Last(DeclarationsOf(hh, n)) = new /\ Last(Mentions(hh, n)) = new
        /\ DeclarationsOf(hh, n) # {}
    BY <1>2, <1>3, <1>4, <1>5
  <2>. QED BY <1>1, <1>5, <2>1 DEF Recorded, NotedFor, Info, hh
<1>6. CASE ~Declares(c, n)
  <2>1. DeclarationsOf(hh, n) = DeclarationsOf(h, n)
    BY <1>2, <1>6
  <2>2. CASE DeclarationsOf(h, n) = {}
    BY <1>6, <2>1, <2>2 DEF Recorded, NotedFor, hh
  <2>3. CASE DeclarationsOf(h, n) # {}
    <3>1. Last(DeclarationsOf(h, n)) \in DOMAIN h /\ Last(Mentions(h, n)) \in DOMAIN h
      <4>1. Last(DeclarationsOf(h, n)) \in DeclarationsOf(h, n)
        BY <1>1, <1>4, <2>3, LastIsMember
      <4>2. Mentions(h, n) # {}
        BY <1>4, <2>3
      <4>3. Last(Mentions(h, n)) \in Mentions(h, n)
        BY <1>1, <1>4, <4>2, LastIsMember
      <4>. QED BY <1>1, <1>4, <4>1, <4>3
    <3>2. /\ Recorded(h, n) = [type |-> h[Last(DeclarationsOf(h, n))].type,
                               value |-> h[Last(Mentions(h, n))].value]
          /\ Recorded(hh, n) = [type |-> h[Last(DeclarationsOf(h, n))].type,
                                value |-> hh[Last(Mentions(hh, n))].value]
      BY <1>1, <2>1, <2>3, <3>1 DEF Recorded
    <3>3. Recorded(h, n) # None
      <4>1. h[Last(DeclarationsOf(h, n))] \in InputType /\ h[Last(Mentions(h, n))] \in InputType
        BY <1>1, <3>1 DEF Environment, InputsAssumption
      <4>2. Recorded(h, n) \in [type : Types, value : Values]
        BY <3>2, <4>1 DEF InputType
      <4>. QED BY <4>2 DEF Environment, EnvironmentAssumption
    <3>4. CASE Assigns(c, n)
      <4>1. hh[Last(Mentions(hh, n))] = c
        BY <1>1, <1>3, <1>4, <3>4
      <4>. QED BY <1>6, <3>2, <3>3, <3>4, <4>1 DEF NotedFor, hh
    <3>5. CASE ~Assigns(c, n)
      <4>1. hh[Last(Mentions(hh, n))] = h[Last(Mentions(h, n))]
        BY <1>1, <1>3, <1>6, <3>1, <3>5
      <4>. QED BY <1>6, <3>2, <3>5, <4>1 DEF NotedFor, hh
    <3>. QED BY <3>4, <3>5
  <2>. QED BY <2>2, <2>3
<1>. QED BY <1>5, <1>6

LEMMA RebuiltIsRecorded ==
  ASSUME Environment, NEW h \in Seq(Inputs), NEW n \in Names
  PROVE  Rebuilt(h)[n] = Recorded(h, n)
<1> DEFINE T == TableAfter(h)
           Good(k) == T[k] \in VarMap /\ T[k][n] = Recorded(SubSeq(h, 1, k), n)
           S == {k \in 0..Len(h) : Good(k)}
<1>1. /\ Len(h) \in Nat
      /\ \A k \in 1..Len(h) : h[k] \in Inputs
  OBVIOUS
<1>2. T[0] = NoVars /\ \A k \in 1..Len(h) : T[k] = Noted(h[k], T[k - 1], T[k - 1])
  <2> HIDE DEF T
  <2>1. T = [k \in 0..Len(h) |->
              IF k = 0 THEN NoVars ELSE Noted(h[k], T[k - 1], T[k - 1])]
    BY TableAfterDef DEF T
  <2>. QED BY <1>1, <2>1
<1>. HIDE DEF T
<1>3. Good(0)
  <2>1. SubSeq(h, 1, 0) = <<>>
    OBVIOUS
  <2>. QED BY <1>2, <2>1 DEF NoVars, VarMap, Recorded, DeclarationsOf
<1>4. ASSUME NEW k \in 0..Len(h), k \in S, k < Len(h) PROVE k + 1 \in S
  <2>1. k + 1 \in 1..Len(h) /\ (k + 1) - 1 = k /\ h[k + 1] \in Inputs
    BY <1>1, <1>4
  <2>2. T[k + 1] = Noted(h[k + 1], T[k], T[k]) /\ Good(k)
    BY <1>2, <1>4, <2>1
  <2>3. T[k + 1] \in VarMap
    BY <2>1, <2>2, NotedType DEF Environment
  <2>4. SubSeq(h, 1, k) \in Seq(Inputs) /\ SubSeq(h, 1, k + 1) = Append(SubSeq(h, 1, k), h[k + 1])
    BY <1>1, <2>1
  <2>5. T[k + 1][n] = Recorded(SubSeq(h, 1, k + 1), n)
    <3>1. T[k + 1][n] = NotedFor(h[k + 1], n, T[k][n])
      BY <2>1, <2>2, NotedAt
    <3>2. Recorded(SubSeq(h, 1, k + 1), n) = NotedFor(h[k + 1], n, Recorded(SubSeq(h, 1, k), n))
      BY <2>1, <2>4, RecordedAppend
    <3>. QED BY <2>2, <3>1, <3>2
  <2>. QED BY <2>1, <2>3, <2>5
<1>5. Good(Len(h))
  <2>1. 0 \in S
    BY <1>1, <1>3
  <2>2. 0..Len(h) \subseteq S
    <3> HIDE DEF S
    <3>. QED BY <1>1, <1>4, <2>1, SetInduction
  <2>. QED BY <1>1, <2>2
<1>6. SubSeq(h, 1, Len(h)) = h
  BY SubSeqFull
<1>. QED BY <1>5, <1>6 DEF T, Rebuilt

LEMMA TableInit == Environment /\ Init => TableFollowsHistory
BY DEF Init, NoVars, TableFollowsHistory, Recorded, DeclarationsOf

LEMMA TableNext ==
  Environment /\ Books /\ TableFollowsHistory /\ [Next]_vars => TableFollowsHistory'
<1> SUFFICES ASSUME Environment, Books, TableFollowsHistory, Effect, NEW n \in Names,
                    \A k \in Mentions(history', n) : history'[k].tracked
             PROVE  variables'[n] = Recorded(history', n)
  BY StepEffect DEF TableFollowsHistory
<1>1. CASE UNCHANGED log
  BY <1>1 DEF TableFollowsHistory, log
<1>2. CASE Records
  <2> DEFINE c == job.code
  <2>1. /\ c \in Inputs /\ history \in Seq(Inputs) /\ variables \in VarMap
        /\ history' = Append(history, c) /\ TrackVariable(c)
    BY <1>2, JobType DEF Records, Push, Books, TypeOK, Environment
  <2>. HIDE DEF c
  <2>2. /\ Len(history) \in Nat /\ DOMAIN history' = DOMAIN history \cup {Len(history) + 1}
        /\ \A k \in DOMAIN history : history'[k] = history[k]
        /\ history'[Len(history) + 1] = c
    BY <2>1
  <2>3. variables[n] = Recorded(history, n)
    <3>1. \A k \in Mentions(history, n) : k \in Mentions(history', n) /\ history'[k] = history[k]
      BY <2>2 DEF Mentions
    <3>. QED BY <3>1 DEF TableFollowsHistory
  <2>4. CASE c.tracked
    <3>1. variables'[n] = NotedFor(c, n, variables[n])
      BY <2>1, <2>4, NotedAt DEF TrackVariable
    <3>2. Recorded(history', n) = NotedFor(c, n, Recorded(history, n))
      BY <2>1, RecordedAppend
    <3>. QED BY <2>3, <3>1, <3>2
  <2>5. CASE ~c.tracked
    <3>1. ~Declares(c, n) /\ ~Assigns(c, n)
      BY <2>2, <2>5 DEF Mentions
    <3>2. variables' = variables
      BY <2>1, <2>5 DEF TrackVariable
    <3>3. Recorded(history', n) = NotedFor(c, n, Recorded(history, n))
      BY <2>1, RecordedAppend
    <3>. QED BY <2>3, <3>1, <3>2, <3>3 DEF NotedFor
  <2>. QED BY <2>4, <2>5
<1>3. CASE Undoes
  <2>1. PICK m \in 0..Len(history) :
          history' = DropLast(history, m) /\ variables' = Rebuilt(history')
    BY <1>3 DEF Undoes
  <2>2. history' \in Seq(Inputs)
    BY <2>1, ShorterSequences DEF Books, TypeOK
  <2>. QED BY <2>1, <2>2, RebuiltIsRecorded
<1>4. CASE Forgets
  <2>1. PICK m \in Names : /\ Mentions(history, m) = {} /\ history' = history
                           /\ variables' = [variables EXCEPT ![m] = None]
    BY <1>4 DEF Forgets
  <2>2. CASE n = m
    BY <2>1, <2>2 DEF Recorded, DeclarationsOf, Mentions, Books, TypeOK, VarMap
  <2>3. CASE n # m
    BY <2>1, <2>3 DEF TableFollowsHistory, Books, TypeOK, VarMap
  <2>. QED BY <2>2, <2>3
<1>5. CASE DropLog
  BY <1>5 DEF DropLog, NoVars, Recorded, DeclarationsOf
<1>. QED BY <1>1, <1>2, <1>3, <1>4, <1>5 DEF Effect, Boots, Works, Rests

(* The table that trackVariable keeps up to date input by input (830-852) is  *)
(* the one undo rebuilds (1296-1314): for every name mentioned on single      *)
(* lines only, the type of its last declaration and the value of its last     *)
(* mention.                                                                   *)
THEOREM TableAlwaysFollows == Spec => []TableFollowsHistory
BY AlwaysBooks, TableInit, TableNext, EnvironmentHolds, PTL DEF Spec
================================================================================
