------------------------------ MODULE Interpreter ------------------------------
(***************************************************************************)
(* interpreter::Interpreter (src/src/interpreter/interpreter.cpp): the     *)
(* object that feeds inputs to clang's incremental interpreter, keeps the  *)
(* history it replays whenever the engine is rebuilt, and records the      *)
(* variables the user declared.                                            *)
(*                                                                         *)
(* The class is sequential.  A command that only touches the bookkeeping   *)
(* is one action.  A command that evaluates code queues jobs in `pending`, *)
(* and every job takes its own step: eval() on that entry.  The recursion  *)
(* eval -> ensureVersion -> eval of every history entry -> ... is the same *)
(* queue with the nested replay pushed in front.  A new command starts     *)
(* when the queue is empty.                                                *)
(***************************************************************************)
EXTENDS Naturals, Sequences

CONSTANTS
  Inputs,          \* the texts the user may enter (records, see InputType)
  Names, Types, Values,
  Paths,           \* directories for -I / -L
  Libs,            \* dynamic libraries
  FoundIn,         \* FoundIn[l]: the library paths that hold l; None: found without one
  None,
  Preamble, StdLib, \* translation units that are no input
  Preambles,       \* how many preamble units init() gets accepted (BigInt, GMP)
  InitialVersions, \* the standards the first init() may be asked for
  InitOutcomes,    \* whether clang::Interpreter::create may succeed, may fail
  StdLibOutcomes,  \* the same for the standard headers
  MaxHistory, MaxPtus, MaxUndo  \* bounds on what the user asks for

Versions == {17, 20, 23}

(***************************************************************************)
(* An input, after preprocessing and trimming, as its readers see it:      *)
(*   kind, type, name, value  what the two regular expressions match;      *)
(*   checked, tracked         whether checkVariableRedefinition and        *)
(*                            trackVariable look at it at all (neither     *)
(*                            does when it spans lines);                   *)
(*   declares, uses, valid    what clang finds: names introduced, names    *)
(*                            needed, language versions that accept it;    *)
(*   std, header, lib         it needs the standard library, a header of   *)
(*                            an include path, a symbol of a library;      *)
(*   detects                  VersionDetector's answer;                    *)
(*   hints                    the version the text of an error about it    *)
(*                            would suggest ("concept", "import", ...);    *)
(*   tries                    "once": no second attempt; "again": after a  *)
(*                            failure the other spelling (with or without  *)
(*                            a semicolon) is tried; "second": only that   *)
(*                            other spelling is C++;                       *)
(*   extra                    further texts a success makes clang run      *)
(*                            (the same without ";", BigInt printing);     *)
(*   text                     "blank": nothing is left of it; "folder": it *)
(*                            includes a directory; else "code";           *)
(*   dangerous                the sandbox refuses it while strict.         *)
(***************************************************************************)
InputType ==
  [kind: {"decl", "assign", "other"}, type: Types, name: Names, value: Values,
   checked: BOOLEAN, tracked: BOOLEAN,
   declares: SUBSET Names, uses: SUBSET Names, valid: SUBSET Versions,
   std: BOOLEAN, header: Paths \cup {None}, lib: Libs \cup {None},
   detects: Versions, hints: Versions,
   tries: {"once", "again", "second"}, extra: 0..2,
   text: {"code", "blank", "folder"}, dangerous: BOOLEAN]

ASSUME InputsAssumption ==
  /\ Inputs \subseteq InputType
  /\ \A c \in Inputs : (c.checked => c.tracked) /\ (c.text = "blank" => ~c.std)
  /\ Preamble \notin Inputs /\ StdLib \notin Inputs /\ Preamble # StdLib

ASSUME EnvironmentAssumption ==
  /\ FoundIn \in [Libs -> SUBSET (Paths \cup {None})]
  /\ None \notin Paths \cup Libs
  /\ None \notin [type: Types, value: Values]
  /\ InitialVersions \subseteq Versions
  /\ InitOutcomes \subseteq BOOLEAN /\ TRUE \in InitOutcomes
  /\ StdLibOutcomes \subseteq BOOLEAN /\ StdLibOutcomes # {}

ASSUME BoundsAssumption ==
  /\ Preambles \in 0..2
  /\ MaxHistory \in Nat /\ MaxPtus \in Nat /\ MaxUndo \in Nat

VARIABLES
  (* clang::Interpreter *)
  initialized,     \* there is an engine (initialized_, interp_ # nullptr)
  ptus,            \* its partial translation units, oldest first
  loaded,          \* dynamic libraries loaded into it
  (* bookkeeping *)
  stdLibIncluded, history, variables, tracker,
  (* options *)
  version, includePaths, libraryPaths, libraries, strict,
  (* control *)
  pending,         \* evaluations still to do for the running command
  cmd,             \* the running or last command
  ret,             \* what it returned
  crashed          \* a null interp_ was dereferenced

engine  == <<initialized, ptus, loaded>>
log     == <<history, variables, tracker>>
options == <<version, includePaths, libraryPaths, libraries, strict>>
vars    == <<engine, stdLibIncluded, log, options, pending, cmd, ret, crashed>>

VarInfo == [type: Types, value: Values]
VarMap  == [Names -> VarInfo \cup {None}]
NoVars  == [n \in Names |-> None]
Ptu     == [code: Inputs \cup {Preamble, StdLib}, ran: BOOLEAN]
(* why: "fresh" for an eval() about to start; otherwise the error of the   *)
(* first attempt, the version upgrade it asked for being done.             *)
Failures == {"undeclared", "version", "redefinition", "symbols"}
Job     == [code: Inputs, as: {"eval", "replay", "strict"}, why: Failures \cup {"fresh"}]
Ops     == {"init", "eval", "undo", "pop", "clear", "rm", "set", "swap", "option", "reset"}

TypeOK ==
  /\ initialized \in BOOLEAN /\ stdLibIncluded \in BOOLEAN
  /\ strict \in BOOLEAN /\ ret \in BOOLEAN /\ crashed \in BOOLEAN
  /\ ptus \in Seq(Ptu) /\ loaded \subseteq Libs
  /\ history \in Seq(Inputs) /\ variables \in VarMap /\ tracker \in VarMap
  /\ version \in Versions /\ includePaths \subseteq Paths
  /\ libraryPaths \subseteq Paths /\ libraries \subseteq Libs
  /\ pending \in Seq(Job) /\ cmd \in [op: Ops, name: Names \cup {None}]
--------------------------------------------------------------------------------
(* clang::Interpreter, as this class uses it: a unit is kept once it parses, *)
(* whether or not running it then fails.                                     *)

Unit(c, ran) == [code |-> c, ran |-> ran]

Units(ps) == {ps[k] : k \in DOMAIN ps}
InputUnits(ps) == {u \in Units(ps) : u.code \in Inputs}
Declared(ps) == UNION {u.code.declares : u \in InputUnits(ps)}
Broken(ps) == UNION {u.code.declares : u \in {w \in InputUnits(ps) : ~w.ran}}

Outcome(c, ps, wellFormed) ==
  IF \/ ~wellFormed
     \/ ~(c.uses \subseteq Declared(ps))
     \/ c.header \notin includePaths \cup {None}
     \/ c.std /\ Unit(StdLib, TRUE) \notin Units(ps)
    THEN "undeclared"
  ELSE IF version \notin c.valid THEN "version"
  ELSE IF c.declares \cap Declared(ps) # {} THEN "redefinition"
  ELSE IF c.lib \notin loaded \cup {None} \/ c.uses \cap Broken(ps) # {} THEN "symbols"
  ELSE "ok"

ParseAndExecute(c, ps, wellFormed) ==
  LET o == Outcome(c, ps, wellFormed)
  IN  [outcome |-> o,
       ptus |-> IF o \in {"ok", "symbols"} THEN Append(ps, Unit(c, o = "ok")) ELSE ps]

(* Undo(n) removes the n newest units, and refuses when there are fewer.    *)
CanUndo(n) == ptus # <<>> /\ n <= Len(ptus)
DropLast(s, n) == SubSeq(s, 1, Len(s) - n)

Loads(l, lps) == FoundIn[l] \cap (lps \cup {None}) # {}
--------------------------------------------------------------------------------
(* What parseDeclaration and parseAssignment say of an input.              *)

Declares(c, n) == c.kind = "decl" /\ c.name = n
Assigns(c, n)  == c.kind = "assign" /\ c.name = n
Info(c) == [type |-> c.type, value |-> c.value]

(* Mutated form: an assignment stores type and value the wrong way round. *)
NotedSwapped(c, vs, table) ==
  IF c.kind = "decl" THEN [table EXCEPT ![c.name] = Info(c)]
  ELSE IF c.kind = "assign" /\ vs[c.name] # None
    THEN [table EXCEPT ![c.name] = [type |-> c.value, value |-> vs[c.name].type]]
  ELSE table

(* The update of variables_ that trackVariable and undo's rebuild share;   *)
(* `table` is the copy updated, `vs` the one whose type an assignment keeps *)
Noted(c, vs, table) ==
  IF c.kind = "decl" THEN [table EXCEPT ![c.name] = Info(c)]
  ELSE IF c.kind = "assign" /\ vs[c.name] # None
    THEN [table EXCEPT ![c.name] = [type |-> vs[c.name].type, value |-> c.value]]
  ELSE table

(* Mutated form: the tracker only learns of declarations. *)
TrackMapOnly(c) ==
  /\ variables' = IF c.tracked THEN Noted(c, variables, variables) ELSE variables
  /\ tracker' = IF c.tracked /\ c.kind = "decl" THEN Noted(c, variables, tracker) ELSE tracker

TrackVariable(c) ==
  /\ variables' = IF c.tracked THEN Noted(c, variables, variables) ELSE variables
  /\ tracker' = IF c.tracked THEN Noted(c, variables, tracker) ELSE tracker

(* Mutated form: declarations only. *)
RebuiltFromDeclarations(h) ==
  LET upTo[k \in 0..Len(h)] ==
        IF k = 0 THEN NoVars
        ELSE IF h[k].kind = "decl" THEN Noted(h[k], upTo[k - 1], upTo[k - 1]) ELSE upTo[k - 1]
  IN  upTo[Len(h)]

(* undo's loop over the remaining history: the table after k entries. *)
TableAfter(h) ==
  LET upTo[k \in 0..Len(h)] ==
        IF k = 0 THEN NoVars ELSE Noted(h[k], upTo[k - 1], upTo[k - 1])
  IN  upTo

Rebuilt(h) == TableAfter(h)[Len(h)]

Push(c) == history' = Append(history, c) /\ TrackVariable(c)
--------------------------------------------------------------------------------
(* Mutated form: the recorded variables outlive the history. *)
DropHistoryOnly == history' = <<>> /\ UNCHANGED <<variables, tracker>>

DropLog == history' = <<>> /\ variables' = NoVars /\ tracker' = NoVars

(* init(): the options are stored before the engine exists, and kept if it *)
(* fails.                                                                  *)
Boot(v, incs, lps, libs, ok) ==
  /\ initialized' = ok
  /\ loaded' = IF ok THEN {l \in libs : Loads(l, lps)} ELSE {}
  /\ \E std \in IF ok THEN StdLibOutcomes ELSE {FALSE} :
       /\ stdLibIncluded' = std
       /\ ptus' = IF ~ok THEN <<>>
                  ELSE [k \in 1..Preambles |-> Unit(Preamble, TRUE)]
                         \o (IF std THEN <<Unit(StdLib, TRUE)>> ELSE <<>>)
  /\ version' = v /\ includePaths' = incs /\ libraryPaths' = lps /\ libraries' = libs
  /\ UNCHANGED strict

(* Mutated form: the log is kept, the replay appends to it. *)
RebootKeepingLog(v, incs, lps, libs, ok) == Boot(v, incs, lps, libs, ok) /\ UNCHANGED log

(* The previous engine and its log are dropped first. *)
Reboot(v, incs, lps, libs, ok) == DropLog /\ Boot(v, incs, lps, libs, ok)

Replays(h, as) == [k \in 1..Len(h) |-> [code |-> h[k], as |-> as, why |-> "fresh"]]

(* ensureVersion(): only a live engine is replaced and its history replayed. *)
EnsureVersion(v, ok) ==
  /\ Boot(v, includePaths, libraryPaths, libraries, ok)
  /\ IF initialized THEN DropLog ELSE UNCHANGED log

(* Mutated form: an entry that fails again ends the command. *)
UpgradeReplaysStrictly == IF initialized THEN Replays(history, "strict") ELSE <<>>

UpgradeReplays == IF initialized THEN Replays(history, "replay") ELSE <<>>

Fresh(c) == [code |-> c, as |-> "eval", why |-> "fresh"]
--------------------------------------------------------------------------------
(* eval() of the job at the head of the queue.                             *)

job == Head(pending)

(* Mutated form: a failed replay is put back. *)
ReturnOrRetry(r) ==
  /\ pending' = IF ~r THEN pending ELSE Tail(pending)
  /\ ret' = IF job.as = "replay" THEN ret ELSE r
  /\ UNCHANGED cmd

(* The job returns r: an entry of stackSwap's replay stops at the first    *)
(* failure, the other replays drop the entry and go on.                    *)
Return(r) ==
  /\ pending' = IF job.as = "strict" /\ ~r THEN <<>> ELSE Tail(pending)
  /\ ret' = IF job.as = "replay" THEN ret ELSE r
  /\ UNCHANGED cmd

(* Mutated form: one level too few. *)
NeedsTwoLevels == job.why = "fresh" /\ job.code.detects > version + 3

NeedsUpgrade == job.why = "fresh" /\ job.code.detects > version
NeedsStdLib == job.code.std /\ ~stdLibIncluded

(* Lines 857-864: the version the text asks for, through ensureVersion.    *)
DetectedUpgrade ==
  /\ pending # <<>> /\ NeedsUpgrade
  /\ \E ok \in InitOutcomes :
       /\ EnsureVersion(job.code.detects, ok)
       /\ IF ok THEN /\ pending' = UpgradeReplays \o pending
                     /\ UNCHANGED <<cmd, ret>>
                ELSE Return(FALSE)
  /\ UNCHANGED crashed

(* Lines 875-878: the standard headers on the first use of std::.          *)
ProactiveStdLib ==
  /\ pending # <<>> /\ job.why = "fresh" /\ ~NeedsUpgrade
  /\ initialized /\ NeedsStdLib /\ TRUE \in StdLibOutcomes
  /\ stdLibIncluded' = TRUE
  /\ ptus' = Append(ptus, Unit(StdLib, TRUE))
  /\ UNCHANGED <<initialized, loaded, log, options, pending, cmd, ret, crashed>>

Ready ==
  /\ pending # <<>> /\ ~NeedsUpgrade
  /\ job.why = "fresh" /\ initialized /\ NeedsStdLib => FALSE \in StdLibOutcomes

(* Lines 866-938: what is decided before clang runs.                       *)
Redeclares(c) == c.checked /\ c.kind = "decl" /\ tracker[c.name] # None
Verdict(c) ==
  IF ~initialized THEN "refuse"
  ELSE IF c.text = "blank" THEN "ignore"
  ELSE IF c.text = "folder" \/ (strict /\ c.dangerous) THEN "refuse"
  ELSE IF Redeclares(c) THEN (IF tracker[c.name] = Info(c) THEN "ignore" ELSE "refuse")
  ELSE "run"

Decide ==
  /\ Ready /\ job.why = "fresh" /\ Verdict(job.code) # "run"
  /\ Return(Verdict(job.code) = "ignore")
  /\ UNCHANGED <<engine, stdLibIncluded, log, options, crashed>>

(* Lines 966-1004: the text, then the other spelling.                      *)
First == ParseAndExecute(job.code, ptus, job.code.tries # "second")
Second == IF First.outcome = "ok" \/ job.code.tries = "once" THEN First
          ELSE ParseAndExecute(job.code, First.ptus, TRUE)

Running == Ready /\ job.why = "fresh" /\ Verdict(job.code) = "run"

(* Lines 1198-1200, 1227 and 1246-1247: what is run after a success to show *)
(* a value.  Errors are swallowed: each text leaves a unit that ran, one    *)
(* that did not, or none.                                                  *)
Shown(c) == UNION {[1..n -> {Unit(c, TRUE), Unit(c, FALSE)}] : n \in 0..c.extra}

Evaluate ==
  /\ Running /\ First.outcome = "ok"
  /\ \E shown \in Shown(job.code) : ptus' = First.ptus \o shown
  /\ Push(job.code) /\ Return(TRUE)
  /\ UNCHANGED <<initialized, loaded, stdLibIncluded, options, crashed>>

EvaluateOtherSpelling ==
  /\ Running /\ First.outcome # "ok" /\ Second.outcome = "ok"
  /\ ptus' = Second.ptus
  /\ Push(job.code) /\ Return(TRUE)
  /\ UNCHANGED <<initialized, loaded, stdLibIncluded, options, crashed>>

(* Mutated forms: after every error; never. *)
RecoverAlways(why, ps) == IF ps # <<>> THEN DropLast(ps, 1) ELSE ps
RecoverNever(why, ps) == ps

(* Lines 1150-1169: a unit whose symbols did not resolve is taken back.    *)
Recover(why, ps) == IF why = "symbols" /\ ps # <<>> THEN DropLast(ps, 1) ELSE ps

(* Lines 1082-1169, the rest of a failed evaluation on a live engine: `why` *)
(* is the error of the first attempt and ps the units left.                *)
Fail(why, ps) ==
  LET c == job.code IN
  /\ IF why = "redefinition" /\ c.kind = "decl" /\ variables[c.name] # None
       THEN /\ Return(variables[c.name] = Info(c))
            /\ ptus' = ps
            /\ UNCHANGED <<stdLibIncluded, log>>
     ELSE \E std \in IF NeedsStdLib /\ why = "undeclared" THEN StdLibOutcomes ELSE {FALSE} :
       LET retry == ParseAndExecute(c, Append(ps, Unit(StdLib, TRUE)), c.tries # "second") IN
       /\ stdLibIncluded' = (std \/ stdLibIncluded)
       /\ IF std /\ retry.outcome = "ok"
            THEN /\ ptus' = retry.ptus
                 /\ Push(c) /\ Return(TRUE)
            ELSE /\ ptus' = IF std THEN Recover(retry.outcome, retry.ptus) ELSE Recover(why, ps)
                 /\ UNCHANGED log /\ Return(FALSE)
  /\ UNCHANGED <<initialized, loaded, options, crashed>>

EvaluationFails ==
  /\ Running /\ Second.outcome # "ok" /\ job.code.hints <= version
  /\ Fail(First.outcome, Second.ptus)

(* interp_ is null and used: the program ends, nothing is left to do.       *)
Crash == crashed' = TRUE /\ pending' = <<>> /\ UNCHANGED <<cmd, ret>>

(* Lines 1006-1048: an error that mentions a newer standard.  The engine is *)
(* rebuilt for it and the history replayed before the text is tried again. *)
(* Without a new engine the failure is reported, after a recovery that does *)
(* not look whether there is one.                                          *)
UpgradeOnError ==
  /\ Running /\ Second.outcome # "ok" /\ job.code.hints > version
  /\ \E ok \in InitOutcomes :
       /\ EnsureVersion(job.code.hints, ok)
       /\ IF ok
            THEN /\ pending' = UpgradeReplays \o <<[job EXCEPT !.why = First.outcome]>>
                                 \o Tail(pending)
                 /\ UNCHANGED <<cmd, ret, crashed>>
          ELSE IF First.outcome = "symbols" THEN Crash
          ELSE Return(FALSE) /\ UNCHANGED crashed

(* ensureVersion answered true even if an upgrade nested in its replay has *)
(* lost the engine: the attempt is made without looking.                   *)
RetryAfterUpgrade ==
  /\ Ready /\ job.why # "fresh"
  /\ IF ~initialized
       THEN Crash /\ UNCHANGED <<engine, stdLibIncluded, log, options>>
     ELSE IF First.outcome = "ok"
       THEN /\ ptus' = First.ptus
            /\ Push(job.code) /\ Return(TRUE)
            /\ UNCHANGED <<initialized, loaded, stdLibIncluded, options, crashed>>
     ELSE Fail(job.why, First.ptus)

EvalStep ==
  \/ DetectedUpgrade \/ ProactiveStdLib \/ Decide
  \/ Evaluate \/ EvaluateOtherSpelling
  \/ EvaluationFails \/ UpgradeOnError \/ RetryAfterUpgrade
--------------------------------------------------------------------------------
(* Commands.                                                               *)

Command(op, name) == pending = <<>> /\ ~crashed /\ cmd' = [op |-> op, name |-> name]

(* The command did nothing but return r. *)
Refuse(r) ==
  /\ ret' = r /\ UNCHANGED <<engine, stdLibIncluded, log, options, pending, crashed>>

HasRoom == Len(history) < MaxHistory /\ Len(ptus) < MaxPtus

Eval(c) ==
  /\ Command("eval", None) /\ HasRoom
  /\ pending' = <<Fresh(c)>>
  /\ UNCHANGED <<engine, stdLibIncluded, log, options, ret, crashed>>

(* evalAuto: unlike eval, it builds an engine when there is none, at the    *)
(* version the text asks for even if that is older.                         *)
EvalAuto(c) ==
  /\ Command("eval", None) /\ ~initialized
  /\ \E ok \in InitOutcomes :
       /\ EnsureVersion(c.detects, ok)
       /\ pending' = IF ok THEN <<Fresh(c)>> ELSE <<>>
       /\ ret' = IF ok THEN ret ELSE FALSE
  /\ UNCHANGED crashed

(* The body of undo(n), which stackPop shares.                              *)
UndoUnits(n) ==
  IF initialized /\ CanUndo(n)
    THEN LET kept == DropLast(history, IF n < Len(history) THEN n ELSE Len(history)) IN
         /\ ptus' = DropLast(ptus, n)
         /\ history' = kept
         /\ variables' = Rebuilt(kept) /\ tracker' = Rebuilt(kept)
         /\ ret' = TRUE
         /\ UNCHANGED <<initialized, loaded, stdLibIncluded, options, pending, crashed>>
    ELSE Refuse(FALSE)

Undo(n) == Command("undo", None) /\ UndoUnits(n)

StackPop(n) ==
  /\ Command("pop", None)
  /\ LET asked == IF n = 0 THEN 1 ELSE n IN
     IF history = <<>> THEN Refuse(FALSE)
     ELSE UndoUnits(IF asked < Len(history) THEN asked ELSE Len(history))

(* reset() keeps the version and the sandbox, and drops the other options.  *)
ResetTo(ok) ==
  /\ Reboot(version, {}, {}, {}, ok)
  /\ ret' = ok /\ UNCHANGED <<pending, crashed>>

Reset == Command("reset", None) /\ \E ok \in InitOutcomes : ResetTo(ok)

(* Undo(history size), whatever the units are; reset() when it refuses.     *)
StackClear ==
  /\ Command("clear", None)
  /\ IF history = <<>> \/ (initialized /\ CanUndo(Len(history)))
       THEN /\ ptus' = DropLast(ptus, Len(history))
            /\ DropLog
            /\ ret' = TRUE
            /\ UNCHANGED <<initialized, loaded, stdLibIncluded, options, pending, crashed>>
     ELSE IF initialized THEN \E ok \in InitOutcomes : ResetTo(ok)
     ELSE crashed' = TRUE /\ UNCHANGED <<engine, stdLibIncluded, log, options, pending, ret>>

(* Mutated form: the new engine is not given the libraries. *)
RebuildWithoutLibraries(incs, lps, jobs) ==
  /\ \E ok \in InitOutcomes :
       /\ Reboot(version, incs, lps, {}, ok)
       /\ pending' = IF ok THEN jobs ELSE <<>>
       /\ ret' = ok
  /\ UNCHANGED crashed

(* Drop the engine, build another with the given paths and queue jobs.      *)
Rebuild(incs, lps, jobs) ==
  /\ \E ok \in InitOutcomes :
       /\ Reboot(version, incs, lps, libraries, ok)
       /\ pending' = IF ok THEN jobs ELSE <<>>
       /\ ret' = ok
  /\ UNCHANGED crashed

Without(s, k) == SubSeq(s, 1, k - 1) \o SubSeq(s, k + 1, Len(s))
Mentions(h, n) == {k \in DOMAIN h : Declares(h[k], n) \/ Assigns(h[k], n)}
Last(S) == CHOOSE k \in S : \A j \in S : j <= k

(* What stackRemove does before it returns; the jobs are replayed first.    *)
Forget(n, jobs) ==
  IF variables[n] = None /\ tracker[n] = None
    THEN /\ ret' = FALSE /\ pending' = jobs
         /\ UNCHANGED <<engine, stdLibIncluded, log, options, crashed>>
  ELSE IF Mentions(history, n) = {}
    THEN /\ variables' = [variables EXCEPT ![n] = None]
         /\ tracker' = [tracker EXCEPT ![n] = None]
         /\ ret' = TRUE /\ pending' = jobs
         /\ UNCHANGED <<engine, stdLibIncluded, history, options, crashed>>
  ELSE /\ \E ok \in InitOutcomes :
            /\ Reboot(version, includePaths, libraryPaths, libraries, ok)
            /\ pending' = (IF ok THEN Replays(Without(history, Last(Mentions(history, n))), "replay")
                                 ELSE <<>>) \o jobs
            /\ ret' = ok
       /\ UNCHANGED crashed

StackRemove(n) == Command("rm", n) /\ Forget(n, <<>>)

StackSet(n, c) == Command("set", n) /\ HasRoom /\ Forget(n, <<Fresh(c)>>)

StackSwap(i, j) ==
  /\ Command("swap", None)
  /\ IF i \notin DOMAIN history \/ j \notin DOMAIN history THEN Refuse(FALSE)
     ELSE IF i = j THEN Refuse(TRUE)
     ELSE Rebuild(includePaths, libraryPaths,
                  Replays([history EXCEPT ![i] = history[j], ![j] = history[i]], "strict"))

AddIncludePath(p) ==
  /\ Command("option", None)
  /\ IF p \in includePaths THEN Refuse(TRUE)
     ELSE Rebuild(includePaths \cup {p}, libraryPaths, Replays(history, "replay"))

(* Mutated form: the engine is not rebuilt. *)
RememberLibraryPath(p) ==
  /\ Command("option", None)
  /\ libraryPaths' = libraryPaths \cup {p} /\ ret' = TRUE
  /\ UNCHANGED <<engine, stdLibIncluded, log, version, includePaths, libraries, strict,
                 pending, crashed>>

AddLibraryPath(p) ==
  /\ Command("option", None)
  /\ IF p \in libraryPaths THEN Refuse(TRUE)
     ELSE Rebuild(includePaths, libraryPaths \cup {p}, Replays(history, "replay"))

(* addLibrary remembers the name before it tries to load it.                *)
AddLibrary(l) ==
  /\ Command("option", None)
  /\ libraries' = libraries \cup {l}
  /\ loaded' = IF initialized /\ Loads(l, libraryPaths) THEN loaded \cup {l} ELSE loaded
  /\ ret' = (initialized => Loads(l, libraryPaths))
  /\ UNCHANGED <<initialized, ptus, stdLibIncluded, log, version, includePaths, libraryPaths,
                 strict, pending, crashed>>

(* loadLibrary loads a file and remembers nothing.                          *)
LoadLibrary(l) ==
  /\ Command("option", None)
  /\ loaded' = IF initialized /\ Loads(l, {}) THEN loaded \cup {l} ELSE loaded
  /\ ret' = (initialized /\ Loads(l, {}))
  /\ UNCHANGED <<initialized, ptus, stdLibIncluded, log, options, pending, crashed>>

SetSecurityConfig(b) ==
  /\ Command("option", None)
  /\ strict' = b
  /\ UNCHANGED <<engine, stdLibIncluded, log, version, includePaths, libraryPaths, libraries,
                 pending, ret, crashed>>
--------------------------------------------------------------------------------
(* A successful first init() without options.  Its callers choose the        *)
(* standard: main() always starts at 23, where no upgrade is left to do.    *)
Init ==
  /\ initialized = TRUE /\ loaded = {}
  /\ stdLibIncluded \in StdLibOutcomes
  /\ ptus = [k \in 1..Preambles |-> Unit(Preamble, TRUE)]
              \o (IF stdLibIncluded THEN <<Unit(StdLib, TRUE)>> ELSE <<>>)
  /\ history = <<>> /\ variables = NoVars /\ tracker = NoVars
  /\ version \in InitialVersions
  /\ includePaths = {} /\ libraryPaths = {} /\ libraries = {} /\ strict = TRUE
  /\ pending = <<>> /\ cmd = [op |-> "init", name |-> None] /\ ret = TRUE /\ crashed = FALSE

EvalCommand == \E c \in Inputs : Eval(c) \/ EvalAuto(c)

StackCommand ==
  \/ \E n \in 1..MaxUndo : Undo(n)
  \/ \E n \in 0..MaxUndo : StackPop(n)
  \/ \E n \in Names : StackRemove(n) \/ \E c \in Inputs : StackSet(n, c)
  \/ \E i, j \in 1..MaxHistory : StackSwap(i, j)
  \/ StackClear \/ Reset

OptionCommand ==
  \/ \E p \in Paths : AddIncludePath(p) \/ AddLibraryPath(p)
  \/ \E l \in Libs : AddLibrary(l) \/ LoadLibrary(l)
  \/ \E b \in BOOLEAN : SetSecurityConfig(b)

Next == EvalStep \/ EvalCommand \/ StackCommand \/ OptionCommand

(* eval() and the loops that call it run to their end on the caller's thread *)
Spec == Init /\ [][Next]_vars /\ WF_vars(EvalStep)
--------------------------------------------------------------------------------
(* Properties.                                                             *)

Idle == pending = <<>>

(* stackClear reads interp_ without a null check whenever the history is not *)
(* empty: there is always an engine behind a non-empty history, and nothing  *)
(* is recorded or replayed without one.                                      *)
EngineBehindHistory ==
  ~initialized => history = <<>> /\ variables = NoVars /\ ptus = <<>> /\ loaded = {}

(* A live engine has every library the options name and some path holds,    *)
(* whatever the order in which libraries and paths were given and however    *)
(* often the engine was replaced since.                                      *)
RequestedAreLoaded ==
  initialized => {l \in libraries : Loads(l, libraryPaths)} \subseteq loaded

(* variables_ ("legacy map kept for ABI compat") and tracker_ are written by *)
(* different statements, read by different checks, and never differ.         *)
CopiesAgree == variables = tracker

(* Every recorded variable is declared by an entry of the history, so        *)
(* stackRemove always finds an entry to drop: its "tracked but not in        *)
(* history" branch is never needed.                                          *)
RecordedIsInHistory ==
  \A n \in Names : variables[n] # None => \E k \in DOMAIN history : Declares(history[k], n)

(* What the table says of n, read off the history: the type of its last      *)
(* declaration, the value of its last mention.                               *)
DeclarationsOf(h, n) == {k \in DOMAIN h : Declares(h[k], n)}
Recorded(h, n) ==
  IF DeclarationsOf(h, n) = {} THEN None
  ELSE [type  |-> h[Last(DeclarationsOf(h, n))].type,
        value |-> h[Last(Mentions(h, n))].value]

(* The table kept up to date input by input is the one undo rebuilds from    *)
(* the history, for every name whose declarations and assignments are on one *)
(* line: trackVariable skips the others, undo does not.                      *)
TableFollowsHistory ==
  \A n \in Names :
    (\A k \in Mentions(history, n) : history[k].tracked) => variables[n] = Recorded(history, n)

(* No entry of the history, and no entry being replayed or tried again, asks *)
(* for a newer standard than the engine's: replaying never restarts the      *)
(* replay, eval's recursion through ensureVersion is one level deep for      *)
(* detected versions.                                                        *)
Settled(j) == j.as # "eval" \/ j.why # "fresh"
HistoryFitsVersion ==
  /\ \A k \in DOMAIN history : history[k].detects <= version
  /\ \A k \in DOMAIN pending : Settled(pending[k]) => pending[k].code.detects <= version

(* A history entry is backed by a unit of the engine that ran, in order: what *)
(* :dump lists is what the engine executed.                                   *)
Backed(h, ps) ==
  LET upTo[k \in 0..Len(h)] ==
        IF k = 0 THEN 0
        ELSE LET after == {j \in DOMAIN ps : j > upTo[k - 1] /\ ps[j] = Unit(h[k], TRUE)}
             IN  IF upTo[k - 1] > Len(ps) \/ after = {} THEN Len(ps) + 1
                 ELSE CHOOSE j \in after : \A i \in after : j <= i
  IN  upTo[Len(h)] <= Len(ps)
HistoryIsBacked == Backed(history, ptus)

(* After a command, the names the engine knows are those its history         *)
(* declares: an undone, removed or failed input leaves no name behind that   *)
(* could neither be seen nor declared again.                                 *)
NoNameLeftBehind ==
  Idle => Declared(ptus) = UNION {history[k].declares : k \in DOMAIN history}

(* Every command comes to its end: eval calls ensureVersion, which calls eval *)
(* for the whole history, which calls ensureVersion for an entry that fails  *)
(* on the new engine - the recursion ends, with an answer or, when it has    *)
(* lost the engine, with the program (NoNullEngine).                         *)
CommandsReturn == pending # <<>> ~> pending = <<>>

(* What the callers rely on: the class behaves like a list of accepted       *)
(* inputs which commands extend, cut or carry out again from the start, in   *)
(* the order it had, before the input that caused it; and every command      *)
(* comes to its end.                                                         *)
tasks == [k \in DOMAIN pending |->
            [code |-> pending[k].code, own |-> pending[k].as # "replay"]]
Promise == INSTANCE Notebook WITH done <- history, todo <- tasks, answer <- ret
ImplementsNotebook == Promise!Spec

(* Re-executing the history on a new engine, for an upgrade or a new path,   *)
(* loses no entry.                                                           *)
ReplayKeepsEntries ==
  [][cmd.op \in {"eval", "option"} /\ pending # <<>> /\ job.as = "replay"
       /\ pending' = Tail(pending) => history' = Append(history, job.code)]_vars

(* A variable removed by name is no longer recorded.                         *)
RemovedIsGone == Idle /\ cmd.op = "rm" /\ ret => variables[cmd.name] = None

(* The engine pointer is not dereferenced when it is null.                   *)
NoNullEngine == ~crashed
================================================================================
