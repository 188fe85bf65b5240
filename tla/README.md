# A verification project for cpp-repl

cpp-repl is an interactive C++ interpreter on top of clang's incremental
interpreter (`clang::Interpreter`), with a Language Server evaluation service
beside it. This directory holds TLA+ models of its parts, TLC configurations
that check them on small instances, and proofs checked by TLAPS.

    tlc -config MCInterpreter_record.cfg MCInterpreter.tla
    tlapm InterpreterProofs.tla

## 1. Inventory

| Component (source) | State | Operations | What makes it hard |
|---|---|---|---|
| `interpreter::Interpreter` (`src/src/interpreter/interpreter.cpp`) | the engine `interp_`, `history_`, `variables_`, `tracker_`, `stdLibIncluded_`, options (`config_`), sandbox switch | `init`, `eval`, `loadFile`, `evalAuto`, `undo`, `stackPop/Clear/Remove/Set/Swap`, `reset`, `addIncludePath`, `addLibraryPath`, `addLibrary`, `loadLibrary`, `setSecurityConfig` | one operation rebuilds the engine and *replays the history through itself*; clang keeps units (PTUs) the history does not count; every rebuild can fail half-way; retries with another spelling or another language version |
| Variable tracker (`src/src/utils/variable_tracker.cpp`) | name → (type, value) | `track`, `forget`, `clear`, `find` | second copy of `variables_` |
| LSP thread pool (`src/src/lsp/server.cpp`) | `queue_`, `stop_`, `m_`, `cv_`, `workers_` | `enqueue`, worker loop, `shutdown` | threads, condition variable, shutdown |
| Session (`src/src/repl/session.cpp`) | `buffer_`, `promptCount_`, the sandbox's switches; the interpreter behind it | the two read loops, `handleCommand` with its `:` commands | an input spans lines and no line inside it is a command; prefixes tested in a fixed order; a number that counts entries the interpreter may lose, in an `int` |
| Incomplete-input detector (`incomplete_detector.cpp`), version detector (`version_detector.cpp`) | none (pure) | classify a text | two hand-written scanners of quotes, comments, brackets, and regular expressions that stop at a line's end |
| Security sandbox (`sandbox.cpp`) | `SecurityConfig` | accept or refuse a text | its switches change while a history exists |
| PCH cache (`src/src/utils/pch_cache.cpp`) | files and time stamps | `lookup`, `ensure`, `clear` | several processes, stale files |
| Command line (`src/src/cli/cli.cpp`), `main` (`src/src/main.cpp`) | `Options`, exit status | `parse`, start-up sequence | options whose value is the next argument, whatever it looks like; order of init, files, `-e`, session; the first failure ends the program |
| VM, remote JIT, command registry, highlighter, BigInt, legacy `Repl`/`VM`, config/result/logger | little or none | forwarding, formatting | – |

How they interact. `main` builds one `Interpreter`, calls `init`, evaluates
files and `-e` texts, and hands the object to a `Session`, which calls one
operation per line on the same thread. The `Interpreter` asks the sandbox and
the version detector about every input, calls clang, writes its history and
both variable tables, and calls itself for every history entry when it replaces
the engine. The LSP server is separate: callers enqueue evaluations into a
thread pool and a worker answers each through its callback (the evaluation
itself is still a stand-in in `server.cpp`: the worker does not call an
`Interpreter`).

Correctness per component.

* **Interpreter**: there is an engine behind a non-empty history; the history,
  the engine's units and the recorded variables say the same; replaced engines
  have what the options ask for; nothing is replayed below its standard; replays
  terminate; names of undone inputs are gone.
* **Tracker**: the two copies of the table agree.
* **Thread pool**: tasks start once, in order, at most one per worker; no task
  waits while all workers sleep; shutdown drains, then nothing runs.
* **Interpreter, seen from outside**: it is a list of accepted inputs that its
  callers extend, cut, and have carried out again.
* **Session**: an input is evaluated with the line that finishes it; while
  everything is entered at the prompt, its number stays ahead of the history;
  every call comes back to the prompt.
* **Detectors**: the scanners find exactly the comments, literals, brackets and
  keywords that C++'s lexical rules find.
* **Start-up**: the session goes on from what the command line asked for, in
  its order, or the program ends with status 1.
* **PCH cache**: a lookup never returns a file older than its header or half
  written. (Nothing calls the cache; not modelled.)

`PROJECT.json` lists the hazards of this code line by line, and which property
covers each.

## 2. Modules

| Module | What it is |
|---|---|
| `Interpreter` | `interpreter::Interpreter` with the tracker, and clang as it uses it |
| `MCInterpreter` | inputs a user types, as constants for TLC |
| `InterpreterProofs` | theorems about `Interpreter` for every value of its constants |
| `Notebook` | what `Interpreter` promises its callers (abstract specification) |
| `UnitsProofs` | theorems about the engine's units, the names it knows and what replays keep |
| `RefinementProofs` | every step of `Interpreter` is one of `Notebook` |
| `Scanner` | `hasUnclosedBrace`, `isIncomplete`, `stripCommentsAndStrings`, `detect` as operators |
| `ScannerCheck` | texts that grow token by token, and a reference definition of their lexical elements |
| `MCScanner` | the alphabets for TLC |
| `ScannerLemmas` | induction over numbers, recursive functions, what `Trim` leaves |
| `ScannerProofs` | theorems about the scanners for texts of every length |
| `CommandLine` | `cli::parse` as an operator |
| `Session` | the read loops and `handleCommand`, on top of `Notebook` and `Scanner` |
| `Program` | `main()`: `CommandLine`, then the calls it makes, then `Session` |
| `MCProgram` | command lines and lines of a session, as constants for TLC |
| `ProgramProofs` | theorems about the prompt's number and the start-up, for every value of the constants |
| `SessionProofs` | theorems about the lines a session gathers |
| `ThreadPool` | workers, callers and owner of `lsp::ThreadPool` |
| `TaskService` | what a pool promises its callers (abstract specification) |
| `MCThreadPool` | the instance for TLC |
| `ThreadPoolProofs` | theorems about `ThreadPool`, with the refinement |

### Interpreter and the code

Inputs are data. A text is a record of what its readers make of it: the two
regular expressions of `parseDeclaration`/`parseAssignment` (`kind`, `type`,
`name`, `value`), the filters of `checkVariableRedefinition` and
`trackVariable` (`checked`, `tracked`: neither looks at a text of several
lines), the version detector (`detects`), the text of an error (`hints`), the
sandbox (`dangerous`), and clang (`declares`, `uses`, `valid`, `std`, `header`,
`lib`). `text` tells what is refused or ignored before clang sees it: an
`#include` of a directory, a text of which nothing is left. `extra` is how many
texts a success makes `eval` run to show a value; each leaves a unit that ran,
one that did not, or none (`Shown`). `MCInterpreter` gives each record with the
C++ it stands for: the labels follow the regular expressions, so that `f();`,
which is executed once more without its semicolon, is no input of one unit
while `if (f()) { }` is.

State. `initialized` is `initialized_` together with `interp_ != nullptr` (set
and cleared together); `ptus` and `loaded` are the engine's units and
libraries; the rest carries the members' names. A unit remembers whether it
ran: clang keeps a unit that parsed even if running it failed, which is what
the code's `Undo(1)` recovery is for.

clang is external. `ParseAndExecute` says when a text is accepted, whether a
unit is kept and which of the four errors the code distinguishes comes back;
`CanUndo` that `Undo(n)` refuses more units than there are. Which attempts to
build an engine or parse the standard headers succeed is the environment's
choice (`InitOutcomes`, `StdLibOutcomes`).

Control. The class is sequential, but `eval`, `ensureVersion` and the replay
loops call each other. `pending` is that recursion laid flat: one job per
evaluation still to do; a nested replay is put in front. A job whose `as` is
`"replay"` has its result ignored, a `"strict"` one stops its loop
(`stackSwap`). One action per branch of `eval`:

| Action | `interpreter.cpp` |
|---|---|
| `DetectedUpgrade` | text asks for a newer standard: `ensureVersion` first |
| `ProactiveStdLib` | standard headers on the first `std::` |
| `Decide` | no engine, sandbox, redefinition check: no clang call |
| `Evaluate`, `EvaluateOtherSpelling` | success with the text, or with/without `;` |
| `EvaluationFails` | late redefinition check, standard-header retry, `Undo(1)` recovery |
| `UpgradeOnError`, `RetryAfterUpgrade` | error that names a newer standard: rebuild, replay, one more try |
| `Crash` in these two | `interp_` used although the rebuild, or an upgrade inside the replay, has failed: the program ends |

and one action per command (`Eval`, `EvalAuto`, `Undo`, `StackPop`, ...). A new
command starts only when `pending` is empty.

Bounds. `MaxHistory` and `MaxPtus` stop the *user* from entering more
(`HasRoom`); a replay is never cut short. `MaxUndo` bounds the argument of
undo/pop. Engine preambles: `Preambles`.

### Notebook, and how the parts are composed

`Program` and `Session` are not put on top of `Interpreter` itself: its engines,
units and variables would multiply with every line that can be typed. They use
`Notebook`, a list of accepted inputs (`done`), what the running command still
has to carry out (`todo`), its answer and the language standard. `Interpreter`
implements it under `done <- history`, `answer <- ret` and `todo` the queue of
jobs, each with whether its result is the command's answer (`own`): an eval or
an entry of `stackSwap`'s replay is, an entry of another replay is not. So what
`Session` is shown to do with any notebook it does with the class.

`Redo` and `Lose` (a newer standard while a task runs) and `Die` (the program
ends under a task, see `null_engine`) have no place in `Session`: `main()` starts
at C++23 and `ensureVersion` never lowers it, and only an upgrade can lose the
engine in the middle of a task.

### Scanner and the code

A text is a sequence of tokens: a character the scanners look at, a piece of a
word, `nl`, or `sp`; pieces side by side are one word, so that a keyword may be
a part of one. The four flags of each scanner are one `mode`; the extra `++i` over the
second character of a pair is `skip`. `Detect` looks for keywords as words and for
`<=>`, `import `, `module `, `std::format` and `std::source_location` as text, so that
`std::format_to` asks for C++20. The regular expressions of `isIncomplete`
say where what they look for begins and ends; a `.*` does not cross a line.
`ScannerCheck` does not scan: it says where an element that begins at a place
ends, and counts brackets between two places. `HeadsWait` speaks of heads on one
line of a text of code alone, and of templates without `;` or `}` in their
parameters: the proof needed the last condition, the regular expression stops
at either.

### Session and the code

A line is what the scanners see of it (`text`) and its words as
`handleCommand` compares them (`words`). `Branches` lists the tests of
`handleCommand` in their order, with the words compared whole and those a line
may begin with; `Handler` is the first that fits, so that `:libpath d` is a
`:lib`. The words of `:security` are those the handler compares once it has cut the
line at `=` and lowered the value. Both read loops, with and without a terminal, run the same steps, and
differ in readline's history and the prompt only.

One action per branch that changes state. A call of the interpreter is the
action that makes it and `Return`, which settles `buffer_` and `promptCount_`
once the notebook has no task left; `Carry` is one task of the notebook. An
input in the history is abstracted to where it came from: `typed`, `pushed`,
`set`, `loaded`, `-e`. Branches that print (`:help`, `:dump`, `:heap`, `:trace`,
usage messages, unknown commands) leave everything as it is and have no action.

`promptCount_` is an `int`, `n` of `:undo n` an `unsigned` cut from an `unsigned
long`: `AsInt` and `Number` do what the conversions do. The sum
`static_cast<int>(n) + 1` overflows for the largest `int`, so the build may take
either branch (`Lowered`).

### Program and the code

`stage` is where `main()` is; `ran` the files and texts carried out. `parse` tests for `--lib` and
`--lib=` inside a test for the prefix `--library`, where they are never found:
they end as unknown options in the model as in the code.

### ThreadPool and the code

One action per stretch another thread can interleave with. `Test` (the wait's
predicate) and `Park` (unlock-and-block) are separate because `shutdown()`
stores `stop_` and notifies without the mutex. `Push`/`NotifyOne` are
`enqueue`, `SetStop`/`NotifyAll`/`Join` are `shutdown`, `Take`/`Exit`/`Run` the
rest of the worker's loop. Spurious wake-ups are `WakeSpuriously`. `TaskService`
has a queue, a set of running tasks and a set of answered ones; the refinement
maps `queue` to the first and `{task[w]}` to the second.

## 3. Runs

| Run | What it checks | Bounds and why they suffice |
|---|---|---|
| `record` | `TypeOK`, `EngineBehindHistory`, `CopiesAgree`, `RecordedIsInHistory`, `TableFollowsHistory`, `HistoryIsBacked` | histories of 3, 5 units, undo of 1 or 2: two entries about one variable and one between or after them; failing links and failing rebuilds, empty files and includes of a directory. 792,745 states. Started at C++23, as `main()` does |
| `units` | `NoNameLeftBehind`, `ReplayKeepsEntries` | inputs that leave one unit each (declarations, and `if (f()) { }`, which is not run again); a library only on a `-L` path, so the order of `:lib` and `:L` matters; histories of 4. 19,281 states |
| `upgrade` | `HistoryFitsVersion`, `RequestedAreLoaded`, `CommandsReturn`, `ImplementsNotebook` | started at C++17, engines and headers that may fail. Upgrades by text (to 20) and by error (to 20 and 23): `const char *x = u8"import module";` is accepted by C++17 only and the later standards' errors quote it, so that, replayed at 20, it asks for 23 in the middle of that replay; `if (import_module()) { }` without its library asks for 23 with an error about a symbol. Histories of 2 are enough for that, and for an engine lost in the inner upgrade and used by the outer one. 88,766 states. The order of longer replays is left to the proof |
| `scanner` | `KeepsBuffering`, `SendsFinished`, `StripIsExact`, `VersionFromCode`, `HeadsWait` | every text of up to six tokens over seven alphabets (643,873 texts): an escape inside a literal inside brackets, a comment that opens in a literal, a header around a nested `<`, all need five or six |
| `program` | `Types`, `StartsAsAsked`, `PromptCoversHistory`, `EvaluatedWhenFinished`, `NeverDeclaredTwice`, `NumberComesDown`, `ComesBack` | ten command lines of up to five arguments, then a session of any length over 27 lines; an `int` of three bits (`MaxInt = 3`), so that `:undo 7` is a negative count and `8` wraps to 0; histories of 2, one more entry per file or `-e`; buffers that stop growing at five tokens |
| `service` | `TypeOK`, `FrontExists`, `NoSleepOverWork`, `DownIsQuiet`, `ImplementsService`, `DrainsOnShutdown` | 3 workers, 2 callers, 3 tasks: a notification can go to the wrong worker, one worker can work while one sleeps and one leaves |

The absence of deadlock is asked where there is always a next step. The system
really stops where a pool is shut down, a program or a text has ended, or, in
`upgrade`, a lost engine is used (`crashed`).

Runs that show a disagreement (section 5): `undo_names`, `replay_loss`,
`remove`, `null_engine`, `shutdown`, `piped`.

`units` and `undo_names` check the same property. It holds where every
accepted input leaves exactly one unit (`OneUnitEach` in section 4), and fails as
soon as one is re-executed or re-spelled: the pair shows where the boundary is. Likewise
`ReplayKeepsEntries` holds when no standard changes meaning under the history
(`units`) and fails when one does (`replay_loss`).

### Fairness

*Interpreter*: `WF_vars(EvalStep)`. `eval` and the loops around it run to their
end on the caller's thread; nothing obliges the user to enter another command.

*Program*: `WF_vars(Machine)`. `main()`, the interpreter and the return of a
call run by themselves; the user may stop typing for ever, so nothing is said of
what happens at the prompt.

*Notebook*: `WF_vars(Step)`, which `Interpreter` is shown to provide: a command
that was given is carried out.

*ThreadPool*: weak fairness per thread for its next step (the scheduler runs
every thread), strong fairness for acquiring the mutex (no thread is passed
over for ever). Callers need not enqueue, the owner need not shut down, and
spurious wake-ups need not happen.

## 4. Proofs

Everything below is proved for every set of inputs, names, paths, libraries,
lines, command lines, alphabets, tasks, workers and callers; from the named
assumptions in the modules only. Where a theorem speaks of some inputs only, its
statement says which. Every invariant and action property that a passing run
checks is proved.

The assumptions say what kind of value each constant is. Two say more:
`LineAssumption`, that a line has no new line in it and that it has no words
when it is blank; and `DashAssumption`, that what `parse` takes for an option
begins with a dash, which is a fact about strings the provers do not know. TLC
evaluates both.

*Induction.* The library's induction theorems take an operator as parameter, which
the provers here cannot instantiate, and nothing in the language says that a
recursive function equals its definition. `SetInduction` and `ScannerLemmas`
(`UpToInduction`, `DownToInduction`) use a set of numbers instead, `Recursion`
that a function defined step by step exists up to every number.

**Interpreter** (`InterpreterProofs`).

* Every step *boots* an engine, *works* on the live one, or *rests*
  (`Boots`, `Works`, `Rests`); and its effect on the log is one of a few:
  append an entry and track it (`Records`), shorten the history and rebuild
  (`Undoes`), drop one name no entry made (`Forgets`), drop everything
  (`DropLog`), or nothing. The lemma `StepEffect` classifies all actions once;
  the invariants are then proved against the handful of effects.
* `Books == TypeOK /\ EngineBehindHistory /\ CopiesAgree` is the inductive
  invariant. None of its parts is inductive alone: tracking writes two copies from one
  of them, and "no engine, no history" needs the type of the history.
* `HistoryAlwaysFits` adds that a pending replay is as old as the engine, on
  top of `Books`. It rests on `VersionStep`: no step lowers the standard of a
  live engine, because an upgrade is taken only by a job that asks for more.
* `TableAlwaysFollows` relates the incremental table to the fold
  that `undo` uses, by that induction; `TableAfterDef` unfolds the fold once.
* `RequestedAlwaysLoaded`, `RecordedAlwaysInHistory` follow the same plan.

**Units, names and replays** (`UnitsProofs`). clang counts units and the class
counts entries. Three theorems say when the two agree, each for more than the one
before, on top of `Books`.

* `HistoryAlwaysBacked`. `InPlace` says that some increasing function places
  every entry at a unit of its own that ran, with room behind it for the later
  ones. It is what a step keeps: units are added behind
  (`InPlaceExtends`), an entry comes with a unit (`InPlaceGrows`), or both lists
  are cut (`InPlaceCut`; the room is what a cut by more entries than units
  needs). `HistoryIsBacked` searches greedily, and `InPlaceIsBacked` shows the
  first unit that fits is never a worse choice.
* `NoNameStays`. `InStep` is stronger: the newest units *are* the entries, the
  older ones no inputs. It takes `OneUnitEach`: nothing is executed twice or
  printed, the standard headers cannot fail to parse, and a text that does not
  link is not tried again unless it declares something (the second attempt is
  then a redefinition, `AgainIsRedefinition`).
* `ReplaysLoseNothing`. `HistoryFits`: every entry uses what earlier ones
  declare, declares none of it again, and has its header, its library and its
  standard. `QueueFits`: what an upgrade or a new path has still to replay goes
  on from the history without a gap, so that the entry at the head of the queue
  is accepted like the first time (`ReplayStep`). It takes `Replayable`: no
  library found without a path (`loadLibrary` remembers nothing), no text the
  sandbox could come to refuse or that does not reach clang, and a declaration recorded for a name declares it.

`Steady` is the program as `main()` starts it, at C++23, when building an engine
does not fail: then there is no upgrade and nothing more is asked of the inputs.
From an older standard the theorems take `HintsAreNoSymbols`, that an input whose
error asks for a newer standard cannot fail to link, and `NewerAccepts`, that a
newer standard accepts what an older one does. Both are needed. Without the
first, from C++17: `int x = 1;`, then the call of an undefined function whose
name in the error text reads like a request for C++23, in a text that C++23 no
longer accepts. The engine is rebuilt and `x` replayed; the second attempt is
refused before anything is added, but the recovery still goes by the first
error, and takes back the unit of `x`, whose entry stays. Without the second an
entry is lost (run `replay_loss`); without `OneUnitEach` a name stays (run
`undo_names`). `units` satisfies every hypothesis; `record` those of
`HistoryAlwaysBacked`.

**The refinement** (`RefinementProofs`). `InterpreterIsNotebook` maps the initial
states and every step, from `Books`: without an engine there is no history, so
that the upgrades that find none lose nothing a notebook would redo. The lemmas
`TasksHead`, `TasksConcat`, `TasksReplay` say how a queue of jobs reads as a
list of tasks; then there is one lemma per family of steps (a job that is kept, one that
is not, an upgrade, a rebuild, an undo, a removal). That commands end is the
part the prover does not reach; run `upgrade` checks it.

**Program** (`ProgramProofs`), for every set of lines, command lines and missing
files, every size of `int`, and without using the bounds. The first half bounds what each command
of the notebook does to the length of the history. `PromptCoversHistory` speaks of
sessions in which everything was entered at the prompt: a file, a `-e` text and a
`:stack set` are not counted but taken off by an undo, so that after `int x;`,
`:load f`, `:undo` the number is 1 and an entry is left. It speaks of the
prompt only and is not inductive: while a call is under way the history has
already changed and the number has not. `Numbered` says by how much they may be
apart for each call: an evaluation may be one ahead, a push only once it was
answered, an undo must already have made room for the number to come down.
`Underway` says which calls can be under way where, and that an undo leaves no
task. `huge` excludes counts of `MaxInt` and more: for those the subtraction
wraps around and the number may fall below the history or rise.
`NumberOnlyComesDown` follows from the same invariant, `LoweredSmall` and the
fact that only a return changes the number (`NumberStays`).

`SessionStartsAsAsked`, in the same module: `parse` walks over the arguments with
a state; `StartsAsAsked` says without it which arguments are values, files and
texts. A walk that does not fail has, after each argument, the files and the
texts that the reference finds up to there. `Progress` then follows `main()`:
how many of them were carried out at each stage, that none was missing, and that
all were when the session starts.

**Session** (`SessionProofs`). `EvaluatedWhenFinished` and `NeverDeclaredTwice` look
at the buffer, of which `Gathered` is the inductive invariant: it ends with a
line, every shorter prefix of lines needs more, it is finished exactly while its
evaluation is under way, and no line stands in it twice, the second time with its
semicolon. Of `IsIncomplete` the first needs no more than that it looks at the text; the
second is about the code that drops the repeated line, and about `Trim`.

**Scanners** (`ScannerProofs`). The reference finds the elements of a text (a
token of code, a comment, a literal) from where they begin; the code carries
flags from token to token. `Covered` and `ElementsAre` show that a scan is fresh
exactly where an element begins and in its mode until it ends. So the pass of
`hasUnclosedBrace` has the balance of the brackets of the code (`BalanceIs`)
and the pass of `stripCommentsAndStrings` writes what the reference keeps
(`StripIsKept`); `WordStays`, `FollowsTwo`, `FollowsThree` carry words and
operators from what is left back to the code. The five theorems hold for texts of
every length; that the text is one over the alphabet is the only invariant they need.

**ThreadPool** (`ThreadPoolProofs`). The inductive invariant ties the mutex to
the worker that is between its steps, a worker's task to its state `run`, and a
worker at `take` to a queue that is not empty. `NoSleepOverWork` and
`DownIsQuiet` follow, and `PoolImplementsService` maps every step of the pool
to a step of `TaskService` or a stutter; at most one task per worker is a
cardinality argument over the injective part of `task`.

**Model-checked only.** `CommandsReturn`, `ComesBack`, `DrainsOnShutdown` and the
liveness part of `ImplementsNotebook`: liveness is out of the prover's reach.

## 5. Where the code and its texts disagree

* **`undo_names`**: `undo(n)` hands `n` to clang, which counts units, and drops
  `n` entries. After `x++;`, which is executed again without its semicolon, or
  a failed `f()`, the two counts differ, and an undone declaration stays in the
  engine: not listed, not declarable again.
* **`remove`**: `:stack rm x` after `int x = 1;` and `x = 2;` drops only the
  assignment, replays the declaration, records `x` again and reports success.
* **`shutdown`**: a worker between its predicate and its blocking misses both
  `stop_` and `notify_all`; `join()` never returns.
* **`replay_loss`**, **`null_engine`**: need an engine started below C++23,
  which `init()` accepts and the API documents; `main()` always starts at 23. An
  upgrade drops an entry the newer standard refuses; and a failed rebuild
  inside an error path ends in `interp_->Undo(1)` on a null pointer
  (`interpreter.cpp:1154`). `interpreter.cpp:1024` has the same gap:
  `ensureVersion` answers true although an upgrade nested in its replay has
  failed, and the text is tried again on the engine that is no longer there.

* **`piped`**: `README.md` pipes `cpp_int a=...; a*a` into the program. The text
  ends in name, star, name, which `isIncomplete` takes for the beginning of a
  pointer declaration; the loop waits for more, finds the end of the input and
  drops the buffer. Nothing is evaluated. (`int x=42; x+1` of the line above it
  is.)

Further divergences, met while modelling and listed as hazards without a run:
`README.md` names C++17 as the default, `main()` starts at C++23; the comment
at `main.cpp:89` promises an automatic downgrade that `ensureVersion` never
makes; libraries given by `loadLibrary` do not survive a rebuild although
`README.md:74` says so; `stdLibIncluded_` outlives the unit it stands for;
`:libpath`, which
`session.cpp:70` describes as "add lib path", is caught by the branch of `:lib`; and `detect()` looks for the text `module `,
so that `int submodule = 1;` asks for C++23. Two limits of the detectors are in the
model and outside the properties: a block comment leaves nothing behind, so that a
keyword next to one may be missed, and a closing bracket too many cancels a later
opening one.

## 6. Not modelled

* Presentation: colours, completion, prompts, `dump`, layouts, statistics,
  symbol addresses, the highlighter; readline's own history.
* `trace()`, which forks a helper and leaves the state alone, and `:stack edit`,
  which answers that it is not implemented.
* `Session::exec`, `Session::run`'s callers other than `main()`, the command
  registry, the sandbox's path checks, the legacy `Repl` and `VM`: no code that
  `main()` reaches uses them. `Repl` is an earlier copy of the interpreter's logic.
* The PCH cache: nothing calls it, so that nothing says in which order or from
  how many processes its operations run. (Its `ensure` asks `lookup` with the
  smallest time stamp, so that a file in it never counts as stale.)
* The sandbox's word lists: a text is `dangerous` or not. Which words are
  listed is policy; when the verdict is asked for, and under which switch, is
  modelled. Its own copy of the stripping of comments is not.
* Defines and extra arguments of `init`, which only travel with the options.
* `hover` and `complete` of the LSP server, stateless lookups; the VM and remote
  JIT, which forward to LLVM.
* The two declaration patterns of the interpreter as algorithms: an input
  carries what they match.

## 7. Plan

Done, in this order: `Interpreter` with its runs and proofs, `ThreadPool` with
`TaskService`, its runs and the refinement proof; `Notebook` and its
implementation by `Interpreter`, checked and proved; `Scanner` against a
reference definition; `Session`, `CommandLine` and `Program`, checked; then the
proofs of every safety property the runs check.

1. `parseDeclaration` and `parseAssignment` on token sequences, next to
   `Scanner`, and what they make of statements that declare nothing.
2. Callbacks of the LSP server that enqueue or shut down from a worker, on top
   of `ThreadPool`.
3. Proofs: `HistoryIsBacked` below C++23 for inputs that use names and whose
   errors ask for a newer standard; the composition of `Session` with
   `Interpreter` in place of `Notebook`, from the refinement.
