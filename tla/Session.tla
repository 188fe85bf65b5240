--------------------------------- MODULE Session ---------------------------------
(***************************************************************************)
(* repl::Session (src/src/repl/session.cpp): the loop that reads lines,    *)
(* gathers them until an input is finished, and evaluates it or carries    *)
(* out a command.  The interpreter behind it is a Notebook, which          *)
(* Interpreter implements.                                                 *)
(*                                                                         *)
(* A line is [text, words]: what the scanners see of it, and its words as  *)
(* handleCommand compares them; a blank line has none.  A call of the      *)
(* interpreter is two actions, the call and its return; the tasks of the   *)
(* notebook run in between, and of an input it keeps where it came from.   *)
(***************************************************************************)
EXTENDS Scanner

CONSTANTS
  Lines,       \* what the user may type
  Numerals,    \* the numbers among the words, a function to Nat
  MaxInt,      \* the largest int
  MaxDone, MaxOutside, MaxBuffer  \* bounds on what is entered

ASSUME MaxIntAssumption == MaxInt \in Nat /\ MaxInt > 0
ASSUME LinesAssumption ==
  /\ Lines \subseteq [text: Seq(STRING), words: Seq(STRING)]
  /\ DOMAIN Numerals \subseteq STRING /\ \A w \in DOMAIN Numerals : Numerals[w] \in Nat
  /\ MaxDone \in Nat /\ MaxOutside \in Nat /\ MaxBuffer \in Nat
(* A line holds no new line, and has words unless it is blank. *)
ASSUME LineAssumption ==
  \A l \in Lines :
    /\ \A k \in DOMAIN l.text : l.text[k] # "nl"
    /\ l.words = <<>> <=> \A k \in DOMAIN l.text : l.text[k] \in Blanks

VARIABLES
  done, todo, answer, version,  \* the interpreter
  buffer,       \* the lines of the unfinished input
  promptCount,  \* the number the prompt shows
  security,     \* what the sandbox lets through
  call,         \* the call of the interpreter under way
  reading,      \* the loop is running
  outside,      \* inputs entered past the prompt: files, :load, :stack set
  huge          \* an undo or pop of MaxInt entries or more was asked for

notebook == <<done, todo, answer, version>>
session == <<buffer, promptCount, security, call, reading, outside, huge>>

Origins == {"typed", "pushed", "set", "loaded", "-e"}
NB == INSTANCE Notebook WITH Inputs <- Origins, Versions <- {17, 20, 23}
SX == INSTANCE SequencesExt

Chars == {"nl"} \cup UNION {{l.text[k] : k \in DOMAIN l.text} : l \in Lines}
Flagged == {"allowSystemCalls", "allowFileWrite", "allowNetwork"}
Width == 2 * (MaxInt + 1)
Ops == {"none", "eval", "push", "pop", "undo", "clear", "reset", "load", "set", "other"}
Idle == [op |-> "none", n |-> 0]

TypeOK ==
  /\ NB!TypeOK
  /\ buffer \in Seq(Chars) /\ promptCount \in -(MaxInt + 1)..MaxInt
  /\ security \in [Flagged -> BOOLEAN]
  /\ call \in [op: Ops \cup {"file", "code"}, n: Nat]
  /\ reading \in BOOLEAN /\ outside \in Nat /\ huge \in BOOLEAN
--------------------------------------------------------------------------------
(* Words and numbers.                                                      *)

Begins(ws, ps) == ws # <<>> /\ \E p \in ps : SX!IsPrefix(p, ws[1])

(* What trim(t.substr(p.size())) leaves of a line that begins with one of ps *)
Behind(ws, ps) ==
  LET fit == {p \in ps : SX!IsPrefix(p, ws[1])}
      p == CHOOSE p \in fit : \A q \in fit : Len(q) <= Len(p)
      rest == SubSeq(ws[1], Len(p) + 1, Len(ws[1]))
  IN  (IF rest = "" THEN <<>> ELSE <<rest>>) \o Tail(ws)

(* strtoul into an unsigned: no number and 0 count as 1, a larger one is cut *)
(* to the width, which may make it 0.                                      *)
Number(ws) ==
  IF ws # <<>> /\ ws[1] \in DOMAIN Numerals /\ Numerals[ws[1]] > 0
    THEN Numerals[ws[1]] % Width ELSE 1

(* Mutated form: the conversion keeps the value. *)
AsIntUnwrapped(x) == x

AsInt(x) == ((x + MaxInt + 1) % Width) - (MaxInt + 1)

(* Mutated form: the number is lowered without a limit. *)
LoweredUnclamped(p, n) == {AsInt(p - n)}

(* promptCount_ > static_cast<int>(n) + 1 ? promptCount_ - n : 1.  The sum  *)
(* overflows for n = MaxInt: the build may compare with either value.      *)
Lowered(p, n) ==
  IF AsInt(n) = MaxInt THEN {AsInt(p - n), 1}
  ELSE IF p > AsInt(n) + 1 THEN {AsInt(p - n)} ELSE {1}
--------------------------------------------------------------------------------
(* The tests of handleCommand in their order: the words it compares the     *)
(* whole line with, and those the line may begin with.  A name is not       *)
(* complete before its blank: ":libpath d" begins with ":lib".              *)

Branch(name, exact, begins) == [name |-> name, exact |-> exact, begins |-> begins]
Branches ==
  << Branch("show", {":help", ":h", ":dump", ":version", ":s", ":ls", ":info", ":stacklayout"}, {}),
     Branch("show", {}, {":heap", ":trace"}),
     Branch("security", {}, {":security", ":sandbox"}),
     Branch("stack", {}, {":stack", ":layout", ":view"}),
     Branch("reset", {":reset", ":flush", ":forget", ":clearstack", ":drop"}, {}),
     Branch("screen", {":clear", ":cls", ":c", "clear", "cls"}, {}),
     Branch("load", {}, {":load"}),
     Branch("lib", {}, {":lib"}),
     Branch("undo", {}, {":undo"}),
     Branch("path", {}, {":I", ":include", ":inc", ":L", ":libpath"}),
     Branch("unknown", {}, {":"}) >>

StackBranches ==
  << Branch("pop", {}, {"pop"}), Branch("push", {}, {"push"}),
     Branch("clear", {"clear", "flush", "reset"}, {}),
     Branch("rm", {}, {"rm", "drop", "forget", "remove"}),
     Branch("set", {}, {"set"}), Branch("swap", {}, {"swap"}) >>

Taken(b, ws) == ws \in {<<w>> : w \in b.exact} \/ Begins(ws, b.begins)

Chosen(bs, ws) ==
  LET fits == {k \in DOMAIN bs : Taken(bs[k], ws)}
  IN  IF fits = {} THEN "none" ELSE bs[CHOOSE k \in fits : \A j \in fits : k <= j].name

Handlers == [l \in Lines |-> Chosen(Branches, l.words)]
Handler(l) == Handlers[l]

StackArgs(l) == Behind(l.words, {":stack", ":layout", ":view"})
StackHandlers ==
  [l \in {l \in Lines : Handler(l) = "stack"} |-> Chosen(StackBranches, StackArgs(l))]
OnStack(l, name) == Handler(l) = "stack" /\ StackHandlers[l] = name
StackRest(l, ps) == Behind(StackArgs(l), ps)
--------------------------------------------------------------------------------
(* Reading.                                                                *)

QuitWords == {":quit", ":exit", ":q", ":quit()", "exit", "quit"}
Waiting == reading /\ call = Idle /\ ~NB!Busy
HasRoom == Len(done) < MaxDone /\ promptCount < MaxInt

Leave ==
  /\ reading' = FALSE
  /\ UNCHANGED <<notebook, buffer, promptCount, security, call, outside, huge>>

Quit(l) == Waiting /\ buffer = <<>> /\ l.words \in {<<w>> : w \in QuitWords} /\ Leave

(* End of file: what is in the buffer goes with the object. *)
EndOfInput == Waiting /\ Leave

Called(op, n) == call' = [op |-> op, n |-> n]

IsCommand(l) ==
  /\ buffer = <<>> /\ l.words # <<>> /\ l.words \notin {<<w>> : w \in QuitWords}
  /\ Handler(l) # "none"

(* A line is code unless it stands alone and says otherwise; a blank line   *)
(* that stands alone is nothing.                                           *)
IsCode(l) ==
  buffer # <<>> \/ /\ l.words # <<>> /\ l.words \notin {<<w>> : w \in QuitWords}
                   /\ Handler(l) = "none"

(* Mutated form: every line is appended. *)
AppendLine(b, l) == b \o l.text \o <<"nl">>

(* The same declaration, now with its semicolon, takes the place of the     *)
(* one without.                                                            *)
Joined(b, l) ==
  IF Trim(b) # <<>> /\ Trim(b)[Len(Trim(b))] # ";" /\ Trim(l.text) = Append(Trim(b), ";")
    THEN l.text \o <<"nl">>
  ELSE b \o l.text \o <<"nl">>

(* Mutated form: only the line that was typed is looked at. *)
LineContinues(b, l) == (l.text # <<>> /\ l.text[Len(l.text)] = "\\") \/ IsIncomplete(l.text)

Continues(b, l) == (l.text # <<>> /\ l.text[Len(l.text)] = "\\") \/ IsIncomplete(b)

Unfinished(l) ==
  /\ Waiting /\ IsCode(l) /\ Len(buffer) < MaxBuffer
  /\ buffer' = Joined(buffer, l) /\ Continues(buffer', l)
  /\ UNCHANGED <<notebook, promptCount, security, call, reading, outside, huge>>

Finished(l) ==
  /\ Waiting /\ IsCode(l) /\ HasRoom
  /\ buffer' = Joined(buffer, l) /\ ~Continues(buffer', l)
  /\ NB!Enter("typed") /\ Called("eval", 0)
  /\ UNCHANGED <<promptCount, security, reading, outside, huge>>
--------------------------------------------------------------------------------
(* Commands.  Those that only print (show, screen, unknown, and every       *)
(* usage message) change nothing here and have no action.                  *)

Command(l) == Waiting /\ IsCommand(l)

Rest == UNCHANGED <<buffer, promptCount, security, reading, outside, huge>>

Undo(l) ==
  /\ Command(l) /\ Handler(l) = "undo"
  /\ LET n == Number(Behind(l.words, {":undo"})) IN
     /\ NB!Undo(n) /\ Called("undo", n)
     /\ huge' = (huge \/ n >= MaxInt)
  /\ UNCHANGED <<buffer, promptCount, security, reading, outside>>

StackPop(l) ==
  /\ Command(l) /\ OnStack(l, "pop")
  /\ LET n == Number(StackRest(l, {"pop"})) IN
     /\ NB!Pop(n) /\ Called("pop", n)
     /\ huge' = (huge \/ n >= MaxInt)
  /\ UNCHANGED <<buffer, promptCount, security, reading, outside>>

(* The pushed text is not asked whether it is finished. *)
StackPush(l) ==
  /\ Command(l) /\ OnStack(l, "push") /\ StackRest(l, {"push"}) # <<>> /\ HasRoom
  /\ NB!Enter("pushed") /\ Called("push", 0) /\ Rest

StackClear(l) ==
  /\ Command(l) /\ OnStack(l, "clear")
  /\ NB!Clear /\ Called("clear", 0) /\ Rest

StackRemove(l) ==
  /\ Command(l) /\ OnStack(l, "rm")
  /\ StackRest(l, {"rm", "drop", "forget", "remove"}) # <<>>
  /\ NB!Remove(<<>>) /\ Called("other", 0) /\ Rest

StackSet(l) ==
  /\ Command(l) /\ OnStack(l, "set") /\ Len(StackRest(l, {"set"})) > 1
  /\ HasRoom /\ outside < MaxOutside
  /\ NB!Set("set") /\ Called("set", 0)
  /\ outside' = outside + 1
  /\ UNCHANGED <<buffer, promptCount, security, reading, huge>>

(* The indices of :dump begin at 0. *)
StackSwap(l) ==
  LET rest == StackRest(l, {"swap"}) IN
  /\ Command(l) /\ OnStack(l, "swap") /\ Len(rest) > 1
  /\ rest[1] \in DOMAIN Numerals /\ rest[2] \in DOMAIN Numerals
  /\ NB!Swap(Numerals[rest[1]] + 1, Numerals[rest[2]] + 1) /\ Called("other", 0) /\ Rest

Reset(l) ==
  /\ Command(l) /\ Handler(l) = "reset"
  /\ NB!Clear /\ Called("reset", 0) /\ Rest

(* A file that cannot be opened is an answer, too. *)
Load(l) ==
  /\ Command(l) /\ Handler(l) = "load" /\ Behind(l.words, {":load"}) # <<>>
  /\ HasRoom /\ outside < MaxOutside
  /\ NB!Enter("loaded") \/ NB!Report(FALSE)
  /\ Called("load", 0)
  /\ outside' = outside + 1
  /\ UNCHANGED <<buffer, promptCount, security, reading, huge>>

Path(l) ==
  /\ Command(l) /\ Handler(l) = "path"
  /\ Behind(l.words, {":I", ":include", ":inc", ":L", ":libpath"}) \notin {<<>>, <<"=">>}
  /\ NB!Option /\ Called("other", 0) /\ Rest

Lib(l) ==
  /\ Command(l) /\ Handler(l) = "lib" /\ Behind(l.words, {":lib"}) # <<>>
  /\ \E r \in BOOLEAN : NB!Report(r)
  /\ Called("other", 0) /\ Rest

(* key=value or key value; without a value the option is shown.  The words   *)
(* are those the handler compares: it cuts the line at the first =, a word   *)
(* of its own here, and takes the value in lower case.                       *)
Security(l) ==
  LET args == Behind(l.words, {":security", ":sandbox"})
      eq   == {k \in DOMAIN args : args[k] = "="}
      cut  == IF eq = {} THEN 2 ELSE CHOOSE k \in eq : \A j \in eq : k <= j
      key  == SubSeq(args, 1, cut - 1)
      val  == SubSeq(args, IF eq = {} THEN cut ELSE cut + 1, Len(args))
      name == [f \in Flagged |-> CASE f = "allowSystemCalls" -> "system"
                                   [] f = "allowFileWrite" -> "filewrite"
                                   [] f = "allowNetwork" -> "network"]
  IN  /\ Command(l) /\ Handler(l) = "security" /\ val # <<>>
      /\ \E f \in Flagged :
           /\ key \in {<<f>>, <<name[f]>>}
           /\ security' = [security EXCEPT ![f] = val \in {<<"true">>, <<"1">>, <<"on">>, <<"yes">>}]
      /\ UNCHANGED <<notebook, buffer, promptCount, call, reading, outside, huge>>
--------------------------------------------------------------------------------
(* The interpreter answers.                                                *)

(* Mutated form: the number is lowered even when nothing was taken back. *)
RenumberedAnyway ==
  CASE call.op = "eval" -> {promptCount + 1}
    [] call.op = "push" /\ answer -> {promptCount + 1}
    [] call.op \in {"undo", "pop"} -> Lowered(promptCount, call.n)
    [] (call.op = "clear" /\ answer) \/ call.op = "reset" -> {1}
    [] OTHER -> {promptCount}

Renumbered ==
  CASE call.op = "eval" -> {promptCount + 1}
    [] call.op = "push" /\ answer -> {promptCount + 1}
    [] call.op \in {"undo", "pop"} /\ answer -> Lowered(promptCount, call.n)
    [] (call.op = "clear" /\ answer) \/ call.op = "reset" -> {1}
    [] OTHER -> {promptCount}

Return ==
  /\ reading /\ call # Idle /\ ~NB!Busy
  /\ promptCount' \in Renumbered
  /\ buffer' = IF call.op = "eval" THEN <<>> ELSE buffer
  /\ call' = Idle
  /\ UNCHANGED <<notebook, security, reading, outside, huge>>

(* The notebook carries out its tasks.  main() starts at C++23: there is no *)
(* newer standard to restart for.                                          *)
Carry ==
  /\ NB!Keep \/ NB!GiveUp \/ \E r \in BOOLEAN : NB!Skip(r)
  /\ UNCHANGED session

StackLine(l) ==
  StackPop(l) \/ StackPush(l) \/ StackClear(l) \/ StackRemove(l) \/ StackSet(l) \/ StackSwap(l)

ReadLine ==
  \E l \in Lines :
    \/ Quit(l) \/ Unfinished(l) \/ Finished(l)
    \/ Undo(l) \/ StackLine(l) \/ Reset(l) \/ Load(l) \/ Path(l) \/ Lib(l) \/ Security(l)
================================================================================
