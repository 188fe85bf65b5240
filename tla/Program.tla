--------------------------------- MODULE Program ---------------------------------
(***************************************************************************)
(* main(): the command line, the interpreter, the files and the -e texts,  *)
(* and then a Session on what they leave behind.                           *)
(***************************************************************************)
EXTENDS Session

CONSTANTS
  Commands,   \* the argument lists the program may be started with
  Missing     \* files that cannot be opened

CL == INSTANCE CommandLine

ASSUME CommandsAssumption == Commands \subseteq Seq(STRING) /\ Missing \subseteq STRING
(* What the tests for an option's name or beginning let through begins with  *)
(* a dash: a fact about strings.                                           *)
ASSUME DashAssumption ==
  \A c \in Commands : \A k \in DOMAIN c :
    (\/ c[k] \in CL!Flags \cup DOMAIN CL!Field
     \/ \E p \in CL!Short \cup {"--include=", "--library="} : CL!StartsWith(c[k], p))
      => CL!StartsWith(c[k], "-")

VARIABLES
  argv,
  stage,   \* where main() is
  status,  \* its exit status
  ran      \* the files and texts that were carried out

vars == <<notebook, session, argv, stage, status, ran>>

Stages == {"start", "scaffold", "init", "files", "codes", "session", "over"}
Parsed == CL!Parse(argv)
Opts == Parsed.opts

StageOK ==
  /\ argv \in Commands /\ stage \in Stages /\ status \in {0, 1}
--------------------------------------------------------------------------------
Inside == UNCHANGED <<notebook, session, argv, ran>>
Exit(s) == stage' = "over" /\ status' = s

(* Lines 30-44 *)
ParseCommandLine ==
  /\ stage = "start" /\ Inside
  /\ IF Parsed.failed THEN Exit(1)
     ELSE IF Opts.showHelp \/ Opts.showVersion THEN Exit(0)
     ELSE stage' = (IF Opts.showScaffold THEN "scaffold" ELSE "init") /\ UNCHANGED status

(* Lines 47-83: the virtual machine may fail. *)
ShowScaffold ==
  /\ stage = "scaffold" /\ Inside
  /\ Exit(1) \/ (stage' = "init" /\ UNCHANGED status)

(* Lines 86-95 *)
InitInterpreter ==
  /\ stage = "init" /\ Inside
  /\ Exit(1) \/ (stage' = "files" /\ UNCHANGED status)

Quiet == call = Idle /\ ~NB!Busy
Uncalled == UNCHANGED <<buffer, promptCount, security, reading, huge, argv, stage, status, ran>>

(* Lines 154-157: loadFile, which gives up on a file it cannot open. *)
LoadNext ==
  /\ stage = "files" /\ Quiet /\ Len(ran) < Len(Opts.files)
  /\ LET f == Opts.files[Len(ran) + 1] IN
     IF f \in Missing THEN NB!Report(FALSE) ELSE NB!Enter("loaded")
  /\ Called("file", 0) /\ outside' = outside + 1 /\ Uncalled

(* Lines 168-171: evalAuto; the engine is alive and at the newest standard, *)
(* so that it only evaluates.                                              *)
EvalNext ==
  /\ stage = "codes" /\ Quiet /\ Len(ran) < Len(Opts.files) + Len(Opts.execCodes)
  /\ NB!Enter("-e")
  /\ Called("code", 0) /\ outside' = outside + 1 /\ Uncalled

(* Lines 159-163 and 173-177: the first failure ends the program. *)
Checked ==
  /\ stage \in {"files", "codes"} /\ call # Idle /\ ~NB!Busy
  /\ call' = Idle
  /\ IF answer
       THEN /\ ran' = Append(ran, (Opts.files \o Opts.execCodes)[Len(ran) + 1])
            /\ UNCHANGED <<stage, status>>
       ELSE Exit(1) /\ UNCHANGED ran
  /\ UNCHANGED <<notebook, buffer, promptCount, security, reading, outside, huge, argv>>

(* Mutated form: the loop over the files goes on for one too many. *)
FilesDoneOneMore ==
  /\ stage = "files" /\ Quiet /\ Len(ran) = Len(Opts.files) + 1
  /\ stage' = "codes" /\ UNCHANGED status /\ Inside

FilesDone ==
  /\ stage = "files" /\ Quiet /\ Len(ran) = Len(Opts.files)
  /\ stage' = "codes" /\ UNCHANGED status /\ Inside

(* Lines 181-182 and 213-214 *)
CodesDone ==
  /\ stage = "codes" /\ Quiet /\ Len(ran) = Len(Opts.files) + Len(Opts.execCodes)
  /\ IF Opts.noInteractive THEN Exit(0) /\ UNCHANGED reading
     ELSE stage' = "session" /\ reading' = TRUE /\ UNCHANGED status
  /\ UNCHANGED <<notebook, buffer, promptCount, security, call, outside, huge, argv, ran>>

SessionOver ==
  /\ stage = "session" /\ ~reading /\ Exit(0) /\ Inside

Main ==
  \/ ParseCommandLine \/ ShowScaffold \/ InitInterpreter \/ LoadNext \/ EvalNext
  \/ Checked \/ FilesDone \/ CodesDone \/ SessionOver

Unmoved == UNCHANGED <<argv, stage, status, ran>>

(* What runs by itself: main(), the interpreter and the end of a call.     *)
Machine == Main \/ ((Carry \/ Return) /\ Unmoved)

User == (ReadLine \/ EndOfInput) /\ Unmoved

Init ==
  /\ done = <<>> /\ todo = <<>> /\ answer = TRUE /\ version = 23
  /\ buffer = <<>> /\ promptCount = 1 /\ security = [f \in Flagged |-> FALSE]
  /\ call = Idle /\ reading = FALSE /\ outside = 0 /\ huge = FALSE
  /\ argv \in Commands /\ stage = "start" /\ status = 0 /\ ran = <<>>

Next == Machine \/ User

(* The program goes on by itself; the user may stop typing for ever. *)
Spec == Init /\ [][Next]_vars /\ WF_vars(Machine)
--------------------------------------------------------------------------------
(* Properties.                                                             *)

Types == TypeOK /\ StageOK

(* The session goes on from exactly what the command line asked for: every   *)
(* file, then every -e text, in their order; an argument is the value of the *)
(* option before it or means something itself, never both.  The same holds   *)
(* of a program that ends well after it carried something out, and neither   *)
(* had a file it could not open.                                             *)
IsValue ==
  LET value[k \in 0..Len(argv)] ==
        /\ k > 1 /\ argv[k - 1] \in CL!Takers /\ ~value[k - 1]
        /\ \A j \in 1..(k - 1) : argv[j] = "--" => value[j]
  IN  value
PastDashes(k) == \E j \in 1..(k - 1) : argv[j] = "--" /\ ~IsValue[j]
IsFile(k) == PastDashes(k) \/ ~(IsValue[k] \/ CL!StartsWith(argv[k], "-"))
Asked(Test(_)) ==
  LET upTo[k \in 0..Len(argv)] ==
        IF k = 0 THEN <<>> ELSE IF Test(k) THEN Append(upTo[k - 1], argv[k]) ELSE upTo[k - 1]
  IN  upTo[Len(argv)]
IsCodeArgument(k) == IsValue[k] /\ argv[k - 1] = "-e"
StartsAsAsked ==
  stage = "session" \/ (stage = "over" /\ status = 0 /\ ran # <<>>) =>
    /\ ran = Asked(IsFile) \o Asked(IsCodeArgument)
    /\ \A k \in DOMAIN argv : IsFile(k) => argv[k] \notin Missing

(* In a session where everything was entered at a prompt, [n] has counted    *)
(* every entry of the history and more, whatever failed, was undone, popped, *)
(* cleared, removed or lost since - as long as no count of MaxInt or more    *)
(* was given, which the subtraction cannot take.  A file, a -e text and a    *)
(* :stack set are never counted, but an undo lowers the number for their     *)
(* entries too: after one of them the number may fall behind.                *)
PromptCoversHistory == call = Idle /\ ~huge /\ outside = 0 => Len(done) < promptCount

(* Taking entries back never raises the number and never takes it below 1.   *)
NumberComesDown ==
  [][call.op \in {"undo", "pop"} /\ call' = Idle /\ ~huge
       => 1 <= promptCount' /\ promptCount' <= promptCount]_vars

(* An input is evaluated with the line that finishes it: between lines the   *)
(* buffer is unfinished, during an evaluation it is finished, and what came  *)
(* before its last line never was.                                           *)
LinesOf(b) == {k \in DOMAIN b : b[k] = "nl"}
NeedsMore(b) == b[Len(b) - 1] = "\\" \/ IsIncomplete(b)
EvaluatedWhenFinished ==
  reading /\ buffer # <<>> =>
    /\ call.op = "eval" <=> ~NeedsMore(buffer)
    /\ \A k \in LinesOf(buffer) : k < Len(buffer) => NeedsMore(SubSeq(buffer, 1, k))

(* "Fix for FILE *file without ; at [1] + FILE *file; with ; at [2] being two *)
(* declarations": no input that is evaluated is one line and then, however   *)
(* many blank lines later, the same line with its semicolon.                 *)
NeverDeclaredTwice ==
  call.op = "eval" =>
    LET t == Trim(buffer) IN
    \A i, j \in DOMAIN t :
      ~(/\ t[i] \notin Blanks \cup {";"} /\ FirstLine(t, i) /\ i + 1 < j
        /\ All(t, i + 1, j - 1, Blanks) /\ \E k \in (i + 1)..(j - 1) : t[k] = "nl"
        /\ SubSeq(t, j, Len(t)) = Append(SubSeq(t, 1, i), ";"))

(* main() comes to the prompt or to its end, and every call of the session   *)
(* returns to its loop.                                                      *)
ComesBack == (stage # "session" \/ call # Idle) ~> (stage = "over" \/ Waiting)

(* "Pipes & scripts work like Python": what is piped into the program is     *)
(* evaluated by the time it ends.                                            *)
PipedIsEvaluated == stage = "over" => buffer = <<>>
================================================================================
