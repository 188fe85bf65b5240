------------------------------- MODULE CommandLine -------------------------------
(***************************************************************************)
(* cli::parse: the arguments of the program, one after the other.  An      *)
(* argument is a string; `wants` is the option whose value the next one    *)
(* is, which the code reads with ++i.                                      *)
(***************************************************************************)
EXTENDS Naturals, Sequences

SE == INSTANCE SequencesExt

StartsWith(s, p) == SE!IsPrefix(p, s)
Behind(s, p) == SubSeq(s, Len(p) + 1, Len(s))

Options ==
  [showScaffold |-> FALSE, noInteractive |-> FALSE, showHelp |-> FALSE, showVersion |-> FALSE,
   noColor |-> FALSE, showStats |-> FALSE, showMem |-> FALSE, showTime |-> FALSE,
   verbose |-> FALSE, execCodes |-> <<>>, files |-> <<>>, includePaths |-> <<>>,
   libraryPaths |-> <<>>, libraries |-> <<>>, defines |-> <<>>]

(* Where the value of an option goes. *)
Field == [a \in {"-e", "-I", "-L", "-l", "-D", "--include", "--include-path", "--library", "--"} |->
            CASE a = "-e" -> "execCodes" [] a = "-L" -> "libraryPaths" [] a = "-D" -> "defines"
              [] a \in {"-I", "--include", "--include-path"} -> "includePaths"
              [] a \in {"-l", "--library"} -> "libraries" [] a = "--" -> "files"]
Takers == DOMAIN Field \ {"--"}
Short == {"-I", "-L", "-l", "-D"}

(* -I=path and -I =path *)
Unequal(v) == IF StartsWith(v, "=") THEN Behind(v, "=") ELSE v

Add(o, a, v) == [o EXCEPT ![Field[a]] = Append(@, IF a \in Short THEN Unequal(v) ELSE v)]

(* The tests that compare the whole argument, none of which another        *)
(* precedes: the arguments that set, and that clear, an option.            *)
Verbose == {"--verbose", "-V", "--stats", "--stat"}
On ==
  [showHelp |-> {"-h", "--help"}, showVersion |-> {"-v", "--version"},
   showScaffold |-> {"--scaffold"}, noInteractive |-> {"--no-interactive"},
   verbose |-> Verbose,
   showMem |-> Verbose \cup {"--mem", "--memory", "--meminfo", "--memory-info", "--heap"},
   showTime |-> Verbose \cup {"--time", "--timing", "--profile", "--trace"},
   showStats |-> Verbose \cup {"--stack", "--stack-info"},
   noColor |-> {"--no-color", "--nocolor", "--color=never", "--color=none"}]
Off ==
  [showScaffold |-> {"--no-scaffold"}, noColor |-> {"--color", "--color=always", "--color=auto"}]

Flags == UNION ({On[f] : f \in DOMAIN On} \cup {Off[f] : f \in DOMAIN Off})

SetFlag(o, a) ==
  [f \in DOMAIN o |-> IF f \in DOMAIN On /\ a \in On[f] THEN TRUE
                      ELSE IF f \in DOMAIN Off /\ a \in Off[f] THEN FALSE ELSE o[f]]

(* Mutated form: an argument that looks like an option is never a value. *)
ArgumentNoValue(st, a) ==
  IF st.wants \in Takers /\ ~StartsWith(a, "-")
    THEN [st EXCEPT !.opts = Add(@, st.wants, a), !.wants = "none"]
  ELSE IF a \in Flags THEN [st EXCEPT !.opts = SetFlag(@, a), !.wants = "none"]
  ELSE IF a \in Takers \cup {"--"} THEN [st EXCEPT !.wants = a]
  ELSE [st EXCEPT !.opts = Add(@, "--", a), !.wants = "none"]

(* After "--" every argument is a file.  The branch for --lib and --lib= is *)
(* behind a test for the prefix "--library" and never taken.               *)
Argument(st, a) ==
  IF st.failed THEN st
  ELSE IF st.wants = "--" THEN [st EXCEPT !.opts = Add(@, "--", a)]
  ELSE IF st.wants \in Takers THEN [st EXCEPT !.opts = Add(@, st.wants, a), !.wants = "none"]
  ELSE IF a \in Flags THEN [st EXCEPT !.opts = SetFlag(@, a)]
  ELSE IF a \in Takers \cup {"--"} THEN [st EXCEPT !.wants = a]
  ELSE IF \E p \in Short : StartsWith(a, p)
    THEN LET p == CHOOSE p \in Short : StartsWith(a, p)
         IN  [st EXCEPT !.opts = Add(@, p, Behind(a, p))]
  ELSE IF StartsWith(a, "--include=")
    THEN [st EXCEPT !.opts = Add(@, "--include", Behind(a, "--include="))]
  ELSE IF StartsWith(a, "--library=")
    THEN [st EXCEPT !.opts = Add(@, "--library", Behind(a, "--library="))]
  ELSE IF StartsWith(a, "-") THEN [st EXCEPT !.failed = TRUE]
  ELSE [st EXCEPT !.opts = Add(@, "--", a)]

(* failed: an unknown option, or one whose value is missing at the end. *)
Parse(argv) ==
  LET upTo[k \in 0..Len(argv)] ==
        IF k = 0 THEN [opts |-> Options, wants |-> "none", failed |-> FALSE]
        ELSE Argument(upTo[k - 1], argv[k])
      end == upTo[Len(argv)]
  IN  [opts |-> end.opts, failed |-> end.failed \/ end.wants \in Takers]
================================================================================
