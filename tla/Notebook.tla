-------------------------------- MODULE Notebook --------------------------------
(***************************************************************************)
(* What interpreter::Interpreter promises its callers, Session and main(): *)
(* a list of accepted inputs, in the order they were accepted, and the     *)
(* answer of the last command.  Engines, units, libraries, variables and   *)
(* the reasons for a failure are left out; what stays is that the list is  *)
(* sometimes carried out again, entry by entry, and may lose entries then. *)
(***************************************************************************)
EXTENDS Naturals, Sequences

CONSTANTS Inputs, Versions

VARIABLES
  done,     \* the accepted inputs, oldest first
  todo,     \* what the running command still has to carry out
  answer,   \* what the last command returned
  version   \* the language standard

vars == <<done, todo, answer, version>>

(* own: the result of this task is the answer of the command. *)
Task == [code: Inputs, own: BOOLEAN]
Own(c) == [code |-> c, own |-> TRUE]
Redone(s) == [k \in DOMAIN s |-> [code |-> s[k], own |-> FALSE]]

TypeOK ==
  /\ done \in Seq(Inputs) /\ todo \in Seq(Task)
  /\ answer \in BOOLEAN /\ version \in Versions

Init == done = <<>> /\ todo = <<>> /\ answer = TRUE /\ version \in Versions
--------------------------------------------------------------------------------
(* Carrying out the first task.                                            *)

Busy == todo # <<>>
Answers(r) == answer' = IF Head(todo).own THEN r ELSE answer

Keep ==
  /\ Busy
  /\ done' = Append(done, Head(todo).code) /\ todo' = Tail(todo)
  /\ Answers(TRUE) /\ UNCHANGED version

Skip(r) ==
  /\ Busy
  /\ todo' = Tail(todo) /\ Answers(r) /\ UNCHANGED <<done, version>>

(* A failure may end the whole command. *)
GiveUp ==
  /\ Busy /\ Head(todo).own
  /\ todo' = <<>> /\ answer' = FALSE /\ UNCHANGED <<done, version>>

(* A newer standard: everything accepted so far is carried out again, then *)
(* the task that asked for it.                                             *)
Redo(v) ==
  /\ Busy /\ v > version
  /\ version' = v /\ done' = <<>> /\ todo' = Redone(done) \o todo
  /\ UNCHANGED answer

(* The same without an engine: nothing is left of what was accepted.       *)
Lose(v) ==
  /\ Busy /\ v > version
  /\ version' = v /\ done' = <<>>
  /\ \/ todo' = todo /\ UNCHANGED answer
     \/ todo' = Tail(todo) /\ Answers(FALSE)
     \/ Head(todo).own /\ todo' = <<>> /\ answer' = FALSE
     \/ todo' = <<>> /\ UNCHANGED answer

(* The program ends under the command, or with the last alternative above. *)
Die ==
  /\ Busy /\ done = <<>>
  /\ todo' = <<>> /\ UNCHANGED <<done, answer, version>>

Step ==
  \/ Keep \/ GiveUp \/ Die
  \/ \E r \in BOOLEAN : Skip(r)
  \/ \E v \in Versions : Redo(v) \/ Lose(v)
--------------------------------------------------------------------------------
(* Commands.                                                               *)

Report(r) == ~Busy /\ answer' = r /\ UNCHANGED <<done, todo, version>>

Enter(c) == ~Busy /\ todo' = <<Own(c)>> /\ UNCHANGED <<done, answer, version>>

(* Without an engine one is built first, for any standard.                 *)
EnterAfresh(c) ==
  /\ ~Busy /\ done = <<>>
  /\ version' \in Versions
  /\ \/ todo' = <<Own(c)>> /\ UNCHANGED answer
     \/ answer' = FALSE /\ UNCHANGED todo
  /\ UNCHANGED done

(* Takes n entries back, all there are when there are fewer, or none.      *)
Undo(n) ==
  \/ Report(FALSE)
  \/ /\ ~Busy
     /\ done' = SubSeq(done, 1, IF n < Len(done) THEN Len(done) - n ELSE 0)
     /\ answer' = TRUE /\ UNCHANGED <<todo, version>>

(* The same, but never answers TRUE when there is nothing to take back.    *)
Pop(n) == IF done = <<>> THEN Report(FALSE) ELSE Undo(IF n = 0 THEN 1 ELSE n)

Clear ==
  /\ ~Busy /\ done' = <<>> /\ answer' \in BOOLEAN /\ UNCHANGED <<todo, version>>

(* The engine is replaced and tasks are carried out on the new one; without *)
(* one, only `next` is tried.                                              *)
Rebuild(tasks, next) ==
  /\ ~Busy /\ done' = <<>> /\ UNCHANGED version
  /\ \/ todo' = tasks \o next /\ answer' = TRUE
     \/ todo' = next /\ answer' = FALSE

Without(s, k) == SubSeq(s, 1, k - 1) \o SubSeq(s, k + 1, Len(s))
Exchanged(s, i, j) == [s EXCEPT ![i] = s[j], ![j] = s[i]]

Remove(next) ==
  \/ ~Busy /\ todo' = next /\ answer' \in BOOLEAN /\ UNCHANGED <<done, version>>
  \/ \E k \in DOMAIN done : Rebuild(Redone(Without(done, k)), next)

Set(c) == Remove(<<Own(c)>>)

Swap(i, j) ==
  \/ \E r \in BOOLEAN : Report(r)
  \/ /\ i \in DOMAIN done /\ j \in DOMAIN done
     /\ Rebuild([k \in DOMAIN done |-> Own(Exchanged(done, i, j)[k])], <<>>)

Option == (\E r \in BOOLEAN : Report(r)) \/ Rebuild(Redone(done), <<>>)

Command ==
  \/ \E c \in Inputs : Enter(c) \/ EnterAfresh(c) \/ Set(c)
  \/ \E n \in 0..Len(done) : Undo(n) \/ Pop(n)
  \/ Clear \/ Remove(<<>>) \/ Option
  \/ \E i, j \in DOMAIN done : Swap(i, j)

Next == Step \/ Command

(* A command that is under way is carried out. *)
Spec == Init /\ [][Next]_vars /\ WF_vars(Step)
================================================================================
