------------------------------ MODULE TaskService ------------------------------
(***************************************************************************)
(* What lsp::ThreadPool promises its callers: a task that was handed over  *)
(* is started once, tasks start in the order they were handed over, at     *)
(* most Capacity run at a time, and each runs to its callback.             *)
(***************************************************************************)
EXTENDS Naturals, Sequences, FiniteSets

CONSTANTS Tasks, Capacity

VARIABLES waiting, running, answered

serviceVars == <<waiting, running, answered>>

Members(s) == {s[k] : k \in DOMAIN s}

ServiceInit == waiting = <<>> /\ running = {} /\ answered = {}

Submit(t) ==
  /\ t \notin Members(waiting) \cup running \cup answered
  /\ waiting' = Append(waiting, t)
  /\ UNCHANGED <<running, answered>>

Start ==
  /\ waiting # <<>> /\ Cardinality(running) < Capacity
  /\ running' = running \cup {Head(waiting)}
  /\ waiting' = Tail(waiting)
  /\ UNCHANGED answered

Answer(t) ==
  /\ t \in running
  /\ running' = running \ {t}
  /\ answered' = answered \cup {t}
  /\ UNCHANGED waiting

ServiceNext == Start \/ \E t \in Tasks : Submit(t) \/ Answer(t)

ServiceSpec == ServiceInit /\ [][ServiceNext]_serviceVars
================================================================================
