------------------------------ MODULE ScannerCheck ------------------------------
(***************************************************************************)
(* The scanners against a definition of what they look for.  The reference *)
(* does not scan: it says where an element that begins at a place ends.    *)
(* A text grows token by token, so that every text over an alphabet, up to *)
(* a length, is looked at.                                                 *)
(***************************************************************************)
EXTENDS Scanner, FiniteSets

CONSTANTS Alphabets, MaxLength

ASSUME AlphabetsAssumption ==
  /\ Alphabets \subseteq SUBSET STRING /\ MaxLength \in Nat

VARIABLES alphabet, text

vars == <<alphabet, text>>

Init == alphabet \in Alphabets /\ text = <<>>

Type(c) ==
  /\ Len(text) < MaxLength
  /\ text' = Append(text, c) /\ UNCHANGED alphabet

Next == \E c \in alphabet : Type(c)

Spec == Init /\ [][Next]_vars
--------------------------------------------------------------------------------
(* The lexical elements of a text, as C++ has them: comments, literals with *)
(* escapes, and single tokens of code.                                     *)

Least(S, default) == IF S = {} THEN default ELSE CHOOSE k \in S : \A j \in S : k <= j

(* t[j] is escaped when an odd number of backslashes stands before it. *)
Escaped(t, i, j) ==
  Cardinality({m \in (i + 1)..(j - 1) : All(t, m, j - 1, {"\\"})}) % 2 = 1

Kind(t, i) == Opens(t[i], Some(t, i + 1))

(* The last place of the element that begins at i; Len(t) + 1 if it is not closed *)
LastOf(t, i) ==
  LET k == Kind(t, i) IN
  IF k = "code" THEN i
  ELSE IF k = "line" THEN Least({j \in (i + 2)..Len(t) : t[j] = "nl"}, Len(t) + 1) - 1
  ELSE IF k = "block"
    THEN Least({j \in (i + 3)..Len(t) : t[j - 1] = "*" /\ t[j] = "/"}, Len(t) + 1)
  ELSE Least({j \in (i + 1)..Len(t) : t[j] = k /\ ~Escaped(t, i, j)}, Len(t) + 1)

Elements(t) ==
  LET from[i \in 1..(Len(t) + 2)] ==
        IF i > Len(t) THEN {}
        ELSE {[kind |-> Kind(t, i), first |-> i, last |-> LastOf(t, i)]} \cup from[LastOf(t, i) + 1]
  IN  from[1]

Code(t) == {e.first : e \in {x \in Elements(t) : x.kind = "code"}}
Unclosed(t) == \E e \in Elements(t) : e.last > Len(t)

Count(t, i, j, c) == Cardinality({k \in Code(t) : i <= k /\ k <= j /\ t[k] = c})

(* An opening bracket that nothing behind it closes; a closing bracket that *)
(* nothing before it opened.                                               *)
LeftOpen(t) ==
  \E p \in Code(t) : /\ t[p] \in Openers
                     /\ \A q \in p..Len(t) : Count(t, p, q, t[p]) > Count(t, p, q, Closer[t[p]])
Surplus(t) ==
  \E q \in Code(t), b \in Openers :
    t[q] = Closer[b] /\ \A p \in 1..q : Count(t, p, q, Closer[b]) > Count(t, p, q, b)
--------------------------------------------------------------------------------
(* Properties.                                                             *)

(* "Multiline: unbalanced { ( [ keeps buffering": a text with an open        *)
(* bracket, literal or comment is never taken for finished, whatever quotes, *)
(* escapes and comments surround the bracket - unless a closing bracket came *)
(* too early, which the counters of hasUnclosedBrace set off against it.     *)
KeepsBuffering ==
  ~Surplus(text) /\ (Unclosed(text) \/ LeftOpen(text)) => IsIncomplete(text)

(* A statement that ends in ; or } with everything closed is never held back *)
EndsStatement(t) == LET s == Trim(t) IN s # <<>> /\ s[Len(s)] \in {";", "}"}
SendsFinished ==
  EndsStatement(text) /\ ~Unclosed(text) /\ ~LeftOpen(text) => ~IsIncomplete(text)

(* The version detector and the sandbox read exactly the code: nothing of a  *)
(* comment, blanks for a literal, every other token in its order.            *)
StripIsExact ==
  LET kept[k \in 0..Len(text)] ==
        IF k = 0 THEN <<>>
        ELSE LET e == CHOOSE x \in Elements(text) : x.first <= k /\ k <= x.last
             IN  CASE e.kind = "code" -> Append(kept[k - 1], text[k])
                   [] e.kind \in Quotes -> Append(kept[k - 1], "sp")
                   [] OTHER -> kept[k - 1]
  IN  StripCommentsAndStrings(text) = kept[Len(text)]

(* The standard asked for is that of the newest keyword in the code: a whole *)
(* word or <=>, or what begins like std::format or std::source_location      *)
(* (std::format_to, std::formatter and mystd::format do); never a word of a  *)
(* comment or a literal, nor any other part of a word.  The text must not    *)
(* rely on a comment to separate two tokens: it leaves no blank.  Nor may a  *)
(* word go on to end in import or module, which contains() takes for the     *)
(* keyword.                                                                  *)
Separates(t, e) == e.kind = "block" /\ Some(t, e.first - 1) \notin Blanks \cup {"end"}
Keyword(t, S) ==
  \E k \in Code(t) : t[k] \in S /\ Some(t, k - 1) \notin Words /\ Some(t, k + 1) \notin Words
EndsLikeImport(t) ==
  \E k \in Code(t) : t[k] \in {"import", "module"} /\ Some(t, k - 1) \in Words
VersionFromCode ==
  ~EndsLikeImport(text) /\ (\A e \in Elements(text) : ~Separates(text, e)) =>
    Detect(text) = IF Keyword(text, Keywords23) THEN 23
                   ELSE IF \/ Keyword(text, Keywords20)
                           \/ \E k \in Code(text) : Follows(text, k, <<"<", "=", ">">>)
                           \/ \E k \in Code(text), f \in Names20 :
                                Follows(text, k, <<"std", ":", ":", f>>)
                     THEN 20
                   ELSE 17

(* The head of a control statement or a template, on one line and with its   *)
(* body still to come, waits for the body: in a text of code alone, and      *)
(* unless a template has a ; or a } in its parameters, which ends it for the *)
(* regular expression.                                                       *)
Group(t, i, b, e) ==
  /\ i < Len(t) /\ t[i] = b /\ t[Len(t)] = e
  /\ \A k \in i..(Len(t) - 1) : Count(t, i, k, b) > Count(t, i, k, e)
  /\ Count(t, i, Len(t), b) = Count(t, i, Len(t), e)
HeadsWait ==
  LET t == Trim(text) IN
  (/\ \A k \in DOMAIN t : t[k] # "nl"
   /\ DOMAIN text \subseteq Code(text)
   /\ \E p, i \in DOMAIN t :
        /\ p < i /\ All(t, p + 1, i - 1, {"sp"}) /\ Some(t, p - 1) \notin Words
        /\ \/ t[p] \in Controls /\ Group(t, i, "(", ")")
           \/ /\ t[p] = "template" /\ Group(t, i, "<", ">")
              /\ \A k \in DOMAIN t : t[k] \notin {";", "}"})
  => IsIncomplete(text)
================================================================================
