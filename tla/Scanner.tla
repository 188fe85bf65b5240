--------------------------------- MODULE Scanner ---------------------------------
(***************************************************************************)
(* The hand-written scanners that decide whether an input is finished      *)
(* (utils::IncompleteDetector) and which standard it needs                 *)
(* (utils::VersionDetector).  A text is a sequence of tokens: a character  *)
(* the scanners look at, a piece of a word, "nl" for a new line or "sp" for *)
(* a space.                                                                *)
(***************************************************************************)
EXTENDS Integers, Sequences

Quotes == {"'", "\""}
Openers == {"{", "(", "["}
Closer == [b \in Openers |-> CASE b = "{" -> "}" [] b = "(" -> ")" [] b = "[" -> "]"]
Blanks == {"sp", "nl"}

ClassKeys == {"struct", "class", "enum"}
Controls == {"if", "for", "while", "switch"}
Dangling == {"template", "typename", "concept", "requires", "public", "private", "protected"}
              \cup ClassKeys
Keywords20 == {"concept", "requires", "co_await", "co_yield", "co_return", "char8_t",
               "consteval", "constinit", "source_location", "format"}
Keywords23 == {"import", "export", "module"}
Names20 == {"format", "source_location"}  \* of namespace std
(* What \w+ sees: a run of pieces, of which "w" contains no keyword, is one *)
(* word.                                                                   *)
Words == {"w", "std"} \cup Controls \cup Dangling \cup Keywords20 \cup Keywords23

Some(t, k) == IF k \in DOMAIN t THEN t[k] ELSE "end"
--------------------------------------------------------------------------------
(* hasUnclosedBrace: one pass, the mode being the four flags of the code;  *)
(* skip is its extra ++i over the second character of a pair.              *)

Opens(c, n) ==
  IF c = "/" /\ n = "/" THEN "line" ELSE IF c = "/" /\ n = "*" THEN "block"
  ELSE IF c \in Quotes THEN c ELSE "code"

(* Mutated form: an escaped quote closes the literal. *)
InLiteralNoEscape(st, c) == [st EXCEPT !.mode = IF c = st.mode THEN "code" ELSE @]

InLiteral(st, c) ==
  IF st.escaped THEN [st EXCEPT !.escaped = FALSE]
  ELSE IF c = "\\" THEN [st EXCEPT !.escaped = TRUE]
  ELSE [st EXCEPT !.mode = IF c = st.mode THEN "code" ELSE @]

Counted(depth, c) ==
  [b \in Openers |-> depth[b] + (IF c = b THEN 1 ELSE IF c = Closer[b] THEN -1 ELSE 0)]

BraceStep(st, c, n) ==
  IF st.skip THEN [st EXCEPT !.skip = FALSE]
  ELSE CASE st.mode = "line"  -> [st EXCEPT !.mode = IF c = "nl" THEN "code" ELSE @]
         [] st.mode = "block" -> IF c = "*" /\ n = "/"
                                   THEN [st EXCEPT !.mode = "code", !.skip = TRUE] ELSE st
         [] st.mode \in Quotes -> InLiteral(st, c)
         [] st.mode = "code"  -> [st EXCEPT !.mode = Opens(c, n),
                                            !.skip = Opens(c, n) \in {"line", "block"},
                                            !.depth = Counted(@, c)]

BraceScan(t) ==
  LET upTo[k \in 0..Len(t)] ==
        IF k = 0 THEN [mode |-> "code", skip |-> FALSE, escaped |-> FALSE,
                       depth |-> [b \in Openers |-> 0]]
        ELSE BraceStep(upTo[k - 1], t[k], Some(t, k + 1))
  IN  upTo[Len(t)]

HasUnclosedBrace(t) ==
  LET st == BraceScan(t)
  IN  st.mode \in Quotes \cup {"block"} \/ \E b \in Openers : st.depth[b] > 0
--------------------------------------------------------------------------------
(* stripCommentsAndStrings: the same pass written once more, with the text *)
(* that is left.  Comments vanish, literals turn into blanks.              *)

(* Mutated form: a backslash always escapes, even an escaped one. *)
StripLiteralStuck(st, c) ==
  [st EXCEPT !.mode = IF ~st.escape /\ c = st.mode THEN "code" ELSE @,
             !.escape = (c = "\\"), !.out = Append(@, "sp")]

StripLiteral(st, c) ==
  [st EXCEPT !.mode = IF ~st.escape /\ c = st.mode THEN "code" ELSE @,
             !.escape = (~st.escape /\ c = "\\"), !.out = Append(@, "sp")]

StripStep(st, c, n) ==
  IF st.skip THEN [st EXCEPT !.skip = FALSE]
  ELSE CASE st.mode = "line"  -> IF c = "nl"
                                   THEN [st EXCEPT !.mode = "code", !.out = Append(@, c)] ELSE st
         [] st.mode = "block" -> IF c = "*" /\ n = "/"
                                   THEN [st EXCEPT !.mode = "code", !.skip = TRUE] ELSE st
         [] st.mode \in Quotes -> StripLiteral(st, c)
         [] st.mode = "code"  -> LET m == Opens(c, n) IN
              [st EXCEPT !.mode = m, !.skip = m \in {"line", "block"},
                         !.out = IF m \in {"line", "block"} THEN @
                                 ELSE Append(@, IF m = "code" THEN c ELSE "sp")]

StripCommentsAndStrings(t) ==
  LET upTo[k \in 0..Len(t)] ==
        IF k = 0 THEN [mode |-> "code", skip |-> FALSE, escape |-> FALSE, out |-> <<>>]
        ELSE StripStep(upTo[k - 1], t[k], Some(t, k + 1))
  IN  upTo[Len(t)].out

(* Mutated form: the keyword may be a part of a word. *)
ContainsWordPart(t, kw) == \E k \in DOMAIN t : t[k] = kw

(* containsWord: a keyword that no word touches. *)
ContainsWord(t, kw) ==
  \E k \in DOMAIN t : t[k] = kw /\ Some(t, k - 1) \notin Words /\ Some(t, k + 1) \notin Words

Follows(t, k, cs) == \A i \in DOMAIN cs : Some(t, k + i - 1) = cs[i]

Detect(t) ==
  LET s == StripCommentsAndStrings(t) IN
  IF \/ \E kw \in Keywords23 : ContainsWord(s, kw)
     \/ \E k \in DOMAIN s, kw \in {"import", "module"} : Follows(s, k, <<kw, "sp">>)
    THEN 23
  ELSE IF \/ \E kw \in Keywords20 : ContainsWord(s, kw)
          \/ \E k \in DOMAIN s : Follows(s, k, <<"<", "=", ">">>)
          \/ \E k \in DOMAIN s, f \in Names20 : Follows(s, k, <<"std", ":", ":", f>>)
    THEN 20
  ELSE 17
--------------------------------------------------------------------------------
(* isIncomplete: what the end of the trimmed text t asks for.  The regular *)
(* expressions begin with .*, which does not cross a line: what they look  *)
(* for has to start on the first line.                                     *)

Trim(t) ==
  LET ink == {k \in DOMAIN t : t[k] \notin Blanks}
  IN  IF ink = {} THEN <<>>
      ELSE LET a == CHOOSE k \in ink : \A j \in ink : k <= j
               b == CHOOSE k \in ink : \A j \in ink : j <= k
           IN  SubSeq(t, a, b)

All(t, i, j, S) == \A k \in i..j : t[k] \in S
FirstLine(t, k) == \A j \in 1..(k - 1) : t[j] # "nl"
(* Where what stands in S from i on ends, as \s* and \w+ end. *)
After(t, i, S) == CHOOSE k \in i..(Len(t) + 1) : All(t, i, k - 1, S) /\ Some(t, k) \notin S
(* .*\b before one of S: a word that begins on the first line *)
WordOf(t, k, S) == t[k] \in S /\ Some(t, k - 1) \notin Words /\ FirstLine(t, k)

(* name * name, name & name *)
PointerDeclaration(t) ==
  \E p \in DOMAIN t :
    /\ t[p] \in Words /\ FirstLine(t, p)
    /\ LET a == After(t, p + 1, Blanks)
           b == After(t, a, {"*", "&"})
       IN  a < b /\ t[Len(t)] \in Words /\ All(t, After(t, b, Blanks), Len(t), Words)

(* Mutated form: without the search for what ends a header, a second < ends it *)
TemplateHeaderFlat(t) ==
  \E p \in DOMAIN t :
    /\ t[p] = "template" /\ FirstLine(t, p) /\ t[Len(t)] = ">"
    /\ \A k \in (p + 1)..(Len(t) - 1) : t[k] # ">"

(* template <...> with nothing behind it, or nothing that ends it *)
TemplateHeader(t) ==
  \E p \in DOMAIN t :
    /\ t[p] = "template" /\ \A k \in (p + 1)..Len(t) : t[k] \notin {"template", ";", "}"}
    /\ \/ \A k \in p..Len(t) : t[k] # "{"
       \/ \E q \in 1..p :
            /\ WordOf(t, q, {"template"}) /\ t[Len(t)] = ">"
            /\ LET a == After(t, q + 1, Blanks)
               IN  Some(t, a) = "<" /\ \A k \in (a + 1)..(Len(t) - 1) : t[k] # ">"

(* struct w, struct w : bases *)
ClassHead(t) ==
  \E p \in DOMAIN t :
    /\ WordOf(t, p, ClassKeys)
    /\ LET n == After(t, p + 1, Blanks)
           m == After(t, n, Words)
           c == After(t, m, Blanks)
       IN  /\ p + 1 < n /\ n < m
           /\ \/ m > Len(t)
              \/ /\ Some(t, c) = ":" /\ c < Len(t)
                 /\ All(t, c + 1, Len(t), Words \cup Blanks \cup {":", ","})

(* concept w = ..., or requires and no semicolon *)
ConceptHead(t) ==
  \/ \E p \in DOMAIN t :
       /\ t[p] = "concept" /\ Some(t, p - 1) \notin Words
       /\ LET n == After(t, p + 1, Blanks)
              m == After(t, n, Words)
          IN  p + 1 < n /\ n < m /\ Some(t, After(t, m, Blanks)) = "="
  \/ t[Len(t)] = "requires"
  \/ \E p \in DOMAIN t :
       /\ WordOf(t, p, {"requires"}) /\ Some(t, p + 1) \notin Words
       /\ \A k \in p..Len(t) : t[k] # ";"

(* if (...), the parentheses on one line *)
ControlHead(t) ==
  \E p \in DOMAIN t :
    /\ WordOf(t, p, Controls)
    /\ LET q == After(t, p + 1, Blanks)
       IN  Some(t, q) = "(" /\ t[Len(t)] = ")" /\ \A k \in (q + 1)..(Len(t) - 1) : t[k] # "nl"

TrailingKeyword(t) == WordOf(t, Len(t), Dangling)

(* Mutated form: brackets are not looked at once the text ends a statement *)
IsIncompleteTailFirst(text) ==
  LET t == Trim(text) IN
  t # <<>> /\ t[Len(t)] \notin {";", "}"} /\ HasUnclosedBrace(text)

IsIncomplete(text) ==
  LET t == Trim(text) IN
  \/ HasUnclosedBrace(text)
  \/ /\ t # <<>> /\ t[Len(t)] \notin {";", "}"}
     /\ \/ t[Len(t)] \in {":", "=", ","}
        \/ PointerDeclaration(t) \/ TemplateHeader(t) \/ ClassHead(t)
        \/ ConceptHead(t) \/ ControlHead(t) \/ TrailingKeyword(t)
================================================================================
