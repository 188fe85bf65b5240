----------------------------- MODULE SessionProofs -----------------------------
(***************************************************************************)
(* Proofs about the lines a Session gathers: an input is evaluated with    *)
(* the line that finishes it, and never declares the same thing twice.     *)
(***************************************************************************)
EXTENDS ProgramProofs, ScannerLemmas

(* The solver takes the character for the beginning of a comment: it gets a *)
(* name, and what it is not.                                               *)
Semicolon == ";"

(* It is neither blank nor a new line. *)
LEMMA SemicolonIsInk == Semicolon \notin Blanks /\ Semicolon # "nl"
  BY Zenon DEF Semicolon, Blanks

(* What NeverDeclaredTwice says of an input. *)
Repeats(t, i, j) ==
  /\ t[i] \notin Blanks \cup {Semicolon} /\ FirstLine(t, i) /\ i + 1 < j
  /\ All(t, i + 1, j - 1, Blanks) /\ \E k \in (i + 1)..(j - 1) : t[k] = "nl"
  /\ SubSeq(t, j, Len(t)) = Append(SubSeq(t, 1, i), Semicolon)
Once(b) == \A i, j \in DOMAIN Trim(b) : ~Repeats(Trim(b), i, j)

(* Between lines the buffer holds an input that is not finished, and every  *)
(* call but an evaluation finds it empty.                                   *)
Gathered ==
  /\ stage \notin {"session", "over"} => buffer = <<>>
  /\ reading /\ buffer # <<>> =>
       /\ call.op \in {"none", "eval"} /\ buffer[Len(buffer)] = "nl"
       /\ call.op = "eval" <=> ~NeedsMore(buffer)
       /\ \A k \in LinesOf(buffer) : k < Len(buffer) => NeedsMore(SubSeq(buffer, 1, k))
       /\ Once(buffer)
--------------------------------------------------------------------------------
(* A text and a line behind it.                                            *)

(* Where the parts of a text are, once a line is appended. *)
LEMMA AppendedLine ==
  ASSUME NEW C, "nl" \in C, NEW b \in Seq(C), NEW x \in Seq(C), NEW c, c = b \o x \o <<"nl">>
  PROVE  /\ c \in Seq(C) /\ Len(c) = Len(b) + Len(x) + 1 /\ c[Len(c)] = "nl"
         /\ \A k \in 1..Len(b) : c[k] = b[k]
         /\ \A k \in 1..Len(x) : c[Len(b) + k] = x[k]
<1>1. /\ b \o x \in Seq(C) /\ Len(b \o x) = Len(b) + Len(x) /\ Len(b) \in Nat /\ Len(x) \in Nat
      /\ \A i \in 1..(Len(b) + Len(x)) :
           (b \o x)[i] = IF i <= Len(b) THEN b[i] ELSE x[i - Len(b)]
  BY ConcatProperties, LenProperties
<1>2. <<"nl">> \in Seq(C) /\ Len(<<"nl">>) = 1 /\ <<"nl">>[1] = "nl"
  OBVIOUS
<1> DEFINE y == b \o x  e == <<"nl">>
<1> HIDE DEF y, e
<1>3. /\ y \o e \in Seq(C) /\ Len(y \o e) = Len(y) + Len(e)
      /\ \A i \in 1..(Len(y) + Len(e)) : (y \o e)[i] = IF i <= Len(y) THEN y[i] ELSE e[i - Len(y)]
  <2>1. y \in Seq(C) /\ e \in Seq(C)
    BY <1>1, <1>2 DEF y, e
  <2> QED  BY <2>1, ConcatProperties
<1>4. c = y \o e /\ Len(y) = Len(b) + Len(x) /\ Len(e) = 1 /\ e[1] = "nl"
  BY <1>1, <1>2 DEF y, e
<1>5. Len(c) = Len(b) + Len(x) + 1 /\ c \in Seq(C)
  BY <1>1, <1>3, <1>4
<1>6. c[Len(c)] = "nl"
  BY <1>1, <1>3, <1>4, <1>5
<1>7. ASSUME NEW k \in 1..(Len(b) + Len(x)) PROVE c[k] = IF k <= Len(b) THEN b[k] ELSE x[k - Len(b)]
  <2>1. c[k] = y[k]
    BY <1>1, <1>3, <1>4
  <2>2. y[k] = IF k <= Len(b) THEN b[k] ELSE x[k - Len(b)]
    BY <1>1 DEF y
  <2> QED  BY <2>1, <2>2
<1>8. \A k \in 1..Len(x) : Len(b) + k \in 1..(Len(b) + Len(x)) /\ ~(Len(b) + k <= Len(b))
                           /\ (Len(b) + k) - Len(b) = k
  BY <1>1
<1>9. \A k \in 1..Len(b) : k \in 1..(Len(b) + Len(x)) /\ k <= Len(b)
  BY <1>1
<1>10. \A k \in 1..Len(b) : c[k] = b[k]
  BY <1>7, <1>9
<1>11. \A k \in 1..Len(x) : c[Len(b) + k] = x[k]
  BY <1>7, <1>8
<1> QED  BY <1>5, <1>6, <1>10, <1>11

(* Nothing is repeated in a text without a new line between its ends. *)
LEMMA OnceOnOneLine ==
  ASSUME NEW C, NEW c \in Seq(C),
         \A a, z \in DOMAIN c :
           (/\ c[a] \notin Blanks /\ c[z] \notin Blanks
            /\ \A k \in DOMAIN c : c[k] \notin Blanks => a <= k /\ k <= z)
           => \A k \in a..z : c[k] # "nl"
  PROVE  Once(c)
<1>1. CASE \A k \in DOMAIN c : c[k] \in Blanks
  <2>1. Trim(c) = <<>>
    BY <1>1, TrimOfBlank
  <2> QED  BY <2>1 DEF Once
<1>2. CASE ~ \A k \in DOMAIN c : c[k] \in Blanks
  <2>1. PICK a, z \in DOMAIN c :
          /\ a <= z /\ c[a] \notin Blanks /\ c[z] \notin Blanks
          /\ \A k \in DOMAIN c : c[k] \notin Blanks => a <= k /\ k <= z
    BY <1>2, InkEnds
  <2>2. Trim(c) = SubSeq(c, a, z)
    BY <2>1, TrimIs
  <2>3. DOMAIN c = 1..Len(c) /\ Len(c) \in Nat /\ a \in Int /\ z \in Int
    OBVIOUS
  <2>4. \A k \in a..z : c[k] \in C
    BY <2>3
  <2>5. /\ Len(SubSeq(c, a, z)) = z - a + 1
        /\ \A i \in 1..(z - a + 1) : SubSeq(c, a, z)[i] = c[a + i - 1]
        /\ SubSeq(c, a, z) \in Seq(C)
    BY <2>1, <2>3, <2>4, SubSeqProperties
  <2> DEFINE t == Trim(c)
  <2>6. DOMAIN t = 1..(z - a + 1) /\ \A i \in 1..(z - a + 1) : t[i] # "nl"
    <3>1. \A i \in 1..(z - a + 1) : a + i - 1 \in a..z
      BY <2>3
    <3>2. \A k \in a..z : c[k] # "nl"
      BY <2>1
    <3> QED  BY <2>2, <2>5, <3>1, <3>2
  <2> HIDE DEF t
  <2>7. ASSUME NEW i \in DOMAIN t, NEW j \in DOMAIN t PROVE ~Repeats(t, i, j)
    <3>1. Repeats(t, i, j) => \E k \in (i + 1)..(j - 1) : t[k] = "nl"
      BY Zenon DEF Repeats
    <3>2. \A k \in (i + 1)..(j - 1) : k \in 1..(z - a + 1)
      BY <2>3, <2>6
    <3> QED  BY <2>6, <3>1, <3>2
  <2> QED  BY <2>7 DEF Once, t
<1> QED  BY <1>1, <1>2

(* One line alone repeats nothing. *)
LEMMA OnceOfLine ==
  ASSUME NEW C, "nl" \in C, NEW x \in Seq(C), \A k \in DOMAIN x : x[k] # "nl"
  PROVE  Once(x \o <<"nl">>)
<1> DEFINE c == <<>> \o x \o <<"nl">>
<1>1. c = x \o <<"nl">>
  BY ConcatEmptySeq
<1>2. <<>> \in Seq(C) /\ Len(<<>>) = 0
  BY EmptySeq
<1>3. /\ c \in Seq(C) /\ Len(c) = Len(x) + 1 /\ c[Len(c)] = "nl" /\ Len(x) \in Nat
      /\ \A k \in 1..Len(x) : c[k] = x[k]
  <2> HIDE DEF c
  <2>1. c = <<>> \o x \o <<"nl">> 
    BY DEF c
  <2>2. /\ c \in Seq(C) /\ Len(c) = Len(<<>>) + Len(x) + 1 /\ c[Len(c)] = "nl"
        /\ \A k \in 1..Len(x) : c[Len(<<>>) + k] = x[k]
    BY <1>2, <2>1, AppendedLine
  <2> QED  BY <1>2, <2>2
<1> HIDE DEF c
<1>4. ASSUME NEW a \in DOMAIN c, NEW z \in DOMAIN c, c[z] \notin Blanks, NEW k \in a..z
      PROVE  c[k] # "nl"
  <2>1. z # Len(c)
    BY <1>3, <1>4 DEF Blanks
  <2>2. k \in 1..Len(x) /\ DOMAIN x = 1..Len(x)
    BY <1>3, <2>1
  <2> QED  BY <1>3, <2>2
<1>5. Once(c)
  BY <1>3, <1>4, OnceOnOneLine
<1> QED  BY <1>1, <1>5

(* Where two texts have the same tokens, from a to z and from f to g. *)
Agree(c, d, a, z, f, g) ==
  /\ a \in Int /\ z \in Int /\ f \in Int /\ g \in Int
  /\ 1 <= a /\ a <= z /\ z <= Len(c) /\ 1 <= f /\ g <= Len(d) /\ z - a = g - f
  /\ \A k \in a..z : c[k] = d[k - a + f]

Alike(c, d, a, z, f, g) == SubSeq(c, a, z) = SubSeq(d, f, g)

(* Parts with the same tokens are the same. *)
LEMMA SameParts ==
  ASSUME NEW C, NEW c \in Seq(C), NEW d \in Seq(C), NEW a, NEW z, NEW f, NEW g, Agree(c, d, a, z, f, g)
  PROVE  Alike(c, d, a, z, f, g)
<1> DEFINE u == SubSeq(c, a, z)  v == SubSeq(d, f, g)
<1>a. /\ a \in Int /\ z \in Int /\ f \in Int /\ g \in Int
      /\ 1 <= a /\ a <= z /\ z <= Len(c) /\ 1 <= f /\ g <= Len(d) /\ z - a = g - f
      /\ \A k \in a..z : c[k] = d[k - a + f]
  BY DEF Agree
<1>0. /\ \A k \in a..z : c[k] \in C
      /\ \A k \in f..g : d[k] \in C
  BY <1>a, LenProperties
<1>1. u \in Seq(C) /\ Len(u) = z - a + 1 /\ \A k \in 1..(z - a + 1) : u[k] = c[a + k - 1]
  <2> HIDE DEF u
  <2> QED  BY <1>0, <1>a, SubSeqProperties DEF u
<1>2. v \in Seq(C) /\ Len(v) = g - f + 1 /\ \A k \in 1..(g - f + 1) : v[k] = d[f + k - 1]
  <2> HIDE DEF v
  <2> QED  BY <1>0, <1>a, SubSeqProperties DEF v
<1> HIDE DEF u, v
<1>3. ASSUME NEW k \in 1..(z - a + 1) PROVE u[k] = v[k]
  <2>1. a + k - 1 \in a..z /\ (a + k - 1) - a + f = f + k - 1 /\ k \in 1..(g - f + 1)
    BY <1>a
  <2> QED  BY <1>1, <1>2, <1>a, <2>1
<1>4. u = v
  BY <1>1, <1>2, <1>3, <1>a, SeqEqual
<1> QED  BY <1>4 DEF u, v, Alike

(* A blank line changes nothing of what is left after trimming. *)
LEMMA BlankLineTrims ==
  ASSUME NEW C, "nl" \in C, NEW b \in Seq(C), NEW x \in Seq(C), \A k \in DOMAIN x : x[k] \in Blanks
  PROVE  Trim(b \o x \o <<"nl">>) = Trim(b)
<1> DEFINE c == b \o x \o <<"nl">>
<1>1. /\ c \in Seq(C) /\ Len(c) = Len(b) + Len(x) + 1 /\ c[Len(c)] = "nl"
      /\ \A k \in 1..Len(b) : c[k] = b[k]
      /\ \A k \in 1..Len(x) : c[Len(b) + k] = x[k]
  <2> HIDE DEF c
  <2>1. c = b \o x \o <<"nl">>
    BY DEF c
  <2> QED  BY <2>1, AppendedLine
<1> HIDE DEF c
<1>2. Len(b) \in Nat /\ Len(x) \in Nat /\ DOMAIN b = 1..Len(b) /\ DOMAIN c = 1..Len(c)
      /\ DOMAIN x = 1..Len(x)
  BY <1>1, LenProperties
<1>3. ASSUME NEW k \in DOMAIN c, c[k] \notin Blanks PROVE k \in DOMAIN b
  <2>1. CASE k = Len(c)
    BY <1>1, <1>3, <2>1 DEF Blanks
  <2>2. CASE k > Len(b) /\ k # Len(c)
    <3> DEFINE m == Len(b)  n == Len(x)
    <3>0. k \in 1..(m + n + 1) /\ k > m /\ k # m + n + 1 /\ m \in Nat /\ n \in Nat
      BY <1>1, <1>2, <2>2
    <3> HIDE DEF m, n
    <3>1. k - m \in 1..n /\ m + (k - m) = k
      BY <3>0
    <3>2. c[k] = x[k - m] /\ x[k - m] \in Blanks
      BY <1>1, <1>2, <3>1 DEF m, n
    <3> QED  BY <1>3, <3>2
  <2> QED  BY <1>1, <1>2, <2>1, <2>2
<1>4. CASE \A k \in DOMAIN b : b[k] \in Blanks
  <2>1. \A k \in DOMAIN c : c[k] \in Blanks
    BY <1>1, <1>2, <1>3, <1>4
  <2> QED  BY <1>4, <2>1, TrimOfBlank DEF c
<1>5. CASE ~ \A k \in DOMAIN b : b[k] \in Blanks
  <2>1. PICK a, z \in DOMAIN b :
          /\ a <= z /\ b[a] \notin Blanks /\ b[z] \notin Blanks
          /\ \A k \in DOMAIN b : b[k] \notin Blanks => a <= k /\ k <= z
    BY <1>5, InkEnds
  <2>2. Trim(b) = SubSeq(b, a, z)
    BY <2>1, TrimIs
  <2>3. a \in DOMAIN c /\ z \in DOMAIN c /\ c[a] \notin Blanks /\ c[z] \notin Blanks
    BY <1>1, <1>2, <2>1
  <2>4. \A k \in DOMAIN c : c[k] \notin Blanks => a <= k /\ k <= z
    BY <1>1, <1>2, <1>3, <2>1
  <2>5. Trim(c) = SubSeq(c, a, z)
    BY <1>1, <2>3, <2>4, TrimIs
  <2>6. SubSeq(c, a, z) = SubSeq(b, a, z)
    <3>1. /\ a \in Int /\ z \in Int /\ 1 <= a /\ a <= z /\ z <= Len(b) /\ z <= Len(c)
          /\ \A k \in a..z : c[k] = b[k] /\ k - a + a = k
      BY <1>1, <1>2, <2>1
    <3>2. Agree(c, b, a, z, a, z)
      BY <3>1 DEF Agree
    <3>3. c \in Seq(C)
      BY <1>1
    <3>4. Alike(c, b, a, z, a, z)
      BY <3>2, <3>3, SameParts
    <3> QED  BY <3>4 DEF Alike
  <2> QED  BY <2>2, <2>5, <2>6 DEF c
<1> QED  BY <1>4, <1>5

Within(c, a, z) == a \in 1..Len(c) /\ z \in a..Len(c)

(* What a part of a text is. *)
PartOf(u, c, a, z) ==
  /\ Len(u) = z - a + 1 /\ DOMAIN u = 1..(z - a + 1)
  /\ \A i \in 1..(z - a + 1) : u[i] = c[a + i - 1]

(* The parts of a trimmed text. *)
LEMMA TrimmedPart ==
  ASSUME NEW C, NEW c \in Seq(C), NEW a, NEW z, Within(c, a, z)
  PROVE  SubSeq(c, a, z) \in Seq(C) /\ PartOf(SubSeq(c, a, z), c, a, z)
<1>1. a \in Int /\ z \in Int /\ a <= z /\ \A k \in a..z : c[k] \in C
  BY LenProperties DEF Within
<1> DEFINE u == SubSeq(c, a, z)
<1>2. u \in Seq(C) /\ Len(u) = z - a + 1 /\ \A i \in 1..(z - a + 1) : u[i] = c[a + i - 1]
  <2> HIDE DEF u
  <2> QED  BY <1>1, SubSeqProperties DEF u
<1> HIDE DEF u
<1>3. DOMAIN u = 1..Len(u)
  BY <1>2, LenProperties
<1>4. PartOf(u, c, a, z)
  BY <1>2, <1>3 DEF PartOf
<1> QED  BY <1>2, <1>4 DEF u

(* What is left of a text is text. *)
LEMMA TrimIsText == ASSUME NEW C, NEW c \in Seq(C) PROVE Trim(c) \in Seq(C)
<1>1. CASE \A k \in DOMAIN c : c[k] \in Blanks
  BY <1>1, TrimOfBlank, EmptySeq
<1>2. CASE ~ \A k \in DOMAIN c : c[k] \in Blanks
  <2>1. PICK a, z \in DOMAIN c :
          /\ a <= z /\ c[a] \notin Blanks /\ c[z] \notin Blanks
          /\ \A k \in DOMAIN c : c[k] \notin Blanks => a <= k /\ k <= z
    BY <1>2, InkEnds
  <2>2. Trim(c) = SubSeq(c, a, z)
    BY <2>1, TrimIs
  <2>3. Within(c, a, z)
    BY <2>1, LenProperties DEF Within
  <2> QED  BY <2>2, <2>3, TrimmedPart
<1> QED  BY <1>1, <1>2

(* When a line takes the place of what is in the buffer. *)
Replaces(b, x) ==
  Trim(b) # <<>> /\ Trim(b)[Len(Trim(b))] # Semicolon /\ Trim(x) = Append(Trim(b), Semicolon)

(* A text that repeats its first line behind a new line repeats it as its   *)
(* last one: e and s are the ink around the new line p.                     *)
LEMMA RepeatsAround ==
  ASSUME NEW C, Semicolon \in C, NEW t \in Seq(C), NEW w \in Nat, Len(t) = w,
         NEW i \in 1..w, NEW j \in 1..w, Repeats(t, i, j),
         NEW p \in 1..w, t[p] = "nl", t[1] \notin Blanks,
         NEW e \in 1..(p - 1), t[e] \notin Blanks,
         \A k \in 1..w : k < p /\ t[k] \notin Blanks => k <= e,
         NEW s \in (p + 1)..w, t[s] \notin Blanks,
         \A k \in 1..w : p < k /\ t[k] \notin Blanks => s <= k
  PROVE  t[e] # Semicolon /\ SubSeq(t, s, w) = Append(SubSeq(t, 1, e), Semicolon)
<1> DEFINE u == SubSeq(t, 1, i)  v == SubSeq(t, j, w)
<1>1. /\ t[i] \notin Blanks \cup {Semicolon} /\ i + 1 < j /\ v = Append(u, Semicolon)
      /\ \A k \in 1..(i - 1) : t[k] # "nl"
      /\ \A k \in (i + 1)..(j - 1) : t[k] \in Blanks
  BY DEF Repeats, FirstLine, All
<1>2. /\ u \in Seq(C) /\ Len(u) = i /\ \A k \in 1..i : u[k] = t[k]
      /\ v \in Seq(C) /\ Len(v) = w - j + 1 /\ \A k \in 1..(w - j + 1) : v[k] = t[j + k - 1]
  <2>1. \A k \in 1..w : t[k] \in C
    OBVIOUS
  <2>2. /\ \A k \in 1..i : t[k] \in C
        /\ \A k \in j..w : t[k] \in C
    BY <2>1
  <2>3. i \in Int /\ j \in Int /\ w \in Int /\ 1 \in Int /\ 1 <= i /\ j <= w
    OBVIOUS
  <2> HIDE DEF u, v
  <2>4. u \in Seq(C) /\ Len(u) = i - 1 + 1 /\ \A k \in 1..(i - 1 + 1) : u[k] = t[1 + k - 1]
    BY <2>2, <2>3, SubSeqProperties DEF u
  <2>5. v \in Seq(C) /\ Len(v) = w - j + 1 /\ \A k \in 1..(w - j + 1) : v[k] = t[j + k - 1]
    BY <2>2, <2>3, SubSeqProperties DEF v
  <2> QED  BY <2>3, <2>4, <2>5
<1> HIDE DEF u, v
<1>3. w - j + 1 = i + 1 /\ v[i + 1] = Semicolon /\ \A k \in 1..i : v[k] = u[k]
  <2>1. /\ Len(v) = Len(u) + 1 /\ v[Len(u) + 1] = Semicolon /\ \A k \in 1..Len(u) : v[k] = u[k]
    BY <1>1, <1>2, AppendProperties
  <2> QED  BY <1>2, <2>1
<1>4. \A k \in 1..i : t[j + k - 1] = t[k]
  BY <1>2, <1>3
<1>5. t[w] = Semicolon
  <2>1. v[i + 1] = t[j + (i + 1) - 1] /\ j + (i + 1) - 1 = w
    BY <1>2, <1>3
  <2> QED  BY <1>3, <2>1
<1>6. ASSUME NEW k \in j..w PROVE t[k] # "nl"
  <2>1. CASE k = w
    BY <1>5, <2>1, SemicolonIsInk
  <2>2. CASE k < w
    <3>1. k - j + 1 \in 1..i /\ j + (k - j + 1) - 1 = k
      BY <1>3, <2>2
    <3>2. t[k] = t[k - j + 1]
      BY <1>4, <3>1
    <3> QED  BY <1>1, <3>1, <3>2 DEF Blanks
  <2> QED  BY <2>1, <2>2
<1>7. p < j /\ i < p
  <2>1. p < j
    BY <1>6
  <2>2. p # i /\ ~ (p < i)
    BY <1>1 DEF Blanks
  <2> QED  BY <2>1, <2>2
<1>8. t[j] \notin Blanks
  BY <1>4
<1>9. i = e
  <2>1. i <= e
    BY <1>1, <1>7
  <2>2. ~ (e \in (i + 1)..(j - 1)) /\ e < j
    BY <1>1, <1>7
  <2> QED  BY <2>1, <2>2
<1>10. j = s
  <2>1. s <= j
    BY <1>7, <1>8
  <2>2. ~ (s \in (i + 1)..(j - 1)) /\ i < s
    BY <1>1, <1>7
  <2> QED  BY <2>1, <2>2
<1> QED  BY <1>1, <1>9, <1>10 DEF u, v

(* A line behind an input that is not replaced by it. *)
Behindhand(C, b, x) ==
  /\ "nl" \in C /\ Semicolon \in C /\ b \in Seq(C) /\ x \in Seq(C)
  /\ b # <<>> /\ b[Len(b)] = "nl"
  /\ \A k \in DOMAIN x : x[k] # "nl"
  /\ ~ \A k \in DOMAIN x : x[k] \in Blanks
  /\ ~Replaces(b, x)

(* Where its ink is: a to z in the input, f to g in the line. *)
Ink(c, a, z) ==
  /\ c[a] \notin Blanks /\ c[z] \notin Blanks
  /\ \A k \in 1..Len(c) : c[k] \notin Blanks => a <= k /\ k <= z

(* c is b and then x, with their ink. *)
Both(b, x, c, m, n, a, z, f, g) ==
  /\ m \in Nat /\ n \in Nat /\ a \in Int /\ z \in Int /\ f \in Int /\ g \in Int
  /\ Len(b) = m /\ Len(x) = n /\ Len(c) = m + n + 1
  /\ c[m + n + 1] = "nl" /\ (\A k \in 1..m : c[k] = b[k]) /\ \A k \in 1..n : c[m + k] = x[k]
  /\ 1 <= a /\ a <= z /\ z <= m /\ Ink(b, a, z) /\ 1 <= f /\ f <= g /\ g <= n /\ Ink(x, f, g)

(* The ink of both, behind one another. *)
LEMMA InkOfBoth ==
  ASSUME NEW b, NEW x, NEW c, NEW m, NEW n, NEW a, NEW z, NEW f, NEW g, Both(b, x, c, m, n, a, z, f, g)
  PROVE  /\ Ink(c, a, m + g) /\ c[z] \notin Blanks /\ c[m + f] \notin Blanks
         /\ \A k \in 1..(m + n + 1) : k <= m /\ c[k] \notin Blanks => k <= z
         /\ \A k \in 1..(m + n + 1) : m < k /\ c[k] \notin Blanks => m + f <= k
<1> USE DEF Both
<1>1. ASSUME NEW k \in 1..(m + n + 1), k <= m, c[k] \notin Blanks PROVE a <= k /\ k <= z
  <2>1. k \in 1..m
    BY <1>1
  <2>2. b[k] \notin Blanks
    BY <1>1, <2>1
  <2> QED  BY <2>1, <2>2 DEF Ink
<1>2. ASSUME NEW k \in 1..(m + n + 1), m < k, c[k] \notin Blanks PROVE m + f <= k /\ k <= m + g
  <2>1. k # m + n + 1
    BY <1>2 DEF Blanks
  <2>2. k - m \in 1..n /\ m + (k - m) = k
    BY <1>2, <2>1
  <2>3. x[k - m] \notin Blanks
    BY <1>2, <2>2
  <2>4. f <= k - m /\ k - m <= g
    BY <2>2, <2>3 DEF Ink
  <2> QED  BY <2>4
<1>3. c[a] \notin Blanks /\ c[z] \notin Blanks
  <2>1. a \in 1..m /\ z \in 1..m
    OBVIOUS
  <2> QED  BY <2>1 DEF Ink
<1>4. c[m + f] \notin Blanks /\ c[m + g] \notin Blanks
  <2>1. f \in 1..n /\ g \in 1..n
    OBVIOUS
  <2> QED  BY <2>1 DEF Ink
<1>5. \A k \in 1..(m + n + 1) : c[k] \notin Blanks => a <= k /\ k <= m + g
  <2>1. ASSUME NEW k \in 1..(m + n + 1), c[k] \notin Blanks PROVE a <= k /\ k <= m + g
    <3>1. CASE k <= m
      BY <1>1, <2>1, <3>1
    <3>2. CASE m < k
      BY <1>2, <2>1, <3>2
    <3> QED  BY <3>1, <3>2
  <2> QED  BY <2>1
<1>6. Ink(c, a, m + g)
  BY <1>3, <1>4, <1>5 DEF Ink
<1> QED  BY <1>1, <1>2, <1>3, <1>4, <1>6

(* A line that is appended repeats nothing: the only line that would is the *)
(* one that replaces what is there.                                        *)
LEMMA OnceWhenAppended ==
  ASSUME NEW C, NEW b, NEW x, Behindhand(C, b, x) PROVE Once(b \o x \o <<"nl">>)
<1> DEFINE c == b \o x \o <<"nl">>
           m == Len(b)
           n == Len(x)
<1>1. b \in Seq(C) /\ x \in Seq(C) /\ "nl" \in C /\ Semicolon \in C
  BY DEF Behindhand
<1> HIDE DEF c
<1>2. c = b \o x \o <<"nl">>
  BY DEF c
<1>3. c \in Seq(C) /\ Len(c) = m + n + 1
  BY <1>1, <1>2, AppendedLine
<1>4. c[m + n + 1] = "nl" /\ (\A k \in 1..m : c[k] = b[k]) /\ \A k \in 1..n : c[m + k] = x[k]
  <2>1. /\ c[Len(c)] = "nl" /\ \A k \in 1..Len(b) : c[k] = b[k]
        /\ \A k \in 1..Len(x) : c[Len(b) + k] = x[k]
    BY <1>1, <1>2, AppendedLine
  <2> QED  BY <1>3, <2>1
<1>5. m \in Nat /\ n \in Nat /\ m > 0
  BY <1>1, EmptySeq, LenProperties DEF Behindhand
<1>6. DOMAIN b = 1..m /\ DOMAIN x = 1..n /\ DOMAIN c = 1..(m + n + 1)
  BY <1>1, <1>3, LenProperties
<1>7. b[m] = "nl"
  BY DEF Behindhand
<1>8. \A k \in 1..n : x[k] # "nl"
  BY <1>6 DEF Behindhand
<1> HIDE DEF m, n
<1>9. Len(b) = m /\ Len(x) = n
  BY DEF m, n
<1>10. PICK f, g : f \in 1..n /\ g \in 1..n /\ f <= g /\ Ink(x, f, g)
  <2>1. \E f, g \in DOMAIN x :
          /\ f <= g /\ x[f] \notin Blanks /\ x[g] \notin Blanks
          /\ \A k \in DOMAIN x : x[k] \notin Blanks => f <= k /\ k <= g
    BY <1>1, InkEnds DEF Behindhand
  <2> QED  BY <1>6, <1>9, <2>1 DEF Ink
<1>11. f \in Int /\ g \in Int /\ 1 <= f /\ f <= g /\ g <= n
  BY <1>5, <1>10
<1>12. CASE \A k \in DOMAIN b : b[k] \in Blanks
  <2>1. ASSUME NEW k \in 1..(m + n + 1), c[k] \notin Blanks PROVE k \in (m + 1)..(m + n)
    <3>1. k # m + n + 1
      BY <1>4, <2>1 DEF Blanks
    <3>2. ~ (k \in 1..m)
      BY <1>4, <1>6, <1>12, <2>1
    <3> QED  BY <1>5, <3>1, <3>2
  <2>2. ASSUME NEW k \in (m + 1)..(m + n) PROVE c[k] # "nl"
    <3>1. k - m \in 1..n /\ m + (k - m) = k
      BY <1>5
    <3> QED  BY <1>4, <1>8, <3>1
  <2>3. ASSUME NEW e \in DOMAIN c, NEW h \in DOMAIN c, c[e] \notin Blanks, c[h] \notin Blanks,
               NEW k \in e..h
        PROVE  c[k] # "nl"
    <3>1. e \in (m + 1)..(m + n) /\ h \in (m + 1)..(m + n)
      BY <1>6, <2>1, <2>3
    <3>2. k \in (m + 1)..(m + n)
      BY <1>5, <3>1
    <3> QED  BY <2>2, <3>2
  <2>4. \A e, h \in DOMAIN c :
          (/\ c[e] \notin Blanks /\ c[h] \notin Blanks
           /\ \A k \in DOMAIN c : c[k] \notin Blanks => e <= k /\ k <= h)
          => \A k \in e..h : c[k] # "nl"
    BY <2>3
  <2> QED  BY <1>2, <1>3, <2>4, OnceOnOneLine
<1>13. CASE ~ \A k \in DOMAIN b : b[k] \in Blanks
  <2>1. PICK a, z : a \in 1..m /\ z \in 1..m /\ a <= z /\ Ink(b, a, z)
    <3>1. \E e, h \in DOMAIN b :
            /\ e <= h /\ b[e] \notin Blanks /\ b[h] \notin Blanks
            /\ \A k \in DOMAIN b : b[k] \notin Blanks => e <= k /\ k <= h
      BY <1>1, <1>13, InkEnds
    <3> QED  BY <1>6, <1>9, <3>1 DEF Ink
  <2>2. a \in Int /\ z \in Int /\ 1 <= a /\ a <= z /\ z <= m /\ z # m
    <3>1. b[z] \notin Blanks
      BY <2>1 DEF Ink
    <3> QED  BY <1>5, <1>7, <2>1, <3>1 DEF Blanks
  <2>3. /\ Ink(c, a, m + g) /\ c[z] \notin Blanks /\ c[m + f] \notin Blanks
        /\ \A k \in 1..(m + n + 1) : k <= m /\ c[k] \notin Blanks => k <= z
        /\ \A k \in 1..(m + n + 1) : m < k /\ c[k] \notin Blanks => m + f <= k
    <3>1. Both(b, x, c, m, n, a, z, f, g)
      BY <1>3, <1>4, <1>5, <1>9, <1>10, <1>11, <2>1, <2>2 DEF Both
    <3> QED  BY <3>1, InkOfBoth
  <2> DEFINE t == SubSeq(c, a, m + g)
             w == m + g - a + 1
             p == m - a + 1
             e == z - a + 1
             s == m + f - a + 1
  <2>4. /\ w \in Nat /\ p \in 1..w /\ e \in 1..(p - 1) /\ s \in (p + 1)..w /\ 1 \in 1..w
        /\ e \in 1..w /\ s \in 1..w
    BY <1>5, <1>11, <2>2
  <2>5. /\ a + 1 - 1 = a /\ a + p - 1 = m /\ a + e - 1 = z /\ a + s - 1 = m + f /\ a + w - 1 = m + g
        /\ m + g - a + 1 = w
    BY <1>5, <1>11, <2>2
  <2>6. \A k \in 1..w : a + k - 1 \in 1..(m + n + 1) /\ (k < p => a + k - 1 <= m)
                        /\ (p < k => m < a + k - 1)
    BY <1>5, <1>11, <2>2
  <2>7. \A k \in 1..w : (a + k - 1 <= z => k <= e) /\ (m + f <= a + k - 1 => s <= k)
    BY <1>5, <1>11, <2>2
  <2> HIDE DEF t, w, p, e, s
  <2>8. t \in Seq(C) /\ Len(t) = w /\ \A k \in 1..w : t[k] = c[a + k - 1]
    <3>1. Within(c, a, m + g)
      BY <1>3, <1>5, <1>11, <2>2 DEF Within
    <3>2. t = SubSeq(c, a, m + g)
      BY DEF t
    <3>3. c \in Seq(C)
      BY <1>3
    <3>4. t \in Seq(C) /\ PartOf(t, c, a, m + g)
      BY <3>1, <3>2, <3>3, TrimmedPart
    <3>7. PartOf(t, c, a, m + g)
      BY <3>4
    <3>8. Len(t) = m + g - a + 1
      BY <1>5, <1>11, <2>2, <3>7 DEF PartOf
    <3>9. \A k \in 1..(m + g - a + 1) : t[k] = c[a + k - 1]
      BY <1>5, <1>11, <2>2, <3>7 DEF PartOf
    <3>5. Len(t) = m + g - a + 1 /\ \A k \in 1..(m + g - a + 1) : t[k] = c[a + k - 1]
      BY <3>8, <3>9
    <3>6. Len(t) = w /\ \A k \in 1..w : t[k] = c[a + k - 1]
      BY <2>5, <3>5, Zenon
    <3> QED  BY <3>4, <3>6
  <2>9. t[p] = "nl" /\ t[1] \notin Blanks /\ t[e] \notin Blanks /\ t[s] \notin Blanks
    <3>1. t[p] = c[m] /\ t[1] = c[a] /\ t[e] = c[z] /\ t[s] = c[m + f]
      BY <2>4, <2>5, <2>8
    <3>2. c[m] = b[m]
      BY <1>4, <1>5
    <3> QED  BY <1>7, <2>3, <3>1, <3>2 DEF Ink
  <2>10. ASSUME NEW k \in 1..w, k < p, t[k] \notin Blanks PROVE k <= e
    BY <2>3, <2>6, <2>7, <2>8, <2>10
  <2>11. ASSUME NEW k \in 1..w, p < k, t[k] \notin Blanks PROVE s <= k
    BY <2>3, <2>6, <2>7, <2>8, <2>11
  <2>12. SubSeq(t, 1, e) = Trim(b)
    <3>1. e <= w /\ e \in Int /\ 1 <= e /\ z <= Len(b) /\ z - a = e - 1
      BY <1>9, <2>2, <2>4, <2>5
    <3>2. ASSUME NEW k \in a..z PROVE b[k] = t[k - a + 1]
      <4>1. k \in 1..m /\ k - a + 1 \in 1..w /\ a + (k - a + 1) - 1 = k
        BY <1>5, <2>2, <2>4, <2>5, <3>1
      <4> QED  BY <1>4, <2>8, <4>1
    <3>6. Agree(b, t, a, z, 1, e)
      BY <2>2, <2>8, <3>1, <3>2 DEF Agree
    <3>7. b \in Seq(C) /\ t \in Seq(C)
      BY <1>1, <2>8
    <3>8. Alike(b, t, a, z, 1, e)
      BY <3>6, <3>7, SameParts
    <3>3. SubSeq(b, a, z) = SubSeq(t, 1, e)
      BY <3>8 DEF Alike
    <3>4. /\ a \in DOMAIN b /\ z \in DOMAIN b /\ b[a] \notin Blanks /\ b[z] \notin Blanks
          /\ \A k \in DOMAIN b : b[k] \notin Blanks => a <= k /\ k <= z
      BY <1>6, <1>9, <2>1 DEF Ink
    <3>5. Trim(b) = SubSeq(b, a, z)
      BY <1>1, <3>4, TrimIs
    <3> QED  BY <3>3, <3>5
  <2>13. SubSeq(t, s, w) = Trim(x)
    <3>1. s <= w /\ s \in Int /\ w \in Int /\ 1 <= s /\ g <= Len(x) /\ g - f = w - s
      BY <1>9, <1>11, <2>4, <2>5, <1>5, <2>2
    <3>2. ASSUME NEW k \in f..g PROVE x[k] = t[k - f + s]
      <4>1. k \in 1..n /\ k - f + s \in 1..w /\ a + (k - f + s) - 1 = m + k
        BY <1>5, <1>11, <2>2, <2>5, <3>1
      <4> QED  BY <1>4, <2>8, <4>1
    <3>3. SubSeq(x, f, g) = SubSeq(t, s, w)
      <4>1. w <= Len(t)
        BY <2>4, <2>8
      <4>2. Agree(x, t, f, g, s, w)
        BY <1>11, <3>1, <3>2, <4>1 DEF Agree
      <4>3. x \in Seq(C) /\ t \in Seq(C)
        BY <1>1, <2>8
      <4>4. Alike(x, t, f, g, s, w)
        BY <4>2, <4>3, SameParts
      <4> QED  BY <4>4 DEF Alike
    <3>4. /\ f \in DOMAIN x /\ g \in DOMAIN x /\ x[f] \notin Blanks /\ x[g] \notin Blanks
          /\ \A k \in DOMAIN x : x[k] \notin Blanks => f <= k /\ k <= g
      BY <1>6, <1>9, <1>10 DEF Ink
    <3>5. Trim(x) = SubSeq(x, f, g)
      BY <1>1, <3>4, TrimIs
    <3> QED  BY <3>3, <3>5
  <2>14. Trim(c) = t
    <3>1. a \in DOMAIN c /\ m + g \in DOMAIN c
      BY <1>5, <1>6, <1>11, <2>2
    <3>2. /\ c[a] \notin Blanks /\ c[m + g] \notin Blanks
          /\ \A k \in DOMAIN c : c[k] \notin Blanks => a <= k /\ k <= m + g
      BY <1>3, <1>6, <2>3 DEF Ink
    <3> QED  BY <1>3, <3>1, <3>2, TrimIs DEF t
  <2>15. ASSUME NEW i \in 1..w, NEW j \in 1..w, Repeats(t, i, j) PROVE FALSE
    <3>1. t[e] # Semicolon /\ SubSeq(t, s, w) = Append(SubSeq(t, 1, e), Semicolon)
      BY <1>1, <2>4, <2>8, <2>9, <2>10, <2>11, <2>15, RepeatsAround
    <3>2. Trim(x) = Append(Trim(b), Semicolon)
      BY <2>12, <2>13, <3>1
    <3>3. Len(Trim(b)) = e /\ Trim(b)[e] = t[e]
      <4>1. \A k \in 1..e : t[k] \in C
        BY <2>4, <2>8, LenProperties
      <4>2. 1 \in Int /\ e \in Int /\ 1 <= e /\ e \in 1..(e - 1 + 1) /\ 1 + e - 1 = e /\ e - 1 + 1 = e
        BY <2>4
      <4> DEFINE u == SubSeq(t, 1, e)
      <4>3. Len(u) = (IF 1 <= e THEN e - 1 + 1 ELSE 0) /\ \A k \in 1..(e - 1 + 1) : u[k] = t[1 + k - 1]
        <5> HIDE DEF u
        <5> QED  BY <4>1, <4>2, SubSeqProperties DEF u
      <4> HIDE DEF u
      <4>4. Len(u) = e /\ u[e] = t[e]
        BY <4>2, <4>3
      <4> QED  BY <2>12, <4>4 DEF u
    <3>4. Trim(b) # <<>>
      BY <2>4, <3>3, EmptySeq
    <3> QED  BY <3>1, <3>2, <3>3, <3>4 DEF Replaces, Behindhand
  <2>16. DOMAIN t = 1..w
    BY <2>8, LenProperties
  <2> QED  BY <1>2, <2>14, <2>15, <2>16 DEF Once
<1> QED  BY <1>12, <1>13
--------------------------------------------------------------------------------
(* The buffer with one more line.                                          *)

(* What the buffer is while its input is not finished. *)
Kept(b) ==
  /\ b[Len(b)] = "nl" /\ NeedsMore(b) /\ Once(b)
  /\ \A k \in LinesOf(b) : k < Len(b) => NeedsMore(SubSeq(b, 1, k))

(* What is gathered with the line x that was typed behind b. *)
Grown(c, x) ==
  /\ c # <<>> /\ c[Len(c)] = "nl" /\ Once(c)
  /\ \A k \in LinesOf(c) : k < Len(c) => NeedsMore(SubSeq(c, 1, k))
  /\ c[Len(c) - 1] = "\\" <=> (x # <<>> /\ x[Len(x)] = "\\")

(* b and x are an unfinished input and a line that may be typed behind it. *)
Typed(C, b, x) ==
  /\ "nl" \in C /\ Semicolon \in C /\ b \in Seq(C) /\ x \in Seq(C)
  /\ \A k \in DOMAIN x : x[k] # "nl"
  /\ b # <<>> \/ ~ \A k \in DOMAIN x : x[k] \in Blanks
  /\ b # <<>> => Kept(b)

(* What a line that takes the place of the buffer, or is alone in it, leaves. *)
LEMMA GrownAlone ==
  ASSUME NEW C, NEW b, NEW x, Typed(C, b, x), x # <<>> PROVE Grown(x \o <<"nl">>, x)
<1> DEFINE c == <<>> \o x \o <<"nl">>
<1>1. /\ "nl" \in C /\ x \in Seq(C) /\ \A k \in DOMAIN x : x[k] # "nl"
  BY DEF Typed
<1>2. c = x \o <<"nl">>
  BY <1>1, ConcatEmptySeq
<1>3. /\ c \in Seq(C) /\ Len(c) = Len(x) + 1 /\ c[Len(c)] = "nl" /\ Len(x) \in Nat
      /\ \A k \in 1..Len(x) : c[k] = x[k]
  <2>1. <<>> \in Seq(C) /\ Len(<<>>) = 0
    BY EmptySeq
  <2> HIDE DEF c
  <2>2. c = <<>> \o x \o <<"nl">>
    BY DEF c
  <2>3. /\ c \in Seq(C) /\ Len(c) = Len(<<>>) + Len(x) + 1 /\ c[Len(c)] = "nl"
        /\ \A k \in 1..Len(x) : c[Len(<<>>) + k] = x[k]
    BY <1>1, <2>1, <2>2, AppendedLine
  <2> QED  BY <1>1, <2>1, <2>3
<1>4. Once(x \o <<"nl">>)
  BY <1>1, OnceOfLine
<1> HIDE DEF c
<1>5. Len(x) > 0 /\ DOMAIN x = 1..Len(x) /\ DOMAIN c = 1..Len(c)
  BY <1>1, <1>3, EmptySeq, LenProperties
<1>6. \A k \in LinesOf(c) : ~ (k < Len(c))
  BY <1>1, <1>3, <1>5 DEF LinesOf
<1>7. c # <<>> /\ c[Len(c) - 1] = x[Len(x)]
  BY <1>3, <1>5, EmptySeq
<1>8. Once(c)
  BY <1>2, <1>4
<1>9. Grown(c, x)
  BY <1>3, <1>6, <1>7, <1>8 DEF Grown
<1> QED  BY <1>2, <1>9

(* What a line that is appended leaves. *)
LEMMA GrownBehind ==
  ASSUME NEW C, NEW b, NEW x, Typed(C, b, x), b # <<>>, ~Replaces(b, x)
  PROVE  Grown(b \o x \o <<"nl">>, x)
<1> DEFINE c == b \o x \o <<"nl">>
<1>1. /\ "nl" \in C /\ Semicolon \in C /\ b \in Seq(C) /\ x \in Seq(C)
      /\ \A k \in DOMAIN x : x[k] # "nl"
  BY DEF Typed
<1>2. Kept(b)
  BY DEF Typed
<1>3. b[Len(b)] = "nl" /\ NeedsMore(b) /\ Once(b)
  BY <1>2 DEF Kept
<1> HIDE DEF c
<1>4. c = b \o x \o <<"nl">>
  BY DEF c
<1>5. /\ c \in Seq(C) /\ Len(c) = Len(b) + Len(x) + 1 /\ c[Len(c)] = "nl"
      /\ \A k \in 1..Len(b) : c[k] = b[k]
      /\ \A k \in 1..Len(x) : c[Len(b) + k] = x[k]
  BY <1>1, <1>4, AppendedLine
<1>6. Len(b) \in Nat /\ Len(b) > 0 /\ Len(x) \in Nat
  BY <1>1, EmptySeq, LenProperties
<1>7. DOMAIN b = 1..Len(b) /\ DOMAIN x = 1..Len(x) /\ DOMAIN c = 1..Len(c)
  BY <1>1, <1>5, LenProperties
<1>8. Once(c)
  <2>1. CASE \A k \in DOMAIN x : x[k] \in Blanks
    <3>1. Trim(c) = Trim(b)
      BY <1>1, <1>4, <2>1, BlankLineTrims
    <3> QED  BY <1>3, <3>1 DEF Once
  <2>2. CASE ~ \A k \in DOMAIN x : x[k] \in Blanks
    <3>1. Behindhand(C, b, x)
      BY <1>1, <1>3, <2>2 DEF Behindhand
    <3> QED  BY <1>4, <3>1, OnceWhenAppended
  <2> QED  BY <2>1, <2>2
<1>9. ASSUME NEW k \in LinesOf(c), k < Len(c) PROVE NeedsMore(SubSeq(c, 1, k))
  <2>1. k \in 1..Len(c) /\ c[k] = "nl"
    BY <1>7 DEF LinesOf
  <2>2. k \in 1..Len(b)
    <3> DEFINE m == Len(b)  n == Len(x)
    <3>1. k \in 1..(m + n + 1) /\ k # m + n + 1 /\ m \in Nat /\ n \in Nat
      BY <1>5, <1>6, <1>9, <2>1
    <3>2. \A j \in 1..n : c[m + j] # "nl"
      BY <1>1, <1>5, <1>7
    <3> HIDE DEF m, n
    <3>3. k > m => k - m \in 1..n /\ m + (k - m) = k
      BY <3>1
    <3>4. k \in 1..m
      BY <2>1, <3>1, <3>2, <3>3
    <3> QED  BY <3>4 DEF m
  <2>3. SubSeq(c, 1, k) = SubSeq(b, 1, k)
    <3>1. Agree(c, b, 1, k, 1, k)
      BY <1>5, <1>6, <2>2 DEF Agree
    <3>2. Alike(c, b, 1, k, 1, k)
      BY <1>1, <1>5, <3>1, SameParts
    <3> QED  BY <3>2 DEF Alike
  <2>4. CASE k < Len(b)
    <3>1. k \in LinesOf(b)
      BY <1>5, <1>7, <2>1, <2>2 DEF LinesOf
    <3>2. NeedsMore(SubSeq(b, 1, k))
      BY <1>2, <2>4, <3>1 DEF Kept
    <3> QED  BY <2>3, <3>2
  <2>5. CASE k = Len(b)
    <3>1. SubSeq(b, 1, Len(b)) = b
      BY <1>1, SubSeqFull
    <3> QED  BY <1>3, <2>3, <2>5, <3>1
  <2> QED  BY <1>6, <2>2, <2>4, <2>5
<1>10. c[Len(c) - 1] = "\\" <=> (x # <<>> /\ x[Len(x)] = "\\")
  <2>1. CASE x = <<>>
    <3>1. Len(x) = 0 /\ Len(c) - 1 = Len(b)
      BY <1>5, <1>6, <2>1, EmptySeq
    <3>2. c[Len(c) - 1] = "nl"
      BY <1>3, <1>5, <1>6, <3>1
    <3> QED  BY <2>1, <3>2
  <2>2. CASE x # <<>>
    <3>1. Len(x) > 0 /\ Len(c) - 1 = Len(b) + Len(x) /\ Len(x) \in 1..Len(x)
      BY <1>1, <1>5, <1>6, <2>2, EmptySeq
    <3>2. c[Len(c) - 1] = x[Len(x)]
      BY <1>5, <3>1
    <3> QED  BY <2>2, <3>2
  <2> QED  BY <2>1, <2>2
<1>11. c # <<>>
  BY <1>5, <1>6, EmptySeq
<1>12. Grown(c, x)
  BY <1>5, <1>8, <1>9, <1>10, <1>11 DEF Grown
<1> QED  BY <1>4, <1>12

(* The buffer after a line of code. *)
LEMMA JoinedGrows ==
  ASSUME NEW C, NEW b, NEW l, Typed(C, b, l.text) PROVE Grown(Joined(b, l), l.text)
<1>1. Joined(b, l) = IF Replaces(b, l.text) THEN l.text \o <<"nl">> ELSE b \o l.text \o <<"nl">>
  BY Zenon DEF Joined, Replaces, Semicolon
<1>2. CASE Replaces(b, l.text)
  <2>1. l.text # <<>>
    <3> SUFFICES ASSUME l.text = <<>> PROVE FALSE
      OBVIOUS
    <3>2. \A k \in DOMAIN l.text : l.text[k] \in Blanks
      BY EmptySeq
    <3>3. Trim(l.text) = <<>> /\ Trim(l.text) = Append(Trim(b), Semicolon) /\ Trim(b) # <<>>
      BY <1>2, <3>2, TrimOfBlank DEF Replaces
    <3>4. Trim(b) \in Seq(C)
      BY TrimIsText DEF Typed
    <3>5. Append(Trim(b), Semicolon) # <<>>
      <4>1. Trim(b) \in Seq(C \cup {Semicolon})
        BY <3>4, SeqMonotonic
      <4> QED  BY <4>1, AppendProperties
    <3> QED  BY <3>3, <3>5
  <2> QED  BY <1>1, <1>2, <2>1, GrownAlone
<1>3. CASE ~Replaces(b, l.text) /\ b # <<>>
  BY <1>1, <1>3, GrownBehind
<1>4. CASE ~Replaces(b, l.text) /\ b = <<>>
  <2>1. l.text # <<>>
    BY <1>4, EmptySeq DEF Typed
  <2>2. b \o l.text = l.text
    BY <1>4, ConcatEmptySeq DEF Typed
  <2> QED  BY <1>1, <1>4, <2>1, <2>2, GrownAlone
<1> QED  BY <1>2, <1>3, <1>4
--------------------------------------------------------------------------------
(* Gathered is inductive, with the invariant of the program.               *)

(* A line is text of its tokens, without a new line. *)
LEMMA LineIsText ==
  ASSUME NEW l \in Lines
  PROVE  /\ l.text \in Seq(Chars) /\ \A k \in DOMAIN l.text : l.text[k] # "nl"
         /\ l.words = <<>> <=> \A k \in DOMAIN l.text : l.text[k] \in Blanks
<1>1. l.text \in Seq(STRING)
  BY LinesAssumption
<1>2. \A k \in 1..Len(l.text) : l.text[k] \in Chars
  BY <1>1 DEF Chars
<1>3. l.text \in Seq(Chars)
  BY <1>1, <1>2, SeqDef
<1> QED  BY <1>3, LineAssumption

(* A line of code is one that may be typed behind what is there. *)
LEMMA CodeIsTyped ==
  ASSUME IInv, Gathered, NEW l \in Lines, Waiting, IsCode(l)
  PROVE  Typed(Chars \cup {Semicolon}, buffer, l.text)
<1> DEFINE C == Chars \cup {Semicolon}
<1>1. buffer \in Seq(Chars)
  BY DEF IInv, Types, TypeOK
<1>2. buffer \in Seq(C) /\ l.text \in Seq(C)
  <2>1. Chars \subseteq C
    OBVIOUS
  <2> HIDE DEF C
  <2> QED  BY <1>1, <2>1, LineIsText, SeqMonotonic
<1>3. "nl" \in C /\ Semicolon \in C
  BY DEF Chars
<1> HIDE DEF C
<1>4. buffer # <<>> => Kept(buffer)
  <2> SUFFICES ASSUME buffer # <<>> PROVE Kept(buffer)
    OBVIOUS
  <2>1. reading /\ call.op = "none"
    BY DEF Waiting, Idle
  <2> QED  BY <2>1 DEF Gathered, Kept
<1>5. buffer # <<>> \/ ~ \A k \in DOMAIN l.text : l.text[k] \in Blanks
  BY LineIsText DEF IsCode
<1>6. Typed(C, buffer, l.text)
  BY <1>2, <1>3, <1>4, <1>5, LineIsText DEF Typed
<1> QED  BY <1>6 DEF C

(* With the line the input is longer, and Continues says whether it is done. *)
LEMMA CodeGrows ==
  ASSUME IInv, Gathered, NEW l \in Lines, Waiting, IsCode(l), buffer' = Joined(buffer, l)
  PROVE  /\ buffer' # <<>> /\ buffer'[Len(buffer')] = "nl" /\ Once(buffer')
         /\ \A k \in LinesOf(buffer') : k < Len(buffer') => NeedsMore(SubSeq(buffer', 1, k))
         /\ NeedsMore(buffer') <=> Continues(buffer', l)
<1>1. Grown(Joined(buffer, l), l.text)
  BY CodeIsTyped, JoinedGrows
<1>2. Grown(buffer', l.text)
  BY <1>1
<1>3. buffer'[Len(buffer') - 1] = "\\" <=> (l.text # <<>> /\ l.text[Len(l.text)] = "\\")
  BY <1>2 DEF Grown
<1>4. NeedsMore(buffer') <=> Continues(buffer', l)
  BY <1>3 DEF NeedsMore, Continues
<1> QED  BY <1>2, <1>4 DEF Grown

(* A line that asks for another. *)
LEMMA UnfinishedGathers ==
  ASSUME IInv, Gathered, NEW l \in Lines, Unfinished(l), Unmoved PROVE Gathered'
<1>1. /\ Waiting /\ IsCode(l) /\ buffer' = Joined(buffer, l) /\ Continues(buffer', l)
      /\ UNCHANGED <<call, reading, stage>>
  BY DEF Unfinished, Unmoved
<1>2. reading /\ call.op = "none" /\ stage = "session"
  BY <1>1 DEF Waiting, Idle, IInv, Underway
<1>3. /\ buffer' # <<>> /\ buffer'[Len(buffer')] = "nl" /\ Once(buffer')
      /\ \A k \in LinesOf(buffer') : k < Len(buffer') => NeedsMore(SubSeq(buffer', 1, k))
      /\ NeedsMore(buffer')
  BY <1>1, CodeGrows
<1>4. call'.op = "none" /\ stage' = "session"
  BY <1>1, <1>2
<1> QED  BY <1>3, <1>4 DEF Gathered, Once, NeedsMore, LinesOf

(* The line that finishes the input. *)
LEMMA FinishedGathers ==
  ASSUME IInv, Gathered, NEW l \in Lines, Finished(l), Unmoved PROVE Gathered'
<1>1. /\ Waiting /\ IsCode(l) /\ buffer' = Joined(buffer, l) /\ ~Continues(buffer', l)
      /\ Called("eval", 0) /\ UNCHANGED <<reading, stage>>
  BY DEF Finished, Unmoved
<1>2. reading /\ stage = "session"
  BY <1>1 DEF Waiting, IInv, Underway
<1>3. /\ buffer' # <<>> /\ buffer'[Len(buffer')] = "nl" /\ Once(buffer')
      /\ \A k \in LinesOf(buffer') : k < Len(buffer') => NeedsMore(SubSeq(buffer', 1, k))
      /\ ~NeedsMore(buffer')
  BY <1>1, CodeGrows
<1>4. call'.op = "eval" /\ stage' = "session"
  BY <1>1, <1>2 DEF Called
<1> QED  BY <1>3, <1>4 DEF Gathered, Once, NeedsMore, LinesOf

(* Every other line leaves an empty buffer empty, or ends the reading. *)
LEMMA OtherLinesGather ==
  ASSUME IInv, Gathered, NEW l \in Lines, Unmoved,
         \/ Quit(l) \/ Undo(l) \/ StackLine(l) \/ Reset(l) \/ Load(l) \/ Path(l) \/ Lib(l)
         \/ Security(l)
  PROVE  Gathered'
<1>1. buffer = <<>> /\ buffer' = buffer
  BY Zenon DEF Quit, Leave, Undo, StackLine, StackPop, StackPush, StackClear, StackRemove,
               StackSet, StackSwap, Reset, Load, Path, Lib, Security, Rest, Command, IsCommand
<1> QED  BY <1>1 DEF Gathered

(* Whatever the user does. *)
LEMMA UserGathers == ASSUME IInv, Gathered, User PROVE Gathered'
<1>1. Unmoved
  BY DEF User
<1>2. CASE EndOfInput
  <2>1. reading /\ ~reading' /\ stage' = stage /\ stage = "session"
    BY <1>1, <1>2 DEF EndOfInput, Leave, Waiting, Unmoved, IInv, Underway
  <2> QED  BY <2>1 DEF Gathered
<1>3. ASSUME NEW l \in Lines,
             \/ Quit(l) \/ Unfinished(l) \/ Finished(l)
             \/ Undo(l) \/ StackLine(l) \/ Reset(l) \/ Load(l) \/ Path(l) \/ Lib(l) \/ Security(l)
      PROVE  Gathered'
  <2>1. CASE Unfinished(l)
    BY <1>1, <2>1, UnfinishedGathers
  <2>2. CASE Finished(l)
    BY <1>1, <2>2, FinishedGathers
  <2>3. CASE ~Unfinished(l) /\ ~Finished(l)
    BY <1>1, <1>3, <2>3, OtherLinesGather, Zenon
  <2> QED  BY <2>1, <2>2, <2>3
<1> QED  BY <1>2, <1>3 DEF User, ReadLine

(* The end of an evaluation empties the buffer. *)
LEMMA ReturnGathers == ASSUME IInv, Gathered, Return, Unmoved PROVE Gathered'
<1>1. reading /\ call # Idle /\ reading' = reading /\ stage' = stage
  BY DEF Return, Unmoved
<1>2. call.op # "none"
  BY <1>1 DEF IInv, Underway
<1>3. buffer' = IF call.op = "eval" THEN <<>> ELSE buffer
  BY DEF Return
<1>4. buffer' = <<>>
  BY <1>1, <1>2, <1>3 DEF Gathered
<1> QED  BY <1>4 DEF Gathered

(* main() has no buffer before the session, and does not touch it after.    *)
LEMMA MainGathers == ASSUME IInv, Gathered, Main PROVE Gathered'
<1>1. buffer' = buffer
  BY DEF Main, ParseCommandLine, ShowScaffold, InitInterpreter, LoadNext, EvalNext, Checked,
         FilesDone, CodesDone, SessionOver, Inside, Uncalled, session
<1>2. CASE SessionOver
  <2>1. ~reading' /\ stage' = "over"
    BY <1>2 DEF SessionOver, Exit, Inside, session
  <2> QED  BY <2>1 DEF Gathered
<1>3. CASE ~SessionOver
  <2>1. stage \notin {"session", "over"}
    BY <1>3 DEF Main, ParseCommandLine, ShowScaffold, InitInterpreter, LoadNext, EvalNext, Checked,
                FilesDone, CodesDone
  <2>2. buffer' = <<>>
    BY <1>1, <2>1 DEF Gathered
  <2> QED  BY <2>2 DEF Gathered
<1> QED  BY <1>2, <1>3

(* A task of the notebook does not touch it. *)
LEMMA UntouchedGathers ==
  ASSUME Gathered, UNCHANGED <<buffer, call, reading, stage>> PROVE Gathered'
  BY DEF Gathered, Once, NeedsMore, LinesOf

(* Every step keeps it. *)
LEMMA StepGathers == IInv /\ Gathered /\ [Next]_vars => Gathered'
<1> SUFFICES ASSUME IInv, Gathered, [Next]_vars PROVE Gathered'
  OBVIOUS
<1>1. CASE Main
  BY <1>1, MainGathers
<1>2. CASE Carry /\ Unmoved
  BY <1>2, UntouchedGathers DEF Carry, session, Unmoved
<1>3. CASE Return /\ Unmoved
  BY <1>3, ReturnGathers
<1>4. CASE User
  BY <1>4, UserGathers
<1>5. CASE UNCHANGED vars
  BY <1>5, UntouchedGathers DEF vars, session
<1> QED  BY <1>1, <1>2, <1>3, <1>4, <1>5 DEF Next, Machine
--------------------------------------------------------------------------------
(* The theorems.                                                           *)

(* Between lines the buffer holds an input that is not finished and that    *)
(* repeats nothing; only an evaluation has a finished one.                 *)
THEOREM BufferIsGathered == Spec => []Gathered
<1>1. Init => Gathered
  BY DEF Init, Gathered
<1>2. IInv /\ Gathered /\ [Next]_vars => Gathered'
  BY StepGathers
<1> QED  BY <1>1, <1>2, InvariantHolds, PTL DEF Spec

(* An input is evaluated with the line that finishes it, whatever lines,    *)
(* commands and answers there are.                                         *)
THEOREM InputsAreEvaluatedWhenFinished == Spec => []EvaluatedWhenFinished
<1>1. Gathered => EvaluatedWhenFinished
  BY DEF Gathered, EvaluatedWhenFinished
<1> QED  BY <1>1, BufferIsGathered, PTL

(* No evaluated input is a line and the same line with its semicolon.       *)
THEOREM NothingIsDeclaredTwice == Spec => []NeverDeclaredTwice
<1>1. ASSUME IInv, Gathered PROVE NeverDeclaredTwice
  <2>1. CASE call.op = "eval" /\ buffer # <<>>
    <3>1. reading
      BY <1>1, <2>1 DEF IInv, Underway
    <3>2. Once(buffer)
      BY <1>1, <2>1, <3>1 DEF Gathered
    <3> QED  BY <3>2, Zenon DEF Once, Repeats, Semicolon, NeverDeclaredTwice
  <2>2. CASE buffer = <<>>
    <3>1. \A k \in DOMAIN buffer : buffer[k] \in Blanks
      BY <2>2, EmptySeq
    <3>2. Trim(buffer) = <<>>
      BY <3>1, TrimOfBlank
    <3>3. DOMAIN Trim(buffer) = {}
      BY <3>2, EmptySeq
    <3> QED  BY <3>3, Zenon DEF NeverDeclaredTwice
  <2>3. CASE call.op # "eval"
    BY <2>3, Zenon DEF NeverDeclaredTwice
  <2> QED  BY <2>1, <2>2, <2>3
<1>2. IInv /\ Gathered => NeverDeclaredTwice
  BY <1>1
<1> QED  BY <1>2, InvariantHolds, BufferIsGathered, PTL
================================================================================
