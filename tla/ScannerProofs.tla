----------------------------- MODULE ScannerProofs -----------------------------
(***************************************************************************)
(* Proofs about the scanners, for texts of every length over every         *)
(* alphabet: a scan is inside exactly the elements that the reference finds *)
(* without scanning, and so the brackets counted, the text that is left and *)
(* the version asked for are those of the code.                            *)
(***************************************************************************)
EXTENDS ScannerCheck, ScannerLemmas, FiniteSetTheorems

(* Every number from i on, up to n. *)
LEMMA Between ==
  ASSUME NEW i \in Nat, NEW n \in Nat, NEW T, i \in T, \A k \in i..n : k \in T /\ k < n => k + 1 \in T
  PROVE  i..n \subseteq T
<1> DEFINE U == (i..n) \ T
<1> SUFFICES ASSUME U # {} PROVE FALSE
  OBVIOUS
<1>1. PICK x \in U : \A y \in U : x <= y
  <2>1. U \subseteq Nat
    OBVIOUS
  <2> HIDE DEF U
  <2> QED  BY <2>1, LeastNatural
<1>2. x # i /\ x - 1 \in i..n /\ x - 1 < n /\ x - 1 < x /\ (x - 1) + 1 = x
  OBVIOUS
<1> QED  BY <1>1, <1>2

(* What Least finds. *)
LEMMA LeastIs ==
  ASSUME NEW S, S \subseteq Nat, NEW d
  PROVE  /\ S = {} => Least(S, d) = d
         /\ S # {} => Least(S, d) \in S /\ \A j \in S : Least(S, d) <= j
<1>1. ASSUME S # {} PROVE \E k \in S : \A j \in S : k <= j
  BY <1>1, LeastNatural
<1> QED  BY <1>1 DEF Least
--------------------------------------------------------------------------------
(* The characters and the modes.                                           *)

Comments == {"line", "block"}
Modes == {"code"} \cup Comments \cup Quotes

(* No quote is one of the other characters, or the name of a mode. *)
LEMMA QuotesAreQuotes ==
  Quotes \cap {"code", "line", "block", "/", "*", "\\", "nl", "sp", "end"} = {}
  BY Zenon DEF Quotes

(* What opens which element. *)
LEMMA KindIs ==
  ASSUME NEW t, NEW i
  PROVE  /\ Kind(t, i) \in Modes
         /\ Kind(t, i) = "line" => t[i] = "/" /\ Some(t, i + 1) = "/"
         /\ Kind(t, i) = "block" => t[i] = "/" /\ Some(t, i + 1) = "*"
         /\ Kind(t, i) \in Quotes => t[i] = Kind(t, i)
         /\ t[i] # "/" /\ t[i] \notin Quotes => Kind(t, i) = "code"
         /\ Kind(t, i) = "code" => t[i] \notin Quotes
  BY QuotesAreQuotes DEF Kind, Opens, Modes, Comments

(* The flags of a scan after k tokens: mode M, skip S and escaped E.        *)
Moved(t, M, S, E, k) ==
  /\ S[k - 1] => M[k] = M[k - 1] /\ ~S[k] /\ (E[k] <=> E[k - 1])
  /\ ~S[k - 1] /\ M[k - 1] = "code" =>
       M[k] = Kind(t, k) /\ (S[k] <=> Kind(t, k) \in Comments) /\ (E[k] <=> E[k - 1])
  /\ ~S[k - 1] /\ M[k - 1] = "line" =>
       M[k] = (IF t[k] = "nl" THEN "code" ELSE "line") /\ ~S[k] /\ (E[k] <=> E[k - 1])
  /\ ~S[k - 1] /\ M[k - 1] = "block" =>
       /\ IF t[k] = "*" /\ Some(t, k + 1) = "/" THEN M[k] = "code" /\ S[k]
          ELSE M[k] = "block" /\ ~S[k]
       /\ (E[k] <=> E[k - 1])
  /\ ~S[k - 1] /\ M[k - 1] \in Quotes =>
       /\ M[k] = (IF ~E[k - 1] /\ t[k] = M[k - 1] THEN "code" ELSE M[k - 1])
       /\ ~S[k] /\ (E[k] <=> ~E[k - 1] /\ t[k] = "\\")

(* A scan of t. *)
Flow(t, M, S, E) ==
  /\ Len(t) \in Nat /\ DOMAIN t = 1..Len(t)
  /\ M[0] = "code" /\ ~S[0] /\ ~E[0]
  /\ \A k \in 1..Len(t) : Moved(t, M, S, E, k)

(* Only literals have escapes, and there is no other mode. *)
LEMMA FlowModes ==
  ASSUME NEW t, NEW M, NEW S, NEW E, Flow(t, M, S, E)
  PROVE  \A k \in 0..Len(t) : M[k] \in Modes /\ (E[k] => M[k] \in Quotes)
<1> DEFINE n == Len(t)
           T == {k \in 0..n : M[k] \in Modes /\ (E[k] => M[k] \in Quotes)}
<1>1. n \in Nat
  BY DEF Flow
<1>2. 0 \in T
  BY <1>1 DEF Flow, Modes
<1>3. ASSUME NEW k \in 0..n, k \in T, k < n PROVE k + 1 \in T
  <2>1. k + 1 \in 1..n /\ (k + 1) - 1 = k
    BY <1>1, <1>3
  <2>2. Moved(t, M, S, E, k + 1)
    BY <2>1 DEF Flow
  <2>3. M[k] \in Modes /\ (E[k] => M[k] \in Quotes)
    BY <1>3
  <2>4. Kind(t, k + 1) \in Modes
    BY KindIs
  <2>5. M[k + 1] \in Modes /\ (E[k + 1] => M[k + 1] \in Quotes)
    BY <2>1, <2>2, <2>3, <2>4, QuotesAreQuotes DEF Moved, Modes, Comments
  <2> QED  BY <2>1, <2>5
<1>4. 0..n \subseteq T
  <2> HIDE DEF T
  <2> QED  BY <1>1, <1>2, <1>3, UpToInduction
<1> QED  BY <1>4

(* Where an element begins: in the code, or at the end of a line comment.   *)
Fresh(t, M, S, i) ==
  /\ ~S[i - 1]
  /\ M[i - 1] = "code" \/ (M[i - 1] = "line" /\ (i = Len(t) + 1 \/ t[i] = "nl"))

(* A single token of code ends where it begins. *)
LEMMA CodeElement ==
  ASSUME NEW t, NEW M, NEW S, NEW E, Flow(t, M, S, E),
         NEW i \in 1..Len(t), Fresh(t, M, S, i), Kind(t, i) = "code"
  PROVE  Fresh(t, M, S, i + 1) /\ M[i] = "code" /\ LastOf(t, i) = i
<1>1. (i + 1) - 1 = i /\ Moved(t, M, S, E, i)
  BY DEF Flow
<1>2. ~S[i] /\ M[i] = "code"
  BY <1>1 DEF Moved, Fresh, Comments
<1> QED  BY <1>1, <1>2 DEF Fresh, LastOf

(* Any other element begins in the code. *)
LEMMA OtherElement ==
  ASSUME NEW t, NEW M, NEW S, NEW E, Flow(t, M, S, E),
         NEW i \in 1..Len(t), Fresh(t, M, S, i), Kind(t, i) # "code"
  PROVE  /\ ~S[i - 1] /\ M[i - 1] = "code" /\ ~E[i - 1]
         /\ M[i] = Kind(t, i) /\ (S[i] <=> Kind(t, i) \in Comments) /\ ~E[i]
<1>1. Len(t) \in Nat /\ Moved(t, M, S, E, i)
  BY DEF Flow
<1>2. t[i] # "nl"
  BY KindIs, QuotesAreQuotes
<1>3. ~S[i - 1] /\ M[i - 1] = "code"
  BY <1>1, <1>2 DEF Fresh
<1>4. ~E[i - 1]
  <2>1. i - 1 \in 0..Len(t)
    BY <1>1
  <2> QED  BY <1>3, <2>1, FlowModes, QuotesAreQuotes
<1> QED  BY <1>1, <1>3, <1>4 DEF Moved

(* A line comment ends before the new line, or with the text. *)
LEMMA LineElement ==
  ASSUME NEW t, NEW M, NEW S, NEW E, Flow(t, M, S, E),
         NEW i \in 1..Len(t), Fresh(t, M, S, i), Kind(t, i) = "line"
  PROVE  /\ LastOf(t, i) \in (i + 1)..Len(t) /\ Fresh(t, M, S, LastOf(t, i) + 1)
         /\ LastOf(t, i) < Len(t) => t[LastOf(t, i) + 1] = "nl"
         /\ \A j \in (i + 1)..LastOf(t, i) :
              S[j - 1] \/ (~S[j - 1] /\ M[j - 1] = "line" /\ t[j] # "nl")
<1> DEFINE n == Len(t)
           ends == {j \in (i + 2)..n : t[j] = "nl"}
           stop == Least(ends, n + 1)
<1>1. n \in Nat /\ i \in 1..n
  BY DEF Flow
<1>2. LastOf(t, i) = stop - 1
  BY DEF LastOf
<1>3. M[i] = "line" /\ S[i]
  BY OtherElement DEF Comments
<1>4. i + 1 \in 1..n /\ t[i + 1] = "/"
  <2>1. Some(t, i + 1) = "/"
    BY KindIs
  <2> QED  BY <2>1 DEF Some, Flow
<1>5. /\ stop \in (i + 2)..(n + 1)
      /\ stop = n + 1 \/ t[stop] = "nl"
      /\ \A j \in (i + 2)..n : j < stop => t[j] # "nl"
  <2>1. ends \subseteq Nat
    BY <1>1
  <2>2. CASE ends = {}
    <3>1. stop = n + 1
      BY <2>1, <2>2, LeastIs
    <3> QED  BY <1>1, <1>4, <2>2, <3>1
  <2>3. CASE ends # {}
    <3> HIDE DEF ends, stop
    <3>1. stop \in ends /\ \A j \in ends : stop <= j
      BY <2>1, <2>3, LeastIs DEF stop
    <3> QED  BY <1>1, <3>1 DEF ends
  <2> QED  BY <2>2, <2>3
<1> HIDE DEF ends, stop
<1> DEFINE T == {k \in (i + 1)..(stop - 1) : M[k] = "line" /\ ~S[k]}
<1>6. i + 1 \in T
  <2>1. Moved(t, M, S, E, i + 1) /\ (i + 1) - 1 = i
    BY <1>1, <1>4 DEF Flow
  <2> QED  BY <1>1, <1>3, <1>5, <2>1 DEF Moved
<1>7. ASSUME NEW k \in (i + 1)..(stop - 1), k \in T, k < stop - 1 PROVE k + 1 \in T
  <2>1. k + 1 \in 1..n /\ (k + 1) - 1 = k /\ k + 1 \in (i + 2)..n /\ k + 1 < stop
    BY <1>1, <1>5, <1>7
  <2>2. Moved(t, M, S, E, k + 1) /\ t[k + 1] # "nl"
    BY <1>5, <2>1 DEF Flow
  <2>3. M[k + 1] = "line" /\ ~S[k + 1]
    BY <1>7, <2>1, <2>2 DEF Moved
  <2> QED  BY <1>1, <1>5, <2>1, <2>3
<1>8. (i + 1)..(stop - 1) \subseteq T
  <2>1. i + 1 \in Nat /\ stop - 1 \in Nat
    BY <1>1, <1>5
  <2> HIDE DEF T
  <2> QED  BY <1>6, <1>7, <2>1, Between
<1>9. Fresh(t, M, S, stop)
  <2>1. stop - 1 \in (i + 1)..(stop - 1)
    BY <1>1, <1>5
  <2>2. M[stop - 1] = "line" /\ ~S[stop - 1]
    BY <1>8, <2>1
  <2> QED  BY <1>5, <2>2 DEF Fresh
<1>10. ASSUME NEW j \in (i + 1)..(stop - 1)
       PROVE  S[j - 1] \/ (~S[j - 1] /\ M[j - 1] = "line" /\ t[j] # "nl")
  <2>1. CASE j = i + 1
    BY <1>1, <1>3, <2>1
  <2>2. CASE j # i + 1
    <3>1. j - 1 \in (i + 1)..(stop - 1) /\ j \in (i + 2)..n /\ j < stop
      BY <1>1, <1>5, <2>2
    <3> QED  BY <1>5, <1>8, <3>1
  <2> QED  BY <2>1, <2>2
<1>11. stop - 1 \in (i + 1)..n /\ (stop - 1) + 1 = stop /\ (stop - 1 < n => t[stop] = "nl")
  BY <1>1, <1>5
<1> QED  BY <1>2, <1>9, <1>10, <1>11

(* Where a block comment is closed. *)
LEMMA BlockElement ==
  ASSUME NEW t, NEW M, NEW S, NEW E, Flow(t, M, S, E),
         NEW i \in 1..Len(t), Fresh(t, M, S, i), Kind(t, i) = "block"
  PROVE  /\ LastOf(t, i) \in (i + 1)..(Len(t) + 1)
         /\ LastOf(t, i) <= Len(t) => Fresh(t, M, S, LastOf(t, i) + 1) /\ t[LastOf(t, i)] = "/"
         /\ LastOf(t, i) > Len(t) => M[Len(t)] = "block"
         /\ \A j \in (i + 1)..LastOf(t, i) : S[j - 1] \/ (~S[j - 1] /\ M[j - 1] = "block")
<1> DEFINE n == Len(t)
           ends == {j \in (i + 3)..n : t[j - 1] = "*" /\ t[j] = "/"}
           stop == Least(ends, n + 1)
<1>1. n \in Nat /\ i \in 1..n
  BY DEF Flow
<1>2. LastOf(t, i) = stop
  BY DEF LastOf
<1>3. M[i] = "block" /\ S[i]
  BY OtherElement DEF Comments
<1>4. i + 1 \in 1..n /\ t[i + 1] = "*"
  <2>1. Some(t, i + 1) = "*"
    BY KindIs
  <2> QED  BY <2>1 DEF Some, Flow
<1>5. /\ stop \in (i + 2)..(n + 1)
      /\ stop # n + 1 => stop \in (i + 3)..n /\ t[stop - 1] = "*" /\ t[stop] = "/"
      /\ \A j \in (i + 3)..n : j < stop => ~(t[j - 1] = "*" /\ t[j] = "/")
  <2>1. ends \subseteq Nat
    BY <1>1
  <2>2. CASE ends = {}
    <3>1. stop = n + 1
      BY <2>1, <2>2, LeastIs
    <3> QED  BY <1>1, <1>4, <2>2, <3>1
  <2>3. CASE ends # {}
    <3> HIDE DEF ends, stop
    <3>1. stop \in ends /\ \A j \in ends : stop <= j
      BY <2>1, <2>3, LeastIs DEF stop
    <3> QED  BY <1>1, <3>1 DEF ends
  <2> QED  BY <2>2, <2>3
<1> HIDE DEF ends, stop
<1> DEFINE z == IF stop = n + 1 THEN n ELSE stop - 2
           T == {k \in (i + 1)..z : M[k] = "block" /\ ~S[k]}
<1>6. z \in (i + 1)..n /\ z < stop
  BY <1>1, <1>4, <1>5
<1>7. i + 1 \in T
  <2>1. Moved(t, M, S, E, i + 1) /\ (i + 1) - 1 = i
    BY <1>1, <1>4 DEF Flow
  <2>2. M[i + 1] = "block" /\ ~S[i + 1]
    BY <1>3, <2>1 DEF Moved
  <2> QED  BY <1>1, <1>6, <2>2
<1>8. ASSUME NEW k \in (i + 1)..z, k \in T, k < z PROVE k + 1 \in T
  <2>1. k + 1 \in 1..n /\ (k + 1) - 1 = k /\ ((k + 1) + 1) - 1 = k + 1
    BY <1>1, <1>6, <1>8
  <2>2. ~(t[k + 1] = "*" /\ Some(t, (k + 1) + 1) = "/")
    <3>1. CASE (k + 1) + 1 \in 1..n
      <4>1. (k + 1) + 1 \in (i + 3)..n /\ (k + 1) + 1 < stop
        BY <1>1, <1>5, <1>6, <1>8, <3>1
      <4>2. Some(t, (k + 1) + 1) = t[(k + 1) + 1]
        BY <3>1 DEF Some, Flow
      <4> QED  BY <1>5, <2>1, <4>1, <4>2
    <3>2. CASE (k + 1) + 1 \notin 1..n
      <4>1. Some(t, (k + 1) + 1) = "end"
        BY <3>2 DEF Some, Flow
      <4> QED  BY <4>1
    <3> QED  BY <3>1, <3>2
  <2>3. Moved(t, M, S, E, k + 1)
    BY <2>1 DEF Flow
  <2>4. M[k + 1] = "block" /\ ~S[k + 1]
    BY <1>8, <2>1, <2>2, <2>3 DEF Moved
  <2>5. k + 1 \in (i + 1)..z
    BY <1>1, <1>6, <1>8
  <2> QED  BY <2>4, <2>5
<1>9. (i + 1)..z \subseteq T
  <2>1. i + 1 \in Nat /\ z \in Nat
    BY <1>1, <1>6
  <2> HIDE DEF T, z
  <2> QED  BY <1>7, <1>8, <2>1, Between
<1>10. M[z] = "block" /\ ~S[z]
  <2>1. z \in (i + 1)..z
    BY <1>1, <1>6
  <2> HIDE DEF z
  <2> QED  BY <1>9, <2>1
<1>11. ASSUME stop # n + 1 PROVE M[stop - 1] = "code" /\ S[stop - 1] /\ M[stop] = "code" /\ ~S[stop]
  <2>1. /\ stop - 1 \in 1..n /\ stop \in 1..n /\ z = stop - 2 /\ (stop - 1) - 1 = stop - 2
        /\ (stop - 1) + 1 = stop
    BY <1>1, <1>5, <1>11
  <2>2. Moved(t, M, S, E, stop - 1) /\ Moved(t, M, S, E, stop)
    BY <2>1 DEF Flow
  <2>3. t[stop - 1] = "*" /\ Some(t, (stop - 1) + 1) = "/"
    BY <1>5, <1>11, <2>1 DEF Some, Flow
  <2>4. M[stop - 1] = "code" /\ S[stop - 1]
    BY <1>10, <2>1, <2>2, <2>3 DEF Moved
  <2> QED  BY <2>2, <2>4 DEF Moved
<1>12. stop <= n => Fresh(t, M, S, stop + 1) /\ t[stop] = "/"
  <2>1. (stop + 1) - 1 = stop /\ (stop <= n => stop # n + 1)
    BY <1>1, <1>5
  <2> QED  BY <1>5, <1>11, <2>1 DEF Fresh
<1>13. stop > n => M[n] = "block"
  BY <1>1, <1>5, <1>10
<1>14. ASSUME NEW j \in (i + 1)..stop PROVE S[j - 1] \/ (~S[j - 1] /\ M[j - 1] = "block")
  <2>1. CASE j = i + 1
    BY <1>1, <1>3, <2>1
  <2>2. CASE j # i + 1 /\ j - 1 <= z
    <3>1. j - 1 \in (i + 1)..z
      BY <1>1, <1>6, <2>2
    <3> HIDE DEF z
    <3> QED  BY <1>9, <3>1
  <2>3. CASE j - 1 > z
    <3>1. stop # n + 1 /\ j - 1 = stop - 1
      BY <1>1, <1>5, <2>3
    <3> QED  BY <1>11, <3>1
  <2> QED  BY <1>1, <1>6, <2>1, <2>2, <2>3
<1>15. stop \in (i + 1)..(n + 1)
  BY <1>1, <1>5
<1> QED  BY <1>2, <1>12, <1>13, <1>14, <1>15

(* Whether the next token is escaped. *)
LEMMA EscapedNext ==
  ASSUME NEW t, NEW i \in Nat
  PROVE  /\ ~Escaped(t, i, i + 1)
         /\ \A j \in Nat : j > i => (Escaped(t, i, j + 1) <=> ~Escaped(t, i, j) /\ t[j] = "\\")
<1> DEFINE R(j) == {m \in (i + 1)..(j - 1) : All(t, m, j - 1, {"\\"})}
<1>1. \A j : Escaped(t, i, j) <=> Cardinality(R(j)) % 2 = 1
  BY DEF Escaped
<1>2. ~Escaped(t, i, i + 1)
  <2>1. R(i + 1) = {}
    OBVIOUS
  <2> HIDE DEF R
  <2> QED  BY <1>1, <2>1, FS_EmptySet
<1>3. ASSUME NEW j \in Nat, j > i PROVE Escaped(t, i, j + 1) <=> ~Escaped(t, i, j) /\ t[j] = "\\"
  <2>1. IsFiniteSet(R(j)) /\ Cardinality(R(j)) \in Nat
    <3>1. IsFiniteSet((i + 1)..(j - 1))
      BY FS_Interval
    <3>2. R(j) \subseteq (i + 1)..(j - 1)
      OBVIOUS
    <3> HIDE DEF R
    <3> QED  BY <3>1, <3>2, FS_Subset, FS_CardinalityType
  <2>2. CASE t[j] = "\\"
    <3>1. R(j + 1) = R(j) \cup {j} /\ j \notin R(j)
      BY <1>3, <2>2 DEF All
    <3> HIDE DEF R
    <3>2. Cardinality(R(j + 1)) = Cardinality(R(j)) + 1
      BY <2>1, <3>1, FS_AddElement
    <3> QED  BY <1>1, <2>1, <2>2, <3>2
  <2>3. CASE t[j] # "\\"
    <3>1. R(j + 1) = {}
      BY <1>3, <2>3 DEF All
    <3> HIDE DEF R
    <3> QED  BY <1>1, <2>3, <3>1, FS_EmptySet
  <2> QED  BY <2>2, <2>3
<1> QED  BY <1>2, <1>3

(* A literal ends with the first quote of its kind that is not escaped. *)
LEMMA LiteralElement ==
  ASSUME NEW t, NEW M, NEW S, NEW E, Flow(t, M, S, E),
         NEW i \in 1..Len(t), Fresh(t, M, S, i), Kind(t, i) \in Quotes
  PROVE  /\ LastOf(t, i) \in (i + 1)..(Len(t) + 1)
         /\ LastOf(t, i) <= Len(t) =>
              Fresh(t, M, S, LastOf(t, i) + 1) /\ t[LastOf(t, i)] = Kind(t, i)
         /\ LastOf(t, i) > Len(t) => M[Len(t)] \in Quotes
         /\ \A j \in (i + 1)..LastOf(t, i) : ~S[j - 1] /\ M[j - 1] \in Quotes
<1> DEFINE n == Len(t)
           q == Kind(t, i)
           ends == {j \in (i + 1)..n : t[j] = q /\ ~Escaped(t, i, j)}
           stop == Least(ends, n + 1)
<1>1. n \in Nat /\ i \in 1..n
  BY DEF Flow
<1>2. LastOf(t, i) = stop
  BY QuotesAreQuotes DEF LastOf
<1>3. M[i] = q /\ ~S[i] /\ ~E[i]
  BY OtherElement, QuotesAreQuotes DEF Comments
<1>4. /\ stop \in (i + 1)..(n + 1)
      /\ stop # n + 1 => t[stop] = q /\ ~Escaped(t, i, stop)
      /\ \A j \in (i + 1)..n : j < stop => ~(t[j] = q /\ ~Escaped(t, i, j))
  <2>1. ends \subseteq Nat
    BY <1>1
  <2>2. CASE ends = {}
    <3>1. stop = n + 1
      BY <2>1, <2>2, LeastIs
    <3> QED  BY <1>1, <2>2, <3>1
  <2>3. CASE ends # {}
    <3> HIDE DEF ends, stop
    <3>1. stop \in ends /\ \A j \in ends : stop <= j
      BY <2>1, <2>3, LeastIs DEF stop
    <3> QED  BY <1>1, <3>1 DEF ends
  <2> QED  BY <2>2, <2>3
<1>5. q \in Quotes /\ q # "\\" /\ q # "code"
  BY QuotesAreQuotes
<1> HIDE DEF ends, stop, q
<1> DEFINE T == {k \in i..(stop - 1) : M[k] = q /\ ~S[k] /\ (E[k] <=> Escaped(t, i, k + 1))}
<1>6. i \in T
  <2>1. i \in i..(stop - 1) /\ ~Escaped(t, i, i + 1)
    BY <1>1, <1>4, EscapedNext
  <2> QED  BY <1>3, <2>1
<1>7. ASSUME NEW k \in i..(stop - 1), k \in T, k < stop - 1 PROVE k + 1 \in T
  <2>1. k + 1 \in 1..n /\ (k + 1) - 1 = k /\ k + 1 \in (i + 1)..n /\ k + 1 < stop /\ k + 1 \in i..(stop - 1)
    BY <1>1, <1>4, <1>7
  <2>2. Moved(t, M, S, E, k + 1) /\ ~(t[k + 1] = q /\ ~Escaped(t, i, k + 1))
    BY <1>4, <2>1 DEF Flow
  <2>3. M[k] = q /\ ~S[k] /\ (E[k] <=> Escaped(t, i, k + 1))
    BY <1>7
  <2>4. M[k + 1] = q /\ ~S[k + 1] /\ (E[k + 1] <=> ~E[k] /\ t[k + 1] = "\\")
    BY <1>5, <2>1, <2>2, <2>3 DEF Moved
  <2>5. Escaped(t, i, (k + 1) + 1) <=> ~Escaped(t, i, k + 1) /\ t[k + 1] = "\\"
    BY <1>1, <2>1, EscapedNext
  <2> QED  BY <2>1, <2>3, <2>4, <2>5
<1>8. i..(stop - 1) \subseteq T
  <2>1. i \in Nat /\ stop - 1 \in Nat
    BY <1>1, <1>4
  <2> HIDE DEF T
  <2> QED  BY <1>6, <1>7, <2>1, Between
<1>9. ASSUME NEW j \in (i + 1)..stop
      PROVE  ~S[j - 1] /\ M[j - 1] = q /\ (E[j - 1] <=> Escaped(t, i, j))
  <2>1. j - 1 \in i..(stop - 1) /\ (j - 1) + 1 = j
    BY <1>1, <1>4
  <2> QED  BY <1>8, <2>1
<1>10. stop > n => M[n] = q
  <2>1. ~S[stop - 1] /\ M[stop - 1] = q
    BY <1>1, <1>4, <1>9
  <2>2. stop > n => stop - 1 = n
    BY <1>1, <1>4
  <2> QED  BY <2>1, <2>2
<1>11. stop <= n => Fresh(t, M, S, stop + 1) /\ t[stop] = q
  <2> SUFFICES ASSUME stop <= n PROVE Fresh(t, M, S, stop + 1) /\ t[stop] = q
    OBVIOUS
  <2>1. stop \in 1..n /\ stop # n + 1 /\ (stop + 1) - 1 = stop /\ stop \in (i + 1)..stop
    BY <1>1, <1>4
  <2>2. ~S[stop - 1] /\ M[stop - 1] = q /\ ~E[stop - 1] /\ t[stop] = q
    BY <1>4, <1>9, <2>1
  <2>3. Moved(t, M, S, E, stop)
    BY <2>1 DEF Flow
  <2>4. M[stop] = "code" /\ ~S[stop]
    BY <1>5, <2>2, <2>3 DEF Moved
  <2> QED  BY <2>1, <2>2, <2>4 DEF Fresh
<1> QED  BY <1>1, <1>2, <1>4, <1>5, <1>9, <1>10, <1>11 DEF q

(* What the scan is before the token j of the element of i, j not its first. *)
Inside(t, M, S, i, j) ==
  /\ Kind(t, i) # "code"
  /\ Kind(t, i) = "line" => S[j - 1] \/ (~S[j - 1] /\ M[j - 1] = "line" /\ t[j] # "nl")
  /\ Kind(t, i) = "block" => S[j - 1] \/ (~S[j - 1] /\ M[j - 1] = "block")
  /\ Kind(t, i) \in Quotes => ~S[j - 1] /\ M[j - 1] \in Quotes

(* Every element begins fresh, is not fresh inside and leaves the scan fresh *)
(* behind it, or ends the text open.                                       *)
Spanned(t, M, S, i) ==
  /\ LastOf(t, i) \in i..(Len(t) + 1)
  /\ LastOf(t, i) <= Len(t) => Fresh(t, M, S, LastOf(t, i) + 1)
  /\ LastOf(t, i) > Len(t) => M[Len(t)] \in Quotes \cup {"block"}
  /\ \A j \in (i + 1)..LastOf(t, i) : Inside(t, M, S, i, j)

(* Every element does. *)
LEMMA ElementSpans ==
  ASSUME NEW t, NEW M, NEW S, NEW E, Flow(t, M, S, E), NEW i \in 1..Len(t), Fresh(t, M, S, i)
  PROVE  Spanned(t, M, S, i)
<1>1. Len(t) \in Nat
  BY DEF Flow
<1>2. CASE Kind(t, i) = "code"
  <2>1. Fresh(t, M, S, i + 1) /\ LastOf(t, i) = i
    BY <1>2, CodeElement
  <2> QED  BY <1>1, <2>1 DEF Spanned
<1>3. CASE Kind(t, i) = "line"
  <2> DEFINE z == LastOf(t, i)
  <2>1. /\ z \in (i + 1)..Len(t) /\ Fresh(t, M, S, z + 1)
        /\ \A j \in (i + 1)..z : S[j - 1] \/ (~S[j - 1] /\ M[j - 1] = "line" /\ t[j] # "nl")
    BY <1>3, LineElement
  <2>2. \A j \in (i + 1)..z : Inside(t, M, S, i, j)
    BY <1>3, <2>1, QuotesAreQuotes DEF Inside
  <2> HIDE DEF z
  <2>3. z \in i..(Len(t) + 1) /\ ~(z > Len(t))
    BY <1>1, <2>1
  <2> QED  BY <2>1, <2>2, <2>3 DEF Spanned, z
<1>4. CASE Kind(t, i) = "block"
  <2> DEFINE z == LastOf(t, i)
  <2>1. /\ z \in (i + 1)..(Len(t) + 1)
        /\ z <= Len(t) => Fresh(t, M, S, z + 1)
        /\ z > Len(t) => M[Len(t)] = "block"
        /\ \A j \in (i + 1)..z : S[j - 1] \/ (~S[j - 1] /\ M[j - 1] = "block")
    BY <1>4, BlockElement
  <2>2. \A j \in (i + 1)..z : Inside(t, M, S, i, j)
    BY <1>4, <2>1, QuotesAreQuotes DEF Inside
  <2> HIDE DEF z
  <2>3. z \in i..(Len(t) + 1)
    BY <1>1, <2>1
  <2> QED  BY <2>1, <2>2, <2>3 DEF Spanned, z
<1>5. CASE Kind(t, i) \in Quotes
  <2> DEFINE z == LastOf(t, i)
  <2>1. /\ z \in (i + 1)..(Len(t) + 1)
        /\ z <= Len(t) => Fresh(t, M, S, z + 1)
        /\ z > Len(t) => M[Len(t)] \in Quotes
        /\ \A j \in (i + 1)..z : ~S[j - 1] /\ M[j - 1] \in Quotes
    BY <1>5, LiteralElement
  <2>2. \A j \in (i + 1)..z : Inside(t, M, S, i, j)
    BY <1>5, <2>1, QuotesAreQuotes DEF Inside
  <2> HIDE DEF z
  <2>3. z \in i..(Len(t) + 1)
    BY <1>1, <2>1
  <2> QED  BY <2>1, <2>2, <2>3 DEF Spanned, z
<1> QED  BY <1>2, <1>3, <1>4, <1>5, KindIs DEF Modes, Comments

(* Inside an element nothing is fresh. *)
LEMMA InsideIsNotFresh ==
  ASSUME NEW t, NEW M, NEW S, NEW E, Flow(t, M, S, E),
         NEW i, NEW j \in 1..Len(t), Inside(t, M, S, i, j)
  PROVE  ~Fresh(t, M, S, j)
<1>1. j # Len(t) + 1
  BY DEF Flow
<1>2. Kind(t, i) \in Modes
  BY KindIs
<1> QED  BY <1>1, <1>2, QuotesAreQuotes DEF Inside, Fresh, Modes, Comments
--------------------------------------------------------------------------------
(* The elements are those that begin where the scan is fresh.              *)

(* An element ends in the text, or just behind it. *)
LEMMA LastOfRange ==
  ASSUME NEW t, Len(t) \in Nat, NEW i \in 1..Len(t) PROVE LastOf(t, i) \in i..(Len(t) + 1)
<1> DEFINE n == Len(t)
<1>1. ASSUME NEW S, S \subseteq (i + 1)..n PROVE Least(S, n + 1) \in (i + 1)..(n + 1)
  <2>1. S \subseteq Nat
    BY <1>1
  <2> DEFINE l == Least(S, n + 1)
  <2>2. CASE S = {}
    <3>1. l = n + 1
      BY <2>1, <2>2, LeastIs
    <3> HIDE DEF l
    <3>2. l \in (i + 1)..(n + 1)
      BY <3>1
    <3> QED  BY <3>2 DEF l
  <2>3. CASE S # {}
    <3>1. l \in S
      BY <2>1, <2>3, LeastIs
    <3> HIDE DEF l
    <3>2. l \in (i + 1)..(n + 1)
      BY <1>1, <3>1
    <3> QED  BY <3>2 DEF l
  <2> QED  BY <2>2, <2>3
<1> DEFINE a == {j \in (i + 2)..n : t[j] = "nl"}
           b == {j \in (i + 3)..n : t[j - 1] = "*" /\ t[j] = "/"}
           c == {j \in (i + 1)..n : t[j] = Kind(t, i) /\ ~Escaped(t, i, j)}
<1>2. a \subseteq (i + 1)..n /\ b \subseteq (i + 1)..n /\ c \subseteq (i + 1)..n
  OBVIOUS
<1>3. LastOf(t, i) = IF Kind(t, i) = "code" THEN i
                     ELSE IF Kind(t, i) = "line" THEN Least(a, n + 1) - 1
                     ELSE IF Kind(t, i) = "block" THEN Least(b, n + 1) ELSE Least(c, n + 1)
  BY DEF LastOf
<1> HIDE DEF a, b, c
<1>4. /\ Least(a, n + 1) \in (i + 1)..(n + 1) /\ Least(b, n + 1) \in (i + 1)..(n + 1)
      /\ Least(c, n + 1) \in (i + 1)..(n + 1)
  BY <1>1, <1>2
<1> QED  BY <1>3, <1>4

At(t, i) == [kind |-> Kind(t, i), first |-> i, last |-> LastOf(t, i)]

(* The recursion of Elements exists. *)
LEMMA ElementsRun ==
  ASSUME NEW t, Len(t) \in Nat
  PROVE  \E f : /\ Elements(t) = f[1]
                /\ f[Len(t) + 1] = {} /\ f[Len(t) + 2] = {}
                /\ \A i \in 1..Len(t) : f[i] = {At(t, i)} \cup f[LastOf(t, i) + 1]
<1> DEFINE n == Len(t)
           A == {At(t, i) : i \in 1..n}
           V == SUBSET A
           Step(k, f) == IF k > n THEN {} ELSE {At(t, k)} \cup f[LastOf(t, k) + 1]
           step == [k \in 1..(n + 2) |-> [f \in [1..(n + 2) -> V] |-> Step(k, f)]]
           from == CHOOSE f : f = [k \in 1..(n + 2) |-> Step(k, f)]
<1>0. n \in Nat /\ n + 2 \in Nat /\ n + 2 > 0
  OBVIOUS
<1>1. \A k \in 1..(n + 2) : ~(k > n) => k \in 1..n
  OBVIOUS
<1>2. \A k \in 1..n : LastOf(t, k) + 1 \in 1..(n + 2) /\ k < LastOf(t, k) + 1 /\ ~(k > n) /\ At(t, k) \in A
  <2>1. ASSUME NEW k \in 1..n PROVE LastOf(t, k) \in k..(n + 1)
    BY LastOfRange
  <2>2. \A k \in 1..n : At(t, k) \in A
    OBVIOUS
  <2> HIDE DEF n, A
  <2>3. ASSUME NEW k \in 1..n PROVE LastOf(t, k) + 1 \in 1..(n + 2) /\ k < LastOf(t, k) + 1 /\ ~(k > n)
    BY <1>0, <2>1
  <2> QED  BY <2>2, <2>3
<1> HIDE DEF A
<1>3. n + 2 \in Nat /\ n + 2 > 0 /\ V # {}
  BY Zenon, <1>0
<1>4. step \in [1..(n + 2) -> [[1..(n + 2) -> V] -> V]]
  <2>1. ASSUME NEW k \in 1..(n + 2), NEW f \in [1..(n + 2) -> V] PROVE Step(k, f) \in V
    BY <1>1, <1>2
  <2> HIDE DEF Step
  <2> QED  BY <2>1
<1>5. ASSUME NEW k \in 1..(n + 2), NEW f \in [1..(n + 2) -> V], NEW h \in [1..(n + 2) -> V],
             \A j \in 1..(n + 2) : k < j => f[j] = h[j]
      PROVE  step[k][f] = step[k][h]
  <2>1. Step(k, f) = Step(k, h)
    BY <1>1, <1>2, <1>5
  <2> HIDE DEF Step
  <2> QED  BY <2>1
<1> HIDE DEF step
<1>6. PICK g : g \in [1..(n + 2) -> V] /\ \A k \in 1..(n + 2) : g[k] = step[k][g]
  <2> HIDE DEF V, n
  <2>1. Backward(n + 2, V, step)
    BY <1>3, <1>4, <1>5 DEF Backward
  <2>2. \E g : Solves(g, 1..(n + 2), V, step)
    BY <2>1, RecursionDown
  <2> QED  BY <2>2 DEF Solves
<1>7. g = [k \in 1..(n + 2) |-> Step(k, g)]
  <2>1. \A k \in 1..(n + 2) : step[k][g] = Step(k, g)
    BY <1>6 DEF step
  <2> HIDE DEF Step
  <2> QED  BY <1>6, <2>1
<1>8. from = [k \in 1..(n + 2) |-> Step(k, from)]
  <2> HIDE DEF Step
  <2> QED  BY <1>7
<1>9. Elements(t) = from[1]
  BY DEF Elements, At
<1> HIDE DEF from
<1>10. \A k \in 1..(n + 2) : from[k] = Step(k, from)
  <2> HIDE DEF Step
  <2> QED  BY <1>8
<1>11. from[n + 1] = {} /\ from[n + 2] = {}
  <2>1. n + 1 \in 1..(n + 2) /\ n + 2 \in 1..(n + 2) /\ n + 1 > n /\ n + 2 > n
    OBVIOUS
  <2> QED  BY <1>10, <2>1
<1>12. \A i \in 1..n : from[i] = {At(t, i)} \cup from[LastOf(t, i) + 1]
  <2>1. \A i \in 1..n : i \in 1..(n + 2) /\ ~(i > n)
    OBVIOUS
  <2> QED  BY <1>10, <2>1
<1> QED  BY <1>9, <1>11, <1>12

Starts(t, M, S) == {i \in 1..Len(t) : Fresh(t, M, S, i)}

(* What an element covers, in numbers. *)
LEMMA SpanOf ==
  ASSUME NEW t, NEW M, NEW S, NEW E, Flow(t, M, S, E), NEW i \in Starts(t, M, S)
  PROVE  /\ i \in 1..Len(t) /\ LastOf(t, i) \in i..(Len(t) + 1)
         /\ LastOf(t, i) < Len(t) => LastOf(t, i) + 1 \in Starts(t, M, S)
         /\ LastOf(t, i) > Len(t) => M[Len(t)] \in Quotes \cup {"block"}
         /\ \A j \in Starts(t, M, S) : i < j => LastOf(t, i) < j
<1>1. i \in 1..Len(t) /\ Fresh(t, M, S, i) /\ Len(t) \in Nat
  BY DEF Starts, Flow
<1>2. Spanned(t, M, S, i)
  BY <1>1, ElementSpans
<1> DEFINE z == LastOf(t, i)  n == Len(t)
<1>3. /\ z \in i..(n + 1) /\ (z <= n => Fresh(t, M, S, z + 1))
      /\ z > n => M[n] \in Quotes \cup {"block"}
      /\ \A j \in (i + 1)..z : Inside(t, M, S, i, j)
  BY <1>2 DEF Spanned
<1>4. ASSUME NEW j \in Starts(t, M, S), i < j PROVE z < j
  <2>1. j \in 1..n /\ Fresh(t, M, S, j)
    BY DEF Starts
  <2>2. ASSUME j \in (i + 1)..z PROVE FALSE
    BY <1>3, <2>1, <2>2, InsideIsNotFresh
  <2> HIDE DEF z, n
  <2> QED  BY <1>1, <1>3, <1>4, <2>1, <2>2 DEF n
<1>5. z < n => z + 1 \in Starts(t, M, S)
  <2>1. z < n => z <= n /\ z + 1 \in 1..n
    BY <1>1, <1>3
  <2> HIDE DEF z
  <2> QED  BY <1>3, <2>1 DEF Starts
<1> QED  BY <1>1, <1>3, <1>4, <1>5

(* Elements are those of the scan. *)
LEMMA ElementsAre ==
  ASSUME NEW t, NEW M, NEW S, NEW E, Flow(t, M, S, E)
  PROVE  Elements(t) = {At(t, i) : i \in Starts(t, M, S)}
<1> DEFINE n == Len(t)
           P == Starts(t, M, S)
           From(i) == {At(t, j) : j \in {j \in P : i <= j}}
<1>1. n \in Nat
  BY DEF Flow
<1>2. PICK f : /\ Elements(t) = f[1] /\ f[n + 1] = {} /\ f[n + 2] = {}
               /\ \A i \in 1..n : f[i] = {At(t, i)} \cup f[LastOf(t, i) + 1]
  BY <1>1, ElementsRun
<1>3. P \subseteq 1..n
  BY DEF Starts
<1>4. ASSUME NEW i \in P
      PROVE  /\ LastOf(t, i) \in i..(n + 1) /\ (LastOf(t, i) < n => LastOf(t, i) + 1 \in P)
             /\ \A j \in P : i < j => LastOf(t, i) < j
  BY SpanOf
<1> HIDE DEF P
<1> DEFINE T == {i \in 1..(n + 2) : i > n \/ i \in P => f[i] = From(i)}
<1>5. ASSUME NEW i \in 1..(n + 2), \A j \in (i + 1)..(n + 2) : j \in T PROVE i \in T
  <2>1. CASE i > n
    <3>2. \A j \in P : ~(i <= j)
      BY <1>1, <1>3, <2>1
    <3>1. i \in {n + 1, n + 2} /\ {j \in P : i <= j} = {}
      BY <1>1, <2>1, <3>2
    <3> QED  BY <1>2, <3>1
  <2>2. CASE i \in P
    <3> DEFINE z == LastOf(t, i)
    <3>1. z + 1 \in (i + 1)..(n + 2) /\ (z + 1 > n \/ z + 1 \in P)
      BY <1>1, <1>3, <1>4, <2>2
    <3>2. {j \in P : i <= j} = {i} \cup {j \in P : z + 1 <= j}
      <4>1. \A j \in P : i <= j <=> j = i \/ z + 1 <= j
        <5>1. z \in i..(n + 1) /\ (\A j \in P : i < j => z < j) /\ \A j \in P : j \in 1..n
          BY <1>3, <1>4, <2>2
        <5> HIDE DEF z
        <5> QED  BY <1>1, <5>1
      <4> QED  BY <2>2, <4>1
    <3>3. f[z + 1] = From(z + 1)
      <4>1. z + 1 \in T
        BY <1>5, <3>1
      <4> HIDE DEF z, From
      <4> QED  BY <3>1, <4>1
    <3>4. f[i] = {At(t, i)} \cup f[z + 1]
      BY <1>2, <1>3, <2>2
    <3> HIDE DEF z
    <3>5. From(i) = {At(t, i)} \cup From(z + 1)
      BY <3>2
    <3>6. f[i] = From(i)
      BY <3>3, <3>4, <3>5
    <3> HIDE DEF From
    <3> QED  BY <3>6
  <2> QED  BY <2>1, <2>2
<1>6. 1..(n + 2) \subseteq T
  <2>1. 1 \in Nat /\ n + 2 \in Nat
    BY <1>1
  <2> HIDE DEF T
  <2> QED  BY <1>5, <2>1, DownToInduction
<1>7. f[1] = From(1)
  <2>1. 1 \in 1..(n + 2)
    BY <1>1
  <2>2. CASE n = 0
    <3> HIDE DEF From
    <3> QED  BY <1>6, <2>1, <2>2
  <2>3. CASE n > 0
    <3>1. 1 \in P
      <4>1. 1 - 1 = 0 /\ 1 \in 1..n
        BY <1>1, <2>3
      <4> QED  BY <4>1 DEF P, Starts, Fresh, Flow
    <3> HIDE DEF From
    <3> QED  BY <1>6, <2>1, <3>1
  <2> QED  BY <1>1, <2>2, <2>3
<1>8. {j \in P : 1 <= j} = P
  <2>1. \A j \in P : 1 <= j
    BY <1>1, <1>3
  <2> QED  BY <2>1
<1>9. f[1] = {At(t, j) : j \in P}
  BY <1>7, <1>8
<1> QED  BY <1>2, <1>9 DEF P

(* Every token is in one element. *)
LEMMA Covered ==
  ASSUME NEW t, NEW M, NEW S, NEW E, Flow(t, M, S, E), NEW k \in 1..Len(t)
  PROVE  \E i \in Starts(t, M, S) :
           /\ i <= k /\ k <= LastOf(t, i)
           /\ \A j \in Starts(t, M, S) : j <= k /\ k <= LastOf(t, j) => j = i
<1> DEFINE n == Len(t)
           P == Starts(t, M, S)
           before == {i \in P : i <= k}
<1>1. n \in Nat /\ k \in 1..n
  BY DEF Flow
<1>2. P \subseteq 1..n
  BY DEF Starts
<1>3. ASSUME NEW i \in P
      PROVE  /\ LastOf(t, i) \in i..(n + 1) /\ (LastOf(t, i) < n => LastOf(t, i) + 1 \in P)
             /\ \A j \in P : i < j => LastOf(t, i) < j
  BY SpanOf
<1>4. 1 \in P
  <2>1. 1 - 1 = 0 /\ 1 \in 1..n
    BY <1>1
  <2> QED  BY <2>1 DEF Starts, Fresh, Flow
<1> HIDE DEF P
<1>5. before # {} /\ before \subseteq 0..n
  <2>1. 1 \in before
    BY <1>1, <1>4
  <2>2. \A i \in P : i \in 0..n
    BY <1>1, <1>2
  <2> QED  BY <2>1, <2>2
<1>6. PICK i \in before : \A j \in before : j <= i
  <2> HIDE DEF before
  <2> QED  BY <1>1, <1>5, GreatestNatural
<1>7. i \in P /\ i <= k
  BY <1>6
<1>8. k <= LastOf(t, i)
  <2> SUFFICES ASSUME ~(k <= LastOf(t, i)) PROVE FALSE
    OBVIOUS
  <2> DEFINE z == LastOf(t, i)
  <2>1. z \in i..(n + 1) /\ (z < n => z + 1 \in P) /\ ~(k <= z)
    BY <1>3, <1>7
  <2> HIDE DEF z
  <2>2. z < n /\ z + 1 <= k /\ z + 1 > i
    BY <1>1, <1>2, <1>7, <2>1
  <2>3. z + 1 \in before
    BY <2>1, <2>2
  <2> QED  BY <1>1, <1>2, <1>6, <1>7, <2>1, <2>2, <2>3
<1>9. ASSUME NEW j \in P, j <= k, k <= LastOf(t, j) PROVE j = i
  <2>1. j <= i
    BY <1>6, <1>9
  <2>2. j < i => LastOf(t, j) < i
    BY <1>3, <1>7
  <2>3. LastOf(t, j) \in j..(n + 1) /\ j \in 1..n /\ i \in 1..n
    BY <1>2, <1>3, <1>7
  <2> DEFINE z == LastOf(t, j)
  <2> HIDE DEF z
  <2>4. z \in j..(n + 1) /\ (j < i => z < i) /\ k <= z
    BY <1>9, <2>2, <2>3 DEF z
  <2> QED  BY <1>1, <1>7, <2>1, <2>3, <2>4
<1> QED  BY <1>7, <1>8, <1>9 DEF P

(* A text that ends inside a literal or a block comment has an open element. *)
LEMMA UnclosedIs ==
  ASSUME NEW t, NEW M, NEW S, NEW E, Flow(t, M, S, E)
  PROVE  Unclosed(t) <=> M[Len(t)] \in Quotes \cup {"block"}
<1> DEFINE n == Len(t)
           P == Starts(t, M, S)
<1>1. n \in Nat
  BY DEF Flow
<1>2. Unclosed(t) <=> \E i \in P : LastOf(t, i) > n
  <2>1. Elements(t) = {At(t, i) : i \in P}
    BY ElementsAre
  <2>2. \A i : At(t, i).last = LastOf(t, i)
    BY DEF At
  <2> HIDE DEF P
  <2> QED  BY <2>1, <2>2 DEF Unclosed
<1>3. ASSUME NEW i \in P, LastOf(t, i) > n PROVE M[n] \in Quotes \cup {"block"}
  BY <1>3, SpanOf
<1>4. ASSUME M[n] \in Quotes \cup {"block"} PROVE \E i \in P : LastOf(t, i) > n
  <2>1. n # 0
    BY <1>4, QuotesAreQuotes DEF Flow
  <2>2. n \in 1..n
    BY <1>1, <2>1
  <2>3. PICK i \in P : i <= n /\ n <= LastOf(t, i)
    BY <2>2, Covered
  <2>4. i \in 1..n /\ Fresh(t, M, S, i)
    BY <2>3 DEF Starts
  <2>5. Spanned(t, M, S, i)
    BY <2>4, ElementSpans
  <2>6. LastOf(t, i) # n
    <3>1. SUFFICES ASSUME LastOf(t, i) = n PROVE FALSE
      OBVIOUS
    <3>2. Fresh(t, M, S, n + 1) /\ (n + 1) - 1 = n
      BY <1>1, <2>5, <3>1 DEF Spanned
    <3> QED  BY <1>4, <3>2, QuotesAreQuotes DEF Fresh
  <2>7. LastOf(t, i) \in i..(n + 1)
    BY <2>5 DEF Spanned
  <2> DEFINE z == LastOf(t, i)
  <2> HIDE DEF z
  <2>8. z \in i..(n + 1) /\ z # n /\ n <= z /\ i \in 1..n
    BY <2>3, <2>4, <2>6, <2>7 DEF z
  <2>9. z > n
    BY <1>1, <2>8
  <2> QED  BY <2>3, <2>9 DEF z
<1> QED  BY <1>2, <1>3, <1>4
--------------------------------------------------------------------------------
(* The tokens of code, counted.                                            *)

(* The code of a text is where a scan meets it. *)
LEMMA CodeIs ==
  ASSUME NEW t, NEW M, NEW S, NEW E, Flow(t, M, S, E)
  PROVE  Code(t) = {i \in Starts(t, M, S) : Kind(t, i) = "code"} /\ Code(t) \subseteq 1..Len(t)
<1> DEFINE P == Starts(t, M, S)
<1>1. Elements(t) = {At(t, i) : i \in P}
  BY ElementsAre
<1>2. \A i : At(t, i).first = i /\ At(t, i).kind = Kind(t, i)
  BY DEF At
<1>3. P \subseteq 1..Len(t)
  BY DEF Starts
<1> HIDE DEF P
<1>4. Code(t) = {i \in P : Kind(t, i) = "code"}
  BY <1>1, <1>2 DEF Code
<1> QED  BY <1>3, <1>4 DEF P

(* A count is finite, and goes up by the tokens that are counted. *)
LEMMA CountNext ==
  ASSUME NEW t, Len(t) \in Nat, Code(t) \subseteq 1..Len(t), NEW c, NEW i \in 1..(Len(t) + 1)
  PROVE  /\ Count(t, i, i - 1, c) = 0
         /\ \A j \in i..Len(t) :
              Count(t, i, j, c) = Count(t, i, j - 1, c) + (IF j \in Code(t) /\ t[j] = c THEN 1 ELSE 0)
         /\ \A j \in (i - 1)..Len(t) : Count(t, i, j, c) \in Nat
<1> DEFINE n == Len(t)
           R(j) == {k \in Code(t) : i <= k /\ k <= j /\ t[k] = c}
<1>1. \A j : Count(t, i, j, c) = Cardinality(R(j))
  BY DEF Count
<1>2. ASSUME NEW j PROVE IsFiniteSet(R(j)) /\ Cardinality(R(j)) \in Nat
  <2>1. IsFiniteSet(1..n)
    BY FS_Interval
  <2>2. R(j) \subseteq 1..n
    OBVIOUS
  <2> HIDE DEF R
  <2> QED  BY <2>1, <2>2, FS_Subset, FS_CardinalityType
<1>3. Count(t, i, i - 1, c) = 0
  <2>1. R(i - 1) = {}
    OBVIOUS
  <2> HIDE DEF R
  <2> QED  BY <1>1, <2>1, FS_EmptySet
<1>4. ASSUME NEW j \in i..n
      PROVE  Count(t, i, j, c) = Count(t, i, j - 1, c) + (IF j \in Code(t) /\ t[j] = c THEN 1 ELSE 0)
  <2>1. \A k \in Code(t) : k <= j <=> k <= j - 1 \/ k = j
    OBVIOUS
  <2>2. CASE j \in Code(t) /\ t[j] = c
    <3>1. R(j) = R(j - 1) \cup {j} /\ j \notin R(j - 1)
      BY <2>1, <2>2
    <3> HIDE DEF R
    <3>2. Cardinality(R(j)) = Cardinality(R(j - 1)) + 1
      BY <1>2, <3>1, FS_AddElement
    <3> QED  BY <1>1, <2>2, <3>2
  <2>3. CASE ~(j \in Code(t) /\ t[j] = c)
    <3>1. R(j) = R(j - 1)
      BY <2>1, <2>3
    <3> HIDE DEF R
    <3> QED  BY <1>1, <1>2, <2>3, <3>1
  <2> QED  BY <2>2, <2>3
<1> HIDE DEF R
<1> QED  BY <1>1, <1>2, <1>3, <1>4

(* A count is that of two parts. *)
LEMMA CountSplit ==
  ASSUME NEW t, Len(t) \in Nat, Code(t) \subseteq 1..Len(t), NEW c,
         NEW p \in 1..Len(t), NEW q \in p..Len(t)
  PROVE  Count(t, 1, q, c) = Count(t, 1, p - 1, c) + Count(t, p, q, c)
<1> DEFINE n == Len(t)
           T == {j \in (p - 1)..n : Count(t, 1, j, c) = Count(t, 1, p - 1, c) + Count(t, p, j, c)}
<1>1. /\ \A j \in 1..n : Count(t, 1, j, c) = Count(t, 1, j - 1, c) + (IF j \in Code(t) /\ t[j] = c THEN 1 ELSE 0)
      /\ \A j \in 0..n : Count(t, 1, j, c) \in Nat
  <2>1. 1 \in 1..(n + 1) /\ 1 - 1 = 0
    OBVIOUS
  <2> QED  BY <2>1, CountNext
<1>2. /\ Count(t, p, p - 1, c) = 0
      /\ \A j \in p..n : Count(t, p, j, c) = Count(t, p, j - 1, c) + (IF j \in Code(t) /\ t[j] = c THEN 1 ELSE 0)
      /\ \A j \in (p - 1)..n : Count(t, p, j, c) \in Nat
  <2>1. p \in 1..(n + 1)
    OBVIOUS
  <2> QED  BY <2>1, CountNext
<1>3. p - 1 \in T
  <2>1. p - 1 \in 0..n /\ p - 1 \in (p - 1)..n
    OBVIOUS
  <2>2. Count(t, 1, p - 1, c) \in Nat /\ Count(t, p, p - 1, c) = 0
    BY <1>1, <1>2, <2>1
  <2>3. Count(t, 1, p - 1, c) = Count(t, 1, p - 1, c) + Count(t, p, p - 1, c)
    BY <2>2
  <2> QED  BY <2>1, <2>3
<1>4. ASSUME NEW j \in (p - 1)..n, j \in T, j < n PROVE j + 1 \in T
  <2>1. j + 1 \in p..n /\ j + 1 \in 1..n /\ (j + 1) - 1 = j /\ j \in 0..n /\ p - 1 \in 0..n
    BY <1>4
  <2> DEFINE x == IF j + 1 \in Code(t) /\ t[j + 1] = c THEN 1 ELSE 0
  <2>2. x \in Nat
    OBVIOUS
  <2>3. Count(t, 1, j + 1, c) = Count(t, 1, j, c) + x /\ Count(t, p, j + 1, c) = Count(t, p, j, c) + x
    BY <1>1, <1>2, <2>1
  <2>4. Count(t, 1, j, c) = Count(t, 1, p - 1, c) + Count(t, p, j, c)
    BY <1>4
  <2>5. Count(t, 1, p - 1, c) \in Nat /\ Count(t, p, j, c) \in Nat
    BY <1>1, <1>2, <2>1
  <2> HIDE DEF x
  <2>6. Count(t, 1, j + 1, c) = Count(t, 1, p - 1, c) + Count(t, p, j + 1, c)
    BY <2>2, <2>3, <2>4, <2>5
  <2> QED  BY <2>1, <2>6
<1>5. (p - 1)..n \subseteq T
  <2>1. p - 1 \in Nat /\ n \in Nat
    OBVIOUS
  <2> HIDE DEF T
  <2> QED  BY <1>3, <1>4, <2>1, Between
<1>6. q \in T
  <2> HIDE DEF T
  <2> QED  BY <1>5
<1> QED  BY <1>6

(* The brackets: none is one of the other characters, and none closes itself. *)
LEMMA BracketsAreBrackets ==
  /\ \A b \in Openers : b \notin {"/", "nl"} /\ Closer[b] \notin {"/", "nl"} /\ b # Closer[b]
  /\ \A b \in Openers : b \notin Quotes /\ Closer[b] \notin Quotes
  BY Zenon DEF Openers, Closer, Quotes
--------------------------------------------------------------------------------
(* hasUnclosedBrace.                                                       *)

BraceStates == [mode: Modes, skip: BOOLEAN, escaped: BOOLEAN, depth: [Openers -> Int]]

(* A step leads to a state. *)
LEMMA BraceStepStates ==
  ASSUME NEW st \in BraceStates, NEW c, NEW n PROVE BraceStep(st, c, n) \in BraceStates
<1>1. st.mode \in Modes /\ st.depth \in [Openers -> Int]
  BY DEF BraceStates
<1>2. Opens(c, n) \in Modes
  BY DEF Opens, Modes, Comments
<1>3. Counted(st.depth, c) \in [Openers -> Int]
  BY <1>1 DEF Counted
<1>4. "code" \in Modes
  BY DEF Modes
<1>5. CASE st.skip
  BY <1>5 DEF BraceStep, BraceStates
<1>6. CASE ~st.skip /\ st.mode = "line"
  BY <1>4, <1>6, QuotesAreQuotes DEF BraceStep, BraceStates
<1>7. CASE ~st.skip /\ st.mode = "block"
  BY <1>4, <1>7, QuotesAreQuotes DEF BraceStep, BraceStates
<1>8. CASE ~st.skip /\ st.mode \in Quotes
  BY <1>4, <1>8, QuotesAreQuotes DEF BraceStep, BraceStates, InLiteral
<1>9. CASE ~st.skip /\ st.mode = "code"
  <2> DEFINE o == Opens(c, n)
             s == o \in {"line", "block"}
             d == Counted(st.depth, c)
  <2>1. BraceStep(st, c, n) = [st EXCEPT !.mode = o, !.skip = s, !.depth = d]
    BY <1>9, QuotesAreQuotes DEF BraceStep
  <2>2. o \in Modes /\ s \in BOOLEAN /\ d \in [Openers -> Int]
    BY <1>2, <1>3
  <2> HIDE DEF o, s, d
  <2>3. [st EXCEPT !.mode = o, !.skip = s, !.depth = d] \in BraceStates
    BY <2>2 DEF BraceStates
  <2> QED  BY <2>1, <2>3
<1> QED  BY <1>1, <1>5, <1>6, <1>7, <1>8, <1>9 DEF Modes, Comments

(* Its flags are those of a scan, and it counts the brackets of the code.   *)
BraceMoves(st, new, c, n) ==
  /\ st.skip => new.mode = st.mode /\ ~new.skip /\ (new.escaped <=> st.escaped) /\ new.depth = st.depth
  /\ ~st.skip /\ st.mode = "code" =>
       /\ new.mode = Opens(c, n) /\ (new.skip <=> Opens(c, n) \in Comments)
       /\ (new.escaped <=> st.escaped) /\ new.depth = Counted(st.depth, c)
  /\ ~st.skip /\ st.mode = "line" =>
       /\ new.mode = (IF c = "nl" THEN "code" ELSE "line") /\ ~new.skip
       /\ (new.escaped <=> st.escaped) /\ new.depth = st.depth
  /\ ~st.skip /\ st.mode = "block" =>
       /\ IF c = "*" /\ n = "/" THEN new.mode = "code" /\ new.skip ELSE new.mode = "block" /\ ~new.skip
       /\ (new.escaped <=> st.escaped) /\ new.depth = st.depth
  /\ ~st.skip /\ st.mode \in Quotes =>
       /\ new.mode = (IF ~st.escaped /\ c = st.mode THEN "code" ELSE st.mode)
       /\ ~new.skip /\ (new.escaped <=> ~st.escaped /\ c = "\\") /\ new.depth = st.depth

(* Every step does that. *)
LEMMA BraceStepMoves ==
  ASSUME NEW st \in BraceStates, NEW c, NEW n PROVE BraceMoves(st, BraceStep(st, c, n), c, n)
<1>1. CASE st.skip
  BY <1>1 DEF BraceStep, BraceStates, BraceMoves
<1>2. CASE ~st.skip /\ st.mode = "code"
  BY <1>2, QuotesAreQuotes DEF BraceStep, BraceStates, BraceMoves, Comments
<1>3. CASE ~st.skip /\ st.mode = "line"
  BY <1>3, QuotesAreQuotes DEF BraceStep, BraceStates, BraceMoves, Comments
<1>4. CASE ~st.skip /\ st.mode = "block"
  BY <1>4, QuotesAreQuotes DEF BraceStep, BraceStates, BraceMoves, Comments
<1>5. CASE ~st.skip /\ st.mode \in Quotes
  BY <1>5, QuotesAreQuotes DEF BraceStep, BraceStates, BraceMoves, InLiteral
<1> QED  BY <1>1, <1>2, <1>3, <1>4, <1>5 DEF BraceStates, Modes, Comments

BraceStart == [mode |-> "code", skip |-> FALSE, escaped |-> FALSE, depth |-> [b \in Openers |-> 0]]

(* The states of the pass over t. *)
BraceRun(t, g) ==
  /\ g \in [0..Len(t) -> BraceStates] /\ g[0] = BraceStart
  /\ \A k \in 1..Len(t) : g[k] = BraceStep(g[k - 1], t[k], Some(t, k + 1))

(* The pass exists. *)
LEMMA BraceRuns ==
  ASSUME NEW t, Len(t) \in Nat PROVE \E g : BraceRun(t, g) /\ BraceScan(t) = g[Len(t)]
<1> DEFINE n == Len(t)
           V == BraceStates
           Step(k, f) == IF k = 0 THEN BraceStart ELSE BraceStep(f[k - 1], t[k], Some(t, k + 1))
           step == [k \in 0..n |-> [f \in [0..n -> V] |-> Step(k, f)]]
           upTo == CHOOSE f : f = [k \in 0..n |-> Step(k, f)]
<1>0. n \in Nat
  OBVIOUS
<1>1. BraceStart \in V
  BY DEF BraceStart, BraceStates, Modes
<1>2. \A k \in 0..n : k # 0 => k - 1 \in 0..n /\ k - 1 < k
  OBVIOUS
<1> HIDE DEF V, n
<1>3. step \in [0..n -> [[0..n -> V] -> V]]
  <2>1. ASSUME NEW k \in 0..n, NEW f \in [0..n -> V] PROVE Step(k, f) \in V
    <3>1. CASE k = 0
      BY <1>1, <3>1
    <3>2. CASE k # 0
      <4>1. f[k - 1] \in V
        BY <1>2, <3>2
      <4> QED  BY <3>2, <4>1, BraceStepStates DEF V
    <3> QED  BY <3>1, <3>2
  <2> HIDE DEF Step
  <2> QED  BY <2>1
<1>4. ASSUME NEW k \in 0..n, NEW f \in [0..n -> V], NEW h \in [0..n -> V],
             \A j \in 0..n : j < k => f[j] = h[j]
      PROVE  step[k][f] = step[k][h]
  <2>1. Step(k, f) = Step(k, h)
    BY <1>2, <1>4
  <2> HIDE DEF Step
  <2> QED  BY <2>1
<1> HIDE DEF step
<1>5. PICK g : g \in [0..n -> V] /\ \A k \in 0..n : g[k] = step[k][g]
  <2>1. Forward(n, V, step)
    BY <1>0, <1>1, <1>3, <1>4 DEF Forward
  <2>2. \E g : Solves(g, 0..n, V, step)
    BY <2>1, Recursion
  <2> QED  BY <2>2 DEF Solves
<1>6. g = [k \in 0..n |-> Step(k, g)]
  <2>1. \A k \in 0..n : step[k][g] = Step(k, g)
    BY <1>5 DEF step
  <2> HIDE DEF Step
  <2> QED  BY <1>5, <2>1
<1>7. upTo = [k \in 0..n |-> Step(k, upTo)]
  <2> HIDE DEF Step
  <2> QED  BY <1>6
<1>8. BraceScan(t) = upTo[n]
  BY DEF BraceScan, n, BraceStart
<1> HIDE DEF upTo
<1>9. \A k \in 0..n : upTo[k] = Step(k, upTo)
  <2> HIDE DEF Step
  <2> QED  BY <1>7
<1> DEFINE T == {k \in 0..n : upTo[k] \in V}
<1>10. 0..n \subseteq T
  <2>1. 0 \in T
    BY <1>0, <1>1, <1>9
  <2>2. ASSUME NEW k \in 0..n, k \in T, k < n PROVE k + 1 \in T
    <3>1. k + 1 \in 0..n /\ k + 1 # 0 /\ (k + 1) - 1 = k
      BY <1>0, <2>2
    <3>2. upTo[k + 1] = BraceStep(upTo[k], t[k + 1], Some(t, (k + 1) + 1))
      BY <1>9, <3>1
    <3>3. upTo[k + 1] \in V
      BY <2>2, <3>2, BraceStepStates DEF V
    <3> QED  BY <3>1, <3>3
  <2> HIDE DEF T
  <2> QED  BY <1>0, <2>1, <2>2, UpToInduction
<1>11. upTo \in [0..n -> V]
  <2> HIDE DEF Step
  <2> QED  BY <1>7, <1>10
<1>12. /\ upTo[0] = BraceStart
       /\ \A k \in 1..n : upTo[k] = BraceStep(upTo[k - 1], t[k], Some(t, k + 1))
  <2>1. 0 \in 0..n /\ \A k \in 1..n : k \in 0..n /\ k # 0
    BY <1>0
  <2> QED  BY <1>9, <2>1
<1>13. BraceRun(t, upTo)
  BY <1>11, <1>12 DEF BraceRun, n, V
<1> QED  BY <1>8, <1>13 DEF n

BraceMode(g, n) == [k \in 0..n |-> g[k].mode]
BraceSkip(g, n) == [k \in 0..n |-> g[k].skip]
BraceEscaped(g, n) == [k \in 0..n |-> g[k].escaped]

(* Its flags are a scan. *)
LEMMA BraceFlows ==
  ASSUME NEW t, Len(t) \in Nat, DOMAIN t = 1..Len(t), NEW g, BraceRun(t, g)
  PROVE  Flow(t, BraceMode(g, Len(t)), BraceSkip(g, Len(t)), BraceEscaped(g, Len(t)))
<1> DEFINE n == Len(t)
           M == BraceMode(g, n)
           S == BraceSkip(g, n)
           E == BraceEscaped(g, n)
<1>1. \A k \in 0..n : M[k] = g[k].mode /\ S[k] = g[k].skip /\ E[k] = g[k].escaped
  BY DEF BraceMode, BraceSkip, BraceEscaped
<1> HIDE DEF M, S, E
<1>2. M[0] = "code" /\ ~S[0] /\ ~E[0]
  BY <1>1 DEF BraceRun, BraceStart
<1>3. ASSUME NEW k \in 1..n PROVE Moved(t, M, S, E, k)
  <2>1. k \in 0..n /\ k - 1 \in 0..n
    OBVIOUS
  <2>2. g[k - 1] \in BraceStates /\ g[k] = BraceStep(g[k - 1], t[k], Some(t, k + 1))
    BY <2>1 DEF BraceRun
  <2>3. BraceMoves(g[k - 1], g[k], t[k], Some(t, k + 1))
    BY <2>2, BraceStepMoves
  <2>4. /\ M[k] = g[k].mode /\ S[k] = g[k].skip /\ E[k] = g[k].escaped
        /\ M[k - 1] = g[k - 1].mode /\ S[k - 1] = g[k - 1].skip /\ E[k - 1] = g[k - 1].escaped
    BY <1>1, <2>1
  <2>5. Kind(t, k) = Opens(t[k], Some(t, k + 1))
    BY DEF Kind
  <2> QED  BY <2>3, <2>4, <2>5, Zenon DEF Moved, BraceMoves
<1>4. Flow(t, M, S, E)
  BY <1>2, <1>3 DEF Flow
<1> QED  BY <1>4 DEF M, S, E

(* What a token does to the depth of a bracket. *)
Shift(t, k, b) ==
  (IF k \in Code(t) /\ t[k] = b THEN 1 ELSE 0) - (IF k \in Code(t) /\ t[k] = Closer[b] THEN 1 ELSE 0)

(* The pass counts the brackets of the code, and nothing else. *)
LEMMA BraceShift ==
  ASSUME NEW t, Len(t) \in Nat, DOMAIN t = 1..Len(t), NEW g, BraceRun(t, g),
         NEW k \in 1..Len(t), NEW b \in Openers
  PROVE  g[k].depth[b] = g[k - 1].depth[b] + Shift(t, k, b)
<1> DEFINE n == Len(t)
           M == BraceMode(g, n)
           S == BraceSkip(g, n)
           E == BraceEscaped(g, n)
<1>1. Flow(t, M, S, E)
  BY BraceFlows
<1>2. k \in 0..n /\ k - 1 \in 0..n
  OBVIOUS
<1>3. g[k - 1] \in BraceStates /\ g[k] = BraceStep(g[k - 1], t[k], Some(t, k + 1))
  BY <1>2 DEF BraceRun
<1>4. BraceMoves(g[k - 1], g[k], t[k], Some(t, k + 1))
  BY <1>3, BraceStepMoves
<1>5. M[k - 1] = g[k - 1].mode /\ S[k - 1] = g[k - 1].skip
  BY <1>2 DEF BraceMode, BraceSkip
<1>6. Kind(t, k) = Opens(t[k], Some(t, k + 1))
  BY DEF Kind
<1>7. k \in Code(t) <=> Fresh(t, M, S, k) /\ Kind(t, k) = "code"
  <2>1. Code(t) = {i \in Starts(t, M, S) : Kind(t, i) = "code"}
    BY <1>1, CodeIs
  <2> QED  BY <2>1 DEF Starts
<1> HIDE DEF M, S, E
<1>8. g[k - 1].depth[b] \in Int /\ g[k - 1].mode \in Modes
  BY <1>3 DEF BraceStates
<1> DEFINE x == g[k - 1].depth[b]
<1>9. CASE ~g[k - 1].skip /\ g[k - 1].mode = "code"
  <2>1. g[k].depth = Counted(g[k - 1].depth, t[k])
    BY <1>4, <1>9 DEF BraceMoves
  <2>2. g[k].depth[b] = x + (IF t[k] = b THEN 1 ELSE IF t[k] = Closer[b] THEN -1 ELSE 0)
    BY <2>1 DEF Counted
  <2>3. Fresh(t, M, S, k)
    BY <1>5, <1>9 DEF Fresh
  <2>4. k \notin Code(t) => t[k] # b /\ t[k] # Closer[b]
    BY <1>7, <2>3, KindIs, BracketsAreBrackets
  <2>5. b # Closer[b]
    BY BracketsAreBrackets
  <2> HIDE DEF x
  <2>6. g[k].depth[b] = x + Shift(t, k, b)
    BY <1>8, <2>2, <2>4, <2>5 DEF Shift, x
  <2> QED  BY <2>6 DEF x
<1>10. CASE ~(~g[k - 1].skip /\ g[k - 1].mode = "code")
  <2>1. g[k].depth = g[k - 1].depth
    BY <1>4, <1>8, <1>10 DEF BraceMoves, Modes, Comments
  <2>2. k \in Code(t) => t[k] = "nl"
    <3>1. k # n + 1
      OBVIOUS
    <3> QED  BY <1>5, <1>7, <1>10, <3>1 DEF Fresh
  <2>3. k \in Code(t) => t[k] # b /\ t[k] # Closer[b]
    BY <2>2, BracketsAreBrackets
  <2>4. Shift(t, k, b) = 0
    BY <2>3 DEF Shift
  <2> QED  BY <1>8, <2>1, <2>4
<1> QED  BY <1>9, <1>10

(* What is open after k tokens. *)
Balance(t, k, b) == Count(t, 1, k, b) - Count(t, 1, k, Closer[b])

(* It starts at nothing, and each token shifts it. *)
LEMMA BalanceNext ==
  ASSUME NEW t, Len(t) \in Nat, Code(t) \subseteq 1..Len(t), NEW b \in Openers
  PROVE  /\ Balance(t, 0, b) = 0
         /\ \A k \in 0..Len(t) : Balance(t, k, b) \in Int
         /\ \A k \in 1..Len(t) : Balance(t, k, b) = Balance(t, k - 1, b) + Shift(t, k, b)
<1> DEFINE n == Len(t)
<1>1. 1 \in 1..(n + 1) /\ 1 - 1 = 0
  OBVIOUS
<1>2. ASSUME NEW c
      PROVE  /\ Count(t, 1, 0, c) = 0
             /\ \A j \in 0..n : Count(t, 1, j, c) \in Int
             /\ \A j \in 1..n : Count(t, 1, j, c) = Count(t, 1, j - 1, c) + (IF j \in Code(t) /\ t[j] = c THEN 1 ELSE 0)
  <2>1. /\ Count(t, 1, 1 - 1, c) = 0
        /\ \A j \in 1..n : Count(t, 1, j, c) = Count(t, 1, j - 1, c) + (IF j \in Code(t) /\ t[j] = c THEN 1 ELSE 0)
        /\ \A j \in (1 - 1)..n : Count(t, 1, j, c) \in Nat
    BY <1>1, CountNext
  <2>2. \A m : m \in Nat => m \in Int
    OBVIOUS
  <2>3. \A j \in 0..n : Count(t, 1, j, c) \in Nat
    BY <1>1, <2>1
  <2> QED  BY <1>1, <2>1, <2>2, <2>3
<1>3. ASSUME NEW k \in 1..n PROVE Balance(t, k, b) = Balance(t, k - 1, b) + Shift(t, k, b)
  <2>1. k \in 0..n /\ k - 1 \in 0..n
    OBVIOUS
  <2> DEFINE x == IF k \in Code(t) /\ t[k] = b THEN 1 ELSE 0
             y == IF k \in Code(t) /\ t[k] = Closer[b] THEN 1 ELSE 0
  <2>2. x \in Int /\ y \in Int /\ Shift(t, k, b) = x - y
    BY DEF Shift
  <2>3. /\ Count(t, 1, k, b) = Count(t, 1, k - 1, b) + x
        /\ Count(t, 1, k, Closer[b]) = Count(t, 1, k - 1, Closer[b]) + y
    BY <1>2
  <2>4. Count(t, 1, k - 1, b) \in Int /\ Count(t, 1, k - 1, Closer[b]) \in Int
    BY <1>2, <2>1
  <2> HIDE DEF x, y
  <2> QED  BY <2>2, <2>3, <2>4 DEF Balance
<1>4. Balance(t, 0, b) = 0
  BY <1>2 DEF Balance
<1>5. ASSUME NEW k \in 0..n PROVE Balance(t, k, b) \in Int
  <2>1. Count(t, 1, k, b) \in Int /\ Count(t, 1, k, Closer[b]) \in Int
    BY <1>2
  <2> QED  BY <2>1 DEF Balance
<1> QED  BY <1>3, <1>4, <1>5

(* The pass is at this balance. *)
LEMMA BalanceIs ==
  ASSUME NEW t, Len(t) \in Nat, DOMAIN t = 1..Len(t), Code(t) \subseteq 1..Len(t),
         NEW g, BraceRun(t, g), NEW b \in Openers
  PROVE  \A k \in 0..Len(t) : g[k].depth[b] = Balance(t, k, b)
<1> DEFINE n == Len(t)
           T == {k \in 0..n : g[k].depth[b] = Balance(t, k, b)}
<1>1. 0 \in T
  <2>1. g[0].depth[b] = 0 /\ Balance(t, 0, b) = 0
    BY BalanceNext DEF BraceRun, BraceStart
  <2> QED  BY <2>1
<1>2. ASSUME NEW k \in 0..n, k \in T, k < n PROVE k + 1 \in T
  <2>1. k + 1 \in 1..n /\ k + 1 \in 0..n /\ (k + 1) - 1 = k
    BY <1>2
  <2>2. g[k + 1].depth[b] = g[k].depth[b] + Shift(t, k + 1, b)
    BY <2>1, BraceShift
  <2>3. Balance(t, k + 1, b) = Balance(t, k, b) + Shift(t, k + 1, b)
    BY <2>1, BalanceNext
  <2> QED  BY <1>2, <2>1, <2>2, <2>3
<1>3. 0..n \subseteq T
  <2> HIDE DEF T
  <2> QED  BY <1>1, <1>2, UpToInduction
<1> QED  BY <1>3

(* hasUnclosedBrace sees an open literal, an open block comment or a bracket *)
(* that the whole text opens more often than it closes it.                 *)
LEMMA UnclosedBraceIs ==
  ASSUME NEW t, Len(t) \in Nat, DOMAIN t = 1..Len(t)
  PROVE  /\ Code(t) \subseteq 1..Len(t)
         /\ HasUnclosedBrace(t) <=> Unclosed(t) \/ \E b \in Openers : Balance(t, Len(t), b) > 0
<1> DEFINE n == Len(t)
<1>1. PICK g : BraceRun(t, g) /\ BraceScan(t) = g[n]
  BY BraceRuns
<1> DEFINE M == BraceMode(g, n)
           S == BraceSkip(g, n)
           E == BraceEscaped(g, n)
<1>2. Flow(t, M, S, E)
  BY <1>1, BraceFlows
<1>3. Code(t) \subseteq 1..n
  BY <1>2, CodeIs
<1>4. Unclosed(t) <=> M[n] \in Quotes \cup {"block"}
  BY <1>2, UnclosedIs
<1>5. M[n] = g[n].mode /\ n \in 0..n
  BY DEF BraceMode
<1>6. \A b \in Openers : g[n].depth[b] = Balance(t, n, b)
  BY <1>1, <1>3, <1>5, BalanceIs
<1> QED  BY <1>1, <1>3, <1>4, <1>5, <1>6 DEF HasUnclosedBrace

(* The balance of a text is that of two parts. *)
LEMMA BalanceSplit ==
  ASSUME NEW t, Len(t) \in Nat, Code(t) \subseteq 1..Len(t), NEW b \in Openers,
         NEW p \in 1..Len(t), NEW q \in p..Len(t)
  PROVE  /\ Count(t, p, q, b) \in Int /\ Count(t, p, q, Closer[b]) \in Int
         /\ Balance(t, q, b) = Balance(t, p - 1, b) + (Count(t, p, q, b) - Count(t, p, q, Closer[b]))
<1> DEFINE n == Len(t)
<1>1. ASSUME NEW c
      PROVE  /\ Count(t, p, q, c) \in Int /\ Count(t, 1, p - 1, c) \in Int
             /\ Count(t, 1, q, c) = Count(t, 1, p - 1, c) + Count(t, p, q, c)
  <2>1. /\ p \in 1..(n + 1) /\ q \in (p - 1)..n /\ 1 \in 1..(n + 1)
        /\ p - 1 \in (1 - 1)..n /\ \A m : m \in Nat => m \in Int
    OBVIOUS
  <2>2. \A j \in (p - 1)..n : Count(t, p, j, c) \in Nat
    BY <2>1, CountNext
  <2>3. \A j \in (1 - 1)..n : Count(t, 1, j, c) \in Nat
    BY <2>1, CountNext
  <2>4. Count(t, p, q, c) \in Int /\ Count(t, 1, p - 1, c) \in Int
    BY <2>1, <2>2, <2>3
  <2>5. Count(t, 1, q, c) = Count(t, 1, p - 1, c) + Count(t, p, q, c)
    BY CountSplit
  <2> QED  BY <2>4, <2>5
<1>2. /\ Count(t, p, q, b) \in Int /\ Count(t, 1, p - 1, b) \in Int
      /\ Count(t, 1, q, b) = Count(t, 1, p - 1, b) + Count(t, p, q, b)
  BY <1>1
<1>3. /\ Count(t, p, q, Closer[b]) \in Int /\ Count(t, 1, p - 1, Closer[b]) \in Int
      /\ Count(t, 1, q, Closer[b]) = Count(t, 1, p - 1, Closer[b]) + Count(t, p, q, Closer[b])
  BY <1>1
<1> QED  BY <1>2, <1>3 DEF Balance

(* Where nothing is closed too early, no balance is ever negative. *)
LEMMA NoSurplusNoDebt ==
  ASSUME NEW t, Len(t) \in Nat, Code(t) \subseteq 1..Len(t), ~Surplus(t), NEW b \in Openers
  PROVE  \A q \in 0..Len(t) : Balance(t, q, b) >= 0
<1> DEFINE n == Len(t)
           debts == {q \in 0..n : Balance(t, q, b) < 0}
<1> SUFFICES ASSUME debts # {} PROVE FALSE
  BY BalanceNext
<1>1. PICK q \in debts : \A p \in debts : q <= p
  <2>1. debts \subseteq Nat
    OBVIOUS
  <2> HIDE DEF debts
  <2> QED  BY <2>1, LeastNatural
<1>2. q \in 0..n /\ Balance(t, q, b) < 0
  OBVIOUS
<1>3. ASSUME NEW p \in 0..n, p < q PROVE Balance(t, p, b) >= 0 /\ Balance(t, p, b) \in Int
  <2>1. Balance(t, p, b) \in Int /\ p \notin debts
    <3>1. q \in Int /\ p \in Int /\ ~ (q <= p)
      BY <1>2, <1>3
    <3> QED  BY <1>1, <3>1, BalanceNext
  <2> QED  BY <2>1
<1> HIDE DEF debts
<1>4. q \in 1..n /\ q - 1 \in 0..n /\ q - 1 < q
  <2>1. q # 0
    BY <1>2, BalanceNext
  <2> QED  BY <1>2, <2>1
<1>5. q \in Code(t) /\ t[q] = Closer[b]
  <2>1. Balance(t, q, b) = Balance(t, q - 1, b) + Shift(t, q, b)
    BY <1>4, BalanceNext
  <2>2. Balance(t, q - 1, b) >= 0 /\ Balance(t, q - 1, b) \in Int
    BY <1>3, <1>4
  <2>3. Shift(t, q, b) \in {-1, 0, 1} /\ (Shift(t, q, b) < 0 => q \in Code(t) /\ t[q] = Closer[b])
    BY DEF Shift
  <2>4. Shift(t, q, b) < 0
    BY <1>2, <2>1, <2>2, <2>3
  <2> QED  BY <2>3, <2>4
<1>6. ASSUME NEW p \in 1..q PROVE Count(t, p, q, Closer[b]) > Count(t, p, q, b)
  <2>1. p \in 1..n /\ q \in p..n /\ p - 1 \in 0..n /\ p - 1 < q
    BY <1>4
  <2>2. /\ Count(t, p, q, b) \in Int /\ Count(t, p, q, Closer[b]) \in Int
        /\ Balance(t, q, b) = Balance(t, p - 1, b) + (Count(t, p, q, b) - Count(t, p, q, Closer[b]))
    BY <2>1, BalanceSplit
  <2>3. Balance(t, p - 1, b) >= 0 /\ Balance(t, p - 1, b) \in Int
    BY <1>3, <2>1
  <2> QED  BY <1>2, <2>2, <2>3
<1> QED  BY <1>5, <1>6 DEF Surplus

(* A positive balance leaves a bracket open. *)
LEMMA PositiveLeavesOpen ==
  ASSUME NEW t, Len(t) \in Nat, Code(t) \subseteq 1..Len(t), NEW b \in Openers,
         Balance(t, Len(t), b) > 0
  PROVE  LeftOpen(t)
<1> DEFINE n == Len(t)
           flat == {p \in 0..n : Balance(t, p, b) <= 0}
<1>1. PICK p \in flat : \A q \in flat : q <= p
  <2>1. 0 \in flat
    BY BalanceNext
  <2>2. flat \subseteq 0..n /\ flat # {}
    BY <2>1
  <2> HIDE DEF flat
  <2> QED  BY <2>2, GreatestNatural
<1>2. p \in 0..n /\ Balance(t, p, b) <= 0
  OBVIOUS
<1>3. ASSUME NEW q \in 0..n, p < q PROVE Balance(t, q, b) > 0 /\ Balance(t, q, b) \in Int
  <2>1. Balance(t, q, b) \in Int /\ q \notin flat
    <3>1. q \in Int /\ p \in Int /\ ~ (q <= p)
      BY <1>2, <1>3
    <3> QED  BY <1>1, <3>1, BalanceNext
  <2> QED  BY <2>1
<1> HIDE DEF flat
<1>4. p + 1 \in 1..n /\ p + 1 \in 0..n /\ (p + 1) - 1 = p /\ p < p + 1
  <2>1. p # n
    BY <1>2, BalanceNext
  <2> QED  BY <1>2, <2>1
<1>5. p + 1 \in Code(t) /\ t[p + 1] = b
  <2>1. Balance(t, p + 1, b) = Balance(t, p, b) + Shift(t, p + 1, b)
    BY <1>4, BalanceNext
  <2>2. Balance(t, p, b) \in Int /\ Balance(t, p + 1, b) > 0
    BY <1>2, <1>3, <1>4, BalanceNext
  <2>3. Shift(t, p + 1, b) \in {-1, 0, 1} /\ (Shift(t, p + 1, b) > 0 => p + 1 \in Code(t) /\ t[p + 1] = b)
    BY DEF Shift
  <2>4. Shift(t, p + 1, b) > 0
    BY <1>2, <2>1, <2>2, <2>3
  <2> QED  BY <2>3, <2>4
<1>6. ASSUME NEW q \in (p + 1)..n PROVE Count(t, p + 1, q, b) > Count(t, p + 1, q, Closer[b])
  <2>1. q \in 0..n /\ p < q
    BY <1>4
  <2>2. /\ Count(t, p + 1, q, b) \in Int /\ Count(t, p + 1, q, Closer[b]) \in Int
        /\ Balance(t, q, b)
             = Balance(t, (p + 1) - 1, b) + (Count(t, p + 1, q, b) - Count(t, p + 1, q, Closer[b]))
    BY <1>4, BalanceSplit
  <2>3. Balance(t, q, b) > 0 /\ Balance(t, p, b) \in Int
    BY <1>2, <1>3, <2>1, BalanceNext
  <2> QED  BY <1>2, <1>4, <2>2, <2>3
<1> QED  BY <1>5, <1>6 DEF LeftOpen

(* An open text that closes nothing too early is incomplete. *)
LEMMA OpenIsIncomplete ==
  ASSUME NEW t, Len(t) \in Nat, DOMAIN t = 1..Len(t), ~Surplus(t), Unclosed(t) \/ LeftOpen(t)
  PROVE  IsIncomplete(t)
<1> DEFINE n == Len(t)
<1>1. /\ Code(t) \subseteq 1..n
      /\ HasUnclosedBrace(t) <=> Unclosed(t) \/ \E b \in Openers : Balance(t, n, b) > 0
  BY UnclosedBraceIs
<1>2. ASSUME LeftOpen(t) PROVE \E b \in Openers : Balance(t, n, b) > 0
  <2>1. PICK p \in Code(t) : /\ t[p] \in Openers
                             /\ \A q \in p..n : Count(t, p, q, t[p]) > Count(t, p, q, Closer[t[p]])
    BY <1>2 DEF LeftOpen
  <2>2. p \in 1..n /\ n \in p..n /\ p - 1 \in 0..n
    BY <1>1
  <2> DEFINE b == t[p]
  <2>3. b \in Openers /\ Count(t, p, n, b) > Count(t, p, n, Closer[b])
    BY <2>1, <2>2
  <2> HIDE DEF b
  <2>4. /\ Count(t, p, n, b) \in Int /\ Count(t, p, n, Closer[b]) \in Int
        /\ Balance(t, n, b) = Balance(t, p - 1, b) + (Count(t, p, n, b) - Count(t, p, n, Closer[b]))
    BY <1>1, <2>2, <2>3, BalanceSplit
  <2>5. Balance(t, p - 1, b) >= 0 /\ Balance(t, p - 1, b) \in Int
    BY <1>1, <2>2, <2>3, NoSurplusNoDebt, BalanceNext
  <2>6. Balance(t, n, b) > 0
    BY <2>3, <2>4, <2>5
  <2> QED  BY <2>3, <2>6
<1>3. HasUnclosedBrace(t)
  BY <1>1, <1>2
<1> QED  BY <1>3, Zenon DEF IsIncomplete

(* A finished statement with nothing open is complete. *)
LEMMA FinishedIsComplete ==
  ASSUME NEW t, Len(t) \in Nat, DOMAIN t = 1..Len(t), EndsStatement(t), ~Unclosed(t), ~LeftOpen(t)
  PROVE  ~IsIncomplete(t)
<1>1. /\ Code(t) \subseteq 1..Len(t)
      /\ HasUnclosedBrace(t) <=> Unclosed(t) \/ \E b \in Openers : Balance(t, Len(t), b) > 0
  BY UnclosedBraceIs
<1>2. ~HasUnclosedBrace(t)
  BY <1>1, PositiveLeavesOpen
<1> QED  BY <1>2, Zenon DEF IsIncomplete, EndsStatement
--------------------------------------------------------------------------------
(* stripCommentsAndStrings.                                                *)

(* What the text that is left is made of *)
Tokens(t) == {t[k] : k \in DOMAIN t} \cup {"sp"}
StripStates(t) == [mode: Modes, skip: BOOLEAN, escape: BOOLEAN, out: Seq(Tokens(t))]

(* What a step does: its flags are those of a scan.                         *)
StripMoves(st, new, c, n) ==
  /\ st.skip => new.mode = st.mode /\ ~new.skip /\ (new.escape <=> st.escape) /\ new.out = st.out
  /\ ~st.skip /\ st.mode = "code" =>
       /\ new.mode = Opens(c, n) /\ (new.skip <=> Opens(c, n) \in Comments)
       /\ (new.escape <=> st.escape)
       /\ Opens(c, n) \in Comments => new.out = st.out
       /\ Opens(c, n) = "code" => new.out = Append(st.out, c)
       /\ Opens(c, n) \in Quotes => new.out = Append(st.out, "sp")
  /\ ~st.skip /\ st.mode = "line" =>
       /\ new.mode = (IF c = "nl" THEN "code" ELSE "line") /\ ~new.skip
       /\ (new.escape <=> st.escape) /\ new.out = (IF c = "nl" THEN Append(st.out, c) ELSE st.out)
  /\ ~st.skip /\ st.mode = "block" =>
       /\ IF c = "*" /\ n = "/" THEN new.mode = "code" /\ new.skip ELSE new.mode = "block" /\ ~new.skip
       /\ (new.escape <=> st.escape) /\ new.out = st.out
  /\ ~st.skip /\ st.mode \in Quotes =>
       /\ new.mode = (IF ~st.escape /\ c = st.mode THEN "code" ELSE st.mode)
       /\ ~new.skip /\ (new.escape <=> ~st.escape /\ c = "\\") /\ new.out = Append(st.out, "sp")

(* Every step does that. *)
LEMMA StripStepMoves ==
  ASSUME NEW t, NEW st \in StripStates(t), NEW c, NEW n PROVE StripMoves(st, StripStep(st, c, n), c, n)
<1>1. CASE st.skip
  BY <1>1 DEF StripStep, StripStates, StripMoves
<1>2. CASE ~st.skip /\ st.mode = "code"
  <2>1. Opens(c, n) \in Quotes => Opens(c, n) \notin Comments /\ Opens(c, n) # "code"
    BY QuotesAreQuotes DEF Comments
  <2> DEFINE o == Opens(c, n)
  <2>2. StripStep(st, c, n) =
          [st EXCEPT !.mode = o, !.skip = o \in {"line", "block"},
                     !.out = IF o \in {"line", "block"} THEN @
                             ELSE Append(@, IF o = "code" THEN c ELSE "sp")]
    BY <1>2, QuotesAreQuotes DEF StripStep
  <2> HIDE DEF o
  <2>3. /\ StripStep(st, c, n).mode = o /\ (StripStep(st, c, n).skip <=> o \in Comments)
        /\ StripStep(st, c, n).escape = st.escape
        /\ StripStep(st, c, n).out = IF o \in Comments THEN st.out
                                     ELSE Append(st.out, IF o = "code" THEN c ELSE "sp")
    BY <2>2 DEF StripStates, Comments
  <2> QED  BY <1>2, <2>1, <2>3, QuotesAreQuotes DEF StripMoves, Comments, o
<1>3. CASE ~st.skip /\ st.mode = "line"
  BY <1>3, QuotesAreQuotes DEF StripStep, StripStates, StripMoves, Comments
<1>4. CASE ~st.skip /\ st.mode = "block"
  BY <1>4, QuotesAreQuotes DEF StripStep, StripStates, StripMoves, Comments
<1>5. CASE ~st.skip /\ st.mode \in Quotes
  BY <1>5, QuotesAreQuotes DEF StripStep, StripStates, StripMoves, StripLiteral
<1> QED  BY <1>1, <1>2, <1>3, <1>4, <1>5 DEF StripStates, Modes, Comments

(* A step leads to a state. *)
LEMMA StripStepStates ==
  ASSUME NEW t, NEW st \in StripStates(t), NEW c \in Tokens(t), NEW n
  PROVE  StripStep(st, c, n) \in StripStates(t)
<1>1. st.mode \in Modes /\ st.out \in Seq(Tokens(t)) /\ "sp" \in Tokens(t) /\ "code" \in Modes
  BY DEF StripStates, Tokens, Modes
<1>2. Append(st.out, c) \in Seq(Tokens(t)) /\ Append(st.out, "sp") \in Seq(Tokens(t))
  BY <1>1, AppendProperties
<1>3. Opens(c, n) \in Modes
  BY DEF Opens, Modes, Comments
<1> DEFINE C == Seq(Tokens(t))
<1> HIDE DEF C
<1>0. st.out \in C /\ Append(st.out, c) \in C /\ Append(st.out, "sp") \in C
  BY <1>1, <1>2 DEF C
<1>4. ASSUME NEW m \in Modes, NEW s \in BOOLEAN, NEW e \in BOOLEAN, NEW o \in C
      PROVE  [st EXCEPT !.mode = m, !.skip = s, !.escape = e, !.out = o] \in StripStates(t)
  BY <1>4 DEF StripStates, C
<1>5. \E m \in Modes, s \in BOOLEAN, e \in BOOLEAN, o \in C :
        StripStep(st, c, n) = [st EXCEPT !.mode = m, !.skip = s, !.escape = e, !.out = o]
  <2>1. CASE st.skip
    <3>1. StripStep(st, c, n) = [st EXCEPT !.mode = st.mode, !.skip = FALSE, !.escape = st.escape, !.out = st.out]
      BY <2>1 DEF StripStep, StripStates
    <3> QED  BY <1>0, <1>1, <3>1 DEF StripStates
  <2>2. CASE ~st.skip /\ st.mode = "line"
    <3>1. StripStep(st, c, n) =
            IF c = "nl" THEN [st EXCEPT !.mode = "code", !.skip = st.skip, !.escape = st.escape, !.out = Append(st.out, c)]
            ELSE [st EXCEPT !.mode = st.mode, !.skip = st.skip, !.escape = st.escape, !.out = st.out]
      BY <2>2, QuotesAreQuotes DEF StripStep, StripStates
    <3> QED  BY <1>0, <1>1, <3>1 DEF StripStates
  <2>3. CASE ~st.skip /\ st.mode = "block"
    <3>1. StripStep(st, c, n) =
            IF c = "*" /\ n = "/"
              THEN [st EXCEPT !.mode = "code", !.skip = TRUE, !.escape = st.escape, !.out = st.out]
            ELSE [st EXCEPT !.mode = st.mode, !.skip = st.skip, !.escape = st.escape, !.out = st.out]
      BY <2>3, QuotesAreQuotes DEF StripStep, StripStates
    <3> QED  BY <1>0, <1>1, <3>1 DEF StripStates
  <2>4. CASE ~st.skip /\ st.mode \in Quotes
    <3> DEFINE m == IF ~st.escape /\ c = st.mode THEN "code" ELSE st.mode
               e == ~st.escape /\ c = "\\"
    <3>1. StripStep(st, c, n) =
            [st EXCEPT !.mode = m, !.skip = st.skip, !.escape = e, !.out = Append(st.out, "sp")]
      BY <2>4, QuotesAreQuotes DEF StripStep, StripLiteral, StripStates
    <3>2. m \in Modes /\ e \in BOOLEAN /\ st.skip \in BOOLEAN
      BY <1>1 DEF StripStates
    <3> HIDE DEF m, e
    <3> QED  BY <1>0, <3>1, <3>2
  <2>5. CASE ~st.skip /\ st.mode = "code"
    <3> DEFINE m == Opens(c, n)
               s == m \in {"line", "block"}
               o == IF s THEN st.out ELSE Append(st.out, IF m = "code" THEN c ELSE "sp")
    <3>1. StripStep(st, c, n) = [st EXCEPT !.mode = m, !.skip = s, !.escape = st.escape, !.out = o]
      BY <2>5, QuotesAreQuotes DEF StripStep, StripStates
    <3>2. m \in Modes /\ s \in BOOLEAN /\ st.escape \in BOOLEAN /\ o \in C
      BY <1>0, <1>3 DEF StripStates
    <3> HIDE DEF m, s, o
    <3> QED  BY <3>1, <3>2
  <2> QED  BY <1>1, <2>1, <2>2, <2>3, <2>4, <2>5 DEF Modes, Comments
<1>6. PICK m \in Modes, s \in BOOLEAN, e \in BOOLEAN, o \in C :
        StripStep(st, c, n) = [st EXCEPT !.mode = m, !.skip = s, !.escape = e, !.out = o]
  BY <1>5
<1>7. [st EXCEPT !.mode = m, !.skip = s, !.escape = e, !.out = o] \in StripStates(t)
  BY <1>4
<1> QED  BY <1>6, <1>7

StripStart == [mode |-> "code", skip |-> FALSE, escape |-> FALSE, out |-> <<>>]

(* The states of the pass over t. *)
StripRun(t, g) ==
  /\ g \in [0..Len(t) -> StripStates(t)] /\ g[0] = StripStart
  /\ \A k \in 1..Len(t) : g[k] = StripStep(g[k - 1], t[k], Some(t, k + 1))

(* The pass exists. *)
LEMMA StripRuns ==
  ASSUME NEW t, Len(t) \in Nat, DOMAIN t = 1..Len(t)
  PROVE  \E g : StripRun(t, g) /\ StripCommentsAndStrings(t) = g[Len(t)].out
<1> DEFINE n == Len(t)
           V == StripStates(t)
           Step(k, f) == IF k = 0 THEN StripStart ELSE StripStep(f[k - 1], t[k], Some(t, k + 1))
           step == [k \in 0..n |-> [f \in [0..n -> V] |-> Step(k, f)]]
           upTo == CHOOSE f : f = [k \in 0..n |-> Step(k, f)]
<1>0. n \in Nat
  OBVIOUS
<1>1. StripStart \in V
  BY DEF StripStart, StripStates, Modes
<1>2. \A k \in 0..n : k # 0 => k - 1 \in 0..n /\ k - 1 < k /\ t[k] \in Tokens(t)
  BY DEF Tokens
<1> HIDE DEF V, n
<1>3. step \in [0..n -> [[0..n -> V] -> V]]
  <2>1. ASSUME NEW k \in 0..n, NEW f \in [0..n -> V] PROVE Step(k, f) \in V
    <3>1. CASE k = 0
      BY <1>1, <3>1
    <3>2. CASE k # 0
      <4>1. f[k - 1] \in V
        BY <1>2, <3>2
      <4>2. t[k] \in Tokens(t)
        BY <1>2, <3>2
      <4>3. StripStep(f[k - 1], t[k], Some(t, k + 1)) \in V
        BY <4>1, <4>2, StripStepStates DEF V
      <4> QED  BY <3>2, <4>3
    <3> QED  BY <3>1, <3>2
  <2> HIDE DEF Step
  <2> QED  BY <2>1
<1>4. ASSUME NEW k \in 0..n, NEW f \in [0..n -> V], NEW h \in [0..n -> V],
             \A j \in 0..n : j < k => f[j] = h[j]
      PROVE  step[k][f] = step[k][h]
  <2>1. Step(k, f) = Step(k, h)
    BY <1>2, <1>4
  <2> HIDE DEF Step
  <2> QED  BY <2>1
<1> HIDE DEF step
<1>5. PICK g : g \in [0..n -> V] /\ \A k \in 0..n : g[k] = step[k][g]
  <2>1. Forward(n, V, step)
    BY <1>0, <1>1, <1>3, <1>4 DEF Forward
  <2>2. \E g : Solves(g, 0..n, V, step)
    BY <2>1, Recursion
  <2> QED  BY <2>2 DEF Solves
<1>6. g = [k \in 0..n |-> Step(k, g)]
  <2>1. \A k \in 0..n : step[k][g] = Step(k, g)
    BY <1>5 DEF step
  <2> HIDE DEF Step
  <2> QED  BY <1>5, <2>1
<1>7. upTo = [k \in 0..n |-> Step(k, upTo)]
  <2> HIDE DEF Step
  <2> QED  BY <1>6
<1>8. StripCommentsAndStrings(t) = upTo[n].out
  BY DEF StripCommentsAndStrings, n, StripStart
<1> HIDE DEF upTo
<1>9. \A k \in 0..n : upTo[k] = Step(k, upTo)
  <2> HIDE DEF Step
  <2> QED  BY <1>7
<1> DEFINE T == {k \in 0..n : upTo[k] \in V}
<1>10. 0..n \subseteq T
  <2>1. 0 \in T
    BY <1>0, <1>1, <1>9
  <2>2. ASSUME NEW k \in 0..n, k \in T, k < n PROVE k + 1 \in T
    <3>1. k + 1 \in 0..n /\ k + 1 # 0 /\ (k + 1) - 1 = k
      BY <1>0, <2>2
    <3>2. upTo[k + 1] = StripStep(upTo[k], t[k + 1], Some(t, (k + 1) + 1))
      BY <1>9, <3>1
    <3>3. upTo[k + 1] \in V
      <4>1. upTo[k] \in V /\ t[k + 1] \in Tokens(t)
        BY <1>2, <2>2, <3>1
      <4>2. StripStep(upTo[k], t[k + 1], Some(t, (k + 1) + 1)) \in V
        BY <4>1, StripStepStates DEF V
      <4> QED  BY <3>2, <4>2
    <3> QED  BY <3>1, <3>3
  <2> HIDE DEF T
  <2> QED  BY <1>0, <2>1, <2>2, UpToInduction
<1>11. upTo \in [0..n -> V]
  <2> HIDE DEF Step
  <2> QED  BY <1>7, <1>10
<1>12. /\ upTo[0] = StripStart
       /\ \A k \in 1..n : upTo[k] = StripStep(upTo[k - 1], t[k], Some(t, k + 1))
  <2>1. 0 \in 0..n /\ \A k \in 1..n : k \in 0..n /\ k # 0
    BY <1>0
  <2> QED  BY <1>9, <2>1
<1>13. StripRun(t, upTo)
  BY <1>11, <1>12 DEF StripRun, n, V
<1> QED  BY <1>8, <1>13 DEF n

StripMode(g, n) == [k \in 0..n |-> g[k].mode]
StripSkip(g, n) == [k \in 0..n |-> g[k].skip]
StripEscaped(g, n) == [k \in 0..n |-> g[k].escape]

(* Its flags are a scan. *)
LEMMA StripFlows ==
  ASSUME NEW t, Len(t) \in Nat, DOMAIN t = 1..Len(t), NEW g, StripRun(t, g)
  PROVE  Flow(t, StripMode(g, Len(t)), StripSkip(g, Len(t)), StripEscaped(g, Len(t)))
<1> DEFINE n == Len(t)
           M == StripMode(g, n)
           S == StripSkip(g, n)
           E == StripEscaped(g, n)
<1>1. \A k \in 0..n : M[k] = g[k].mode /\ S[k] = g[k].skip /\ E[k] = g[k].escape
  BY DEF StripMode, StripSkip, StripEscaped
<1> HIDE DEF M, S, E
<1>2. M[0] = "code" /\ ~S[0] /\ ~E[0]
  BY <1>1 DEF StripRun, StripStart
<1>3. ASSUME NEW k \in 1..n PROVE Moved(t, M, S, E, k)
  <2>1. k \in 0..n /\ k - 1 \in 0..n
    OBVIOUS
  <2>2. g[k - 1] \in StripStates(t) /\ g[k] = StripStep(g[k - 1], t[k], Some(t, k + 1))
    BY <2>1 DEF StripRun
  <2>3. StripMoves(g[k - 1], g[k], t[k], Some(t, k + 1))
    BY <2>2, StripStepMoves
  <2>4. /\ M[k] = g[k].mode /\ S[k] = g[k].skip /\ E[k] = g[k].escape
        /\ M[k - 1] = g[k - 1].mode /\ S[k - 1] = g[k - 1].skip /\ E[k - 1] = g[k - 1].escape
    BY <1>1, <2>1
  <2>5. Kind(t, k) = Opens(t[k], Some(t, k + 1))
    BY DEF Kind
  <2> QED  BY <2>3, <2>4, <2>5, Zenon DEF Moved, StripMoves
<1>4. Flow(t, M, S, E)
  BY <1>2, <1>3 DEF Flow
<1> QED  BY <1>4 DEF M, S, E

(* The element that has the token k *)
Owner(t, k) == CHOOSE x \in Elements(t) : x.first <= k /\ k <= x.last

(* It begins where the scan is fresh, at k or before it. *)
LEMMA OwnerIs ==
  ASSUME NEW t, NEW M, NEW S, NEW E, Flow(t, M, S, E), NEW k \in 1..Len(t)
  PROVE  /\ Owner(t, k) \in Elements(t)
         /\ Owner(t, k).first \in Starts(t, M, S) /\ Owner(t, k).kind = Kind(t, Owner(t, k).first)
         /\ Owner(t, k).first # k => Inside(t, M, S, Owner(t, k).first, k)
         /\ Owner(t, k).first <= k /\ k <= LastOf(t, Owner(t, k).first)
         /\ \A j \in Starts(t, M, S) : j <= k /\ k <= LastOf(t, j) => Owner(t, k) = At(t, j)
<1> DEFINE P == Starts(t, M, S)
<1>1. PICK i \in P : /\ i <= k /\ k <= LastOf(t, i)
                     /\ \A j \in P : j <= k /\ k <= LastOf(t, j) => j = i
  BY Covered
<1>2. Elements(t) = {At(t, j) : j \in P}
  BY ElementsAre
<1>3. \A j : At(t, j).first = j /\ At(t, j).kind = Kind(t, j) /\ At(t, j).last = LastOf(t, j)
  BY DEF At
<1>4. i \in 1..Len(t) /\ Fresh(t, M, S, i)
  BY DEF Starts
<1> HIDE DEF P
<1>5. Owner(t, k) = At(t, i)
  <2>1. At(t, i) \in Elements(t) /\ At(t, i).first <= k /\ k <= At(t, i).last
    BY <1>1, <1>2, <1>3
  <2>2. ASSUME NEW x \in Elements(t), x.first <= k, k <= x.last PROVE x = At(t, i)
    <3>1. PICK j \in P : x = At(t, j)
      BY <1>2
    <3>2. j <= k /\ k <= LastOf(t, j)
      BY <1>3, <2>2, <3>1
    <3> QED  BY <1>1, <3>1, <3>2
  <2> QED  BY <2>1, <2>2 DEF Owner
<1>6. i # k => Inside(t, M, S, i, k)
  <2> SUFFICES ASSUME i # k PROVE Inside(t, M, S, i, k)
    OBVIOUS
  <2>1. Spanned(t, M, S, i)
    BY <1>4, ElementSpans
  <2>2. LastOf(t, i) \in i..(Len(t) + 1)
    BY <2>1 DEF Spanned
  <2> DEFINE z == LastOf(t, i)
  <2>3. z \in Int
    BY <1>4, <2>2
  <2> HIDE DEF z
  <2>4. k \in (i + 1)..z
    BY <1>1, <1>4, <2>3 DEF z
  <2> QED  BY <2>1, <2>4 DEF Spanned, z
<1>7. At(t, i) \in Elements(t)
  BY <1>2
<1> QED  BY <1>1, <1>3, <1>5, <1>6, <1>7 DEF P

(* Each token is kept, blanked or dropped as its element says. *)
LEMMA StripKeeps ==
  ASSUME NEW t, Len(t) \in Nat, DOMAIN t = 1..Len(t), NEW g, StripRun(t, g), NEW k \in 1..Len(t)
  PROVE  /\ Owner(t, k).kind \in Modes
         /\ Owner(t, k).kind = "code" => g[k].out = Append(g[k - 1].out, t[k])
         /\ Owner(t, k).kind \in Quotes => g[k].out = Append(g[k - 1].out, "sp")
         /\ Owner(t, k).kind \in Comments => g[k].out = g[k - 1].out
<1> DEFINE n == Len(t)
           M == StripMode(g, n)
           S == StripSkip(g, n)
           E == StripEscaped(g, n)
           i == Owner(t, k).first
<1>1. Flow(t, M, S, E)
  BY StripFlows
<1>2. k \in 0..n /\ k - 1 \in 0..n /\ k # n + 1
  OBVIOUS
<1>3. g[k - 1] \in StripStates(t) /\ g[k] = StripStep(g[k - 1], t[k], Some(t, k + 1))
  BY <1>2 DEF StripRun
<1>4. StripMoves(g[k - 1], g[k], t[k], Some(t, k + 1))
  BY <1>3, StripStepMoves
<1>5. M[k - 1] = g[k - 1].mode /\ S[k - 1] = g[k - 1].skip
  BY <1>2 DEF StripMode, StripSkip
<1>6. Kind(t, k) = Opens(t[k], Some(t, k + 1))
  BY DEF Kind
<1>7. i \in Starts(t, M, S) /\ Owner(t, k).kind = Kind(t, i) /\ (i # k => Inside(t, M, S, i, k))
  BY <1>1, OwnerIs
<1>8. Kind(t, i) \in Modes
  BY KindIs
<1>9. i \in 1..n /\ Fresh(t, M, S, i)
  BY <1>7 DEF Starts
<1> HIDE DEF M, S, E, i
<1>10. CASE i # k
  BY <1>4, <1>5, <1>7, <1>8, <1>10, QuotesAreQuotes DEF Inside, StripMoves, Modes, Comments
<1>11. CASE i = k
  <2>1. CASE Kind(t, k) = "code"
    <3>1. ~g[k - 1].skip /\ (g[k - 1].mode = "code" \/ (g[k - 1].mode = "line" /\ t[k] = "nl"))
      BY <1>2, <1>5, <1>9, <1>11 DEF Fresh
    <3>2. g[k].out = Append(g[k - 1].out, t[k])
      BY <1>4, <1>6, <2>1, <3>1 DEF StripMoves
    <3> QED  BY <1>7, <1>8, <1>11, <2>1, <3>2, QuotesAreQuotes DEF Comments
  <2>2. CASE Kind(t, k) # "code"
    <3>1. ~S[k - 1] /\ M[k - 1] = "code"
      BY <1>1, <1>9, <1>11, <2>2, OtherElement
    <3>2. /\ Kind(t, k) \in Comments => g[k].out = g[k - 1].out
          /\ Kind(t, k) \in Quotes => g[k].out = Append(g[k - 1].out, "sp")
      BY <1>4, <1>5, <1>6, <3>1 DEF StripMoves
    <3> QED  BY <1>7, <1>8, <1>11, <2>2, <3>2
  <2> QED  BY <2>1, <2>2
<1> QED  BY <1>10, <1>11

(* What the reference keeps of the first k tokens *)
Kept(t, f, k) ==
  IF k = 0 THEN <<>>
  ELSE CASE Owner(t, k).kind = "code" -> Append(f[k - 1], t[k])
         [] Owner(t, k).kind \in Quotes -> Append(f[k - 1], "sp")
         [] OTHER -> f[k - 1]

(* The text that is left is the one that the reference keeps. *)
LEMMA StripIsKept ==
  ASSUME NEW t, Len(t) \in Nat, DOMAIN t = 1..Len(t)
  PROVE  \E f : /\ f = [k \in 0..Len(t) |-> Kept(t, f, k)]
                /\ \A h : h = [k \in 0..Len(t) |-> Kept(t, h, k)] =>
                     StripCommentsAndStrings(t) = h[Len(t)]
<1> DEFINE n == Len(t)
<1>1. PICK g : StripRun(t, g) /\ StripCommentsAndStrings(t) = g[n].out
  BY StripRuns
<1>2. \A k \in 0..n : k # 0 => k \in 1..n /\ k - 1 \in 0..n
  OBVIOUS
<1>3. ASSUME NEW k \in 0..n, NEW f, k # 0 => f[k - 1] = g[k - 1].out PROVE Kept(t, f, k) = g[k].out
  <2>1. CASE k = 0
    BY <1>1, <2>1 DEF StripRun, StripStart, Kept
  <2>2. CASE k # 0
    <3>1. k \in 1..n
      BY <1>2, <2>2
    <3>2. /\ Owner(t, k).kind \in Modes
          /\ Owner(t, k).kind = "code" => g[k].out = Append(g[k - 1].out, t[k])
          /\ Owner(t, k).kind \in Quotes => g[k].out = Append(g[k - 1].out, "sp")
          /\ Owner(t, k).kind \in Comments => g[k].out = g[k - 1].out
      BY <1>1, <3>1, StripKeeps
    <3> DEFINE e == Owner(t, k).kind
    <3>3. e \in Quotes => e \notin Comments /\ e # "code"
      BY QuotesAreQuotes DEF Comments
    <3> HIDE DEF e
    <3>4. Kept(t, f, k) = CASE e = "code" -> Append(g[k - 1].out, t[k])
                            [] e \in Quotes -> Append(g[k - 1].out, "sp")
                            [] OTHER -> g[k - 1].out
      BY <1>3, <2>2 DEF Kept, e
    <3> QED  BY <3>2, <3>3, <3>4 DEF Modes, Comments, e
  <2> QED  BY <2>1, <2>2
<1> DEFINE outs == [k \in 0..n |-> g[k].out]
<1>4. \A k \in 0..n : Kept(t, outs, k) = g[k].out
  <2>1. \A k \in 0..n : k # 0 => outs[k - 1] = g[k - 1].out
    BY <1>2
  <2> HIDE DEF outs
  <2> QED  BY <1>3, <2>1
<1>5. outs = [k \in 0..n |-> Kept(t, outs, k)]
  <2> DEFINE K(k) == Kept(t, outs, k)
  <2>1. \A k \in 0..n : K(k) = g[k].out
    BY <1>4
  <2> HIDE DEF K
  <2>2. outs = [k \in 0..n |-> K(k)]
    BY <2>1
  <2> QED  BY <2>2 DEF K
<1>6. ASSUME NEW h, h = [k \in 0..n |-> Kept(t, h, k)] PROVE StripCommentsAndStrings(t) = h[n]
  <2>1. \A k \in 0..n : h[k] = Kept(t, h, k)
    <3> DEFINE K(k) == Kept(t, h, k)
    <3>1. h = [k \in 0..n |-> K(k)]
      BY <1>6
    <3> HIDE DEF K
    <3>2. \A k \in 0..n : h[k] = K(k)
      BY <3>1
    <3> QED  BY <3>2 DEF K
  <2> DEFINE T == {k \in 0..n : h[k] = g[k].out}
  <2>2. 0 \in T
    <3>1. 0 \in 0..n /\ h[0] = Kept(t, h, 0)
      BY <2>1
    <3> QED  BY <1>3, <3>1
  <2>3. ASSUME NEW k \in 0..n, k \in T, k < n PROVE k + 1 \in T
    <3>1. k + 1 \in 0..n /\ (k + 1) - 1 = k
      BY <2>3
    <3>2. h[k + 1] = Kept(t, h, k + 1) /\ h[k] = g[k].out
      BY <2>1, <2>3, <3>1
    <3>3. Kept(t, h, k + 1) = g[k + 1].out
      BY <1>3, <3>1, <3>2
    <3> QED  BY <3>1, <3>2, <3>3
  <2>4. 0..n \subseteq T
    <3> HIDE DEF T
    <3> QED  BY <2>2, <2>3, UpToInduction
  <2>5. n \in 0..n
    OBVIOUS
  <2> QED  BY <1>1, <2>4, <2>5
<1> HIDE DEF outs
<1> QED  BY <1>5, <1>6
--------------------------------------------------------------------------------
(* The text that is left, place by place.                                  *)

(* w[k] is what is left of the first k tokens. *)
Grown(t, w) ==
  /\ Len(t) \in Nat /\ DOMAIN t = 1..Len(t) /\ Code(t) \subseteq 1..Len(t)
  /\ w \in [0..Len(t) -> Seq(Tokens(t))] /\ w[0] = <<>>
  /\ \A k \in Code(t) : w[k] = Append(w[k - 1], t[k])
  /\ \A k \in 1..Len(t) : k \notin Code(t) => w[k] = w[k - 1] \/ w[k] = Append(w[k - 1], "sp")

Outs(g, n) == [k \in 0..n |-> g[k].out]

(* A token is code when its element is. *)
LEMMA CodeIsOwned ==
  ASSUME NEW t, NEW M, NEW S, NEW E, Flow(t, M, S, E), NEW k \in 1..Len(t)
  PROVE  k \in Code(t) <=> Owner(t, k).kind = "code"
<1> DEFINE i == Owner(t, k).first
<1>1. /\ i \in Starts(t, M, S) /\ Owner(t, k).kind = Kind(t, i)
      /\ i # k => Inside(t, M, S, i, k)
  BY OwnerIs
<1>2. Code(t) = {j \in Starts(t, M, S) : Kind(t, j) = "code"}
  BY CodeIs
<1>3. i # k => k \notin Starts(t, M, S) /\ Kind(t, i) # "code"
  BY <1>1, InsideIsNotFresh DEF Starts, Inside
<1> QED  BY <1>1, <1>2, <1>3

(* The pass makes such a text. *)
LEMMA StripGrows ==
  ASSUME NEW t, Len(t) \in Nat, DOMAIN t = 1..Len(t), NEW g, StripRun(t, g)
  PROVE  Grown(t, Outs(g, Len(t)))
<1> DEFINE n == Len(t)
           w == Outs(g, n)
<1>1. PICK M, S, E : Flow(t, M, S, E)
  BY StripFlows
<1>2. Code(t) \subseteq 1..n
  BY <1>1, CodeIs
<1>3. \A k \in 0..n : w[k] = g[k].out
  BY DEF Outs
<1>4. w \in [0..n -> Seq(Tokens(t))] /\ w[0] = <<>>
  BY DEF Outs, StripRun, StripStates, StripStart
<1> HIDE DEF w
<1>5. ASSUME NEW k \in 1..n
      PROVE  /\ k \in Code(t) => w[k] = Append(w[k - 1], t[k])
             /\ k \notin Code(t) => w[k] = w[k - 1] \/ w[k] = Append(w[k - 1], "sp")
  <2>1. k \in 0..n /\ k - 1 \in 0..n
    OBVIOUS
  <2>2. w[k] = g[k].out /\ w[k - 1] = g[k - 1].out
    BY <1>3, <2>1
  <2>3. k \in Code(t) <=> Owner(t, k).kind = "code"
    BY <1>1, CodeIsOwned
  <2>4. /\ Owner(t, k).kind \in Modes
        /\ Owner(t, k).kind = "code" => g[k].out = Append(g[k - 1].out, t[k])
        /\ Owner(t, k).kind \in Quotes => g[k].out = Append(g[k - 1].out, "sp")
        /\ Owner(t, k).kind \in Comments => g[k].out = g[k - 1].out
    BY StripKeeps
  <2> QED  BY <2>2, <2>3, <2>4 DEF Modes
<1>6. Grown(t, w)
  BY <1>2, <1>4, <1>5 DEF Grown
<1> QED  BY <1>6 DEF w

(* It only grows. *)
LEMMA GrownPrefix ==
  ASSUME NEW t, NEW w, Grown(t, w), NEW a \in 0..Len(t)
  PROVE  \A b \in a..Len(t) : /\ Len(w[a]) <= Len(w[b])
                              /\ \A j \in 1..Len(w[a]) : w[b][j] = w[a][j]
<1> DEFINE n == Len(t)
           C == Tokens(t)
           T == {b \in a..n : Len(w[a]) <= Len(w[b]) /\ \A j \in 1..Len(w[a]) : w[b][j] = w[a][j]}
<1>1. n \in Nat /\ \A k \in 0..n : w[k] \in Seq(C)
  BY DEF Grown
<1>2. \A k \in 0..n : Len(w[k]) \in Nat
  BY <1>1, LenProperties
<1>3. a \in T
  BY <1>1, <1>2
<1>4. ASSUME NEW b \in a..n, b \in T, b < n PROVE b + 1 \in T
  <2>1. b \in 0..n /\ b + 1 \in a..n /\ b + 1 \in 1..n /\ b + 1 \in 0..n /\ (b + 1) - 1 = b
    BY <1>1, <1>4
  <2>2. w[b + 1] = w[b] \/ \E c \in C : w[b + 1] = Append(w[b], c)
    <3>1. t[b + 1] \in C /\ "sp" \in C
      BY <2>1 DEF Tokens, Grown
    <3>2. b + 1 \in Code(t) => w[b + 1] = Append(w[(b + 1) - 1], t[b + 1])
      BY DEF Grown
    <3>3. b + 1 \notin Code(t) => w[b + 1] = w[(b + 1) - 1] \/ w[b + 1] = Append(w[(b + 1) - 1], "sp")
      BY <2>1 DEF Grown
    <3> HIDE DEF C
    <3> QED  BY <2>1, <3>1, <3>2, <3>3
  <2> DEFINE u == w[b]  v == w[b + 1]
  <2>3. Len(v) >= Len(u) /\ \A j \in 1..Len(u) : v[j] = u[j]
    <3>1. u \in Seq(C) /\ Len(u) \in Nat
      BY <1>1, <1>2, <2>1
    <3> HIDE DEF u, v, C
    <3>2. CASE v = u
      BY <3>1, <3>2
    <3>3. ASSUME NEW c \in C, v = Append(u, c) PROVE Len(v) >= Len(u) /\ \A j \in 1..Len(u) : v[j] = u[j]
      <4>1. Len(v) = Len(u) + 1 /\ \A j \in 1..Len(u) : v[j] = u[j]
        BY <3>1, <3>3, AppendProperties
      <4> QED  BY <3>1, <4>1
    <3> QED  BY <2>2, <3>2, <3>3 DEF u, v
  <2>4. Len(w[a]) \in Nat /\ Len(u) \in Nat /\ Len(v) \in Nat
    BY <1>2, <2>1
  <2>5. Len(w[a]) <= Len(u) /\ \A j \in 1..Len(w[a]) : u[j] = w[a][j]
    BY <1>4
  <2> HIDE DEF u, v
  <2>6. Len(w[a]) <= Len(v) /\ \A j \in 1..Len(w[a]) : v[j] = w[a][j]
    BY <2>3, <2>4, <2>5
  <2> QED  BY <2>1, <2>6 DEF v
<1>5. a..n \subseteq T
  <2>1. a \in Nat
    OBVIOUS
  <2> HIDE DEF T
  <2> QED  BY <1>1, <1>3, <1>4, <2>1, Between
<1> QED  BY <1>5

(* Where a token that is kept stands in it. *)
LEMMA Placed ==
  ASSUME NEW t, NEW w, Grown(t, w), NEW k \in 1..Len(t), NEW c \in Tokens(t),
         w[k] = Append(w[k - 1], c)
  PROVE  /\ Len(w[k - 1]) \in Nat /\ Len(w[k]) = Len(w[k - 1]) + 1
         /\ Len(w[k]) \in 1..Len(w[Len(t)]) /\ w[Len(t)][Len(w[k])] = c
<1> DEFINE n == Len(t)
<1>1. n \in Nat /\ k \in 0..n /\ k - 1 \in 0..n /\ n \in k..n /\ n \in 0..n
  BY DEF Grown
<1>2. w[k - 1] \in Seq(Tokens(t)) /\ w[n] \in Seq(Tokens(t))
  BY <1>1 DEF Grown
<1>3. Len(w[k - 1]) \in Nat /\ Len(w[n]) \in Nat
  BY <1>2, LenProperties
<1>4. Len(w[k]) = Len(w[k - 1]) + 1 /\ w[k][Len(w[k - 1]) + 1] = c
  BY <1>2, AppendProperties
<1>5. Len(w[k]) <= Len(w[n]) /\ \A j \in 1..Len(w[k]) : w[n][j] = w[k][j]
  BY <1>1, GrownPrefix
<1> DEFINE l == Len(w[k])
<1>6. l \in 1..l /\ l \in 1..Len(w[n])
  BY <1>3, <1>4, <1>5
<1> QED  BY <1>3, <1>4, <1>5, <1>6

(* Where a token of it comes from. *)
LEMMA Origin ==
  ASSUME NEW t, NEW w, Grown(t, w), NEW j \in 1..Len(w[Len(t)])
  PROVE  \E k \in 1..Len(t) :
           /\ Len(w[k]) = j
           /\ \/ k \in Code(t) /\ w[Len(t)][j] = t[k]
              \/ k \notin Code(t) /\ w[Len(t)][j] = "sp"
<1> DEFINE n == Len(t)
           far == {k \in 0..n : Len(w[k]) >= j}
<1>1. n \in Nat /\ n \in 0..n /\ w[0] = <<>>
  BY DEF Grown
<1>2. ASSUME NEW k \in 0..n PROVE Len(w[k]) \in Nat
  <2>1. w[k] \in Seq(Tokens(t))
    BY DEF Grown
  <2> QED  BY <2>1, LenProperties
<1>3. PICK k \in far : \A i \in far : k <= i
  <2>1. n \in far /\ far \subseteq Nat
    BY <1>1, <1>2
  <2> HIDE DEF far
  <2> QED  BY <2>1, LeastNatural
<1>4. k \in 0..n /\ Len(w[k]) >= j
  OBVIOUS
<1>5. k \in 1..n /\ k - 1 \in 0..n
  <2>1. Len(w[0]) = 0
    BY <1>1, EmptySeq
  <2>2. k # 0
    BY <1>2, <1>4, <2>1
  <2> QED  BY <1>4, <2>2
<1>6. Len(w[k - 1]) < j
  <2>1. k - 1 \notin far
    BY <1>3, <1>5
  <2>2. ~(Len(w[k - 1]) >= j)
    BY <1>5, <2>1
  <2>3. Len(w[k - 1]) \in Nat
    BY <1>2, <1>5
  <2> QED  BY <2>2, <2>3
<1> HIDE DEF far
<1>7. w[k] # w[k - 1]
  BY <1>2, <1>4, <1>5, <1>6
<1>8. t[k] \in Tokens(t) /\ "sp" \in Tokens(t)
  BY <1>5 DEF Tokens, Grown
<1>9. ASSUME NEW c \in Tokens(t), w[k] = Append(w[k - 1], c) PROVE Len(w[k]) = j /\ w[n][j] = c
  <2>1. Len(w[k]) = Len(w[k - 1]) + 1 /\ w[n][Len(w[k])] = c /\ Len(w[k - 1]) \in Nat
    BY <1>5, <1>9, Placed
  <2>2. Len(w[k]) = j
    BY <1>4, <1>6, <2>1
  <2> QED  BY <2>1, <2>2
<1>10. k \in Code(t) => w[k] = Append(w[k - 1], t[k])
  BY DEF Grown
<1>11. k \notin Code(t) => w[k] = Append(w[k - 1], "sp")
  BY <1>5, <1>7 DEF Grown
<1>12. CASE k \in Code(t)
  BY <1>5, <1>8, <1>9, <1>10, <1>12
<1>13. CASE k \notin Code(t)
  BY <1>5, <1>8, <1>9, <1>11, <1>13
<1> QED  BY <1>12, <1>13

(* No word is one of the other tokens. *)
LEMMA WordsAreWords ==
  Words \cap ({"/", "sp", "nl", "end"} \cup Quotes) = {}
  BY Zenon DEF Words, Quotes, Controls, Dangling, ClassKeys, Keywords20, Keywords23

(* A comment leaves nothing. *)
LEMMA CommentIsSilent ==
  ASSUME NEW t, Len(t) \in Nat, DOMAIN t = 1..Len(t), NEW g, StripRun(t, g),
         NEW M, NEW S, NEW E, Flow(t, M, S, E),
         NEW i \in Starts(t, M, S), Kind(t, i) \in Comments,
         NEW z \in i..Len(t), z <= LastOf(t, i)
  PROVE  g[z].out = g[i - 1].out
<1> DEFINE T == {j \in (i - 1)..z : g[j].out = g[i - 1].out}
<1>0. i \in 1..Len(t) /\ LastOf(t, i) \in i..(Len(t) + 1)
  BY SpanOf
<1>1. i - 1 \in T /\ i - 1 \in Nat /\ z \in Nat
  BY <1>0
<1>2. ASSUME NEW j \in (i - 1)..z, j \in T, j < z PROVE j + 1 \in T
  <2>1. /\ j + 1 \in 1..Len(t) /\ (j + 1) - 1 = j /\ j + 1 \in (i - 1)..z
        /\ i <= j + 1 /\ j + 1 <= z
    BY <1>0, <1>2
  <2>2. j + 1 <= LastOf(t, i)
    <3> DEFINE l == LastOf(t, i)
    <3>1. l \in Int /\ z <= l
      BY <1>0
    <3> HIDE DEF l
    <3>2. j + 1 <= l
      BY <2>1, <3>1
    <3> QED  BY <3>2 DEF l
  <2>3. Owner(t, j + 1) = At(t, i)
    BY <2>1, <2>2, OwnerIs
  <2>4. Owner(t, j + 1).kind \in Comments
    BY <2>3 DEF At
  <2>5. g[j + 1].out = g[(j + 1) - 1].out
    BY <2>1, <2>4, StripKeeps
  <2> QED  BY <1>2, <2>1, <2>5
<1>3. (i - 1)..z \subseteq T
  <2> HIDE DEF T
  <2> QED  BY <1>1, <1>2, Between
<1>4. z \in (i - 1)..z
  BY <1>0
<1> QED  BY <1>3, <1>4

(* What stands before an element. *)
LEMMA JustBefore ==
  ASSUME NEW t, Len(t) \in Nat, DOMAIN t = 1..Len(t), NEW g, StripRun(t, g),
         NEW M, NEW S, NEW E, Flow(t, M, S, E),
         NEW k \in Starts(t, M, S), k # 1, t[k] # "nl"
  PROVE  /\ k - 1 \in 1..Len(t)
         /\ \/ k - 1 \in Code(t)
            \/ t[k - 1] \in Quotes /\ g[k - 1].out = Append(g[(k - 1) - 1].out, "sp")
            \/ t[k - 1] = "/" /\ \E i \in Starts(t, M, S) :
                 Kind(t, i) = "block" /\ g[k - 1].out = g[i - 1].out
<1> DEFINE n == Len(t)
           p == k - 1
           i == Owner(t, p).first
<1>1. k \in 1..n /\ p \in 1..n /\ p + 1 = k /\ p < n
  BY DEF Starts
<1>2. /\ i \in Starts(t, M, S) /\ Owner(t, p).kind = Kind(t, i)
      /\ i <= p /\ p <= LastOf(t, i)
  BY <1>1, OwnerIs
<1>3. i \in 1..n /\ Fresh(t, M, S, i)
  BY <1>2 DEF Starts
<1> HIDE DEF i
<1> DEFINE l == LastOf(t, i)
<1>4. l = p
  <2>1. i < k
    BY <1>1, <1>2, <1>3
  <2>2. l < k /\ l \in i..(n + 1)
    BY <1>2, <2>1, SpanOf
  <2>3. p <= l
    BY <1>2
  <2> HIDE DEF l
  <2> QED  BY <1>1, <1>3, <2>2, <2>3
<1>5. CASE Kind(t, i) = "code"
  <2>1. l = i
    BY <1>3, <1>5, CodeElement
  <2>2. i \in Code(t)
    BY <1>2, <1>5, CodeIs
  <2> QED  BY <1>1, <1>4, <2>1, <2>2
<1>6. CASE Kind(t, i) \in Quotes
  <2>1. l <= n => t[l] = Kind(t, i)
    BY <1>3, <1>6, LiteralElement
  <2>2. t[p] \in Quotes
    <3> HIDE DEF l
    <3> QED  BY <1>1, <1>4, <1>6, <2>1
  <2>3. g[p].out = Append(g[p - 1].out, "sp")
    BY <1>1, <1>2, <1>6, StripKeeps
  <2> QED  BY <1>1, <2>2, <2>3
<1>7. CASE Kind(t, i) = "line"
  <2>1. l < n => t[l + 1] = "nl"
    BY <1>3, <1>7, LineElement
  <2>2. t[k] = "nl"
    <3> HIDE DEF l
    <3> QED  BY <1>1, <1>4, <2>1
  <2> QED  BY <2>2
<1>8. CASE Kind(t, i) = "block"
  <2>1. l <= n => t[l] = "/"
    BY <1>3, <1>8, BlockElement
  <2>2. t[p] = "/"
    <3> HIDE DEF l
    <3> QED  BY <1>1, <1>4, <2>1
  <2>3. g[p].out = g[i - 1].out
    <3>1. p \in i..n /\ p <= LastOf(t, i)
      BY <1>1, <1>2, <1>3
    <3> QED  BY <1>2, <1>8, <3>1, CommentIsSilent DEF Comments
  <2> QED  BY <1>1, <1>2, <1>8, <2>2, <2>3
<1> QED  BY <1>5, <1>6, <1>7, <1>8, KindIs DEF Modes, Comments

(* No block comment separates two tokens. *)
Unseparated(t) == \A e \in Elements(t) : ~Separates(t, e)

(* Before a token of code stands a word if one does in what is left. *)
LEMMA Before ==
  ASSUME NEW t, Len(t) \in Nat, DOMAIN t = 1..Len(t), NEW g, StripRun(t, g), Unseparated(t),
         NEW k \in Code(t), t[k] # "nl"
  PROVE  Some(g[Len(t)].out, Len(g[k].out) - 1) \in Words <=> Some(t, k - 1) \in Words
<1> DEFINE n == Len(t)
           w == Outs(g, n)
           s == w[n]
<1>1. PICK M, S, E : Flow(t, M, S, E)
  BY StripFlows
<1>2. Code(t) = {i \in Starts(t, M, S) : Kind(t, i) = "code"} /\ Code(t) \subseteq 1..n
  BY <1>1, CodeIs
<1>3. Grown(t, w)
  BY StripGrows
<1>4. \A j \in 0..n : w[j] = g[j].out
  BY DEF Outs
<1>5. n \in 0..n /\ k \in 1..n /\ k \in 0..n /\ k - 1 \in 0..n
  BY <1>2
<1>6. t[k] \in Tokens(t) /\ "sp" \in Tokens(t)
  BY <1>5 DEF Tokens
<1> HIDE DEF w
<1>7. w[0] = <<>> /\ w[n] \in Seq(Tokens(t))
  BY <1>3, <1>5 DEF Grown
<1>8. DOMAIN s = 1..Len(s) /\ Len(s) \in Nat
  BY <1>7, LenProperties
<1>9. Len(w[k - 1]) \in Nat /\ Len(w[k]) - 1 = Len(w[k - 1])
  <2>1. w[k] = Append(w[k - 1], t[k])
    BY <1>3 DEF Grown
  <2>2. Len(w[k - 1]) \in Nat /\ Len(w[k]) = Len(w[k - 1]) + 1
    BY <1>3, <1>5, <1>6, <2>1, Placed
  <2> QED  BY <2>2
<1>10. Some(s, Len(<<>>)) = "end" /\ Some(t, 0) = "end"
  <2>1. Len(<<>>) = 0
    BY EmptySeq
  <2>2. 0 \notin DOMAIN s /\ 0 \notin DOMAIN t
    BY <1>8
  <2> QED  BY <2>1, <2>2 DEF Some
<1>11. ASSUME NEW p \in 1..n, NEW c \in Tokens(t), w[p] = Append(w[p - 1], c)
       PROVE  Some(s, Len(w[p])) = c
  <2>1. Len(w[p]) \in 1..Len(s) /\ s[Len(w[p])] = c
    BY <1>3, <1>11, Placed
  <2> HIDE DEF s
  <2> QED  BY <1>8, <2>1 DEF Some
<1>12. ASSUME NEW i \in Starts(t, M, S), i # 1, t[i] # "nl"
       PROVE  /\ i - 1 \in 1..n /\ Some(t, i - 1) = t[i - 1]
              /\ \/ Some(s, Len(w[i - 1])) = t[i - 1]
                 \/ t[i - 1] \in Quotes /\ Some(s, Len(w[i - 1])) = "sp"
                 \/ t[i - 1] = "/" /\ \E j \in Starts(t, M, S) : Kind(t, j) = "block" /\ w[i - 1] = w[j - 1]
  <2> DEFINE p == i - 1
  <2>1. /\ p \in 1..n
        /\ \/ p \in Code(t)
           \/ t[p] \in Quotes /\ g[p].out = Append(g[p - 1].out, "sp")
           \/ t[p] = "/" /\ \E j \in Starts(t, M, S) : Kind(t, j) = "block" /\ g[p].out = g[j - 1].out
    BY <1>1, <1>12, JustBefore
  <2> HIDE DEF p
  <2>2. p \in 0..n /\ p - 1 \in 0..n /\ t[p] \in Tokens(t)
    BY <2>1 DEF Tokens
  <2>3. Some(t, p) = t[p]
    BY <2>1 DEF Some
  <2>4. w[p] = g[p].out /\ w[p - 1] = g[p - 1].out
    BY <1>4, <2>2
  <2>5. CASE p \in Code(t)
    <3>1. w[p] = Append(w[p - 1], t[p])
      BY <1>3, <2>5 DEF Grown
    <3>2. Some(s, Len(w[p])) = t[p]
      BY <1>11, <2>1, <2>2, <3>1
    <3> QED  BY <2>1, <2>3, <3>2 DEF p
  <2>6. CASE t[p] \in Quotes /\ g[p].out = Append(g[p - 1].out, "sp")
    <3>1. w[p] = Append(w[p - 1], "sp")
      BY <2>4, <2>6
    <3>2. Some(s, Len(w[p])) = "sp"
      BY <1>6, <1>11, <2>1, <3>1
    <3> QED  BY <2>1, <2>3, <2>6, <3>2 DEF p
  <2>7. ASSUME t[p] = "/", NEW j \in Starts(t, M, S), Kind(t, j) = "block", g[p].out = g[j - 1].out
        PROVE  /\ Some(t, p) = t[p] /\ t[p] = "/"
               /\ \E m \in Starts(t, M, S) : Kind(t, m) = "block" /\ w[p] = w[m - 1]
    <3>1. j - 1 \in 0..n
      BY DEF Starts
    <3>2. w[p] = w[j - 1]
      BY <1>4, <2>4, <2>7, <3>1
    <3> QED  BY <2>3, <2>7, <3>2
  <2> QED  BY <2>1, <2>5, <2>6, <2>7 DEF p
<1> DEFINE x == Some(s, Len(w[k - 1]))
<1>13. x \in Words <=> Some(t, k - 1) \in Words
  <2>1. CASE k = 1
    BY <1>7, <1>10, <2>1
  <2>2. CASE k # 1
    <3>1. /\ k - 1 \in 1..n /\ Some(t, k - 1) = t[k - 1]
          /\ \/ x = t[k - 1]
             \/ t[k - 1] \in Quotes /\ x = "sp"
             \/ t[k - 1] = "/" /\ \E j \in Starts(t, M, S) : Kind(t, j) = "block" /\ w[k - 1] = w[j - 1]
      BY <1>2, <1>12, <2>2
    <3>2. ASSUME t[k - 1] = "/", NEW j \in Starts(t, M, S), Kind(t, j) = "block", w[k - 1] = w[j - 1]
          PROVE  x \notin Words
      <4>1. t[j] = "/"
        BY <3>2, KindIs
      <4>2. Some(t, j - 1) \in Blanks \cup {"end"}
        <5>1. At(t, j) \in Elements(t)
          BY <1>1, ElementsAre
        <5>2. At(t, j).kind = "block" /\ At(t, j).first = j
          BY <3>2 DEF At
        <5> QED  BY <5>1, <5>2 DEF Unseparated, Separates
      <4>3. CASE j = 1
        BY <1>7, <1>10, <3>2, <4>3, WordsAreWords
      <4>4. CASE j # 1
        <5> DEFINE y == Some(s, Len(w[j - 1]))
        <5>1. /\ j - 1 \in 1..n /\ Some(t, j - 1) = t[j - 1]
              /\ \/ y = t[j - 1]
                 \/ t[j - 1] \in Quotes /\ y = "sp"
                 \/ t[j - 1] = "/" /\ \E m \in Starts(t, M, S) : Kind(t, m) = "block" /\ w[j - 1] = w[m - 1]
          BY <1>12, <4>1, <4>4
        <5>2. y = x
          BY <3>2
        <5> HIDE DEF x, y
        <5> QED  BY <4>2, <5>1, <5>2, WordsAreWords DEF Blanks
      <4> QED  BY <4>3, <4>4
    <3> HIDE DEF x
    <3> QED  BY <3>1, <3>2, WordsAreWords
  <2> QED  BY <2>1, <2>2
<1>14. s = g[n].out /\ w[k] = g[k].out
  BY <1>4, <1>5
<1> HIDE DEF s
<1> QED  BY <1>9, <1>13, <1>14

(* Behind a token of code stands the next one, or neither a word nor an      *)
(* operator in the text or in what is left.                                *)
LEMMA Behind ==
  ASSUME NEW t, Len(t) \in Nat, DOMAIN t = 1..Len(t), NEW g, StripRun(t, g), Unseparated(t),
         NEW k \in Code(t), t[k] \notin Blanks \cup {"end"}
  PROVE  \/ /\ k + 1 \in Code(t) /\ Some(t, k + 1) = t[k + 1]
            /\ Len(g[k + 1].out) = Len(g[k].out) + 1
            /\ Some(g[Len(t)].out, Len(g[k].out) + 1) = t[k + 1]
         \/ /\ k + 1 \notin Code(t) /\ Some(t, k + 1) \in {"end", "/"} \cup Quotes
            /\ Some(g[Len(t)].out, Len(g[k].out) + 1) \in {"sp", "nl", "end"}
<1> DEFINE n == Len(t)
           w == Outs(g, n)
           s == w[n]
           i == k + 1
<1>1. PICK M, S, E : Flow(t, M, S, E)
  BY StripFlows
<1>2. Code(t) = {j \in Starts(t, M, S) : Kind(t, j) = "code"} /\ Code(t) \subseteq 1..n
  BY <1>1, CodeIs
<1>3. Grown(t, w)
  BY StripGrows
<1>4. \A j \in 0..n : w[j] = g[j].out
  BY DEF Outs
<1>5. n \in 0..n /\ k \in 1..n /\ k \in 0..n /\ i - 1 = k
  BY <1>2
<1> HIDE DEF w
<1>6. w[n] \in Seq(Tokens(t)) /\ w[k] \in Seq(Tokens(t))
  BY <1>3, <1>5 DEF Grown
<1>7. DOMAIN s = 1..Len(s) /\ Len(s) \in Nat /\ Len(w[k]) \in Nat
  BY <1>6, LenProperties
<1>8. ASSUME NEW p \in 1..n, NEW c \in Tokens(t), w[p] = Append(w[p - 1], c)
      PROVE  Some(s, Len(w[p - 1]) + 1) = c /\ Len(w[p]) = Len(w[p - 1]) + 1
  <2>1. Len(w[p]) = Len(w[p - 1]) + 1 /\ Len(w[p]) \in 1..Len(s) /\ s[Len(w[p])] = c
    BY <1>3, <1>8, Placed
  <2> HIDE DEF s
  <2> QED  BY <1>7, <2>1 DEF Some
<1>9. Some(s, Len(s) + 1) = "end"
  BY <1>7 DEF Some
<1>10. s = g[n].out /\ w[k] = g[k].out
  BY <1>4, <1>5
<1>11. "sp" \in Tokens(t) /\ \A j \in 1..n : t[j] \in Tokens(t)
  BY DEF Tokens
<1> HIDE DEF s
<1>12. CASE k = n
  <2>1. i \notin 1..n
    BY <1>12
  <2>2. Some(t, i) = "end" /\ i \notin Code(t)
    BY <1>2, <2>1 DEF Some
  <2>3. Some(s, Len(w[k]) + 1) = "end"
    BY <1>9, <1>12 DEF s
  <2> QED  BY <1>10, <2>2, <2>3
<1>13. CASE k # n
  <2>1. i \in 1..n /\ i \in 0..n
    <3>1. n \in Nat /\ k \in 1..n /\ k # n
      BY <1>5, <1>13
    <3> HIDE DEF n
    <3> QED  BY <3>1
  <2>2. i \in Starts(t, M, S) /\ Fresh(t, M, S, i)
    <3>1. k \in Starts(t, M, S) /\ Kind(t, k) = "code"
      BY <1>2
    <3>2. Fresh(t, M, S, k)
      BY <3>1 DEF Starts
    <3> QED  BY <1>1, <1>5, <2>1, <3>1, <3>2, CodeElement DEF Starts
  <2>3. Some(t, i) = t[i] /\ w[i] = g[i].out
    BY <1>4, <2>1 DEF Some
  <2>4. i \in Code(t) <=> Kind(t, i) = "code"
    BY <1>2, <2>2
  <2> HIDE DEF i
  <2>5. CASE Kind(t, i) = "code"
    <3>1. w[i] = Append(w[i - 1], t[i])
      BY <1>3, <2>4, <2>5 DEF Grown
    <3>2. Some(s, Len(w[k]) + 1) = t[i] /\ Len(w[i]) = Len(w[k]) + 1
      BY <1>5, <1>8, <1>11, <2>1, <3>1
    <3> QED  BY <1>10, <2>3, <2>4, <2>5, <3>2 DEF i
  <2>6. CASE Kind(t, i) \in Quotes
    <3>1. Owner(t, i) = At(t, i)
      <4>1. LastOf(t, i) \in i..(n + 1)
        BY <2>1, LastOfRange
      <4> DEFINE l == LastOf(t, i)
      <4>2. i <= i /\ i <= l
        <5> HIDE DEF l
        <5>1. l \in i..(n + 1)
          BY <4>1 DEF l
        <5> QED  BY <2>1, <5>1
      <4> QED  BY <1>1, <2>1, <2>2, <4>2, OwnerIs
    <3>2. Owner(t, i).kind \in Quotes
      BY <2>6, <3>1 DEF At
    <3>3. g[i].out = Append(g[i - 1].out, "sp")
      BY <2>1, <3>2, StripKeeps
    <3>4. w[i] = Append(w[i - 1], "sp")
      BY <1>5, <1>10, <2>3, <3>3
    <3>5. Some(s, Len(w[k]) + 1) = "sp"
      BY <1>5, <1>8, <1>11, <2>1, <3>4
    <3>6. Some(t, i) \in Quotes /\ i \notin Code(t)
      BY <2>3, <2>4, <2>6, KindIs, QuotesAreQuotes
    <3> QED  BY <1>10, <3>5, <3>6 DEF i
  <2>7. CASE Kind(t, i) = "block"
    <3>1. At(t, i) \in Elements(t)
      BY <1>1, <2>2, ElementsAre
    <3>2. At(t, i).kind = "block" /\ At(t, i).first = i
      BY <2>7 DEF At
    <3>3. Some(t, i - 1) \in Blanks \cup {"end"}
      BY <3>1, <3>2 DEF Unseparated, Separates
    <3>4. Some(t, k) = t[k]
      BY <1>5 DEF Some
    <3> QED  BY <1>5, <3>3, <3>4
  <2>8. CASE Kind(t, i) = "line"
    <3> DEFINE z == LastOf(t, i)
    <3>1. /\ z \in (i + 1)..n /\ Fresh(t, M, S, z + 1) /\ (z < n => t[z + 1] = "nl")
      BY <1>1, <2>1, <2>2, <2>8, LineElement
    <3>2. z \in i..n /\ z <= z /\ z \in 0..n /\ (z # n => z + 1 \in 1..n /\ (z + 1) - 1 = z /\ z < n)
      BY <2>1, <3>1
    <3>3. w[z] = w[k]
      <4>1. g[z].out = g[i - 1].out
        BY <1>1, <2>2, <2>8, <3>2, CommentIsSilent DEF Comments
      <4>2. w[z] = g[z].out
        BY <1>4, <3>2
      <4> QED  BY <1>5, <1>10, <4>1, <4>2
    <3> HIDE DEF z
    <3>6. Some(s, Len(w[k]) + 1) \in {"nl", "end"}
      <4>1. ASSUME z = n PROVE Some(s, Len(w[k]) + 1) = "end"
        BY <1>9, <3>3, <4>1 DEF s
      <4>2. ASSUME z # n PROVE Some(s, Len(w[k]) + 1) = "nl"
        <5>1. z + 1 \in 1..n /\ (z + 1) - 1 = z /\ t[z + 1] = "nl"
          BY <3>1, <3>2, <4>2
        <5>2. z + 1 \in Starts(t, M, S)
          BY <3>1, <5>1 DEF Starts
        <5>3. Kind(t, z + 1) = "code"
          BY <5>1, KindIs, QuotesAreQuotes
        <5>4. z + 1 \in Code(t)
          BY <1>2, <5>2, <5>3
        <5>5. w[z + 1] = Append(w[(z + 1) - 1], t[z + 1])
          BY <1>3, <5>4 DEF Grown
        <5>6. Some(s, Len(w[(z + 1) - 1]) + 1) = t[z + 1]
          BY <1>8, <1>11, <5>1, <5>5
        <5> QED  BY <3>3, <5>1, <5>6
      <4> QED  BY <4>1, <4>2
    <3>7. Some(t, i) = "/" /\ i \notin Code(t)
      BY <2>3, <2>4, <2>8, KindIs
    <3> QED  BY <1>10, <3>6, <3>7 DEF i
  <2> QED  BY <2>5, <2>6, <2>7, <2>8, KindIs DEF Modes, Comments
<1> QED  BY <1>12, <1>13

(* A token that is left is one of the code, unless it is a blank. *)
LEMMA LeftIsCode ==
  ASSUME NEW t, Len(t) \in Nat, DOMAIN t = 1..Len(t), NEW g, StripRun(t, g)
  PROVE  /\ \A k \in Code(t) : /\ Len(g[k].out) \in DOMAIN g[Len(t)].out
                               /\ g[Len(t)].out[Len(g[k].out)] = t[k]
         /\ \A j \in DOMAIN g[Len(t)].out : g[Len(t)].out[j] # "sp" =>
              \E k \in Code(t) : Len(g[k].out) = j /\ g[Len(t)].out[j] = t[k]
<1> DEFINE n == Len(t)
           w == Outs(g, n)
<1>1. Grown(t, w)
  BY StripGrows
<1>2. \A j \in 0..n : w[j] = g[j].out
  BY DEF Outs
<1> HIDE DEF w
<1>3. n \in 0..n /\ Code(t) \subseteq 1..n
  BY <1>1 DEF Grown
<1>4. w[n] \in Seq(Tokens(t))
  BY <1>1, <1>3 DEF Grown
<1>5. DOMAIN w[n] = 1..Len(w[n])
  BY <1>4, LenProperties
<1>6. ASSUME NEW k \in Code(t) PROVE Len(w[k]) \in DOMAIN w[n] /\ w[n][Len(w[k])] = t[k]
  <2>1. k \in 1..n /\ t[k] \in Tokens(t)
    BY <1>3 DEF Tokens
  <2>2. w[k] = Append(w[k - 1], t[k])
    BY <1>1 DEF Grown
  <2> QED  BY <1>1, <1>5, <2>1, <2>2, Placed
<1>7. ASSUME NEW j \in DOMAIN w[n], w[n][j] # "sp"
      PROVE  \E k \in Code(t) : Len(w[k]) = j /\ w[n][j] = t[k]
  <2>1. j \in 1..Len(w[n])
    BY <1>5
  <2> QED  BY <1>1, <1>7, <2>1, Origin
<1>8. w[n] = g[n].out /\ \A k \in Code(t) : w[k] = g[k].out /\ Some(t, k) = t[k]
  <2>1. \A k \in Code(t) : k \in 0..n /\ k \in DOMAIN t
    BY <1>3
  <2> QED  BY <1>2, <1>3, <2>1 DEF Some
<1> QED  BY <1>6, <1>7, <1>8

(* A word stands alone in the code if it does in what is left. *)
LEMMA WordStays ==
  ASSUME NEW t, Len(t) \in Nat, DOMAIN t = 1..Len(t), NEW g, StripRun(t, g), Unseparated(t),
         NEW kw \in Words
  PROVE  ContainsWord(g[Len(t)].out, kw) <=>
           \E k \in Code(t) : t[k] = kw /\ Some(t, k - 1) \notin Words /\ Some(t, k + 1) \notin Words
<1> DEFINE s == g[Len(t)].out
<1>1. kw \notin {"sp", "nl", "end"}
  BY WordsAreWords
<1>2. ASSUME NEW k \in Code(t), t[k] = kw
      PROVE  /\ Some(s, Len(g[k].out) - 1) \in Words <=> Some(t, k - 1) \in Words
             /\ Some(s, Len(g[k].out) + 1) \in Words <=> Some(t, k + 1) \in Words
  <2>1. t[k] # "nl" /\ t[k] \notin Blanks \cup {"end"}
    BY <1>1, <1>2 DEF Blanks
  <2>2. Some(s, Len(g[k].out) - 1) \in Words <=> Some(t, k - 1) \in Words
    BY <2>1, Before
  <2>3. \/ Some(t, k + 1) = t[k + 1] /\ Some(s, Len(g[k].out) + 1) = t[k + 1]
        \/ /\ Some(t, k + 1) \in {"end", "/"} \cup Quotes
           /\ Some(s, Len(g[k].out) + 1) \in {"sp", "nl", "end"}
    BY <2>1, Behind
  <2> HIDE DEF s
  <2> QED  BY <2>2, <2>3, WordsAreWords
<1>3. /\ \A k \in Code(t) : Len(g[k].out) \in DOMAIN s /\ s[Len(g[k].out)] = t[k]
      /\ \A j \in DOMAIN s : s[j] # "sp" => \E k \in Code(t) : Len(g[k].out) = j /\ s[j] = t[k]
  BY LeftIsCode
<1> HIDE DEF s
<1> QED  BY <1>1, <1>2, <1>3 DEF ContainsWord, s

(* Tokens that follow each other. *)
LEMMA FollowsTwo ==
  ASSUME NEW t, NEW k \in Int, NEW a, NEW b
  PROVE  Follows(t, k, <<a, b>>) <=> Some(t, k) = a /\ Some(t, k + 1) = b
<1>1. DOMAIN <<a, b>> = {1, 2} /\ <<a, b>>[1] = a /\ <<a, b>>[2] = b
  OBVIOUS
<1>2. k + 1 - 1 = k /\ k + 2 - 1 = k + 1
  OBVIOUS
<1> DEFINE cs == <<a, b>>
<1> HIDE DEF cs
<1> QED  BY <1>1, <1>2 DEF Follows, cs

(* Three of them. *)
LEMMA FollowsThree ==
  ASSUME NEW t, NEW k \in Int, NEW a, NEW b, NEW c
  PROVE  Follows(t, k, <<a, b, c>>) <=> Some(t, k) = a /\ Some(t, k + 1) = b /\ Some(t, k + 2) = c
<1>1. DOMAIN <<a, b, c>> = {1, 2, 3} /\ <<a, b, c>>[1] = a /\ <<a, b, c>>[2] = b /\ <<a, b, c>>[3] = c
  OBVIOUS
<1>2. k + 1 - 1 = k /\ k + 2 - 1 = k + 1 /\ k + 3 - 1 = k + 2
  OBVIOUS
<1> DEFINE cs == <<a, b, c>>
<1> HIDE DEF cs
<1> QED  BY <1>1, <1>2 DEF Follows, cs

(* Four of them. *)
LEMMA FollowsFour ==
  ASSUME NEW t, NEW k \in Int, NEW a, NEW b, NEW c, NEW d
  PROVE  Follows(t, k, <<a, b, c, d>>) <=>
           Some(t, k) = a /\ Some(t, k + 1) = b /\ Some(t, k + 2) = c /\ Some(t, k + 3) = d
<1>1. /\ DOMAIN <<a, b, c, d>> = {1, 2, 3, 4} /\ <<a, b, c, d>>[1] = a /\ <<a, b, c, d>>[2] = b
      /\ <<a, b, c, d>>[3] = c /\ <<a, b, c, d>>[4] = d
  OBVIOUS
<1>2. k + 1 - 1 = k /\ k + 2 - 1 = k + 1 /\ k + 3 - 1 = k + 2 /\ k + 4 - 1 = k + 3
  OBVIOUS
<1> DEFINE cs == <<a, b, c, d>>
<1> HIDE DEF cs
<1> QED  BY <1>1, <1>2 DEF Follows, cs

(* Tokens that are neither blanks nor begin a comment or a literal are next *)
(* to each other in what is left exactly when they are in the code.         *)
LEMMA NextStays ==
  ASSUME NEW t, Len(t) \in Nat, DOMAIN t = 1..Len(t), NEW g, StripRun(t, g), Unseparated(t),
         NEW k \in Code(t), t[k] \notin Blanks \cup {"end"},
         NEW c, c \notin Blanks \cup {"end", "/"} \cup Quotes
  PROVE  /\ Some(g[Len(t)].out, Len(g[k].out) + 1) = c <=> Some(t, k + 1) = c
         /\ Some(t, k + 1) = c => /\ k + 1 \in Code(t) /\ t[k + 1] = c
                                  /\ Len(g[k + 1].out) = Len(g[k].out) + 1
<1> DEFINE s == g[Len(t)].out
           Place(j) == Len(g[j].out)
<1>1. \/ /\ k + 1 \in Code(t) /\ Some(t, k + 1) = t[k + 1] /\ Place(k + 1) = Place(k) + 1
         /\ Some(s, Place(k) + 1) = t[k + 1]
      \/ /\ k + 1 \notin Code(t) /\ Some(t, k + 1) \in {"end", "/"} \cup Quotes
         /\ Some(s, Place(k) + 1) \in {"sp", "nl", "end"}
  BY Behind
<1> HIDE DEF s, Place
<1>2. /\ Some(s, Place(k) + 1) = c <=> Some(t, k + 1) = c
      /\ Some(t, k + 1) = c => /\ k + 1 \in Code(t) /\ t[k + 1] = c
                               /\ Place(k + 1) = Place(k) + 1
  BY <1>1 DEF Blanks
<1> QED  BY <1>2 DEF s, Place

(* The three tokens of <=> are left together where the code has them. *)
LEMMA SpaceshipStays ==
  ASSUME NEW t, Len(t) \in Nat, DOMAIN t = 1..Len(t), NEW g, StripRun(t, g), Unseparated(t)
  PROVE  (\E j \in DOMAIN g[Len(t)].out : Follows(g[Len(t)].out, j, <<"<", "=", ">">>))
           <=> \E k \in Code(t) : Follows(t, k, <<"<", "=", ">">>)
<1> DEFINE n == Len(t)
           s == g[n].out
           Place(k) == Len(g[k].out)
<1>1. /\ \A k \in Code(t) : Place(k) \in DOMAIN s /\ s[Place(k)] = t[k]
      /\ \A j \in DOMAIN s : s[j] # "sp" => \E k \in Code(t) : Place(k) = j /\ s[j] = t[k]
  BY LeftIsCode
<1>2. \A k \in Code(t) : k \in 1..n /\ k \in Int
  <2>1. Code(t) \subseteq 1..n
    BY UnclosedBraceIs
  <2> QED  BY <2>1
<1>3. DOMAIN s \subseteq Int
  <2>1. s \in Seq(Tokens(t))
    BY DEF StripRun, StripStates
  <2> HIDE DEF s
  <2>2. DOMAIN s = 1..Len(s)
    BY <2>1
  <2> QED  BY <2>2
<1>4. ASSUME NEW k \in Code(t), t[k] \in {"<", "="}, NEW c \in {"=", ">"}
      PROVE  /\ Some(s, Place(k) + 1) = c <=> Some(t, k + 1) = c
             /\ Some(t, k + 1) = c => k + 1 \in Code(t) /\ t[k + 1] = c /\ Place(k + 1) = Place(k) + 1
  <2>1. t[k] \notin Blanks \cup {"end"}
    BY <1>4 DEF Blanks
  <2>2. c \notin Blanks \cup {"end", "/"} \cup Quotes
    BY <1>4, Zenon DEF Blanks, Quotes
  <2> HIDE DEF s, Place
  <2>3. Some(g[Len(t)].out, Len(g[k].out) + 1) = c <=> Some(t, k + 1) = c
    BY <2>1, <2>2, NextStays
  <2>4. Some(t, k + 1) = c => k + 1 \in Code(t) /\ t[k + 1] = c /\ Len(g[k + 1].out) = Len(g[k].out) + 1
    BY <2>1, <2>2, NextStays
  <2> QED  BY <2>3, <2>4 DEF s, Place
<1> HIDE DEF Place
<1>5. \A k \in Code(t) : Some(t, k) = t[k] /\ Some(s, Place(k)) = t[k]
  BY <1>1, <1>2 DEF Some
<1>6. ASSUME NEW k \in Code(t), t[k] = "<"
      PROVE  Follows(s, Place(k), <<"<", "=", ">">>) <=> Follows(t, k, <<"<", "=", ">">>)
  <2>1. Follows(s, Place(k), <<"<", "=", ">">>) <=>
          Some(s, Place(k)) = "<" /\ Some(s, Place(k) + 1) = "=" /\ Some(s, Place(k) + 2) = ">"
    BY <1>1, <1>3, FollowsThree
  <2>2. Follows(t, k, <<"<", "=", ">">>) <=>
          Some(t, k) = "<" /\ Some(t, k + 1) = "=" /\ Some(t, k + 2) = ">"
    BY <1>2, FollowsThree
  <2>3. (k + 1) + 1 = k + 2 /\ (Place(k) + 1) + 1 = Place(k) + 2
    BY <1>1, <1>2, <1>3
  <2>4. Some(s, Place(k) + 1) = "=" <=> Some(t, k + 1) = "="
    BY <1>4, <1>6
  <2>5. ASSUME Some(t, k + 1) = "=" PROVE Some(s, Place(k) + 2) = ">" <=> Some(t, k + 2) = ">"
    <3>1. k + 1 \in Code(t) /\ t[k + 1] = "=" /\ Place(k + 1) = Place(k) + 1
      BY <1>4, <1>6, <2>5
    <3>2. Some(s, Place(k + 1) + 1) = ">" <=> Some(t, (k + 1) + 1) = ">"
      BY <1>4, <3>1
    <3> QED  BY <2>3, <3>1, <3>2
  <2> HIDE DEF s
  <2> QED  BY <1>5, <1>6, <2>1, <2>2, <2>4, <2>5
<1>7. ASSUME NEW j \in DOMAIN s, Follows(s, j, <<"<", "=", ">">>)
      PROVE  \E k \in Code(t) : Follows(t, k, <<"<", "=", ">">>)
  <2>1. Some(s, j) = "<"
    BY <1>3, <1>7, FollowsThree
  <2>2. s[j] = "<"
    BY <2>1 DEF Some
  <2>3. PICK k \in Code(t) : Place(k) = j /\ s[j] = t[k]
    BY <1>1, <2>2
  <2> QED  BY <1>6, <1>7, <2>2, <2>3
<1>8. ASSUME NEW k \in Code(t), Follows(t, k, <<"<", "=", ">">>)
      PROVE  \E j \in DOMAIN s : Follows(s, j, <<"<", "=", ">">>)
  <2>1. Some(t, k) = "<"
    BY <1>2, <1>8, FollowsThree
  <2>2. Place(k) \in DOMAIN s /\ t[k] = "<"
    BY <1>1, <1>5, <2>1
  <2> QED  BY <1>6, <1>8, <2>2
<1> QED  BY <1>7, <1>8

(* So are the four tokens of a name of std. *)
LEMMA StdNameStays ==
  ASSUME NEW t, Len(t) \in Nat, DOMAIN t = 1..Len(t), NEW g, StripRun(t, g), Unseparated(t),
         NEW f \in Names20
  PROVE  (\E j \in DOMAIN g[Len(t)].out : Follows(g[Len(t)].out, j, <<"std", ":", ":", f>>))
           <=> \E k \in Code(t) : Follows(t, k, <<"std", ":", ":", f>>)
<1> DEFINE n == Len(t)
           s == g[n].out
           Place(k) == Len(g[k].out)
<1>1. /\ \A k \in Code(t) : Place(k) \in DOMAIN s /\ s[Place(k)] = t[k]
      /\ \A j \in DOMAIN s : s[j] # "sp" => \E k \in Code(t) : Place(k) = j /\ s[j] = t[k]
  BY LeftIsCode
<1>2. \A k \in Code(t) : k \in 1..n /\ k \in Int
  <2>1. Code(t) \subseteq 1..n
    BY UnclosedBraceIs
  <2> QED  BY <2>1
<1>3. DOMAIN s \subseteq Int
  <2>1. s \in Seq(Tokens(t))
    BY DEF StripRun, StripStates
  <2> HIDE DEF s
  <2>2. DOMAIN s = 1..Len(s)
    BY <2>1
  <2> QED  BY <2>2
<1>4. ASSUME NEW k \in Code(t), t[k] \in {"std", ":"}, NEW c \in {":", f}
      PROVE  /\ Some(s, Place(k) + 1) = c <=> Some(t, k + 1) = c
             /\ Some(t, k + 1) = c => k + 1 \in Code(t) /\ t[k + 1] = c /\ Place(k + 1) = Place(k) + 1
  <2>1. t[k] \notin Blanks \cup {"end"}
    BY <1>4 DEF Blanks
  <2>2. c \notin Blanks \cup {"end", "/"} \cup Quotes
    BY <1>4, Zenon DEF Blanks, Quotes, Names20
  <2> HIDE DEF s
  <2> QED  BY <2>1, <2>2, NextStays DEF s
<1> HIDE DEF Place
<1>5. \A k \in Code(t) : Some(t, k) = t[k] /\ Some(s, Place(k)) = t[k]
  BY <1>1, <1>2 DEF Some
<1>6. ASSUME NEW k \in Code(t), t[k] = "std"
      PROVE  Follows(s, Place(k), <<"std", ":", ":", f>>) <=> Follows(t, k, <<"std", ":", ":", f>>)
  <2>1. Follows(s, Place(k), <<"std", ":", ":", f>>) <=>
          /\ Some(s, Place(k)) = "std" /\ Some(s, Place(k) + 1) = ":"
          /\ Some(s, Place(k) + 2) = ":" /\ Some(s, Place(k) + 3) = f
    BY <1>1, <1>3, FollowsFour
  <2>2. Follows(t, k, <<"std", ":", ":", f>>) <=>
          /\ Some(t, k) = "std" /\ Some(t, k + 1) = ":"
          /\ Some(t, k + 2) = ":" /\ Some(t, k + 3) = f
    BY <1>2, FollowsFour
  <2>3. /\ (k + 1) + 1 = k + 2 /\ (Place(k) + 1) + 1 = Place(k) + 2
        /\ (k + 2) + 1 = k + 3 /\ (Place(k) + 2) + 1 = Place(k) + 3
    BY <1>1, <1>2, <1>3
  <2>4. Some(s, Place(k) + 1) = ":" <=> Some(t, k + 1) = ":"
    BY <1>4, <1>6
  <2>5. ASSUME Some(t, k + 1) = ":"
        PROVE  /\ Some(s, Place(k) + 2) = ":" <=> Some(t, k + 2) = ":"
               /\ Some(t, k + 2) = ":" => k + 2 \in Code(t) /\ t[k + 2] = ":"
                                           /\ Place(k + 2) = Place(k) + 2
    <3>1. k + 1 \in Code(t) /\ t[k + 1] = ":" /\ Place(k + 1) = Place(k) + 1
      BY <1>4, <1>6, <2>5
    <3>2. /\ Some(s, Place(k + 1) + 1) = ":" <=> Some(t, (k + 1) + 1) = ":"
          /\ Some(t, (k + 1) + 1) = ":" => (k + 1) + 1 \in Code(t) /\ t[(k + 1) + 1] = ":"
                                            /\ Place((k + 1) + 1) = Place(k + 1) + 1
      BY <1>4, <3>1
    <3> QED  BY <2>3, <3>1, <3>2
  <2>6. ASSUME Some(t, k + 1) = ":", Some(t, k + 2) = ":"
        PROVE  Some(s, Place(k) + 3) = f <=> Some(t, k + 3) = f
    <3>1. k + 2 \in Code(t) /\ t[k + 2] = ":" /\ Place(k + 2) = Place(k) + 2
      BY <2>5, <2>6
    <3>2. Some(s, Place(k + 2) + 1) = f <=> Some(t, (k + 2) + 1) = f
      BY <1>4, <3>1
    <3> QED  BY <2>3, <3>1, <3>2
  <2> HIDE DEF s
  <2> QED  BY <1>5, <1>6, <2>1, <2>2, <2>4, <2>5, <2>6
<1>7. ASSUME NEW j \in DOMAIN s, Follows(s, j, <<"std", ":", ":", f>>)
      PROVE  \E k \in Code(t) : Follows(t, k, <<"std", ":", ":", f>>)
  <2>1. Some(s, j) = "std"
    BY <1>3, <1>7, FollowsFour
  <2>2. s[j] = "std"
    BY <2>1 DEF Some
  <2>3. PICK k \in Code(t) : Place(k) = j /\ s[j] = t[k]
    BY <1>1, <2>2
  <2> QED  BY <1>6, <1>7, <2>2, <2>3
<1>8. ASSUME NEW k \in Code(t), Follows(t, k, <<"std", ":", ":", f>>)
      PROVE  \E j \in DOMAIN s : Follows(s, j, <<"std", ":", ":", f>>)
  <2>1. Some(t, k) = "std"
    BY <1>2, <1>8, FollowsFour
  <2>2. Place(k) \in DOMAIN s /\ t[k] = "std"
    BY <1>1, <1>5, <2>1
  <2> QED  BY <1>6, <1>8, <2>2
<1> QED  BY <1>7, <1>8

(* The keywords are words. *)
LEMMA KeywordsAreWords ==
  Keywords20 \subseteq Words /\ Keywords23 \subseteq Words /\ {"import", "module"} \subseteq Keywords23
  BY DEF Words, Keywords20, Keywords23

(* The standard asked for is that of the code. *)
LEMMA DetectIs ==
  ASSUME NEW t, Len(t) \in Nat, DOMAIN t = 1..Len(t), Unseparated(t), ~EndsLikeImport(t)
  PROVE  Detect(t) = IF Keyword(t, Keywords23) THEN 23
                     ELSE IF \/ Keyword(t, Keywords20)
                             \/ \E k \in Code(t) : Follows(t, k, <<"<", "=", ">">>)
                             \/ \E k \in Code(t), f \in Names20 :
                                  Follows(t, k, <<"std", ":", ":", f>>)
                       THEN 20
                     ELSE 17
<1> DEFINE n == Len(t)
<1>1. PICK g : StripRun(t, g) /\ StripCommentsAndStrings(t) = g[n].out
  BY StripRuns
<1> DEFINE s == g[n].out
<1>2. ASSUME NEW K, K \subseteq Words
      PROVE  (\E kw \in K : ContainsWord(s, kw)) <=> Keyword(t, K)
  <2>1. \A kw \in K : ContainsWord(s, kw) <=>
          \E k \in Code(t) : t[k] = kw /\ Some(t, k - 1) \notin Words /\ Some(t, k + 1) \notin Words
    BY <1>1, <1>2, WordStays
  <2> HIDE DEF s
  <2> QED  BY <2>1 DEF Keyword
<1>3. ASSUME NEW j \in DOMAIN s, NEW kw \in {"import", "module"}, Follows(s, j, <<kw, "sp">>)
      PROVE  Keyword(t, Keywords23)
  <2>1. DOMAIN s \subseteq Int
    <3>1. s \in Seq(Tokens(t))
      BY <1>1 DEF StripRun, StripStates
    <3> HIDE DEF s
    <3>2. DOMAIN s = 1..Len(s)
      BY <3>1
    <3> QED  BY <3>2
  <2>2. Some(s, j) = kw /\ Some(s, j + 1) = "sp"
    BY <1>3, <2>1, FollowsTwo
  <2>3. s[j] = kw
    BY <2>2 DEF Some
  <2>4. PICK k \in Code(t) : Len(g[k].out) = j /\ s[j] = t[k]
    <3>1. s[j] # "sp"
      BY <1>3, <2>3
    <3> QED  BY <1>1, <3>1, LeftIsCode
  <2>5. Some(t, k - 1) \notin Words
    BY <1>3, <2>3, <2>4 DEF EndsLikeImport
  <2>6. Some(t, k + 1) \notin Words
    <3>1. t[k] \notin Blanks \cup {"end"}
      BY <1>3, <2>3, <2>4 DEF Blanks
    <3>2. \/ Some(t, k + 1) = t[k + 1] /\ Some(s, Len(g[k].out) + 1) = t[k + 1]
          \/ Some(t, k + 1) \in {"end", "/"} \cup Quotes
      BY <1>1, <3>1, Behind
    <3> HIDE DEF s
    <3> QED  BY <2>2, <2>4, <3>2, WordsAreWords
  <2> HIDE DEF s
  <2> QED  BY <1>3, <2>3, <2>4, <2>5, <2>6, KeywordsAreWords DEF Keyword
<1>4. (\E j \in DOMAIN s : Follows(s, j, <<"<", "=", ">">>))
        <=> \E k \in Code(t) : Follows(t, k, <<"<", "=", ">">>)
  BY <1>1, SpaceshipStays
<1>5. /\ (\E kw \in Keywords23 : ContainsWord(s, kw)) <=> Keyword(t, Keywords23)
      /\ (\E kw \in Keywords20 : ContainsWord(s, kw)) <=> Keyword(t, Keywords20)
  BY <1>2, KeywordsAreWords
<1>6. Detect(t) = IF \/ \E kw \in Keywords23 : ContainsWord(s, kw)
                     \/ \E j \in DOMAIN s, kw \in {"import", "module"} : Follows(s, j, <<kw, "sp">>)
                    THEN 23
                  ELSE IF \/ \E kw \in Keywords20 : ContainsWord(s, kw)
                          \/ \E j \in DOMAIN s : Follows(s, j, <<"<", "=", ">">>)
                          \/ \E j \in DOMAIN s, f \in Names20 :
                               Follows(s, j, <<"std", ":", ":", f>>)
                    THEN 20
                  ELSE 17
  BY <1>1 DEF Detect
<1>7. \A f \in Names20 : (\E j \in DOMAIN s : Follows(s, j, <<"std", ":", ":", f>>))
                            <=> \E k \in Code(t) : Follows(t, k, <<"std", ":", ":", f>>)
  BY <1>1, StdNameStays
<1> HIDE DEF s
<1> QED  BY <1>3, <1>4, <1>5, <1>6, <1>7
--------------------------------------------------------------------------------
(* Heads.                                                                  *)

(* No token of t ends a statement; none opens a block. *)
Uncut(t) == \A k \in DOMAIN t : t[k] \notin {";", "}"}
Blockless(t) == \A k \in DOMAIN t : t[k] # "{"

(* A template that is not cut off waits. *)
LEMMA TemplateWaits ==
  ASSUME NEW t, Len(t) \in Nat, DOMAIN t = 1..Len(t), NEW p \in DOMAIN t, t[p] = "template",
         Uncut(t), Blockless(t)
  PROVE  TemplateHeader(t)
<1> DEFINE n == Len(t)
           all == {k \in 1..n : t[k] = "template"}
<1>1. PICK m \in all : \A k \in all : k <= m
  <2>1. all \subseteq 0..n /\ all # {}
    OBVIOUS
  <2> HIDE DEF all
  <2> QED  BY <2>1, GreatestNatural
<1>2. m \in DOMAIN t /\ t[m] = "template"
  OBVIOUS
<1>3. \A k \in (m + 1)..n : k \in DOMAIN t /\ t[k] # "template"
  <2>1. ASSUME NEW k \in (m + 1)..n PROVE k \in 1..n /\ ~(k <= m)
    BY <1>2
  <2> QED  BY <1>1, <2>1
<1>4. \A k \in m..n : k \in DOMAIN t
  BY <1>2
<1> QED  BY <1>2, <1>3, <1>4, Zenon DEF TemplateHeader, Uncut, Blockless

(* Where the blanks behind p end. *)
LEMMA BlanksEnd ==
  ASSUME NEW t, Len(t) \in Nat, DOMAIN t = 1..Len(t), NEW p \in DOMAIN t, NEW i \in DOMAIN t, p < i,
         All(t, p + 1, i - 1, {"sp"}), t[i] \notin Blanks
  PROVE  After(t, p + 1, Blanks) = i
<1> DEFINE n == Len(t)
           Ends(k) == All(t, p + 1, k - 1, Blanks) /\ Some(t, k) \notin Blanks
<1>1. i \in (p + 1)..(n + 1) /\ Some(t, i) = t[i]
  BY DEF Some
<1>2. Ends(i)
  BY <1>1 DEF All, Blanks
<1>3. ASSUME NEW k \in (p + 1)..(n + 1), Ends(k) PROVE k = i
  <2>1. CASE k < i
    <3>1. k \in (p + 1)..(i - 1) /\ k \in DOMAIN t
      BY <2>1
    <3>2. t[k] = "sp" /\ Some(t, k) = t[k]
      BY <3>1 DEF All, Some
    <3> QED  BY <1>3, <3>2 DEF Blanks
  <2>2. CASE i < k
    <3>1. i \in (p + 1)..(k - 1)
      BY <2>2
    <3> QED  BY <1>3, <3>1 DEF All
  <2> QED  BY <2>1, <2>2
<1>4. After(t, p + 1, Blanks) = CHOOSE k \in (p + 1)..(n + 1) : Ends(k)
  BY DEF After
<1> HIDE DEF Ends
<1> QED  BY <1>1, <1>2, <1>3, <1>4

(* A control statement waits. *)
LEMMA ControlWaits ==
  ASSUME NEW t, Len(t) \in Nat, DOMAIN t = 1..Len(t), NEW p \in DOMAIN t, NEW i \in DOMAIN t, p < i,
         All(t, p + 1, i - 1, {"sp"}), Some(t, p - 1) \notin Words, t[p] \in Controls,
         t[i] = "(", t[Len(t)] = ")", \A k \in DOMAIN t : t[k] # "nl"
  PROVE  ControlHead(t)
<1>1. t[i] \notin Blanks
  BY DEF Blanks
<1>2. After(t, p + 1, Blanks) = i
  BY <1>1, BlanksEnd
<1>3. Some(t, i) = "("
  BY DEF Some
<1>4. WordOf(t, p, Controls)
  <2>1. FirstLine(t, p)
    BY DEF FirstLine
  <2> QED  BY <2>1 DEF WordOf
<1>5. \A k \in (i + 1)..(Len(t) - 1) : t[k] # "nl"
  OBVIOUS
<1> QED  BY <1>2, <1>3, <1>4, <1>5 DEF ControlHead

(* A bracket of the code that is never closed leaves a balance. *)
LEMMA NeverClosed ==
  ASSUME NEW t, Len(t) \in Nat, DOMAIN t = 1..Len(t), Code(t) \subseteq 1..Len(t), NEW b \in Openers,
         NEW k \in Code(t), t[k] = b, \A j \in DOMAIN t : t[j] # Closer[b]
  PROVE  Balance(t, Len(t), b) > 0
<1> DEFINE n == Len(t)
           opened == {j \in Code(t) : 1 <= j /\ j <= n /\ t[j] = b}
           closed == {j \in Code(t) : 1 <= j /\ j <= n /\ t[j] = Closer[b]}
<1>1. Count(t, 1, n, b) = Cardinality(opened) /\ Count(t, 1, n, Closer[b]) = Cardinality(closed)
  BY DEF Count
<1>2. closed = {} /\ k \in opened /\ opened \subseteq 1..n
  OBVIOUS
<1>3. IsFiniteSet(1..n)
  BY FS_Interval
<1> HIDE DEF opened, closed
<1>4. IsFiniteSet(opened) /\ Cardinality(opened) \in Nat
  BY <1>2, <1>3, FS_Subset, FS_CardinalityType
<1>5. Cardinality(opened) # 0 /\ Cardinality(closed) = 0
  BY <1>2, <1>4, FS_EmptySet
<1> QED  BY <1>1, <1>4, <1>5 DEF Balance

(* The block brackets. *)
LEMMA BlockBrackets ==
  "{" \in Openers /\ Closer["{"] = "}"
  BY Zenon DEF Openers, Closer

(* They are not blanks, and nothing that ends a head ends a statement. *)
LEMMA NotStatementEnds ==
  "}" \notin Blanks /\ ")" \notin {";", "}"} /\ ">" \notin {";", "}"}
  BY Zenon DEF Blanks

(* A text of code that opens a block, in which nothing is cut off, has an    *)
(* unclosed brace.                                                         *)
LEMMA UncutBlockIsOpen ==
  ASSUME NEW C, NEW t \in Seq(C), \A k \in DOMAIN t : k \in Code(t),
         Uncut(Trim(t)), ~Blockless(Trim(t))
  PROVE  HasUnclosedBrace(t)
<1> DEFINE n == Len(t)
           s == Trim(t)
<1>0. n \in Nat /\ DOMAIN t = 1..n
  BY LenProperties
<1>1. ~ \A k \in DOMAIN t : t[k] \in Blanks
  <2> SUFFICES ASSUME \A k \in DOMAIN t : t[k] \in Blanks PROVE FALSE
    OBVIOUS
  <2>1. s = <<>>
    BY TrimOfBlank
  <2>2. DOMAIN s = {}
    BY <2>1
  <2> QED  BY <2>2, Zenon DEF Blockless
<1>2. PICK a \in DOMAIN t, b \in DOMAIN t :
        /\ a <= b /\ t[a] \notin Blanks /\ t[b] \notin Blanks
        /\ \A k \in DOMAIN t : t[k] \notin Blanks => a <= k /\ k <= b
  BY <1>1, InkEnds
<1>3. s = SubSeq(t, a, b)
  BY <1>2, TrimIs
<1>4. /\ \A k \in a..b : k - a + 1 \in DOMAIN s /\ s[k - a + 1] = t[k]
      /\ \A k \in DOMAIN s : k + a - 1 \in DOMAIN t /\ s[k] = t[k + a - 1]
  <2>1. a \in 1..n /\ b \in 1..n /\ a <= b
    BY <1>0, <1>2
  <2>2. DOMAIN s = 1..(b - a + 1) /\ \A k \in 1..(b - a + 1) : s[k] = t[a + k - 1]
    BY <1>0, <1>3, <2>1, SubSeqProperties
  <2> HIDE DEF s
  <2>3. ASSUME NEW k \in a..b PROVE k - a + 1 \in DOMAIN s /\ s[k - a + 1] = t[k]
    <3>1. k - a + 1 \in 1..(b - a + 1) /\ a + (k - a + 1) - 1 = k
      BY <2>1
    <3> QED  BY <2>2, <3>1
  <2>4. ASSUME NEW k \in DOMAIN s PROVE k + a - 1 \in DOMAIN t /\ s[k] = t[k + a - 1]
    <3>1. k \in 1..(b - a + 1) /\ k + a - 1 \in 1..n /\ a + k - 1 = k + a - 1
      <4>1. k \in 1..(b - a + 1)
        BY <2>2
      <4>2. n \in Nat /\ a \in 1..n /\ b \in 1..n /\ a <= b
        BY <1>0, <2>1
      <4> HIDE DEF n
      <4> QED  BY <4>1, <4>2
    <3> QED  BY <1>0, <2>2, <3>1
  <2> QED  BY <2>3, <2>4
<1>5. \A k \in DOMAIN t : t[k] \notin Blanks => \E j \in DOMAIN s : s[j] = t[k]
  <2>1. \A k \in DOMAIN t : t[k] \notin Blanks => k \in a..b
    BY <1>0, <1>2
  <2> QED  BY <1>4, <2>1
<1> HIDE DEF s
<1>6. \A k \in DOMAIN t : t[k] # Closer["{"]
  BY <1>5, BlockBrackets, NotStatementEnds, Zenon DEF Uncut, s
<1>7. PICK k \in DOMAIN t : t[k] = "{"
  <2>1. PICK j \in DOMAIN s : s[j] = "{"
    BY Zenon DEF Blockless, s
  <2> QED  BY <1>4, <2>1, Zenon
<1>8. /\ Code(t) \subseteq 1..n
      /\ HasUnclosedBrace(t) <=> Unclosed(t) \/ \E b0 \in Openers : Balance(t, n, b0) > 0
  BY <1>0, UnclosedBraceIs
<1> DEFINE o == "{"
<1>9. o \in Openers /\ t[k] = o /\ \A j \in DOMAIN t : t[j] # Closer[o]
  BY <1>6, <1>7, BlockBrackets, Zenon
<1> HIDE DEF o
<1>10. Balance(t, n, o) > 0
  BY <1>0, <1>8, <1>9, NeverClosed
<1> QED  BY <1>8, <1>9, <1>10

(* p begins the head of a control statement or a template whose bracket      *)
(* opens at i.                                                             *)
HeadOf(t, p, i) ==
  /\ p < i /\ All(t, p + 1, i - 1, {"sp"}) /\ Some(t, p - 1) \notin Words
  /\ \/ t[p] \in Controls /\ t[i] = "(" /\ t[Len(t)] = ")"
     \/ t[p] = "template" /\ t[Len(t)] = ">" /\ Uncut(t)

(* Such a head is incomplete. *)
LEMMA HeadIsIncomplete ==
  ASSUME NEW C, NEW x \in Seq(C), \A k \in DOMAIN x : k \in Code(x),
         \A k \in DOMAIN Trim(x) : Trim(x)[k] # "nl",
         NEW p \in DOMAIN Trim(x), NEW i \in DOMAIN Trim(x), HeadOf(Trim(x), p, i)
  PROVE  IsIncomplete(x)
<1> DEFINE t == Trim(x)
<1>1. Len(t) \in Nat /\ DOMAIN t = 1..Len(t)
  <2>1. CASE \A k \in DOMAIN x : x[k] \in Blanks
    <3>1. t = <<>>
      BY <2>1, TrimOfBlank
    <3> QED  BY <3>1, EmptySeq
  <2>2. CASE ~ \A k \in DOMAIN x : x[k] \in Blanks
    <3>1. PICK a \in DOMAIN x, b \in DOMAIN x :
            /\ a <= b /\ x[a] \notin Blanks /\ x[b] \notin Blanks
            /\ \A k \in DOMAIN x : x[k] \notin Blanks => a <= k /\ k <= b
      BY <2>2, InkEnds
    <3>2. t = SubSeq(x, a, b)
      BY <3>1, TrimIs
    <3>3. a \in 1..(Len(x) + 1) /\ b \in (a - 1)..Len(x)
      <4>1. a \in 1..Len(x) /\ b \in 1..Len(x) /\ a <= b /\ Len(x) \in Nat
        BY <3>1, LenProperties
      <4> QED  BY <4>1
    <3>4. SubSeq(x, a, b) \in Seq(C)
      BY <3>3, SubSeqProperties
    <3>5. t \in Seq(C)
      BY <3>2, <3>4
    <3> HIDE DEF t
    <3> QED  BY <3>5, LenProperties
  <2> QED  BY <2>1, <2>2
<1>2. t # <<>>
  <2> SUFFICES ASSUME t = <<>> PROVE FALSE
    OBVIOUS
  <2>1. DOMAIN t = {}
    OBVIOUS
  <2>2. p \in DOMAIN t
    OBVIOUS
  <2> HIDE DEF t
  <2> QED  BY <2>1, <2>2
<1>3. p < i /\ All(t, p + 1, i - 1, {"sp"}) /\ Some(t, p - 1) \notin Words
  BY DEF HeadOf
<1>4. CASE t[p] \in Controls /\ t[i] = "(" /\ t[Len(t)] = ")"
  <2>1. ControlHead(t)
    BY <1>1, <1>3, <1>4, ControlWaits
  <2> QED  BY <1>2, <1>4, <2>1, NotStatementEnds, Zenon DEF IsIncomplete
<1>5. CASE t[p] = "template" /\ t[Len(t)] = ">" /\ Uncut(t)
  <2>1. CASE Blockless(t)
    <3>1. TemplateHeader(t)
      BY <1>1, <1>5, <2>1, TemplateWaits
    <3> QED  BY <1>2, <1>5, <3>1, NotStatementEnds, Zenon DEF IsIncomplete
  <2>2. CASE ~Blockless(t)
    <3>1. HasUnclosedBrace(x)
      BY <1>5, <2>2, UncutBlockIsOpen
    <3> QED  BY <3>1, Zenon DEF IsIncomplete
  <2> QED  BY <2>1, <2>2
<1> QED  BY <1>4, <1>5 DEF HeadOf
--------------------------------------------------------------------------------
(* The properties.                                                         *)

(* A text is a sequence of tokens. *)
TextOfTokens == text \in Seq(alphabet)

(* It stays one. *)
LEMMA TextIsText == Spec => []TextOfTokens
<1>1. Init => TextOfTokens
  BY EmptySeq DEF Init, TextOfTokens
<1>2. TextOfTokens /\ [Next]_vars => TextOfTokens'
  <2> SUFFICES ASSUME TextOfTokens, [Next]_vars PROVE TextOfTokens'
    OBVIOUS
  <2>1. CASE UNCHANGED vars
    BY <2>1 DEF TextOfTokens, vars
  <2>2. ASSUME NEW c \in alphabet, Type(c) PROVE TextOfTokens'
    BY <2>2, AppendProperties DEF Type, TextOfTokens
  <2> QED  BY <2>1, <2>2 DEF Next
<1> QED  BY <1>1, <1>2, PTL DEF Spec

(* Its places are numbered from 1. *)
LEMMA TextHasPlaces ==
  ASSUME TextOfTokens PROVE Len(text) \in Nat /\ DOMAIN text = 1..Len(text)
BY LenProperties DEF TextOfTokens

(* A text with an open bracket, literal or comment keeps being buffered,   *)
(* whatever surrounds it, unless a bracket was closed too early.           *)
THEOREM OpenKeepsBuffering == Spec => []KeepsBuffering
<1>1. TextOfTokens => KeepsBuffering
  BY TextHasPlaces, OpenIsIncomplete DEF KeepsBuffering
<1> QED  BY <1>1, TextIsText, PTL

(* A statement that ends in ; or } with everything closed is sent. *)
THEOREM FinishedIsSent == Spec => []SendsFinished
<1>1. TextOfTokens => SendsFinished
  BY TextHasPlaces, FinishedIsComplete DEF SendsFinished
<1> QED  BY <1>1, TextIsText, PTL

(* What the sandbox and the version detector read is the code: comments    *)
(* dropped, literals blanked and every other token kept in its order.      *)
THEOREM OnlyCodeIsLeft == Spec => []StripIsExact
<1>1. ASSUME TextOfTokens PROVE StripIsExact
  <2> DEFINE n == Len(text)
             kept == CHOOSE f : f = [k \in 0..n |-> Kept(text, f, k)]
  <2>1. PICK f : /\ f = [k \in 0..n |-> Kept(text, f, k)]
                 /\ \A h : h = [k \in 0..n |-> Kept(text, h, k)] =>
                      StripCommentsAndStrings(text) = h[n]
    BY <1>1, TextHasPlaces, StripIsKept
  <2>2. kept = [k \in 0..n |-> Kept(text, kept, k)]
    BY <2>1
  <2>3. StripCommentsAndStrings(text) = kept[n]
    <3> HIDE DEF kept
    <3> QED  BY <2>1, <2>2
  <2>4. StripIsExact <=> StripCommentsAndStrings(text) = kept[n]
    BY DEF StripIsExact, Kept, Owner
  <2> QED  BY <2>3, <2>4
<1> QED  BY <1>1, TextIsText, PTL

(* The standard asked for is that of the code: no word of a comment or of a *)
(* literal, and no part of a word but in what begins like std::format.     *)
THEOREM VersionComesFromCode == Spec => []VersionFromCode
<1>1. ASSUME TextOfTokens PROVE VersionFromCode
  <2> SUFFICES ASSUME ~EndsLikeImport(text), Unseparated(text)
               PROVE  Detect(text) = IF Keyword(text, Keywords23) THEN 23
                                     ELSE IF \/ Keyword(text, Keywords20)
                                             \/ \E k \in Code(text) : Follows(text, k, <<"<", "=", ">">>)
                                             \/ \E k \in Code(text), f \in Names20 :
                                                  Follows(text, k, <<"std", ":", ":", f>>)
                                       THEN 20
                                     ELSE 17
    BY DEF VersionFromCode, Unseparated
  <2>1. Len(text) \in Nat /\ DOMAIN text = 1..Len(text)
    BY <1>1, TextHasPlaces
  <2> QED  BY <2>1, DetectIs
<1> QED  BY <1>1, TextIsText, PTL

(* The head of a control statement or of a template waits for its body. *)
THEOREM HeadsAreBuffered == Spec => []HeadsWait
<1>1. ASSUME TextOfTokens PROVE HeadsWait
  <2> DEFINE t == Trim(text)
  <2>1. (\A k \in DOMAIN t : t[k] # "nl") /\ DOMAIN text \subseteq Code(text)
          => \A p, i \in DOMAIN t : HeadOf(t, p, i) => IsIncomplete(text)
    BY <1>1, HeadIsIncomplete DEF TextOfTokens
  <2> QED  BY <2>1, Zenon DEF HeadsWait, HeadOf, Group, Uncut
<1> QED  BY <1>1, TextIsText, PTL
================================================================================
