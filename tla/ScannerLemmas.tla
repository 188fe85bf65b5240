----------------------------- MODULE ScannerLemmas -----------------------------
(***************************************************************************)
(* Lemmas about the operators of Scanner, for every text: what Trim leaves,*)
(* and that the recursions over a text exist.                              *)
(***************************************************************************)
EXTENDS Scanner, WellFoundedInduction, SequenceTheorems, TLAPS

(* Numbers up to n.                                                        *)

(* A set of naturals has a least element. *)
LEMMA LeastNatural ==
  ASSUME NEW T, T \subseteq Nat, T # {} PROVE \E x \in T : \A y \in T : x <= y
<1>1. PICK x \in T : \A y \in T : ~ (<<y, x>> \in OpToRel(<, Nat))
  BY NatLessThanWellFounded, WFMin, Zenon
<1>2. \A y \in T : ~ (y < x)
  BY <1>1 DEF OpToRel
<1> QED  BY <1>2

(* A bounded one has a greatest. *)
LEMMA GreatestNatural ==
  ASSUME NEW n \in Nat, NEW T, T \subseteq 0..n, T # {} PROVE \E x \in T : \A y \in T : y <= x
<1> DEFINE U == {u \in 0..n : n - u \in T}
<1>1. U \subseteq Nat /\ U # {}
  <2>1. PICK x \in T : TRUE
    OBVIOUS
  <2>2. PICK u \in 0..n : n - u = x
    <3>1. n - x \in 0..n /\ n - (n - x) = x
      OBVIOUS
    <3> QED  BY <3>1
  <2>3. u \in U
    BY <2>2
  <2>4. U \subseteq Nat
    OBVIOUS
  <2> HIDE DEF U
  <2> QED  BY <2>3, <2>4
<1>2. PICK u \in U : \A v \in U : u <= v
  <2> HIDE DEF U
  <2> QED  BY <1>1, LeastNatural
<1>3. ASSUME NEW y \in T PROVE y <= n - u
  <2>1. n - y \in 0..n /\ n - (n - y) = y
    OBVIOUS
  <2> QED  BY <1>2, <2>1
<1> QED  BY <1>2, <1>3

(* Induction up to n, over a set. *)
LEMMA UpToInduction ==
  ASSUME NEW n \in Nat, NEW S, 0 \in S, \A k \in 0..n : k \in S /\ k < n => k + 1 \in S
  PROVE  0..n \subseteq S
<1> DEFINE T == (0..n) \ S
<1> SUFFICES ASSUME T # {} PROVE FALSE
  OBVIOUS
<1>1. PICK x \in T : \A y \in T : x <= y
  <2>1. T \subseteq Nat
    OBVIOUS
  <2> HIDE DEF T
  <2> QED  BY <2>1, LeastNatural
<1>2. x - 1 \in 0..n /\ x - 1 < n /\ x - 1 < x /\ (x - 1) + 1 = x
  OBVIOUS
<1> QED  BY <1>1, <1>2

(* Induction down from n to i, over a set. *)
LEMMA DownToInduction ==
  ASSUME NEW i \in Nat, NEW n \in Nat, NEW S,
         \A k \in i..n : (\A j \in (k + 1)..n : j \in S) => k \in S
  PROVE  i..n \subseteq S
<1> DEFINE T == (i..n) \ S
<1> SUFFICES ASSUME T # {} PROVE FALSE
  OBVIOUS
<1>1. PICK x \in T : \A y \in T : y <= x
  <2>1. T \subseteq 0..n
    OBVIOUS
  <2> HIDE DEF T
  <2> QED  BY <2>1, GreatestNatural
<1>2. \A j \in (x + 1)..n : j \in S
  BY <1>1
<1> QED  BY <1>2

(* The steps of a recursion over 0..n, each of which reads only what is     *)
(* before it; of one over 1..n, each of which reads only what is behind it. *)
Forward(n, V, step) ==
  /\ n \in Nat /\ V # {} /\ step \in [0..n -> [[0..n -> V] -> V]]
  /\ \A k \in 0..n : \A f, h \in [0..n -> V] :
       (\A j \in 0..n : j < k => f[j] = h[j]) => step[k][f] = step[k][h]
Backward(n, V, step) ==
  /\ n \in Nat /\ n > 0 /\ V # {} /\ step \in [1..n -> [[1..n -> V] -> V]]
  /\ \A k \in 1..n : \A f, h \in [1..n -> V] :
       (\A j \in 1..n : k < j => f[j] = h[j]) => step[k][f] = step[k][h]
Solves(g, D, V, step) == g \in [D -> V] /\ \A k \in D : g[k] = step[k][g]

(* A recursion that reads what is before exists. *)
LEMMA Recursion ==
  ASSUME NEW n, NEW V, NEW step, Forward(n, V, step) PROVE \E g : Solves(g, 0..n, V, step)
<1>0. /\ n \in Nat /\ V # {} /\ step \in [0..n -> [[0..n -> V] -> V]]
      /\ \A k \in 0..n : \A f, h \in [0..n -> V] :
           (\A j \in 0..n : j < k => f[j] = h[j]) => step[k][f] = step[k][h]
  BY DEF Forward
<1> DEFINE Solved(m) == \E g \in [0..n -> V] : \A k \in 0..n : k <= m => g[k] = step[k][g]
           S == {m \in 0..n : Solved(m)}
<1>1. ASSUME NEW m \in 0..n, NEW g \in [0..n -> V], \A k \in 0..n : k < m => g[k] = step[k][g]
      PROVE  Solved(m)
  <2> DEFINE h == [g EXCEPT ![m] = step[m][g]]
  <2>1. step[m][g] \in V
    BY <1>0
  <2>2. h \in [0..n -> V]
    BY <2>1
  <2>3. \A j \in 0..n : h[j] = IF j = m THEN step[m][g] ELSE g[j]
    OBVIOUS
  <2> HIDE DEF h
  <2>4. ASSUME NEW k \in 0..n, k <= m PROVE h[k] = step[k][h]
    <3>1. \A j \in 0..n : j < k => h[j] = g[j]
      BY <2>3, <2>4
    <3>2. step[k][h] = step[k][g]
      BY <1>0, <2>2, <3>1
    <3> QED  BY <1>1, <2>3, <2>4, <3>2
  <2> QED  BY <2>2, <2>4
<1>2. Solved(0)
  <2>1. PICK v \in V : TRUE
    BY <1>0
  <2> DEFINE g0 == [k \in 0..n |-> v]
  <2>2. g0 \in [0..n -> V] /\ 0 \in 0..n
    BY <1>0
  <2>3. \A k \in 0..n : ~ (k < 0)
    OBVIOUS
  <2> HIDE DEF g0, Solved
  <2> QED  BY <1>1, <2>2, <2>3
<1>3. ASSUME NEW m \in 0..n, Solved(m), m < n PROVE Solved(m + 1)
  <2>1. PICK g \in [0..n -> V] : \A k \in 0..n : k <= m => g[k] = step[k][g]
    BY <1>3
  <2>2. m + 1 \in 0..n /\ \A k \in 0..n : k < m + 1 => k <= m
    BY <1>0, <1>3
  <2>3. \A k \in 0..n : k < m + 1 => g[k] = step[k][g]
    BY <2>1, <2>2
  <2> HIDE DEF Solved
  <2> QED  BY <1>1, <2>2, <2>3
<1>4. n \in S
  <2> HIDE DEF Solved
  <2>1. 0 \in S /\ \A m \in 0..n : m \in S /\ m < n => m + 1 \in S
    BY <1>0, <1>2, <1>3
  <2> HIDE DEF S
  <2>2. 0..n \subseteq S
    BY <1>0, <2>1, UpToInduction
  <2> QED  BY <1>0, <2>2
<1>5. PICK g \in [0..n -> V] : \A k \in 0..n : k <= n => g[k] = step[k][g]
  BY <1>4
<1>6. Solves(g, 0..n, V, step)
  BY <1>0, <1>5 DEF Solves
<1> QED  BY <1>6

(* So does one that reads what is behind. *)
LEMMA RecursionDown ==
  ASSUME NEW n, NEW V, NEW step, Backward(n, V, step) PROVE \E g : Solves(g, 1..n, V, step)
<1>0. /\ n \in Nat /\ n > 0 /\ V # {} /\ step \in [1..n -> [[1..n -> V] -> V]]
      /\ \A k \in 1..n : \A f, h \in [1..n -> V] :
           (\A j \in 1..n : k < j => f[j] = h[j]) => step[k][f] = step[k][h]
  BY DEF Backward
<1> DEFINE m == n - 1
           Turned(f) == [k \in 1..n |-> f[n - k]]
           back == [k \in 0..m |-> [f \in [0..m -> V] |-> step[n - k][Turned(f)]]]
<1>1. m \in Nat /\ \A k \in 1..n : n - k \in 0..m /\ n - (n - k) = k
  BY <1>0
<1>2. \A k \in 0..m : n - k \in 1..n /\ n - (n - k) = k
  BY <1>0
<1>3. \A f \in [0..m -> V] : Turned(f) \in [1..n -> V] /\ \A k \in 1..n : Turned(f)[k] = f[n - k]
  BY <1>1
<1> HIDE DEF Turned, m
<1>4. back \in [0..m -> [[0..m -> V] -> V]]
  <2>1. ASSUME NEW k \in 0..m, NEW f \in [0..m -> V] PROVE step[n - k][Turned(f)] \in V
    <3>1. n - k \in 1..n /\ Turned(f) \in [1..n -> V]
      BY <1>2, <1>3
    <3> QED  BY <1>0, <3>1
  <2> QED  BY <2>1
<1>5. ASSUME NEW k \in 0..m, NEW f \in [0..m -> V], NEW h \in [0..m -> V],
             \A j \in 0..m : j < k => f[j] = h[j]
      PROVE  back[k][f] = back[k][h]
  <2>1. Turned(f) \in [1..n -> V] /\ Turned(h) \in [1..n -> V] /\ n - k \in 1..n
    BY <1>2, <1>3
  <2>2. ASSUME NEW j \in 1..n, n - k < j PROVE Turned(f)[j] = Turned(h)[j]
    <3>1. n - j \in 0..m /\ n - j < k
      BY <1>0, <1>1, <1>2, <1>5, <2>2
    <3>2. f[n - j] = h[n - j]
      BY <1>5, <3>1
    <3> QED  BY <1>3, <3>2
  <2>3. step[n - k][Turned(f)] = step[n - k][Turned(h)]
    BY <1>0, <2>1, <2>2
  <2> QED  BY <2>3
<1> HIDE DEF back
<1>8. Forward(m, V, back)
  BY <1>0, <1>1, <1>4, <1>5 DEF Forward
<1>9. PICK g : Solves(g, 0..m, V, back)
  BY <1>8, Recursion
<1>6. g \in [0..m -> V] /\ \A k \in 0..m : g[k] = back[k][g]
  BY <1>9 DEF Solves
<1>7. ASSUME NEW k \in 1..n PROVE Turned(g)[k] = step[k][Turned(g)]
  <2>1. n - k \in 0..m /\ n - (n - k) = k
    BY <1>1
  <2>2. Turned(g)[k] = g[n - k] /\ g[n - k] = back[n - k][g]
    BY <1>3, <1>6, <2>1
  <2>3. back[n - k][g] = step[n - (n - k)][Turned(g)]
    BY <1>6, <2>1 DEF back
  <2> QED  BY <2>1, <2>2, <2>3
<1>10. Solves(Turned(g), 1..n, V, step)
  BY <1>3, <1>6, <1>7 DEF Solves
<1> QED  BY <1>10
--------------------------------------------------------------------------------
(* Trim.                                                                   *)

(* A blank text trims to nothing. *)
LEMMA TrimOfBlank ==
  ASSUME NEW t, \A k \in DOMAIN t : t[k] \in Blanks PROVE Trim(t) = <<>>
  BY DEF Trim

(* Any other keeps what is between its first and its last ink. *)
LEMMA TrimIs ==
  ASSUME NEW C, NEW t \in Seq(C), NEW a \in DOMAIN t, NEW b \in DOMAIN t,
         t[a] \notin Blanks, t[b] \notin Blanks,
         \A k \in DOMAIN t : t[k] \notin Blanks => a <= k /\ k <= b
  PROVE  Trim(t) = SubSeq(t, a, b)
<1> DEFINE ink == {k \in DOMAIN t : t[k] \notin Blanks}
<1>0. DOMAIN t = 1..Len(t) /\ Len(t) \in Nat
  OBVIOUS
<1>1. a \in ink /\ b \in ink /\ ink \subseteq Int /\ \A k \in ink : a <= k /\ k <= b
  BY <1>0
<1>2. Trim(t) = SubSeq(t, CHOOSE k \in ink : \A j \in ink : k <= j,
                          CHOOSE k \in ink : \A j \in ink : j <= k)
  BY <1>1 DEF Trim
<1> HIDE DEF ink
<1>3. (CHOOSE k \in ink : \A j \in ink : k <= j) = a
  <2>1. \A k \in ink : (\A j \in ink : k <= j) => k = a
    BY <1>1
  <2> QED  BY <1>1, <2>1
<1>4. (CHOOSE k \in ink : \A j \in ink : j <= k) = b
  <2>1. \A k \in ink : (\A j \in ink : j <= k) => k = b
    BY <1>1
  <2> QED  BY <1>1, <2>1
<1> QED  BY <1>2, <1>3, <1>4

(* There are a first and a last ink. *)
LEMMA InkEnds ==
  ASSUME NEW C, NEW t \in Seq(C), ~ \A k \in DOMAIN t : t[k] \in Blanks
  PROVE  \E a, b \in DOMAIN t :
           /\ a <= b /\ t[a] \notin Blanks /\ t[b] \notin Blanks
           /\ \A k \in DOMAIN t : t[k] \notin Blanks => a <= k /\ k <= b
<1> DEFINE ink == {k \in DOMAIN t : t[k] \notin Blanks}
<1>1. DOMAIN t = 1..Len(t) /\ Len(t) \in Nat
  OBVIOUS
<1>2. ink \subseteq Nat /\ ink \subseteq 0..Len(t) /\ ink # {}
  BY <1>1
<1>3. PICK a \in ink : \A k \in ink : a <= k
  <2> HIDE DEF ink
  <2> QED  BY <1>2, LeastNatural
<1>4. PICK b \in ink : \A k \in ink : k <= b
  <2> HIDE DEF ink
  <2> QED  BY <1>1, <1>2, GreatestNatural
<1> QED  BY <1>3, <1>4
================================================================================
