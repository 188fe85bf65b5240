------------------------------ MODULE ProgramProofs ------------------------------
(***************************************************************************)
(* Proofs about Program: the number of the prompt stays an int, is ahead   *)
(* of the history, and only comes down when entries are taken back; and    *)
(* the session starts from exactly what the command line asked for.        *)
(***************************************************************************)
EXTENDS Program, ScannerLemmas

(* The notebook's part: what its commands do to the length of the history. *)

NoteTypes == NB!TypeOK
Busyness == Len(done) + Len(todo)

(* Carrying a history out again takes one task for every entry. *)
LEMMA RedoneIsTasks ==
  ASSUME NEW s \in Seq(Origins)
  PROVE  NB!Redone(s) \in Seq(NB!Task) /\ Len(NB!Redone(s)) = Len(s)
<1>1. DOMAIN s = 1..Len(s) /\ Len(s) \in Nat
  OBVIOUS
<1>2. \A k \in 1..Len(s) : s[k] \in Origins
  OBVIOUS
<1>3. NB!Redone(s) \in [1..Len(s) -> NB!Task]
  BY <1>1, <1>2 DEF NB!Redone, NB!Task
<1> QED  BY <1>1, <1>3, SeqDef

(* A history without one of its entries is one shorter. *)
LEMMA WithoutOne ==
  ASSUME NEW s \in Seq(Origins), NEW k \in DOMAIN s
  PROVE  NB!Without(s, k) \in Seq(Origins) /\ Len(NB!Without(s, k)) = Len(s) - 1
<1>1. k \in 1..Len(s) /\ Len(s) \in Nat
  OBVIOUS
<1>2. SubSeq(s, 1, k - 1) \in Seq(Origins) /\ Len(SubSeq(s, 1, k - 1)) = k - 1
  BY <1>1, SubSeqProperties
<1>3. SubSeq(s, k + 1, Len(s)) \in Seq(Origins) /\ Len(SubSeq(s, k + 1, Len(s))) = Len(s) - k
  BY <1>1, SubSeqProperties
<1> DEFINE a == SubSeq(s, 1, k - 1)  b == SubSeq(s, k + 1, Len(s))
<1>4. NB!Without(s, k) = a \o b
  BY DEF NB!Without
<1> HIDE DEF a, b
<1>5. a \in Seq(Origins) /\ Len(a) = k - 1 /\ b \in Seq(Origins) /\ Len(b) = Len(s) - k
  BY <1>2, <1>3 DEF a, b
<1>6. a \o b \in Seq(Origins) /\ Len(a \o b) = Len(a) + Len(b)
  BY <1>5, ConcatProperties
<1> QED  BY <1>1, <1>4, <1>5, <1>6

(* Two entries that change places leave the length alone. *)
LEMMA ExchangedIsTasks ==
  ASSUME NEW s \in Seq(Origins), NEW i \in DOMAIN s, NEW j \in DOMAIN s
  PROVE  LET t == [k \in DOMAIN s |-> NB!Own(NB!Exchanged(s, i, j)[k])]
         IN  t \in Seq(NB!Task) /\ Len(t) = Len(s)
<1> DEFINE t == [k \in DOMAIN s |-> NB!Own(NB!Exchanged(s, i, j)[k])]
<1>1. DOMAIN s = 1..Len(s) /\ Len(s) \in Nat
  OBVIOUS
<1>2. \A k \in DOMAIN s : NB!Exchanged(s, i, j)[k] \in Origins
  BY DEF NB!Exchanged
<1>3. t \in [1..Len(s) -> NB!Task]
  BY <1>1, <1>2 DEF NB!Own, NB!Task
<1> HIDE DEF t
<1>4. t \in Seq(NB!Task) /\ Len(t) = Len(s)
  BY <1>1, <1>3, SeqDef
<1> QED  BY <1>4 DEF t

(* A rebuild forgets the history and has at most its tasks to do. *)
LEMMA RebuildBounds ==
  ASSUME NoteTypes, NEW tasks \in Seq(NB!Task), NEW next \in Seq(NB!Task), NB!Rebuild(tasks, next)
  PROVE  /\ NoteTypes' /\ todo = <<>>
         /\ Busyness' <= Len(tasks) + Len(next)
<1>1. tasks \o next \in Seq(NB!Task) /\ Len(tasks \o next) = Len(tasks) + Len(next)
  BY ConcatProperties
<1>2. done' = <<>> /\ todo = <<>> /\ version' = version
  BY DEF NB!Rebuild, NB!Busy
<1>3. todo' \in {tasks \o next, next} /\ answer' \in BOOLEAN
  BY DEF NB!Rebuild
<1>4. Len(todo') <= Len(tasks) + Len(next) /\ Len(todo') \in Nat /\ todo' \in Seq(NB!Task)
  <2>1. Len(tasks) \in Nat /\ Len(next) \in Nat
    BY LenProperties
  <2>2. CASE todo' = tasks \o next
    BY <1>1, <2>1, <2>2
  <2>3. CASE todo' = next
    BY <2>1, <2>3
  <2> QED  BY <1>3, <2>2, <2>3
<1>5. Len(done') = 0 /\ done' \in Seq(Origins)
  BY <1>2, EmptySeq
<1>6. NoteTypes'
  BY <1>2, <1>3, <1>4, <1>5 DEF NoteTypes, NB!TypeOK
<1>7. Busyness' = Len(todo')
  BY <1>4, <1>5 DEF Busyness
<1> QED  BY <1>2, <1>4, <1>6, <1>7

(* The first task, and what is left behind it. *)
LEMMA HeadBounds ==
  ASSUME NoteTypes, todo # <<>>
  PROVE  /\ Head(todo) \in NB!Task /\ Head(todo).code \in Origins /\ Head(todo).own \in BOOLEAN
         /\ Tail(todo) \in Seq(NB!Task) /\ Len(Tail(todo)) = Len(todo) - 1
<1>1. todo \in Seq(NB!Task)
  BY DEF NoteTypes, NB!TypeOK
<1>2. /\ Head(todo) \in NB!Task /\ Tail(todo) \in Seq(NB!Task)
      /\ Len(Tail(todo)) = Len(todo) - 1
  BY <1>1, HeadTailProperties
<1> QED  BY <1>2 DEF NB!Task

(* A task that is kept becomes an entry. *)
LEMMA KeepBounds ==
  ASSUME NoteTypes, NB!Keep
  PROVE  /\ NoteTypes' /\ Busyness' = Busyness
         /\ todo # <<>> /\ Len(todo') = Len(todo) - 1
         /\ Head(todo).own => answer'
<1>1. todo # <<>> /\ done' = Append(done, Head(todo).code) /\ todo' = Tail(todo)
  BY DEF NB!Keep, NB!Busy
<1>2. answer' = (IF Head(todo).own THEN TRUE ELSE answer) /\ version' = version
  BY DEF NB!Keep, NB!Answers
<1>3. done \in Seq(Origins) /\ Len(done) \in Nat /\ todo \in Seq(NB!Task) /\ Len(todo) \in Nat
  BY LenProperties DEF NoteTypes, NB!TypeOK
<1>4. done' \in Seq(Origins) /\ Len(done') = Len(done) + 1
  BY <1>1, <1>3, HeadBounds, AppendProperties
<1>5. todo' \in Seq(NB!Task) /\ Len(todo') = Len(todo) - 1
  BY <1>1, HeadBounds
<1>6. NoteTypes'
  BY <1>1, <1>2, <1>4, <1>5, HeadBounds DEF NoteTypes, NB!TypeOK
<1> QED  BY <1>1, <1>2, <1>3, <1>4, <1>5, <1>6 DEF Busyness

(* A task that is skipped does not. *)
LEMMA SkipBounds ==
  ASSUME NoteTypes, NEW r \in BOOLEAN, NB!Skip(r)
  PROVE  /\ NoteTypes' /\ todo # <<>> /\ done' = done /\ Len(todo') = Len(todo) - 1
<1>1. todo # <<>> /\ todo' = Tail(todo) /\ done' = done /\ version' = version
  BY DEF NB!Skip, NB!Busy
<1>2. answer' = (IF Head(todo).own THEN r ELSE answer)
  BY DEF NB!Skip, NB!Answers
<1>3. todo' \in Seq(NB!Task) /\ Len(todo') = Len(todo) - 1
  BY <1>1, HeadBounds
<1>4. answer' \in BOOLEAN
  BY <1>1, <1>2, HeadBounds DEF NoteTypes, NB!TypeOK
<1> QED  BY <1>1, <1>3, <1>4 DEF NoteTypes, NB!TypeOK

(* A command that is given up has nothing left to do. *)
LEMMA GiveUpBounds ==
  ASSUME NoteTypes, NB!GiveUp
  PROVE  NoteTypes' /\ todo # <<>> /\ done' = done /\ todo' = <<>> /\ ~answer'
<1>1. <<>> \in Seq(NB!Task)
  BY EmptySeq
<1> QED  BY <1>1 DEF NB!GiveUp, NB!Busy, NB!TypeOK, NoteTypes

(* An answer without a task. *)
LEMMA ReportBounds ==
  ASSUME NoteTypes, NEW r \in BOOLEAN, NB!Report(r)
  PROVE  NoteTypes' /\ todo = <<>> /\ todo' = <<>> /\ done' = done /\ answer' = r
  BY DEF NB!Report, NB!Busy, NB!TypeOK, NoteTypes

(* An input is one task, and its result is the answer. *)
LEMMA EnterBounds ==
  ASSUME NoteTypes, NEW c \in Origins, NB!Enter(c)
  PROVE  /\ NoteTypes' /\ todo = <<>> /\ done' = done
         /\ Len(todo') = 1 /\ todo' # <<>> /\ Head(todo').own
  BY DEF NB!Enter, NB!Own, NB!Task, NB!Busy, NB!TypeOK, NoteTypes

(* undo(n) takes n entries or all, or none and answers FALSE. *)
LEMMA UndoBounds ==
  ASSUME NoteTypes, NEW n \in Nat, NB!Undo(n)
  PROVE  /\ NoteTypes' /\ todo = <<>> /\ todo' = <<>>
         /\ IF answer' THEN Len(done') = (IF n < Len(done) THEN Len(done) - n ELSE 0)
            ELSE done' = done
<1>1. CASE NB!Report(FALSE)
  BY <1>1, ReportBounds
<1>2. CASE /\ ~NB!Busy
           /\ done' = SubSeq(done, 1, IF n < Len(done) THEN Len(done) - n ELSE 0)
           /\ answer' = TRUE /\ UNCHANGED <<todo, version>>
  <2> DEFINE m == IF n < Len(done) THEN Len(done) - n ELSE 0
  <2>1. done \in Seq(Origins) /\ Len(done) \in Nat
    BY LenProperties DEF NoteTypes, NB!TypeOK
  <2>2. m \in Nat /\ m <= Len(done)
    BY <2>1
  <2>3. SubSeq(done, 1, m) \in Seq(Origins) /\ Len(SubSeq(done, 1, m)) = m
    BY <2>1, <2>2, SubSeqProperties
  <2> QED  BY <1>2, <2>3 DEF NB!Busy, NB!TypeOK, NoteTypes
<1> QED  BY <1>1, <1>2 DEF NB!Undo

(* stackPop(n) takes at least as many, or none. *)
LEMMA PopBounds ==
  ASSUME NoteTypes, NEW n \in Nat, NB!Pop(n)
  PROVE  /\ NoteTypes' /\ todo = <<>> /\ todo' = <<>>
         /\ IF answer' THEN Len(done') <= (IF n < Len(done) THEN Len(done) - n ELSE 0)
            ELSE done' = done
<1>1. CASE done = <<>> /\ NB!Report(FALSE)
  BY <1>1, ReportBounds
<1>2. CASE NB!Undo(IF n = 0 THEN 1 ELSE n)
  <2>1. done \in Seq(Origins) /\ Len(done) \in Nat
    BY LenProperties DEF NoteTypes, NB!TypeOK
  <2> QED  BY <1>2, <2>1, UndoBounds
<1> QED  BY <1>1, <1>2 DEF NB!Pop

(* clear and reset leave nothing. *)
LEMMA ClearBounds ==
  ASSUME NoteTypes, NB!Clear
  PROVE  NoteTypes' /\ todo = <<>> /\ todo' = <<>> /\ done' = <<>>
  BY DEF NB!Clear, NB!Busy, NB!TypeOK, NoteTypes

(* stackRemove and stackSet leave at most the history and the new input. *)
LEMMA RemoveBounds ==
  ASSUME NoteTypes, NEW next \in Seq(NB!Task), NB!Remove(next)
  PROVE  NoteTypes' /\ todo = <<>> /\ Busyness' <= Len(done) + Len(next)
<1>0. done \in Seq(Origins) /\ Len(done) \in Nat /\ Len(next) \in Nat
  BY LenProperties DEF NoteTypes, NB!TypeOK
<1>1. CASE ~NB!Busy /\ todo' = next /\ answer' \in BOOLEAN /\ UNCHANGED <<done, version>>
  BY <1>0, <1>1 DEF NoteTypes, NB!TypeOK, NB!Busy, Busyness
<1>2. ASSUME NEW k \in DOMAIN done, NB!Rebuild(NB!Redone(NB!Without(done, k)), next)
      PROVE  NoteTypes' /\ todo = <<>> /\ Busyness' <= Len(done) + Len(next)
  <2>1. /\ NB!Redone(NB!Without(done, k)) \in Seq(NB!Task)
        /\ Len(NB!Redone(NB!Without(done, k))) = Len(done) - 1
    BY <1>0, <1>2, WithoutOne, RedoneIsTasks
  <2>2. NoteTypes' /\ todo = <<>> /\ Busyness' <= Len(done) - 1 + Len(next)
    BY <1>2, <2>1, RebuildBounds
  <2>3. Busyness' \in Int
    BY <2>2, LenProperties DEF NoteTypes, NB!TypeOK, Busyness
  <2> QED  BY <1>0, <2>2, <2>3
<1> QED  BY <1>1, <1>2 DEF NB!Remove

(* stackSwap never adds an entry. *)
LEMMA SwapBounds ==
  ASSUME NoteTypes, NEW i \in Nat, NEW j \in Nat, NB!Swap(i, j)
  PROVE  NoteTypes' /\ todo = <<>> /\ Busyness' <= Len(done)
<1>0. done \in Seq(Origins) /\ Len(done) \in Nat
  BY LenProperties DEF NoteTypes, NB!TypeOK
<1>1. ASSUME NEW r \in BOOLEAN, NB!Report(r)
      PROVE  NoteTypes' /\ todo = <<>> /\ Busyness' <= Len(done)
  BY <1>0, <1>1, ReportBounds DEF Busyness
<1>2. CASE /\ i \in DOMAIN done /\ j \in DOMAIN done
           /\ NB!Rebuild([k \in DOMAIN done |-> NB!Own(NB!Exchanged(done, i, j)[k])], <<>>)
  <2> DEFINE t == [k \in DOMAIN done |-> NB!Own(NB!Exchanged(done, i, j)[k])]
  <2>1. t \in Seq(NB!Task) /\ Len(t) = Len(done)
    BY <1>0, <1>2, ExchangedIsTasks
  <2>2. NB!Rebuild(t, <<>>)
    BY <1>2
  <2> HIDE DEF t
  <2>3. <<>> \in Seq(NB!Task) /\ Len(<<>>) = 0
    BY EmptySeq
  <2>4. NoteTypes' /\ todo = <<>> /\ Busyness' <= Len(t) + Len(<<>>)
    BY <2>1, <2>2, <2>3, RebuildBounds
  <2>5. Len(t) + Len(<<>>) = Len(done)
    BY <1>0, <2>1, <2>3
  <2> QED  BY <2>4, <2>5
<1> QED  BY <1>1, <1>2 DEF NB!Swap

(* A new search path never adds an entry. *)
LEMMA OptionBounds ==
  ASSUME NoteTypes, NB!Option
  PROVE  NoteTypes' /\ todo = <<>> /\ Busyness' <= Len(done)
<1>0. done \in Seq(Origins) /\ Len(done) \in Nat
  BY LenProperties DEF NoteTypes, NB!TypeOK
<1>1. ASSUME NEW r \in BOOLEAN, NB!Report(r)
      PROVE  NoteTypes' /\ todo = <<>> /\ Busyness' <= Len(done)
  BY <1>0, <1>1, ReportBounds DEF Busyness
<1>2. CASE NB!Rebuild(NB!Redone(done), <<>>)
  <2>1. NB!Redone(done) \in Seq(NB!Task) /\ Len(NB!Redone(done)) = Len(done)
    BY <1>0, RedoneIsTasks
  <2>2. <<>> \in Seq(NB!Task) /\ Len(<<>>) = 0
    BY EmptySeq
  <2>3. NoteTypes' /\ todo = <<>> /\ Busyness' <= Len(NB!Redone(done)) + Len(<<>>)
    BY <1>2, <2>1, <2>2, RebuildBounds
  <2>4. Len(NB!Redone(done)) + Len(<<>>) = Len(done)
    BY <1>0, <2>1, <2>2
  <2> QED  BY <2>3, <2>4
<1> QED  BY <1>1, <1>2 DEF NB!Option
--------------------------------------------------------------------------------
(* Numbers and words.                                                      *)

(* There are ints. *)
LEMMA WidthIsPositive == Width \in Nat /\ Width > 0
  BY MaxIntAssumption DEF Width

(* A conversion to int gives an int. *)
LEMMA AsIntRange ==
  ASSUME NEW x \in Int PROVE AsInt(x) \in -(MaxInt + 1)..MaxInt
  BY MaxIntAssumption DEF AsInt, Width

(* An int converted to int is itself. *)
LEMMA AsIntSame ==
  ASSUME NEW x \in -(MaxInt + 1)..MaxInt PROVE AsInt(x) = x
  BY MaxIntAssumption DEF AsInt, Width

(* A count that was typed is a natural number. *)
LEMMA NumberIsNat ==
  ASSUME NEW ws PROVE Number(ws) \in Nat
<1>1. CASE ws # <<>> /\ ws[1] \in DOMAIN Numerals /\ Numerals[ws[1]] > 0
  <2>1. Numerals[ws[1]] \in Nat
    BY <1>1, LinesAssumption
  <2> QED  BY <1>1, <2>1, WidthIsPositive DEF Number
<1>2. CASE ~(ws # <<>> /\ ws[1] \in DOMAIN Numerals /\ Numerals[ws[1]] > 0)
  BY <1>2 DEF Number
<1> QED  BY <1>1, <1>2

(* The lowered number is an int, whatever was to be taken from it. *)
LEMMA LoweredRange ==
  ASSUME NEW p \in -(MaxInt + 1)..MaxInt, NEW n \in Nat, NEW q \in Lowered(p, n)
  PROVE  q \in -(MaxInt + 1)..MaxInt
<1>1. AsInt(p - n) \in -(MaxInt + 1)..MaxInt
  BY MaxIntAssumption, AsIntRange
<1>2. 1 \in -(MaxInt + 1)..MaxInt
  BY MaxIntAssumption
<1> QED  BY <1>1, <1>2 DEF Lowered

(* Below MaxInt nothing wraps around: the number comes down, to 1 at least. *)
LEMMA LoweredSmall ==
  ASSUME NEW p \in 1..MaxInt, NEW n \in Nat, n < MaxInt, NEW q \in Lowered(p, n)
  PROVE  q = IF p > n + 1 THEN p - n ELSE 1
<1>1. n \in -(MaxInt + 1)..MaxInt /\ p - n \in -(MaxInt + 1)..MaxInt
  BY MaxIntAssumption
<1>2. AsInt(n) = n /\ AsInt(p - n) = p - n
  BY <1>1, AsIntSame
<1> QED  BY <1>2, MaxIntAssumption DEF Lowered

(* The buffer with another line is text. *)
LEMMA JoinedIsText ==
  ASSUME NEW b \in Seq(Chars), NEW l \in Lines
  PROVE  Joined(b, l) \in Seq(Chars)
<1>1. l.text \in Seq(Chars)
  <2>1. l.text \in Seq(STRING)
    BY LinesAssumption
  <2>2. \A k \in 1..Len(l.text) : l.text[k] \in Chars
    BY <2>1 DEF Chars
  <2> QED  BY <2>1, <2>2, SeqDef
<1>2. <<"nl">> \in Seq(Chars)
  <2>1. "nl" \in Chars
    BY DEF Chars
  <2> HIDE DEF Chars
  <2> QED  BY <2>1
<1>3. l.text \o <<"nl">> \in Seq(Chars)
  BY <1>1, <1>2, ConcatProperties
<1>4. b \o l.text \in Seq(Chars)
  BY <1>1, ConcatProperties
<1>5. b \o l.text \o <<"nl">> \in Seq(Chars)
  BY <1>2, <1>4, ConcatProperties
<1> QED  BY <1>3, <1>5 DEF Joined
--------------------------------------------------------------------------------
(* The inductive invariant.                                                *)

Settled == {"none", "clear", "reset", "load", "set", "other", "file", "code"}

(* Where a call may be under way, and what it leaves alone. *)
Underway ==
  /\ reading => stage = "session"
  /\ ~reading => call.op \in {"none", "file", "code"}
  /\ call.op = "none" => call = Idle /\ todo = <<>>
  /\ call.op \in {"eval", "push"} => promptCount < MaxInt
  /\ call.op \in {"undo", "pop", "clear", "reset"} => todo = <<>>
  /\ call.op \in {"clear", "reset"} => done = <<>>

(* How far the history, and what is still to be carried out, may be ahead   *)
(* of the number while a call is under way.                                *)
Numbered ==
  /\ promptCount >= 1
  /\ call.op \in Settled => Busyness < promptCount + outside
  /\ call.op = "eval" => Busyness <= promptCount + outside
  /\ call.op = "push" =>
       IF todo = <<>> /\ answer THEN Len(done) <= promptCount + outside
       ELSE /\ Len(done) < promptCount + outside
            /\ Len(todo) <= 1 /\ (todo # <<>> => Head(todo).own)
  /\ call.op \in {"undo", "pop"} =>
       /\ call.n < MaxInt
       /\ Len(done) < outside + (IF ~answer THEN promptCount
                                 ELSE IF promptCount > call.n + 1 THEN promptCount - call.n
                                 ELSE 1)

IInv == Types /\ Underway /\ (~huge => Numbered)

(* Lengths are natural numbers. *)
LEMMA Lengths ==
  ASSUME NoteTypes
  PROVE  Len(done) \in Nat /\ Len(todo) \in Nat /\ Busyness \in Nat
  BY LenProperties DEF NoteTypes, NB!TypeOK, Busyness

(* What the other proofs need of the types. *)
LEMMA TypesGive ==
  ASSUME IInv
  PROVE  /\ NoteTypes /\ Len(done) \in Nat /\ Len(todo) \in Nat /\ Busyness \in Nat
         /\ promptCount \in -(MaxInt + 1)..MaxInt /\ outside \in Nat
  BY Lengths DEF IInv, Types, TypeOK, NoteTypes
--------------------------------------------------------------------------------
(* Every action keeps it.                                                  *)

(* The initial states satisfy the invariant. *)
LEMMA InitIsGood == Init => IInv
<1> SUFFICES ASSUME Init PROVE IInv
  OBVIOUS
<1>1. NB!TypeOK
  BY DEF Init, NB!TypeOK
<1>2. buffer \in Seq(Chars)
  BY EmptySeq DEF Init
<1>3. Types
  <2>1. promptCount \in -(MaxInt + 1)..MaxInt
    BY MaxIntAssumption DEF Init
  <2>2. security \in [Flagged -> BOOLEAN]
    BY DEF Init
  <2>3. call \in [op: Ops \cup {"file", "code"}, n: Nat] /\ reading \in BOOLEAN
    BY DEF Init, Idle, Ops
  <2>4. outside \in Nat /\ huge \in BOOLEAN
    BY DEF Init
  <2>5. StageOK
    BY DEF Init, StageOK, Stages
  <2> QED  BY <1>1, <1>2, <2>1, <2>2, <2>3, <2>4, <2>5 DEF Types, TypeOK
<1>4. Len(done) = 0 /\ Len(todo) = 0
  BY EmptySeq DEF Init
<1>5. Busyness = 0
  BY <1>4 DEF Busyness
<1>6. Underway
  BY DEF Init, Underway, Idle
<1>7. Numbered
  BY <1>5 DEF Init, Numbered, Idle, Settled
<1> QED  BY <1>3, <1>6, <1>7 DEF IInv

(* A step that changes nothing keeps it. *)
LEMMA StutterKeeps == IInv /\ UNCHANGED vars => IInv'
  BY DEF vars, notebook, session, IInv, Types, TypeOK, StageOK, NB!TypeOK, Underway, Numbered,
         Busyness

Frame == UNCHANGED <<buffer, promptCount, security, reading, huge, argv, stage, status>>

(* A call that leaves the history as long as it was, or adds an entry past the prompt. *)
LEMMA SettledCallKeeps ==
  ASSUME IInv, call = Idle, NoteTypes', Frame,
         NEW o \in {"load", "set", "other", "file", "code"}, Called(o, 0),
         reading \/ o \in {"file", "code"},
         outside' \in {outside, outside + 1}, Busyness' <= Len(done) + (outside' - outside)
  PROVE  IInv'
<1>1. Types'
  BY DEF IInv, Types, TypeOK, StageOK, NoteTypes, Frame, Called, Ops
<1>2. Underway'
  BY DEF IInv, Underway, Frame, Called, Idle
<1>3. ASSUME ~huge' PROVE Numbered'
  <2>1. Numbered
    BY <1>3 DEF IInv, Frame
  <2>2. Len(done) <= Busyness
    BY TypesGive DEF Busyness
  <2>3. Busyness < promptCount + outside /\ promptCount >= 1
    BY <2>1 DEF Numbered, Idle, Settled
  <2>4. Busyness' \in Nat
    BY LenProperties DEF NoteTypes, NB!TypeOK, Busyness
  <2>5. Busyness' < promptCount + outside'
    BY <2>2, <2>3, <2>4, TypesGive
  <2> QED  BY <2>3, <2>5 DEF Numbered, Frame, Called, Settled
<1> QED  BY <1>1, <1>2, <1>3 DEF IInv

(* Between calls there is nothing to do, and the number is ahead. *)
LEMMA FreeGives ==
  ASSUME IInv, call = Idle
  PROVE  /\ todo = <<>> /\ Busyness = Len(done)
         /\ ~huge => promptCount >= 1 /\ Len(done) < promptCount + outside
<1>1. todo = <<>>
  BY DEF IInv, Underway, Idle
<1>2. Busyness = Len(done)
  <2>1. Len(todo) = 0
    BY <1>1, EmptySeq
  <2> QED  BY <2>1, TypesGive DEF Busyness
<1> QED  BY <1>1, <1>2 DEF IInv, Numbered, Idle, Settled

(* :quit and the end of the input. *)
LEMMA LeaveKeeps ==
  ASSUME IInv, Waiting, Leave, Unmoved PROVE IInv'
<1>1. Types'
  BY DEF Leave, Unmoved, notebook, IInv, Types, TypeOK, StageOK, NB!TypeOK
<1>2. Underway'
  BY DEF IInv, Underway, Leave, Waiting, Unmoved, notebook, Idle
<1>3. ASSUME ~huge' PROVE Numbered'
  BY <1>3 DEF IInv, Numbered, Leave, Unmoved, notebook, Busyness
<1> QED  BY <1>1, <1>2, <1>3 DEF IInv

(* A line that leaves the input unfinished. *)
LEMMA UnfinishedKeeps ==
  ASSUME IInv, NEW l \in Lines, Unfinished(l), Unmoved PROVE IInv'
<1>1. buffer \in Seq(Chars) /\ buffer' = Joined(buffer, l)
  BY DEF IInv, Types, TypeOK, Unfinished
<1>2. buffer' \in Seq(Chars)
  BY <1>1, JoinedIsText
<1>3. Types'
  BY <1>2 DEF Unfinished, Unmoved, notebook, IInv, Types, TypeOK, StageOK, NB!TypeOK
<1>4. Underway'
  BY DEF IInv, Underway, Unfinished, Unmoved, notebook
<1>5. ASSUME ~huge' PROVE Numbered'
  BY <1>5 DEF IInv, Numbered, Unfinished, Unmoved, notebook, Busyness
<1> QED  BY <1>3, <1>4, <1>5 DEF IInv

(* A line that finishes it: one task, to be counted when it returns. *)
LEMMA FinishedKeeps ==
  ASSUME IInv, NEW l \in Lines, Finished(l), Unmoved PROVE IInv'
<1>1. buffer \in Seq(Chars) /\ buffer' = Joined(buffer, l) /\ NB!Enter("typed")
  BY DEF IInv, Types, TypeOK, Finished
<1>2. buffer' \in Seq(Chars)
  BY <1>1, JoinedIsText
<1>3. NoteTypes' /\ done' = done /\ Len(todo') = 1 /\ todo' # <<>>
  BY <1>1, TypesGive, EnterBounds DEF Origins
<1>4. Types'
  BY <1>2, <1>3 DEF Finished, Unmoved, Called, IInv, Types, TypeOK, StageOK, NoteTypes, Ops
<1>5. Underway'
  BY DEF IInv, Underway, Finished, Unmoved, Called, Waiting, HasRoom
<1>6. ASSUME ~huge' PROVE Numbered'
  <2>1. call = Idle /\ ~huge
    BY <1>6 DEF Finished, Waiting
  <2>2. promptCount >= 1 /\ Len(done) < promptCount + outside
    BY <2>1, FreeGives
  <2>3. Busyness' = Len(done) + 1
    BY <1>3 DEF Busyness
  <2>4. call'.op = "eval" /\ promptCount' = promptCount /\ outside' = outside
    BY DEF Finished, Called
  <2>5. Busyness' <= promptCount' + outside'
    BY <2>2, <2>3, <2>4, TypesGive
  <2> QED  BY <2>2, <2>4, <2>5 DEF Numbered, Settled
<1> QED  BY <1>4, <1>5, <1>6 DEF IInv

(* :stack push, counted only if it is answered TRUE. *)
LEMMA PushKeeps ==
  ASSUME IInv, NEW l \in Lines, StackPush(l), Unmoved PROVE IInv'
<1>1. NB!Enter("pushed")
  BY DEF StackPush
<1>2. NoteTypes' /\ done' = done /\ Len(todo') = 1 /\ todo' # <<>> /\ Head(todo').own
  BY <1>1, TypesGive, EnterBounds DEF Origins
<1>3. Types'
  BY <1>2 DEF StackPush, Rest, Unmoved, Called, IInv, Types, TypeOK, StageOK, NoteTypes, Ops
<1>4. Underway'
  BY DEF IInv, Underway, StackPush, Command, Rest, Unmoved, Called, Waiting, HasRoom
<1>5. ASSUME ~huge' PROVE Numbered'
  <2>1. call = Idle /\ ~huge
    BY <1>5 DEF StackPush, Command, Waiting, Rest
  <2>2. promptCount >= 1 /\ Len(done) < promptCount + outside
    BY <2>1, FreeGives
  <2>3. call'.op = "push" /\ promptCount' = promptCount /\ outside' = outside
    BY DEF StackPush, Called, Rest
  <2> QED  BY <1>2, <2>2, <2>3 DEF Numbered, Settled
<1> QED  BY <1>3, <1>4, <1>5 DEF IInv

(* :undo and :stack pop: the number is lowered only when the call returns.  *)
LEMMA TakeBackKeeps ==
  ASSUME IInv, Waiting, NEW n \in Nat, NEW o \in {"undo", "pop"}, Called(o, n), Unmoved,
         huge' = (huge \/ n >= MaxInt),
         UNCHANGED <<buffer, promptCount, security, reading, outside>>,
         NoteTypes', todo' = <<>>,
         IF answer' THEN Len(done') <= (IF n < Len(done) THEN Len(done) - n ELSE 0)
         ELSE done' = done
  PROVE  IInv'
<1>1. Types'
  BY DEF Unmoved, Called, IInv, Types, TypeOK, StageOK, NoteTypes, Ops
<1>2. Underway'
  BY DEF IInv, Underway, Unmoved, Called, Waiting
<1>3. ASSUME ~huge' PROVE Numbered'
  <2>0. ~(huge \/ n >= MaxInt)
    BY <1>3
  <2>1. call = Idle /\ ~huge /\ n < MaxInt
    BY <2>0, MaxIntAssumption DEF Waiting
  <2>2. promptCount >= 1 /\ Len(done) < promptCount + outside
    BY <2>1, FreeGives
  <2>3. call'.op \in {"undo", "pop"} /\ call'.n = n
    BY DEF Called
  <2>4. Len(done') \in Nat
    BY LenProperties DEF NoteTypes, NB!TypeOK
  <2>5. CASE answer'
    <3>1. Len(done') < outside + (IF promptCount > n + 1 THEN promptCount - n ELSE 1)
      BY <2>2, <2>4, <2>5, TypesGive
    <3> QED  BY <2>1, <2>2, <2>3, <2>5, <3>1 DEF Numbered, Settled
  <2>6. CASE ~answer'
    <3>1. Len(done') < outside + promptCount
      BY <2>2, <2>6, TypesGive
    <3> QED  BY <2>1, <2>2, <2>3, <2>6, <3>1 DEF Numbered, Settled
  <2> QED  BY <2>5, <2>6
<1> QED  BY <1>1, <1>2, <1>3 DEF IInv

(* :undo. *)
LEMMA UndoKeeps ==
  ASSUME IInv, NEW l \in Lines, Undo(l), Unmoved PROVE IInv'
<1> DEFINE n == Number(Behind(l.words, {":undo"}))
<1>1. /\ NB!Undo(n) /\ Called("undo", n) /\ Waiting /\ huge' = (huge \/ n >= MaxInt)
      /\ UNCHANGED <<buffer, promptCount, security, reading, outside>>
  BY DEF Undo, Command
<1>2. n \in Nat
  BY NumberIsNat
<1> HIDE DEF n
<1>3. /\ NoteTypes' /\ todo' = <<>>
      /\ IF answer' THEN Len(done') = (IF n < Len(done) THEN Len(done) - n ELSE 0)
         ELSE done' = done
  BY <1>1, <1>2, TypesGive, UndoBounds
<1>4. IF answer' THEN Len(done') <= (IF n < Len(done) THEN Len(done) - n ELSE 0)
      ELSE done' = done
  BY <1>2, <1>3, TypesGive
<1> QED  BY <1>1, <1>2, <1>3, <1>4, TakeBackKeeps

(* :stack pop. *)
LEMMA PopKeeps ==
  ASSUME IInv, NEW l \in Lines, StackPop(l), Unmoved PROVE IInv'
<1> DEFINE n == Number(StackRest(l, {"pop"}))
<1>1. /\ NB!Pop(n) /\ Called("pop", n) /\ Waiting /\ huge' = (huge \/ n >= MaxInt)
      /\ UNCHANGED <<buffer, promptCount, security, reading, outside>>
  BY DEF StackPop, Command
<1>2. n \in Nat
  BY NumberIsNat
<1> HIDE DEF n
<1>3. /\ NoteTypes' /\ todo' = <<>>
      /\ IF answer' THEN Len(done') <= (IF n < Len(done) THEN Len(done) - n ELSE 0)
         ELSE done' = done
  BY <1>1, <1>2, TypesGive, PopBounds
<1> QED  BY <1>1, <1>2, <1>3, TakeBackKeeps

(* :stack clear and :reset. *)
LEMMA ClearKeeps ==
  ASSUME IInv, Waiting, NB!Clear, NEW o \in {"clear", "reset"}, Called(o, 0), Rest, Unmoved
  PROVE  IInv'
<1>1. NoteTypes' /\ todo' = <<>> /\ done' = <<>>
  BY TypesGive, ClearBounds
<1>2. Types'
  BY <1>1 DEF Rest, Unmoved, Called, IInv, Types, TypeOK, StageOK, NoteTypes, Ops
<1>3. Underway'
  BY <1>1 DEF IInv, Underway, Rest, Unmoved, Called, Waiting
<1>4. ASSUME ~huge' PROVE Numbered'
  <2>1. promptCount >= 1 /\ promptCount' = promptCount /\ outside' = outside
    BY <1>4, FreeGives DEF Waiting, Rest
  <2>2. Busyness' = 0
    <3>1. Len(done') = 0 /\ Len(todo') = 0
      BY <1>1, EmptySeq
    <3> QED  BY <3>1 DEF Busyness
  <2> QED  BY <2>1, <2>2, TypesGive DEF Numbered, Called, Settled
<1> QED  BY <1>2, <1>3, <1>4 DEF IInv

(* :security. *)
LEMMA SecurityKeeps ==
  ASSUME IInv, NEW l \in Lines, Security(l), Unmoved PROVE IInv'
<1>1. PICK f \in Flagged :
        \E v : security' = [security EXCEPT ![f] = v \in {<<"true">>, <<"1">>, <<"on">>, <<"yes">>}]
  BY Zenon DEF Security
<1>2. UNCHANGED <<notebook, buffer, promptCount, call, reading, outside, huge>>
  BY DEF Security
<1>3. security' \in [Flagged -> BOOLEAN]
  BY <1>1 DEF IInv, Types, TypeOK
<1>4. Types'
  BY <1>2, <1>3 DEF Unmoved, notebook, IInv, Types, TypeOK, StageOK, NB!TypeOK
<1>5. Underway'
  BY <1>2 DEF IInv, Underway, Unmoved, notebook
<1>6. ASSUME ~huge' PROVE Numbered'
  BY <1>2, <1>6 DEF IInv, Numbered, notebook, Busyness
<1> QED  BY <1>4, <1>5, <1>6 DEF IInv

(* :stack rm. *)
LEMMA RemoveKeeps ==
  ASSUME IInv, NEW l \in Lines, StackRemove(l), Unmoved PROVE IInv'
<1>1. /\ NB!Remove(<<>>) /\ Called("other", 0) /\ Waiting /\ Rest /\ call = Idle
  BY DEF StackRemove, Command, Waiting
<1>2. <<>> \in Seq(NB!Task) /\ Len(<<>>) = 0
  BY EmptySeq
<1>3. NoteTypes' /\ Busyness' <= Len(done) + Len(<<>>)
  BY <1>1, <1>2, TypesGive, RemoveBounds
<1>4. outside' = outside /\ Frame /\ reading
  BY <1>1 DEF Rest, Unmoved, Frame, Waiting
<1>5. Busyness' <= Len(done) + (outside' - outside)
  BY <1>2, <1>3, <1>4, TypesGive
<1> QED  BY <1>1, <1>3, <1>4, <1>5, SettledCallKeeps

(* :stack set: an entry that was not entered at the prompt. *)
LEMMA SetKeeps ==
  ASSUME IInv, NEW l \in Lines, StackSet(l), Unmoved PROVE IInv'
<1>1. /\ NB!Remove(<<NB!Own("set")>>) /\ Called("set", 0) /\ Waiting /\ call = Idle
      /\ outside' = outside + 1
  BY DEF StackSet, Command, Waiting, NB!Set
<1>2. <<NB!Own("set")>> \in Seq(NB!Task) /\ Len(<<NB!Own("set")>>) = 1
  BY DEF NB!Own, NB!Task, Origins
<1>3. NoteTypes' /\ Busyness' <= Len(done) + Len(<<NB!Own("set")>>)
  BY <1>1, <1>2, TypesGive, RemoveBounds
<1>4. Frame /\ reading
  BY <1>1 DEF StackSet, Unmoved, Frame, Waiting
<1>5. Busyness' <= Len(done) + (outside' - outside)
  BY <1>1, <1>2, <1>3, TypesGive
<1> QED  BY <1>1, <1>3, <1>4, <1>5, SettledCallKeeps

(* :stack swap. *)
LEMMA SwapKeeps ==
  ASSUME IInv, NEW l \in Lines, StackSwap(l), Unmoved PROVE IInv'
<1> DEFINE rest == StackRest(l, {"swap"})
<1>1. /\ NB!Swap(Numerals[rest[1]] + 1, Numerals[rest[2]] + 1)
      /\ Called("other", 0) /\ Waiting /\ Rest /\ call = Idle
      /\ rest[1] \in DOMAIN Numerals /\ rest[2] \in DOMAIN Numerals
  BY DEF StackSwap, Command, Waiting
<1> HIDE DEF rest
<1>2. Numerals[rest[1]] + 1 \in Nat /\ Numerals[rest[2]] + 1 \in Nat
  BY <1>1, LinesAssumption
<1>3. NoteTypes' /\ Busyness' <= Len(done)
  BY <1>1, <1>2, TypesGive, SwapBounds
<1>4. outside' = outside /\ Frame /\ reading
  BY <1>1 DEF Rest, Unmoved, Frame, Waiting
<1>5. Busyness' <= Len(done) + (outside' - outside)
  BY <1>3, <1>4, TypesGive
<1> QED  BY <1>1, <1>3, <1>4, <1>5, SettledCallKeeps

(* A file adds one entry or none. *)
LEMMA EnteredOrRefused ==
  ASSUME IInv, call = Idle, NEW c \in Origins, NB!Enter(c) \/ NB!Report(FALSE)
  PROVE  NoteTypes' /\ Busyness' <= Len(done) + 1
<1>1. CASE NB!Enter(c)
  <2>1. NoteTypes' /\ done' = done /\ Len(todo') = 1
    BY <1>1, TypesGive, EnterBounds
  <2> QED  BY <2>1, TypesGive DEF Busyness
<1>2. CASE NB!Report(FALSE)
  <2>1. NoteTypes' /\ done' = done /\ todo' = <<>>
    BY <1>2, TypesGive, ReportBounds
  <2>2. Len(todo') = 0
    BY <2>1, EmptySeq
  <2> QED  BY <2>1, <2>2, TypesGive DEF Busyness
<1> QED  BY <1>1, <1>2

(* :load. *)
LEMMA LoadKeeps ==
  ASSUME IInv, NEW l \in Lines, Load(l), Unmoved PROVE IInv'
<1>1. /\ NB!Enter("loaded") \/ NB!Report(FALSE)
      /\ Called("load", 0) /\ Waiting /\ call = Idle /\ outside' = outside + 1
  BY DEF Load, Command, Waiting
<1>2. NoteTypes' /\ Busyness' <= Len(done) + 1
  BY <1>1, EnteredOrRefused DEF Origins
<1>3. Frame /\ reading
  BY <1>1 DEF Load, Unmoved, Frame, Waiting
<1>4. Busyness' <= Len(done) + (outside' - outside)
  BY <1>1, <1>2, TypesGive
<1> QED  BY <1>1, <1>2, <1>3, <1>4, SettledCallKeeps

(* :include and :L. *)
LEMMA PathKeeps ==
  ASSUME IInv, NEW l \in Lines, Path(l), Unmoved PROVE IInv'
<1>1. NB!Option /\ Called("other", 0) /\ Waiting /\ Rest /\ call = Idle
  BY DEF Path, Command, Waiting
<1>2. NoteTypes' /\ Busyness' <= Len(done)
  BY <1>1, TypesGive, OptionBounds
<1>3. outside' = outside /\ Frame /\ reading
  BY <1>1 DEF Rest, Unmoved, Frame, Waiting
<1>4. Busyness' <= Len(done) + (outside' - outside)
  BY <1>2, <1>3, TypesGive
<1> QED  BY <1>1, <1>2, <1>3, <1>4, SettledCallKeeps

(* :lib. *)
LEMMA LibKeeps ==
  ASSUME IInv, NEW l \in Lines, Lib(l), Unmoved PROVE IInv'
<1>1. PICK r \in BOOLEAN : NB!Report(r)
  BY DEF Lib
<1>2. Called("other", 0) /\ Waiting /\ Rest /\ call = Idle
  BY DEF Lib, Command, Waiting
<1>3. NoteTypes' /\ done' = done /\ todo' = <<>>
  BY <1>1, TypesGive, ReportBounds
<1>4. Busyness' = Len(done)
  <2>1. Len(todo') = 0
    BY <1>3, EmptySeq
  <2> QED  BY <1>3, <2>1, TypesGive DEF Busyness
<1>5. outside' = outside /\ Frame /\ reading
  BY <1>2 DEF Rest, Unmoved, Frame, Waiting
<1>6. Busyness' <= Len(done) + (outside' - outside)
  BY <1>4, <1>5, TypesGive
<1> QED  BY <1>2, <1>3, <1>5, <1>6, SettledCallKeeps

(* Whatever the user does. *)
LEMMA UserKeeps == IInv /\ User => IInv'
<1> SUFFICES ASSUME IInv, User PROVE IInv'
  OBVIOUS
<1>1. CASE EndOfInput
  BY <1>1, LeaveKeeps DEF EndOfInput, User
<1>2. CASE ReadLine
  <2>1. PICK l \in Lines :
          \/ Quit(l) \/ Unfinished(l) \/ Finished(l)
          \/ Undo(l) \/ StackLine(l) \/ Reset(l) \/ Load(l) \/ Path(l) \/ Lib(l) \/ Security(l)
    BY <1>2 DEF ReadLine
  <2>2. Unmoved
    BY DEF User
  <2>3. CASE Quit(l)
    BY <2>2, <2>3, LeaveKeeps DEF Quit
  <2>4. CASE Unfinished(l)
    BY <2>2, <2>4, UnfinishedKeeps
  <2>5. CASE Finished(l)
    BY <2>2, <2>5, FinishedKeeps
  <2>6. CASE Undo(l)
    BY <2>2, <2>6, UndoKeeps
  <2>7. CASE StackLine(l)
    <3>1. CASE StackPop(l)
      BY <2>2, <3>1, PopKeeps
    <3>2. CASE StackPush(l)
      BY <2>2, <3>2, PushKeeps
    <3>3. CASE StackClear(l)
      BY <2>2, <3>3, ClearKeeps DEF StackClear, Command
    <3>4. CASE StackRemove(l)
      BY <2>2, <3>4, RemoveKeeps
    <3>5. CASE StackSet(l)
      BY <2>2, <3>5, SetKeeps
    <3>6. CASE StackSwap(l)
      BY <2>2, <3>6, SwapKeeps
    <3> QED  BY <2>7, <3>1, <3>2, <3>3, <3>4, <3>5, <3>6 DEF StackLine
  <2>8. CASE Reset(l)
    BY <2>2, <2>8, ClearKeeps DEF Reset, Command
  <2>9. CASE Load(l)
    BY <2>2, <2>9, LoadKeeps
  <2>10. CASE Path(l)
    BY <2>2, <2>10, PathKeeps
  <2>11. CASE Lib(l)
    BY <2>2, <2>11, LibKeeps
  <2>12. CASE Security(l)
    BY <2>2, <2>12, SecurityKeeps
  <2> QED
    BY <2>1, <2>3, <2>4, <2>5, <2>6, <2>7, <2>8, <2>9, <2>10, <2>11, <2>12
<1> QED  BY <1>1, <1>2 DEF User

(* The return of a call settles the number.                                 *)
LEMMA ReturnKeeps ==
  ASSUME IInv, Return, Unmoved PROVE IInv'
<1>1. todo = <<>> /\ reading /\ call' = Idle /\ done' = done /\ todo' = todo
  BY DEF Return, NB!Busy, notebook
<1>2. promptCount' \in Renumbered
  BY DEF Return
<1>3. promptCount' \in -(MaxInt + 1)..MaxInt
  <2>1. call.n \in Nat /\ promptCount \in -(MaxInt + 1)..MaxInt
    BY DEF IInv, Types, TypeOK
  <2>2. call.op \in {"eval", "push"} => promptCount < MaxInt
    BY DEF IInv, Underway
  <2>3. CASE call.op = "eval" \/ (call.op = "push" /\ answer)
    BY <1>2, <2>1, <2>2, <2>3, MaxIntAssumption DEF Renumbered
  <2>4. CASE call.op \in {"undo", "pop"} /\ answer
    BY <1>2, <2>1, <2>4, LoweredRange DEF Renumbered
  <2>5. CASE (call.op = "clear" /\ answer) \/ call.op = "reset"
    BY <1>2, <2>5, MaxIntAssumption DEF Renumbered
  <2>6. CASE ~(\/ call.op = "eval" \/ (call.op = "push" /\ answer)
               \/ (call.op \in {"undo", "pop"} /\ answer)
               \/ (call.op = "clear" /\ answer) \/ call.op = "reset")
    BY <1>2, <2>1, <2>6 DEF Renumbered
  <2> QED  BY <2>3, <2>4, <2>5, <2>6
<1>4. buffer' \in Seq(Chars)
  BY EmptySeq DEF Return, IInv, Types, TypeOK
<1>5. Types'
  BY <1>1, <1>3, <1>4 DEF Return, Unmoved, notebook, Idle, IInv, Types, TypeOK, StageOK,
                         NB!TypeOK, Ops
<1>6. Underway'
  BY <1>1 DEF Return, Unmoved, Idle, IInv, Underway
<1>7. ASSUME ~huge' PROVE promptCount' >= 1 /\ Len(done) < promptCount' + outside
  <2>1. ~huge /\ promptCount >= 1 /\ Numbered
    BY <1>7 DEF Return, IInv, Numbered
  <2>2. Busyness = Len(done)
    <3>1. Len(todo) = 0
      BY <1>1, EmptySeq
    <3> QED  BY <3>1, TypesGive DEF Busyness
  <2>3. CASE call.op = "eval"
    BY <1>2, <2>1, <2>2, <2>3, TypesGive DEF Renumbered, Numbered
  <2>4. CASE call.op = "push"
    BY <1>1, <1>2, <2>1, <2>4, TypesGive DEF Renumbered, Numbered
  <2>5. CASE call.op \in {"undo", "pop"} /\ answer
    <3>1. /\ call.n < MaxInt /\ call.n \in Nat /\ promptCount \in 1..MaxInt
          /\ promptCount' \in Lowered(promptCount, call.n)
      BY <1>2, <2>1, <2>5 DEF IInv, Types, TypeOK, Numbered, Renumbered
    <3>2. promptCount' = IF promptCount > call.n + 1 THEN promptCount - call.n ELSE 1
      BY <3>1, LoweredSmall
    <3>3. Len(done) < outside + (IF promptCount > call.n + 1 THEN promptCount - call.n ELSE 1)
      BY <2>1, <2>5 DEF Numbered
    <3> QED  BY <3>1, <3>2, <3>3, TypesGive
  <2>6. CASE call.op \in {"undo", "pop"} /\ ~answer
    BY <1>2, <2>1, <2>6, TypesGive DEF Renumbered, Numbered
  <2>7. CASE call.op \in {"clear", "reset"}
    <3>1. Len(done) = 0
      BY <2>7, EmptySeq DEF IInv, Underway
    <3>2. promptCount' \in {1, promptCount}
      BY <1>2, <2>7 DEF Renumbered
    <3> QED  BY <2>1, <3>1, <3>2, TypesGive
  <2>8. CASE call.op \in {"none", "load", "set", "other", "file", "code"}
    BY <1>2, <2>1, <2>2, <2>8, TypesGive DEF Renumbered, Numbered, Settled
  <2> QED  BY <2>3, <2>4, <2>5, <2>6, <2>7, <2>8 DEF IInv, Types, TypeOK, Ops
<1>8. ASSUME ~huge' PROVE Numbered'
  <2>1. promptCount' >= 1 /\ Len(done) < promptCount' + outside
    BY <1>7, <1>8
  <2>2. Busyness' = Len(done)
    <3>1. Len(todo) = 0
      BY <1>1, EmptySeq
    <3> QED  BY <1>1, <3>1, TypesGive DEF Busyness
  <2> QED  BY <1>1, <2>1, <2>2 DEF Return, Numbered, Idle, Settled
<1> QED  BY <1>5, <1>6, <1>8 DEF IInv

(* One task of the notebook.                                                *)
LEMMA CarryKeeps ==
  ASSUME IInv, Carry, Unmoved PROVE IInv'
<1>1. \/ NB!Keep \/ NB!GiveUp \/ \E r \in BOOLEAN : NB!Skip(r)
  BY DEF Carry
<1>2. UNCHANGED <<buffer, promptCount, security, call, reading, outside, huge>>
  BY DEF Carry, session
<1>3. /\ NoteTypes' /\ todo # <<>> /\ Busyness' <= Busyness /\ Len(todo') < Len(todo)
      /\ Len(done') <= Len(done) + 1
      /\ Len(done') > Len(done) /\ Head(todo).own => answer'
  <2>1. CASE NB!Keep
    <3>1. NB!Keep => Len(done') = Len(done) + 1
      BY TypesGive, AppendProperties, HeadBounds DEF NB!Keep, NB!Busy, NoteTypes, NB!TypeOK
    <3> QED  BY <2>1, <3>1, TypesGive, KeepBounds
  <2>2. CASE NB!GiveUp
    <3>1. NoteTypes' /\ todo # <<>> /\ done' = done /\ todo' = <<>> /\ ~answer'
      BY <2>2, TypesGive, GiveUpBounds
    <3>2. Len(todo') = 0 /\ Len(todo) > 0
      BY <3>1, TypesGive, EmptySeq DEF NoteTypes, NB!TypeOK
    <3> QED  BY <3>1, <3>2, TypesGive DEF Busyness
  <2>3. CASE \E r \in BOOLEAN : NB!Skip(r)
    <3>1. NoteTypes' /\ todo # <<>> /\ done' = done /\ Len(todo') = Len(todo) - 1
      BY <2>3, TypesGive, SkipBounds
    <3> QED  BY <3>1, TypesGive DEF Busyness
  <2> QED  BY <1>1, <2>1, <2>2, <2>3
<1>4. Types'
  BY <1>2, <1>3 DEF Unmoved, IInv, Types, TypeOK, StageOK, NoteTypes
<1>5. call.op \notin {"none", "undo", "pop", "clear", "reset"}
  BY <1>3 DEF IInv, Underway
<1>6. Underway'
  BY <1>2, <1>5 DEF Unmoved, IInv, Underway
<1>7. ASSUME ~huge' PROVE Numbered'
  <2>1. Numbered /\ Busyness' \in Nat /\ Len(todo') \in Nat /\ Len(done') \in Nat
    BY <1>2, <1>3, <1>7, LenProperties DEF IInv, NoteTypes, NB!TypeOK, Busyness
  <2>2. CASE call.op \in Settled \cup {"eval"}
    BY <1>2, <1>3, <2>1, <2>2, TypesGive DEF Numbered, Settled
  <2>3. CASE call.op = "push"
    <3>1. Len(done) < promptCount + outside /\ Len(todo) <= 1 /\ Head(todo).own
      BY <1>3, <2>1, <2>3 DEF Numbered
    <3>2. todo' = <<>>
      <4>1. Len(todo') = 0
        BY <1>3, <2>1, <3>1, TypesGive
      <4> QED  BY <1>3, <4>1, EmptySeq DEF NoteTypes, NB!TypeOK
    <3>3. CASE answer'
      BY <1>2, <1>3, <2>1, <2>3, <3>1, <3>2, <3>3, TypesGive DEF Numbered, Settled
    <3>4. CASE ~answer'
      <4>1. Len(todo') = 0 /\ Len(done') < promptCount + outside
        BY <1>3, <2>1, <3>1, <3>2, <3>4, TypesGive, EmptySeq
      <4> QED  BY <1>2, <2>1, <2>3, <3>2, <3>4, <4>1 DEF Numbered, Settled
    <3> QED  BY <3>3, <3>4
  <2> QED  BY <1>5, <2>2, <2>3 DEF IInv, Types, TypeOK, Ops, Settled
<1> QED  BY <1>4, <1>6, <1>7 DEF IInv

(* main(): nothing of the session changes but the call it makes itself.     *)
LEMMA StagesMove ==
  ASSUME IInv, Inside, stage' \in Stages, status' \in {0, 1},
         stage' = "session" <=> stage = "session"
  PROVE  IInv'
<1>1. Types'
  BY DEF Inside, notebook, session, IInv, Types, TypeOK, StageOK, NB!TypeOK
<1>2. Underway'
  BY DEF Inside, notebook, session, IInv, Underway
<1>3. ASSUME ~huge' PROVE Numbered'
  BY <1>3 DEF Inside, notebook, session, IInv, Numbered, Busyness
<1> QED  BY <1>1, <1>2, <1>3 DEF IInv

(* A file or a text of the command line. *)
LEMMA MainCallKeeps ==
  ASSUME IInv, Quiet, NEW o \in {"file", "code"}, NEW c \in {"loaded", "-e"},
         NB!Enter(c) \/ NB!Report(FALSE), Called(o, 0), outside' = outside + 1, Uncalled
  PROVE  IInv'
<1>1. call = Idle /\ c \in Origins
  BY DEF Quiet, Origins
<1>2. NoteTypes' /\ Busyness' <= Len(done) + 1
  BY <1>1, EnteredOrRefused
<1>3. Frame
  BY DEF Uncalled, Frame
<1>4. Busyness' <= Len(done) + (outside' - outside)
  BY <1>2, TypesGive
<1> QED  BY <1>1, <1>2, <1>3, <1>4, SettledCallKeeps

(* Its result. *)
LEMMA CheckedKeeps ==
  ASSUME IInv, Checked PROVE IInv'
<1>1. todo = <<>> /\ call' = Idle /\ stage \in {"files", "codes"}
  BY DEF Checked, NB!Busy
<1>2. UNCHANGED <<notebook, buffer, promptCount, security, reading, outside, huge, argv>>
  BY DEF Checked
<1>3. stage' \in {stage, "over"} /\ status' \in {status, 1}
  BY DEF Checked, Exit
<1>4. Types'
  BY <1>1, <1>2, <1>3 DEF notebook, Idle, IInv, Types, TypeOK, StageOK, NB!TypeOK, Ops, Stages
<1>5. ~reading /\ call.op \in Settled
  BY <1>1 DEF IInv, Underway, Settled
<1>6. Underway'
  BY <1>1, <1>2, <1>5 DEF notebook, Idle, IInv, Underway
<1>7. ASSUME ~huge' PROVE Numbered'
  BY <1>1, <1>2, <1>5, <1>7 DEF notebook, Idle, IInv, Numbered, Settled, Busyness
<1> QED  BY <1>4, <1>6, <1>7 DEF IInv

(* The step into the session, or past it. *)
LEMMA CodesDoneKeeps ==
  ASSUME IInv, CodesDone PROVE IInv'
<1>1. UNCHANGED <<notebook, buffer, promptCount, security, call, outside, huge, argv>>
  BY DEF CodesDone
<1>2. call = Idle /\ stage = "codes"
  BY DEF CodesDone, Quiet
<1>3. \/ stage' = "over" /\ status' = 0 /\ reading' = reading
      \/ stage' = "session" /\ reading' = TRUE /\ status' = status
  BY DEF CodesDone, Exit
<1>4. Types'
  BY <1>1, <1>3 DEF notebook, IInv, Types, TypeOK, StageOK, NB!TypeOK, Stages
<1>5. Underway'
  BY <1>1, <1>2, <1>3 DEF notebook, Idle, IInv, Underway
<1>6. ASSUME ~huge' PROVE Numbered'
  BY <1>1, <1>6 DEF notebook, IInv, Numbered, Busyness
<1> QED  BY <1>4, <1>5, <1>6 DEF IInv

(* The step out of it. *)
LEMMA SessionOverKeeps ==
  ASSUME IInv, SessionOver PROVE IInv'
<1>1. Inside /\ ~reading /\ stage' = "over" /\ status' = 0
  BY DEF SessionOver, Exit
<1>2. Types'
  BY <1>1 DEF Inside, notebook, session, IInv, Types, TypeOK, StageOK, NB!TypeOK, Stages
<1>3. Underway'
  BY <1>1 DEF Inside, notebook, session, IInv, Underway
<1>4. ASSUME ~huge' PROVE Numbered'
  BY <1>1, <1>4 DEF Inside, notebook, session, IInv, Numbered, Busyness
<1> QED  BY <1>2, <1>3, <1>4 DEF IInv

(* Whatever main() does. *)
LEMMA MainKeeps == IInv /\ Main => IInv'
<1> SUFFICES ASSUME IInv, Main PROVE IInv'
  OBVIOUS
<1>0. status \in {0, 1}
  BY DEF IInv, Types, StageOK
<1>1. CASE ParseCommandLine
  BY <1>0, <1>1, StagesMove DEF ParseCommandLine, Exit, Stages
<1>2. CASE ShowScaffold
  BY <1>0, <1>2, StagesMove DEF ShowScaffold, Exit, Stages
<1>3. CASE InitInterpreter
  BY <1>0, <1>3, StagesMove DEF InitInterpreter, Exit, Stages
<1>4. CASE LoadNext
  <2>1. NB!Enter("loaded") \/ NB!Report(FALSE)
    BY <1>4 DEF LoadNext
  <2> QED  BY <1>4, <2>1, MainCallKeeps DEF LoadNext
<1>5. CASE EvalNext
  BY <1>5, MainCallKeeps DEF EvalNext
<1>6. CASE Checked
  BY <1>6, CheckedKeeps
<1>7. CASE FilesDone
  BY <1>0, <1>7, StagesMove DEF FilesDone, Stages
<1>8. CASE CodesDone
  BY <1>8, CodesDoneKeeps
<1>9. CASE SessionOver
  BY <1>9, SessionOverKeeps
<1> QED  BY <1>1, <1>2, <1>3, <1>4, <1>5, <1>6, <1>7, <1>8, <1>9 DEF Main

(* The invariant is inductive. *)
LEMMA StepKeeps == IInv /\ [Next]_vars => IInv'
<1> SUFFICES ASSUME IInv, [Next]_vars PROVE IInv'
  OBVIOUS
<1>1. CASE Main
  BY <1>1, MainKeeps
<1>2. CASE Carry /\ Unmoved
  BY <1>2, CarryKeeps
<1>3. CASE Return /\ Unmoved
  BY <1>3, ReturnKeeps
<1>4. CASE User
  BY <1>4, UserKeeps
<1>5. CASE UNCHANGED vars
  BY <1>5, StutterKeeps
<1> QED  BY <1>1, <1>2, <1>3, <1>4, <1>5 DEF Next, Machine
--------------------------------------------------------------------------------
(* The theorems.                                                           *)

(* IInv is an invariant of the program. *)
THEOREM InvariantHolds == Spec => []IInv
<1>1. Init => IInv
  BY InitIsGood
<1>2. IInv /\ [Next]_vars => IInv'
  BY StepKeeps
<1> QED  BY <1>1, <1>2, PTL DEF Spec

(* Every variable of the session and of main() keeps its type; the number of *)
(* the prompt stays an int, whatever is counted up or taken back.           *)
THEOREM TypesHold == Spec => []Types
<1>1. IInv => Types
  BY DEF IInv
<1> QED  BY <1>1, InvariantHolds, PTL

(* As long as every input was entered at a prompt, the number has counted   *)
(* every entry of the history, after any mixture of :undo, :stack, :reset,  *)
(* failures and losses.                                                     *)
THEOREM PromptAlwaysCovers == Spec => []PromptCoversHistory
<1>1. IInv => PromptCoversHistory
  <2> SUFFICES ASSUME IInv, call = Idle, ~huge, outside = 0 PROVE Len(done) < promptCount
    BY DEF PromptCoversHistory
  <2>1. Len(done) < promptCount + outside
    BY FreeGives
  <2> QED  BY <2>1, TypesGive
<1> QED  BY <1>1, InvariantHolds, PTL

(* Only the return of a call changes the number. *)
LEMMA NumberStays ==
  ASSUME IInv, [Next]_vars, ~(Return /\ Unmoved) PROVE promptCount' = promptCount
<1>1. CASE Main
  BY <1>1 DEF Main, ParseCommandLine, ShowScaffold, InitInterpreter, LoadNext, EvalNext, Checked,
              FilesDone, CodesDone, SessionOver, Inside, Uncalled, session
<1>2. CASE Carry /\ Unmoved
  BY <1>2 DEF Carry, session
<1>3. CASE User
  <2>1. CASE EndOfInput
    BY <2>1 DEF EndOfInput, Leave
  <2>2. CASE ReadLine
    BY Zenon, <2>2 DEF ReadLine, Quit, Leave, Unfinished, Finished, StackLine, Undo, StackPop,
           StackPush, StackClear, StackRemove, StackSet, StackSwap, Reset, Load, Path, Lib, Security, Rest
  <2> QED  BY <1>3, <2>1, <2>2 DEF User
<1>4. CASE UNCHANGED vars
  BY <1>4 DEF vars, session
<1> QED  BY <1>1, <1>2, <1>3, <1>4 DEF Next, Machine

(* :undo and :stack pop never raise the number, and never take it below 1. *)
THEOREM NumberOnlyComesDown == Spec => NumberComesDown
<1>1. ASSUME IInv, [Next]_vars, call.op \in {"undo", "pop"}, call' = Idle, ~huge
      PROVE  1 <= promptCount' /\ promptCount' <= promptCount
  <2>1. promptCount \in 1..MaxInt /\ call.n \in Nat /\ call.n < MaxInt
    BY <1>1 DEF IInv, Types, TypeOK, Numbered
  <2>2. CASE Return
    <3>1. promptCount' \in Lowered(promptCount, call.n) \/ promptCount' = promptCount
      BY <1>1, <2>2 DEF Return, Renumbered
    <3>2. CASE promptCount' \in Lowered(promptCount, call.n)
      <4>1. promptCount' = IF promptCount > call.n + 1 THEN promptCount - call.n ELSE 1
        BY <2>1, <3>2, LoweredSmall
      <4> QED  BY <2>1, <4>1
    <3> QED  BY <2>1, <3>1, <3>2
  <2>3. CASE ~(Return /\ Unmoved)
    BY <1>1, <2>1, <2>3, NumberStays
  <2> QED  BY <2>2, <2>3
<1>2. IInv /\ [Next]_vars
        => [call.op \in {"undo", "pop"} /\ call' = Idle /\ ~huge
              => 1 <= promptCount' /\ promptCount' <= promptCount]_vars
  BY <1>1
<1> QED  BY <1>2, InvariantHolds, PTL DEF Spec, NumberComesDown
--------------------------------------------------------------------------------
(* The start.                                                              *)


(* The walk of parse over the arguments.                                   *)

Started == [opts |-> CL!Options, wants |-> "none", failed |-> FALSE]
Walks(u, n) == u = [k \in 0..n |-> IF k = 0 THEN Started ELSE CL!Argument(u[k - 1], argv[k])]
Walk == CHOOSE u : Walks(u, Len(argv))

(* The arguments are texts. *)
LEMMA ArgumentsAre ==
  ASSUME argv \in Commands
  PROVE  argv \in Seq(STRING) /\ Len(argv) \in Nat /\ DOMAIN argv = 1..Len(argv)
<1>1. argv \in Seq(STRING)
  BY CommandsAssumption
<1> QED  BY <1>1

(* There is a walk. *)
LEMMA WalkIs ==
  ASSUME argv \in Commands
  PROVE  /\ Walks(Walk, Len(argv))
         /\ Parsed = [opts |-> Walk[Len(argv)].opts,
                      failed |-> Walk[Len(argv)].failed \/ Walk[Len(argv)].wants \in CL!Takers]
<1> DEFINE n == Len(argv)
           T == {m \in 0..n : \E u : Walks(u, m)}
<1>1. n \in Nat
  BY ArgumentsAre
<1>2. 0 \in T
  <2> DEFINE u == [k \in 0..0 |-> Started]
  <2>1. Walks(u, 0)
    BY DEF Walks
  <2> HIDE DEF u
  <2> QED  BY <1>1, <2>1
<1>3. ASSUME NEW m \in 0..n, m \in T, m < n PROVE m + 1 \in T
  <2>1. PICK u : Walks(u, m)
    BY <1>3
  <2> DEFINE next == CL!Argument(u[m], argv[m + 1])
             w == [k \in 0..(m + 1) |-> IF k = m + 1 THEN next ELSE u[k]]
  <2>2. \A k \in 0..m : u[k] = IF k = 0 THEN Started ELSE CL!Argument(u[k - 1], argv[k])
    BY <2>1 DEF Walks
  <2>3. \A k \in 0..(m + 1) : w[k] = IF k = m + 1 THEN next ELSE u[k]
    OBVIOUS
  <2>4. w[m] = u[m] /\ m \in Nat
    BY <1>1, <2>3
  <2>5. ASSUME NEW k \in 0..(m + 1)
        PROVE  w[k] = IF k = 0 THEN Started ELSE CL!Argument(w[k - 1], argv[k])
    <3>1. CASE k = m + 1
      <4>1. k # 0 /\ k - 1 = m
        BY <2>4, <3>1
      <4> HIDE DEF w
      <4> QED  BY <2>3, <2>4, <3>1, <4>1
    <3>2. CASE k \in 0..m /\ k # m + 1
      <4>1. k # 0 => k - 1 \in 0..(m + 1) /\ k - 1 # m + 1
        BY <2>4, <3>2
      <4>2. k # 0 => w[k - 1] = u[k - 1]
        BY <2>3, <4>1
      <4> HIDE DEF w
      <4> QED  BY <2>2, <2>3, <3>2, <4>2
    <3> QED  BY <2>4, <3>1, <3>2
  <2>6. w = [k \in 0..(m + 1) |-> w[k]]
    OBVIOUS
  <2> HIDE DEF w
  <2>7. Walks(w, m + 1)
    BY <2>5, <2>6 DEF Walks
  <2>8. m + 1 \in 0..n
    BY <1>1, <1>3
  <2> QED  BY <2>7, <2>8
<1>4. \E u : Walks(u, n)
  <2> HIDE DEF T
  <2>1. 0..n \subseteq T
    BY <1>1, <1>2, <1>3, UpToInduction
  <2> QED  BY <1>1, <2>1 DEF T
<1>5. Walks(Walk, n)
  BY <1>4 DEF Walk
<1>6. Walk = CHOOSE u : u = [k \in 0..Len(argv) |->
                 IF k = 0 THEN [opts |-> CL!Options, wants |-> "none", failed |-> FALSE]
                 ELSE CL!Argument(u[k - 1], argv[k])]
  BY DEF Walk, Walks, Started
<1>7. Parsed = [opts |-> Walk[Len(argv)].opts,
                failed |-> Walk[Len(argv)].failed \/ Walk[Len(argv)].wants \in CL!Takers]
  BY <1>6 DEF Parsed, CL!Parse
<1> QED  BY <1>5, <1>7

(* Its steps. *)
LEMMA WalkSteps ==
  ASSUME argv \in Commands
  PROVE  /\ Walk[0] = Started
         /\ \A k \in 1..Len(argv) : Walk[k] = CL!Argument(Walk[k - 1], argv[k])
<1>1. Len(argv) \in Nat /\ Walks(Walk, Len(argv))
  BY ArgumentsAre, WalkIs
<1>2. \A k \in 0..Len(argv) :
        Walk[k] = IF k = 0 THEN Started ELSE CL!Argument(Walk[k - 1], argv[k])
  BY <1>1 DEF Walks
<1> QED  BY <1>1, <1>2
--------------------------------------------------------------------------------
(* What the arguments mean: the functions of StartsAsAsked.                *)

ValueAt(v, k) ==
  /\ k > 1 /\ argv[k - 1] \in CL!Takers /\ ~v[k - 1]
  /\ \A j \in 1..(k - 1) : argv[j] = "--" => v[j]
Values(v, n) == v = [k \in 0..n |-> ValueAt(v, k)]

(* IsValue is what its definition says. *)
LEMMA ValuesAre ==
  ASSUME argv \in Commands PROVE Values(IsValue, Len(argv))
<1> DEFINE n == Len(argv)
           T == {m \in 0..n : \E v : Values(v, m)}
<1>1. n \in Nat
  BY ArgumentsAre
<1>2. 0 \in T
  <2> DEFINE v == [k \in 0..0 |-> FALSE]
  <2>1. \A k \in 0..0 : v[k] = ValueAt(v, k)
    BY DEF ValueAt
  <2>2. v = [k \in 0..0 |-> v[k]]
    OBVIOUS
  <2> HIDE DEF v
  <2>3. Values(v, 0)
    BY <2>1, <2>2 DEF Values
  <2> QED  BY <1>1, <2>3
<1>3. ASSUME NEW m \in 0..n, m \in T, m < n PROVE m + 1 \in T
  <2>1. PICK v : Values(v, m)
    BY <1>3
  <2> DEFINE w == [k \in 0..(m + 1) |-> IF k = m + 1 THEN ValueAt(v, m + 1) ELSE v[k]]
  <2>2. \A k \in 0..m : v[k] = ValueAt(v, k)
    BY <2>1 DEF Values
  <2>3. \A k \in 0..(m + 1) : w[k] = IF k = m + 1 THEN ValueAt(v, m + 1) ELSE v[k]
    OBVIOUS
  <2>4. m \in Nat /\ \A k \in 0..m : w[k] = v[k]
    BY <1>1, <2>3
  <2> HIDE DEF w
  <2>5. ASSUME NEW k \in 0..(m + 1) PROVE ValueAt(w, k) = ValueAt(v, k)
    <3>1. k > 1 => k - 1 \in 0..m /\ \A j \in 1..(k - 1) : j \in 0..m
      BY <2>4
    <3>2. k > 1 => w[k - 1] = v[k - 1] /\ \A j \in 1..(k - 1) : w[j] = v[j]
      BY <2>4, <3>1
    <3> QED  BY <3>2 DEF ValueAt
  <2>6. w = [k \in 0..(m + 1) |-> w[k]]
    BY DEF w
  <2>7. \A k \in 0..(m + 1) : w[k] = ValueAt(w, k)
    <3>1. \A k \in 0..(m + 1) : k = m + 1 \/ k \in 0..m
      BY <2>4
    <3> QED  BY <2>2, <2>3, <2>5, <3>1
  <2>8. Values(w, m + 1)
    BY <2>6, <2>7 DEF Values
  <2>9. m + 1 \in 0..n
    BY <1>1, <1>3
  <2> QED  BY <2>8, <2>9
<1>4. \E v : Values(v, n)
  <2> HIDE DEF T
  <2>1. 0..n \subseteq T
    BY <1>1, <1>2, <1>3, UpToInduction
  <2> QED  BY <1>1, <2>1 DEF T
<1>5. IsValue = CHOOSE v : Values(v, n)
  BY DEF IsValue, Values, ValueAt
<1> QED  BY <1>4, <1>5

(* A step at a time. *)
LEMMA ValueIs ==
  ASSUME argv \in Commands, NEW k \in 0..Len(argv)
  PROVE  IsValue[k] <=> k > 1 /\ argv[k - 1] \in CL!Takers /\ ~IsValue[k - 1] /\ ~PastDashes(k)
<1>1. IsValue[k] = ValueAt(IsValue, k)
  BY ValuesAre DEF Values
<1> QED  BY <1>1 DEF ValueAt, PastDashes

(* Past the dashes is past them for good. *)
LEMMA PastDashesIs ==
  ASSUME argv \in Commands, NEW k \in 1..Len(argv)
  PROVE  PastDashes(k + 1) <=> PastDashes(k) \/ (argv[k] = "--" /\ ~IsValue[k])
<1>1. 1..((k + 1) - 1) = (1..(k - 1)) \cup {k}
  BY ArgumentsAre
<1> QED  BY <1>1 DEF PastDashes

(* The files, and the -e texts, among the first arguments. *)
FilesUpTo ==
  CHOOSE f : f = [k \in 0..Len(argv) |->
    IF k = 0 THEN <<>> ELSE IF IsFile(k) THEN Append(f[k - 1], argv[k]) ELSE f[k - 1]]
CodesUpTo ==
  CHOOSE f : f = [k \in 0..Len(argv) |->
    IF k = 0 THEN <<>> ELSE IF IsCodeArgument(k) THEN Append(f[k - 1], argv[k]) ELSE f[k - 1]]

(* They are what is asked for. *)
LEMMA AskedAre ==
  /\ Asked(IsFile) = FilesUpTo[Len(argv)]
  /\ Asked(IsCodeArgument) = CodesUpTo[Len(argv)]
<1>1. Asked(IsFile) = FilesUpTo[Len(argv)]
  BY DEF Asked, FilesUpTo
<1>2. Asked(IsCodeArgument) = CodesUpTo[Len(argv)]
  BY DEF Asked, CodesUpTo
<1> QED  BY <1>1, <1>2

(* The arguments at the places of K, one after the other. *)
Gathers(f, K) ==
  f = [k \in 0..Len(argv) |->
         IF k = 0 THEN <<>> ELSE IF k \in K THEN Append(f[k - 1], argv[k]) ELSE f[k - 1]]

(* They can be gathered. *)
LEMMA GatherExists ==
  ASSUME argv \in Commands, NEW K PROVE \E f : Gathers(f, K)
<1> DEFINE n == Len(argv)
           V == Seq(STRING)
           Grow(k, f) == IF k = 0 THEN <<>> ELSE IF k \in K THEN Append(f[k - 1], argv[k]) ELSE f[k - 1]
           step == [k \in 0..n |-> [f \in [0..n -> V] |-> Grow(k, f)]]
<1>1. n \in Nat /\ argv \in Seq(STRING) /\ <<>> \in V
  BY ArgumentsAre
<1>2. ASSUME NEW k \in 0..n, NEW f \in [0..n -> V] PROVE Grow(k, f) \in V
  <2>1. k # 0 => k - 1 \in 0..n /\ argv[k] \in STRING
    BY <1>1
  <2>2. k # 0 => f[k - 1] \in V
    BY <2>1
  <2>3. k # 0 => Append(f[k - 1], argv[k]) \in V
    BY <2>1, <2>2, AppendProperties
  <2> QED  BY <1>1, <2>2, <2>3
<1>3. ASSUME NEW k \in 0..n, NEW f \in [0..n -> V], NEW h \in [0..n -> V],
             \A j \in 0..n : j < k => f[j] = h[j]
      PROVE  Grow(k, f) = Grow(k, h)
  <2>1. k # 0 => k - 1 \in 0..n /\ k - 1 < k
    BY <1>1
  <2>2. k # 0 => f[k - 1] = h[k - 1]
    BY <1>3, <2>1
  <2> QED  BY <2>2
<1> HIDE DEF Grow, V
<1>4. step \in [0..n -> [[0..n -> V] -> V]]
  BY <1>2
<1>5. \A k \in 0..n : \A f \in [0..n -> V] : step[k][f] = Grow(k, f)
  OBVIOUS
<1> HIDE DEF step
<1>6. Forward(n, V, step)
  <2>1. n \in Nat /\ V # {}
    BY <1>1
  <2>2. \A k \in 0..n : \A f, h \in [0..n -> V] :
          (\A j \in 0..n : j < k => f[j] = h[j]) => Grow(k, f) = Grow(k, h)
    BY <1>3
  <2>3. \A k \in 0..n : \A f, h \in [0..n -> V] :
          (\A j \in 0..n : j < k => f[j] = h[j]) => step[k][f] = step[k][h]
    BY <1>5, <2>2
  <2> HIDE DEF n
  <2> QED  BY <1>4, <2>1, <2>3 DEF Forward
<1>7. PICK g : Solves(g, 0..n, V, step)
  BY <1>6, Recursion
<1>8. g \in [0..n -> V] /\ \A k \in 0..n : g[k] = Grow(k, g)
  BY <1>5, <1>7 DEF Solves
<1>9. Gathers(g, K)
  BY <1>8 DEF Gathers, Grow
<1> QED  BY <1>9

(* What is gathered, and that nothing of it is lost. *)
LEMMA GatherIs ==
  ASSUME argv \in Commands, NEW K, NEW f, Gathers(f, K)
  PROVE  /\ f[0] = <<>>
         /\ \A k \in 1..Len(argv) :
              f[k] = IF k \in K THEN Append(f[k - 1], argv[k]) ELSE f[k - 1]
         /\ f[Len(argv)] \in Seq(STRING)
         /\ \A j \in 1..Len(argv) :
              j \in K => \E i \in DOMAIN f[Len(argv)] : f[Len(argv)][i] = argv[j]
<1> DEFINE n == Len(argv)
           Holds(k) == \A j \in 1..n : j <= k /\ j \in K => \E i \in DOMAIN f[k] : f[k][i] = argv[j]
           T == {k \in 0..n : f[k] \in Seq(STRING) /\ Holds(k)}
<1>1. n \in Nat /\ argv \in Seq(STRING)
  BY ArgumentsAre
<1>2. \A k \in 0..n :
        f[k] = IF k = 0 THEN <<>> ELSE IF k \in K THEN Append(f[k - 1], argv[k]) ELSE f[k - 1]
  BY DEF Gathers
<1>3. f[0] = <<>>
  BY <1>1, <1>2
<1>4. \A k \in 1..n : f[k] = IF k \in K THEN Append(f[k - 1], argv[k]) ELSE f[k - 1]
  BY <1>1, <1>2
<1>5. 0 \in T
  <2>1. f[0] \in Seq(STRING) /\ \A j \in 1..n : ~(j <= 0)
    BY <1>3
  <2> QED  BY <1>1, <2>1
<1>6. ASSUME NEW k \in 0..n, k \in T, k < n PROVE k + 1 \in T
  <2>1. k + 1 \in 1..n /\ (k + 1) - 1 = k /\ k + 1 \in 0..n /\ argv[k + 1] \in STRING
    BY <1>1, <1>6
  <2>2. f[k] \in Seq(STRING) /\ Holds(k) /\ Len(f[k]) \in Nat
    BY <1>6
  <2>3. CASE k + 1 \in K
    <3> DEFINE s == f[k]
    <3>1. f[k + 1] = Append(s, argv[k + 1])
      BY <1>4, <2>1, <2>3
    <3>2. s \in Seq(STRING) /\ Len(s) \in Nat
      BY <2>2
    <3> HIDE DEF s
    <3>3. /\ f[k + 1] \in Seq(STRING) /\ Len(f[k + 1]) = Len(s) + 1
          /\ \A i \in 1..Len(s) : f[k + 1][i] = s[i]
          /\ f[k + 1][Len(s) + 1] = argv[k + 1]
      BY <2>1, <3>1, <3>2, AppendProperties
    <3>4. ASSUME NEW j \in 1..n, j <= k + 1, j \in K
          PROVE  \E i \in DOMAIN f[k + 1] : f[k + 1][i] = argv[j]
      <4>1. DOMAIN f[k + 1] = 1..(Len(s) + 1) /\ DOMAIN s = 1..Len(s)
        BY <3>2, <3>3
      <4>2. CASE j <= k
        <5>1. PICK i \in DOMAIN s : s[i] = argv[j]
          BY <2>2, <3>4, <4>2 DEF s
        <5>2. i \in 1..Len(s) /\ i \in 1..(Len(s) + 1)
          BY <3>2, <4>1
        <5> QED  BY <3>3, <4>1, <5>1, <5>2
      <4>3. CASE ~(j <= k)
        <5>1. j = k + 1 /\ Len(s) + 1 \in 1..(Len(s) + 1)
          BY <3>2, <3>4, <4>3
        <5> QED  BY <3>3, <4>1, <5>1
      <4> QED  BY <4>2, <4>3
    <3> QED  BY <2>1, <3>3, <3>4
  <2>4. CASE k + 1 \notin K
    <3>1. f[k + 1] = f[k]
      BY <1>4, <2>1, <2>4
    <3>2. \A j \in 1..n : j <= k + 1 /\ j \in K => j <= k
      BY <2>1, <2>4
    <3> QED  BY <2>1, <2>2, <3>1, <3>2
  <2> QED  BY <2>3, <2>4
<1>7. n \in T
  <2> HIDE DEF T
  <2>1. 0..n \subseteq T
    BY <1>1, <1>5, <1>6, UpToInduction
  <2> QED  BY <1>1, <2>1
<1> QED  BY <1>1, <1>3, <1>4, <1>7

(* The places of the files, and of the -e texts. *)
FilePlaces == {k \in 0..Len(argv) : IsFile(k)}
CodePlaces == {k \in 0..Len(argv) : IsCodeArgument(k)}

(* The functions of StartsAsAsked gather them. *)
LEMMA AskedAreGathered ==
  ASSUME argv \in Commands
  PROVE  Gathers(FilesUpTo, FilePlaces) /\ Gathers(CodesUpTo, CodePlaces)
<1>1. ASSUME NEW f, Gathers(f, FilePlaces)
      PROVE  f = [k \in 0..Len(argv) |->
                IF k = 0 THEN <<>> ELSE IF IsFile(k) THEN Append(f[k - 1], argv[k]) ELSE f[k - 1]]
  BY <1>1 DEF Gathers, FilePlaces
<1>2. ASSUME NEW f, Gathers(f, CodePlaces)
      PROVE  f = [k \in 0..Len(argv) |->
                IF k = 0 THEN <<>> ELSE IF IsCodeArgument(k) THEN Append(f[k - 1], argv[k]) ELSE f[k - 1]]
  BY <1>2 DEF Gathers, CodePlaces
<1>3. FilesUpTo = [k \in 0..Len(argv) |->
        IF k = 0 THEN <<>> ELSE IF IsFile(k) THEN Append(FilesUpTo[k - 1], argv[k]) ELSE FilesUpTo[k - 1]]
  BY <1>1, GatherExists DEF FilesUpTo
<1>4. CodesUpTo = [k \in 0..Len(argv) |->
        IF k = 0 THEN <<>> ELSE IF IsCodeArgument(k) THEN Append(CodesUpTo[k - 1], argv[k]) ELSE CodesUpTo[k - 1]]
  BY <1>2, GatherExists DEF CodesUpTo
<1> QED  BY <1>3, <1>4 DEF Gathers, FilePlaces, CodePlaces
--------------------------------------------------------------------------------
(* parse, an argument at a time.                                           *)

(* Where the value of an option goes. *)
LEMMA FieldsAre ==
  /\ CL!Field["--"] = "files" /\ "--" \notin CL!Takers /\ "--" \notin CL!Short
  /\ "none" \notin CL!Takers \cup {"--"} /\ "-e" \notin CL!Short
  /\ \A a \in CL!Takers : CL!Field[a] # "files" /\ (CL!Field[a] = "execCodes" <=> a = "-e")
  /\ CL!Short \subseteq CL!Takers /\ {"--include", "--library"} \subseteq CL!Takers \ {"-e"}
  /\ DOMAIN CL!Field = CL!Takers \cup {"--"}
  BY DEF CL!Field, CL!Takers, CL!Short

(* The arguments that set or clear an option are none of those. *)
LEMMA FlagsAre ==
  /\ CL!Flags \cap DOMAIN CL!Field = {}
  /\ \A f \in {"files", "execCodes"} : f \notin DOMAIN CL!On /\ f \notin DOMAIN CL!Off
<1>1. CL!Flags \cap DOMAIN CL!Field = {}
  BY DEF CL!On, CL!Off, CL!Flags, CL!Field, CL!Verbose
<1>2. \A f \in {"files", "execCodes"} : f \notin DOMAIN CL!On /\ f \notin DOMAIN CL!Off
  BY DEF CL!On, CL!Off
<1> QED  BY <1>1, <1>2

(* What the options keep of files and -e texts. *)
Keeps(o, files, codes) ==
  /\ {"files", "execCodes"} \subseteq DOMAIN o
  /\ o.files = files /\ o.execCodes = codes

(* A value is added to its field, and to no other. *)
LEMMA AddIs ==
  ASSUME NEW o, NEW F, NEW C, Keeps(o, F, C), NEW a \in CL!Takers \cup {"--"}, NEW v
  PROVE  Keeps(CL!Add(o, a, v), IF a = "--" THEN Append(F, v) ELSE F,
               IF a = "-e" THEN Append(C, v) ELSE C)
<1> DEFINE w == IF a \in CL!Short THEN CL!Unequal(v) ELSE v
           field == CL!Field[a]
<1>1. CL!Add(o, a, v) = [o EXCEPT ![field] = Append(@, w)]
  BY DEF CL!Add
<1>2. (field = "files" <=> a = "--") /\ (field = "execCodes" <=> a = "-e")
  BY FieldsAre
<1>3. a \in {"--", "-e"} => w = v
  BY FieldsAre
<1> HIDE DEF w, field
<1>4. DOMAIN CL!Add(o, a, v) = DOMAIN o
  BY <1>1
<1>5. CL!Add(o, a, v).files = IF a = "--" THEN Append(F, v) ELSE F
  BY <1>1, <1>2, <1>3 DEF Keeps
<1>6. CL!Add(o, a, v).execCodes = IF a = "-e" THEN Append(C, v) ELSE C
  BY <1>1, <1>2, <1>3 DEF Keeps
<1> QED  BY <1>4, <1>5, <1>6 DEF Keeps

(* An option that is set is neither. *)
LEMMA SetFlagIs ==
  ASSUME NEW o, NEW F, NEW C, Keeps(o, F, C), NEW a PROVE Keeps(CL!SetFlag(o, a), F, C)
<1>1. \A f \in {"files", "execCodes"} : f \in DOMAIN o
  BY DEF Keeps
<1>2. DOMAIN CL!SetFlag(o, a) = DOMAIN o
  BY DEF CL!SetFlag
<1>3. \A f \in {"files", "execCodes"} : CL!SetFlag(o, a)[f] = o[f]
  BY <1>1, FlagsAre DEF CL!SetFlag
<1> QED  BY <1>2, <1>3 DEF Keeps

(* The option whose value comes next. *)
Wanting(k) == k > 0 /\ argv[k] \in CL!Takers /\ ~IsValue[k] /\ ~PastDashes(k + 1)

(* What the walk has made of the first k arguments. *)
Read(st, k) ==
  /\ DOMAIN st = {"opts", "wants", "failed"} /\ ~st.failed
  /\ Keeps(st.opts, FilesUpTo[k], CodesUpTo[k])
  /\ st.wants = "--" <=> PastDashes(k + 1)
  /\ st.wants \in CL!Takers <=> Wanting(k)
  /\ Wanting(k) => st.wants = argv[k]

(* How a state of the walk changes. *)
LEMMA StatesAre ==
  ASSUME NEW st, DOMAIN st = {"opts", "wants", "failed"}, NEW o, NEW a
  PROVE  /\ LET t == [st EXCEPT !.opts = o]
            IN  DOMAIN t = DOMAIN st /\ t.opts = o /\ t.wants = st.wants /\ t.failed = st.failed
         /\ LET t == [st EXCEPT !.opts = o, !.wants = a]
            IN  DOMAIN t = DOMAIN st /\ t.opts = o /\ t.wants = a /\ t.failed = st.failed
         /\ LET t == [st EXCEPT !.wants = a]
            IN  DOMAIN t = DOMAIN st /\ t.opts = st.opts /\ t.wants = a /\ t.failed = st.failed
         /\ LET t == [st EXCEPT !.failed = a]
            IN  DOMAIN t = DOMAIN st /\ t.failed = a
  OBVIOUS

(* The next argument is read for what it is, or the walk fails. *)
LEMMA ReadStep ==
  ASSUME argv \in Commands, NEW k \in 1..Len(argv), NEW st, Read(st, k - 1)
  PROVE  LET t == CL!Argument(st, argv[k]) IN t.failed = TRUE \/ Read(t, k)
<1> DEFINE a == argv[k]
           t == CL!Argument(st, a)
           o == st.opts
           F == FilesUpTo[k - 1]
           C == CodesUpTo[k - 1]
           dash == CL!StartsWith(a, "-")
<1>0. k \in 0..Len(argv) /\ k - 1 \in 0..Len(argv) /\ k > 0 /\ (k - 1) + 1 = k /\ (k - 1 > 0 <=> k > 1)
  BY ArgumentsAre
<1>1. /\ DOMAIN st = {"opts", "wants", "failed"} /\ ~st.failed
      /\ Keeps(o, F, C)
      /\ st.wants = "--" <=> PastDashes(k)
      /\ st.wants \in CL!Takers <=> IsValue[k]
      /\ IsValue[k] => st.wants = argv[k - 1] /\ ~PastDashes(k)
  BY <1>0, ValueIs DEF Read, Wanting
<1>2. /\ FilesUpTo[k] = IF k \in FilePlaces THEN Append(F, a) ELSE F
      /\ CodesUpTo[k] = IF k \in CodePlaces THEN Append(C, a) ELSE C
  BY <1>0, AskedAreGathered, GatherIs
<1>3. /\ k \in FilePlaces <=> PastDashes(k) \/ ~(IsValue[k] \/ dash)
      /\ k \in CodePlaces <=> IsValue[k] /\ argv[k - 1] = "-e"
  BY <1>0 DEF FilePlaces, CodePlaces, IsFile, IsCodeArgument
<1>4. PastDashes(k + 1) <=> PastDashes(k) \/ (a = "--" /\ ~IsValue[k])
  BY PastDashesIs
<1>5. Wanting(k) <=> a \in CL!Takers /\ ~IsValue[k] /\ ~PastDashes(k + 1)
  BY <1>0 DEF Wanting
<1>6. \/ a \in CL!Flags \cup DOMAIN CL!Field
      \/ \E p \in CL!Short \cup {"--include=", "--library="} : CL!StartsWith(a, p)
      => dash
  BY ArgumentsAre, DashAssumption
<1>7. a \in STRING
  BY ArgumentsAre
<1>8. t = CL!Argument(st, a) /\ o = st.opts
  OBVIOUS
<1> SUFFICES t.failed = TRUE \/ Read(t, k)
  OBVIOUS
<1> HIDE DEF a, t, o, F, C, dash
\* A state with the right options, that wants what it should, is right.
<1>9. ASSUME NEW G, NEW D, Keeps(t.opts, G, D),
             G = (IF k \in FilePlaces THEN Append(F, a) ELSE F),
             D = (IF k \in CodePlaces THEN Append(C, a) ELSE C),
             DOMAIN t = DOMAIN st, t.failed = st.failed,
             t.wants = "--" <=> PastDashes(k + 1),
             t.wants \in CL!Takers <=> Wanting(k), Wanting(k) => t.wants = a
      PROVE  Read(t, k)
  <2>1. Keeps(t.opts, FilesUpTo[k], CodesUpTo[k])
    BY <1>2, <1>9
  <2> QED  BY <1>1, <1>9, <2>1 DEF Read, a
<1>10. CASE st.wants = "--"
  <2>1. t = [st EXCEPT !.opts = CL!Add(o, "--", a)]
    BY <1>1, <1>8, <1>10 DEF CL!Argument
  <2>2. Keeps(CL!Add(o, "--", a), Append(F, a), C)
    BY <1>1, AddIs
  <2>3. k \in FilePlaces /\ k \notin CodePlaces /\ PastDashes(k + 1) /\ ~Wanting(k)
    BY <1>1, <1>3, <1>4, <1>5, <1>10, FieldsAre
  <2>4. t.opts = CL!Add(o, "--", a) /\ DOMAIN t = DOMAIN st /\ t.wants = "--" /\ t.failed = st.failed
    BY <1>1, <1>10, <2>1, StatesAre
  <2>5. Keeps(t.opts, Append(F, a), C) /\ t.wants \notin CL!Takers
    BY <2>2, <2>4, FieldsAre
  <2>6. /\ Append(F, a) = (IF k \in FilePlaces THEN Append(F, a) ELSE F)
        /\ C = (IF k \in CodePlaces THEN Append(C, a) ELSE C)
    BY <2>3
  <2> QED  BY <1>9, <2>3, <2>4, <2>5, <2>6
<1>11. CASE st.wants \in CL!Takers
  <2>1. st.wants # "--" /\ st.wants \in CL!Takers \cup {"--"}
    BY <1>11, FieldsAre
  <2>2. t = [st EXCEPT !.opts = CL!Add(o, st.wants, a), !.wants = "none"]
    BY <1>1, <1>8, <1>11, <2>1 DEF CL!Argument
  <2>3. Keeps(CL!Add(o, st.wants, a), F, IF st.wants = "-e" THEN Append(C, a) ELSE C)
    BY <1>1, <2>1, AddIs
  <2>4. k \notin FilePlaces /\ (k \in CodePlaces <=> st.wants = "-e") /\ ~PastDashes(k + 1) /\ ~Wanting(k)
    BY <1>1, <1>3, <1>4, <1>5, <1>11
  <2>5. t.opts = CL!Add(o, st.wants, a) /\ DOMAIN t = DOMAIN st /\ t.wants = "none" /\ t.failed = st.failed
    BY <1>1, <2>2, StatesAre
  <2>6. Keeps(t.opts, F, IF st.wants = "-e" THEN Append(C, a) ELSE C)
    BY <2>3, <2>5
  <2>7. /\ F = (IF k \in FilePlaces THEN Append(F, a) ELSE F)
        /\ (IF st.wants = "-e" THEN Append(C, a) ELSE C) = (IF k \in CodePlaces THEN Append(C, a) ELSE C)
        /\ t.wants # "--" /\ t.wants \notin CL!Takers
    BY <2>4, <2>5, FieldsAre
  <2> QED  BY <1>9, <2>4, <2>5, <2>6, <2>7
<1>12. CASE st.wants # "--" /\ st.wants \notin CL!Takers
  <2>0. ~PastDashes(k) /\ ~IsValue[k] /\ k \notin CodePlaces
    BY <1>1, <1>3, <1>12
  \* An argument that adds a value, or none, and wants none.
  <2>1. ASSUME NEW p, NEW G, Keeps(p, G, C), G = (IF k \in FilePlaces THEN Append(F, a) ELSE F),
               t = [st EXCEPT !.opts = p], a \notin CL!Takers, a # "--"
        PROVE  Read(t, k)
    <3>1. t.opts = p /\ DOMAIN t = DOMAIN st /\ t.wants = st.wants /\ t.failed = st.failed
      BY <1>1, <2>1, StatesAre
    <3>2. ~PastDashes(k + 1) /\ ~Wanting(k)
      BY <1>4, <1>5, <2>0, <2>1
    <3> QED  BY <1>9, <1>12, <2>0, <2>1, <3>1, <3>2
  <2>2. CASE a \in CL!Flags
    <3>1. t = [st EXCEPT !.opts = CL!SetFlag(o, a)]
      BY <1>1, <1>8, <1>12, <2>2 DEF CL!Argument
    <3>2. a \notin CL!Takers /\ a # "--"
      BY <2>2, FlagsAre, FieldsAre
    <3>3. Keeps(CL!SetFlag(o, a), F, C)
      BY <1>1, SetFlagIs
    <3>4. k \notin FilePlaces
      BY <1>3, <1>6, <2>0, <2>2
    <3> QED  BY <2>1, <3>1, <3>2, <3>3, <3>4
  <2>3. CASE a \notin CL!Flags /\ a \in CL!Takers \cup {"--"}
    <3>1. t = [st EXCEPT !.wants = a]
      BY <1>1, <1>8, <1>12, <2>3 DEF CL!Argument
    <3>2. k \notin FilePlaces
      BY <1>3, <1>6, <2>0, <2>3, FieldsAre
    <3>3. (PastDashes(k + 1) <=> a = "--") /\ (Wanting(k) <=> a \in CL!Takers)
      BY <1>4, <1>5, <2>0, FieldsAre
    <3>4. t.opts = o /\ DOMAIN t = DOMAIN st /\ t.wants = a /\ t.failed = st.failed
      BY <1>1, <1>8, <3>1, StatesAre
    <3> QED  BY <1>1, <1>9, <2>0, <3>2, <3>3, <3>4
  <2>4. CASE a \notin CL!Flags /\ a \notin CL!Takers \cup {"--"}
    <3>1. CASE \E p \in CL!Short : CL!StartsWith(a, p)
      <4> DEFINE p == CHOOSE p \in CL!Short : CL!StartsWith(a, p)
      <4>1. p \in CL!Short
        BY <3>1
      <4>2. t = [st EXCEPT !.opts = CL!Add(o, p, CL!Behind(a, p))]
        BY <1>1, <1>8, <1>12, <2>4, <3>1 DEF CL!Argument
      <4> HIDE DEF p
      <4>3. p \in CL!Takers \cup {"--"} /\ p # "--" /\ p # "-e"
        BY <4>1, FieldsAre
      <4>4. Keeps(CL!Add(o, p, CL!Behind(a, p)), F, C)
        BY <1>1, <4>3, AddIs
      <4>5. k \notin FilePlaces
        BY <1>3, <1>6, <2>0, <3>1
      <4> QED  BY <2>1, <2>4, <4>2, <4>4, <4>5
    <3>2. CASE ~(\E p \in CL!Short : CL!StartsWith(a, p)) /\ CL!StartsWith(a, "--include=")
      <4>1. t = [st EXCEPT !.opts = CL!Add(o, "--include", CL!Behind(a, "--include="))]
        BY <1>1, <1>8, <1>12, <2>4, <3>2 DEF CL!Argument
      <4>2. Keeps(CL!Add(o, "--include", CL!Behind(a, "--include=")), F, C)
        BY <1>1, FieldsAre, AddIs
      <4>3. k \notin FilePlaces
        BY <1>3, <1>6, <2>0, <3>2
      <4> QED  BY <2>1, <2>4, <4>1, <4>2, <4>3
    <3>3. CASE /\ ~(\E p \in CL!Short : CL!StartsWith(a, p)) /\ ~CL!StartsWith(a, "--include=")
               /\ CL!StartsWith(a, "--library=")
      <4>1. t = [st EXCEPT !.opts = CL!Add(o, "--library", CL!Behind(a, "--library="))]
        BY <1>1, <1>8, <1>12, <2>4, <3>3 DEF CL!Argument
      <4>2. Keeps(CL!Add(o, "--library", CL!Behind(a, "--library=")), F, C)
        BY <1>1, FieldsAre, AddIs
      <4>3. k \notin FilePlaces
        BY <1>3, <1>6, <2>0, <3>3
      <4> QED  BY <2>1, <2>4, <4>1, <4>2, <4>3
    <3>4. CASE /\ ~(\E p \in CL!Short : CL!StartsWith(a, p)) /\ ~CL!StartsWith(a, "--include=")
               /\ ~CL!StartsWith(a, "--library=")
      <4>1. CASE dash
        <5>1. t = [st EXCEPT !.failed = TRUE]
          BY <1>1, <1>8, <1>12, <2>4, <3>4, <4>1 DEF CL!Argument, dash
        <5> QED  BY <1>1, <5>1, StatesAre
      <4>2. CASE ~dash
        <5>1. t = [st EXCEPT !.opts = CL!Add(o, "--", a)]
          BY <1>1, <1>8, <1>12, <2>4, <3>4, <4>2 DEF CL!Argument, dash
        <5>2. Keeps(CL!Add(o, "--", a), Append(F, a), C)
          BY <1>1, AddIs
        <5>3. k \in FilePlaces
          BY <1>3, <2>0, <4>2
        <5> QED  BY <2>1, <2>4, <5>1, <5>2, <5>3
      <4> QED  BY <4>1, <4>2
    <3> QED  BY <3>1, <3>2, <3>3, <3>4
  <2> QED  BY <2>2, <2>3, <2>4
<1> QED  BY <1>10, <1>11, <1>12

(* What parse makes of a command line that it accepts: the files and the -e *)
(* texts that the arguments say.                                           *)
LEMMA ParsedIsAsked ==
  ASSUME argv \in Commands, ~Parsed.failed
  PROVE  /\ Opts.files = Asked(IsFile) /\ Opts.execCodes = Asked(IsCodeArgument)
         /\ Opts.files \in Seq(STRING) /\ Opts.execCodes \in Seq(STRING)
         /\ \A k \in DOMAIN argv : IsFile(k) => \E i \in DOMAIN Opts.files : Opts.files[i] = argv[k]
<1> DEFINE n == Len(argv)
           T == {k \in 0..n : Walk[k].failed = TRUE \/ Read(Walk[k], k)}
<1>1. n \in Nat /\ DOMAIN argv = 1..n
  BY ArgumentsAre
<1>2. Gathers(FilesUpTo, FilePlaces) /\ Gathers(CodesUpTo, CodePlaces)
  BY AskedAreGathered
<1>3. 0 \in T
  <2>1. Keeps(CL!Options, <<>>, <<>>)
    BY DEF Keeps, CL!Options
  <2>2. FilesUpTo[0] = <<>> /\ CodesUpTo[0] = <<>>
    BY <1>2, GatherIs
  <2>3. ~PastDashes(0 + 1) /\ ~Wanting(0)
    BY DEF PastDashes, Wanting
  <2>4. Walk[0] = Started
    BY WalkSteps
  <2>5. /\ DOMAIN Started = {"opts", "wants", "failed"} /\ ~Started.failed
        /\ Started.opts = CL!Options /\ Started.wants = "none"
    BY DEF Started
  <2>6. Read(Walk[0], 0)
    BY <2>1, <2>2, <2>3, <2>4, <2>5, FieldsAre DEF Read
  <2> QED  BY <1>1, <2>6
<1>4. ASSUME NEW k \in 0..n, k \in T, k < n PROVE k + 1 \in T
  <2>1. k + 1 \in 1..n /\ (k + 1) - 1 = k /\ k + 1 \in 0..n
    BY <1>1, <1>4
  <2>2. Walk[k + 1] = CL!Argument(Walk[k], argv[k + 1])
    BY <2>1, WalkSteps
  <2>3. CASE Walk[k].failed = TRUE
    <3>1. Walk[k + 1] = Walk[k]
      BY <2>2, <2>3 DEF CL!Argument
    <3> QED  BY <2>1, <2>3, <3>1
  <2>4. CASE Read(Walk[k], k)
    <3>1. Read(Walk[k], (k + 1) - 1)
      BY <2>1, <2>4
    <3>2. LET t == CL!Argument(Walk[k], argv[k + 1]) IN t.failed = TRUE \/ Read(t, k + 1)
      BY <2>1, <3>1, ReadStep
    <3> QED  BY <2>1, <2>2, <3>2
  <2> QED  BY <1>4, <2>3, <2>4
<1>5. Walk[n].failed = TRUE \/ Read(Walk[n], n)
  <2> HIDE DEF T
  <2>1. 0..n \subseteq T
    BY <1>1, <1>3, <1>4, UpToInduction
  <2> QED  BY <1>1, <2>1 DEF T
<1>6. Parsed.opts = Walk[n].opts /\ Parsed.failed = (Walk[n].failed \/ Walk[n].wants \in CL!Takers)
  BY WalkIs
<1>7. Keeps(Opts, FilesUpTo[n], CodesUpTo[n])
  BY <1>5, <1>6 DEF Opts, Read
<1>8. Opts.files = FilesUpTo[n] /\ Opts.execCodes = CodesUpTo[n]
  BY <1>7 DEF Keeps
<1>9. Opts.files = Asked(IsFile) /\ Opts.execCodes = Asked(IsCodeArgument)
  BY <1>8, AskedAre
<1>10. Opts.files \in Seq(STRING) /\ Opts.execCodes \in Seq(STRING)
  BY <1>2, <1>8, GatherIs
<1>11. ASSUME NEW k \in DOMAIN argv, IsFile(k)
       PROVE  \E i \in DOMAIN Opts.files : Opts.files[i] = argv[k]
  <2>1. k \in FilePlaces /\ k \in 1..n
    BY <1>1, <1>11 DEF FilePlaces
  <2>2. \E i \in DOMAIN FilesUpTo[n] : FilesUpTo[n][i] = argv[k]
    BY <1>2, <2>1, GatherIs
  <2> QED  BY <1>8, <2>2
<1> QED  BY <1>9, <1>10, <1>11
--------------------------------------------------------------------------------
(* How far main() is: the inductive invariant.                             *)

Wanted == Opts.files \o Opts.execCodes

(* ran holds the first of what is wanted, and no file that is missing.     *)
Begun ==
  /\ ran \in Seq(STRING) /\ Len(ran) <= Len(Wanted)
  /\ \A k \in 1..Len(ran) : ran[k] = Wanted[k]
  /\ \A k \in 1..Len(Opts.files) : k <= Len(ran) => Opts.files[k] \notin Missing

(* A file that is missing is answered at once, and with no.                *)
Refused == Opts.files[Len(ran) + 1] \in Missing => todo = <<>> /\ answer = FALSE

Progress ==
  /\ stage \in {"start", "scaffold", "init"} => ran = <<>> /\ call = Idle
  /\ stage \in {"scaffold", "init", "files", "codes", "session"} \/ ran # <<>>
       => ~Parsed.failed /\ Begun
  /\ stage = "files" =>
       /\ Len(ran) <= Len(Opts.files)
       /\ call # Idle => Len(ran) < Len(Opts.files) /\ Refused
  /\ stage = "codes" =>
       /\ Len(Opts.files) <= Len(ran)
       /\ call # Idle => Len(ran) < Len(Wanted)
  /\ stage = "session" \/ (stage = "over" /\ status = 0 /\ ran # <<>>) => Len(ran) = Len(Wanted)

(* What the command line is made of stays what it is. *)
LEMMA OptionsStay ==
  ASSUME argv' = argv PROVE Parsed' = Parsed /\ Opts' = Opts /\ Wanted' = Wanted
  BY DEF Parsed, Opts, Wanted

(* The lengths of what is asked for. *)
LEMMA WantedIs ==
  ASSUME argv \in Commands, ~Parsed.failed
  PROVE  /\ Opts.files \in Seq(STRING) /\ Opts.execCodes \in Seq(STRING) /\ Wanted \in Seq(STRING)
         /\ Len(Opts.files) \in Nat /\ Len(Opts.execCodes) \in Nat
         /\ Len(Wanted) = Len(Opts.files) + Len(Opts.execCodes)
         /\ \A k \in 1..Len(Opts.files) : Wanted[k] = Opts.files[k]
<1> DEFINE f == Opts.files  c == Opts.execCodes
<1>1. f \in Seq(STRING) /\ c \in Seq(STRING)
  BY ParsedIsAsked
<1>2. Wanted = f \o c
  BY DEF Wanted
<1> HIDE DEF f, c
<1>3. /\ f \o c \in Seq(STRING) /\ Len(f \o c) = Len(f) + Len(c) /\ Len(f) \in Nat /\ Len(c) \in Nat
      /\ \A k \in 1..Len(f) : (f \o c)[k] = f[k]
  BY <1>1, ConcatProperties
<1> QED  BY <1>1, <1>2, <1>3 DEF f, c

(* At the beginning nothing was carried out. *)
LEMMA NothingBegun ==
  ASSUME argv \in Commands, ~Parsed.failed, ran = <<>> PROVE Begun
<1>1. ran \in Seq(STRING) /\ Len(ran) = 0
  BY EmptySeq
<1> QED  BY <1>1, WantedIs DEF Begun

(* The initial state. *)
LEMMA ProgressStarts == Init => Progress
  BY DEF Init, Progress

(* A step that leaves main() where it is. *)
LEMMA ProgressStays ==
  ASSUME Progress, UNCHANGED <<argv, stage, status, ran>>,
         stage \in {"start", "scaffold", "init", "files", "codes"} => UNCHANGED call,
         stage = "files" /\ call # Idle /\ Refused => Refused'
  PROVE  Progress'
<1>1. Parsed' = Parsed /\ Opts' = Opts /\ Wanted' = Wanted
  BY OptionsStay
<1>2. Begun => Begun'
  BY <1>1 DEF Begun
<1> QED  BY <1>1, <1>2 DEF Progress

(* The session and its user leave main() alone. *)
LEMMA UserProgress ==
  ASSUME IInv, Progress, User \/ (Return /\ Unmoved) PROVE Progress'
<1>1. reading
  <2>1. CASE Return
    BY <2>1 DEF Return
  <2>2. CASE EndOfInput
    BY <2>2 DEF EndOfInput, Waiting
  <2>3. CASE ReadLine
    BY Zenon, <2>3 DEF ReadLine, Quit, Unfinished, Finished, StackLine, Undo, StackPop, StackPush,
       StackClear, StackRemove, StackSet, StackSwap, Reset, Load, Path, Lib, Security, Command, Waiting
  <2> QED  BY <2>1, <2>2, <2>3 DEF User
<1>2. stage = "session"
  BY <1>1 DEF IInv, Underway
<1>3. UNCHANGED <<argv, stage, status, ran>>
  BY DEF User, Unmoved
<1> QED  BY <1>2, <1>3, ProgressStays

(* A task of the notebook is none of a file that is missing. *)
LEMMA CarryProgress ==
  ASSUME IInv, Progress, Carry, Unmoved PROVE Progress'
<1>1. UNCHANGED <<argv, stage, status, ran, call>>
  BY DEF Unmoved, Carry, session
<1>2. todo # <<>>
  <2>1. CASE NB!Keep
    BY <2>1 DEF NB!Keep, NB!Busy
  <2>2. CASE NB!GiveUp
    BY <2>2 DEF NB!GiveUp, NB!Busy
  <2>3. ASSUME NEW r \in BOOLEAN, NB!Skip(r) PROVE todo # <<>>
    BY <2>3 DEF NB!Skip, NB!Busy
  <2> QED  BY <2>1, <2>2, <2>3 DEF Carry
<1>3. Refused => Opts.files[Len(ran) + 1] \notin Missing
  BY <1>2 DEF Refused
<1>4. Refused => Refused'
  BY <1>1, <1>3, OptionsStay DEF Refused
<1> QED  BY <1>1, <1>4, ProgressStays

(* Up to the first file. *)
LEMMA StartProgress ==
  ASSUME IInv, Progress, ParseCommandLine \/ ShowScaffold \/ InitInterpreter PROVE Progress'
<1>1. argv \in Commands /\ status \in {0, 1}
  BY DEF IInv, Types, StageOK
<1>2. UNCHANGED <<argv, ran, call>> /\ ran = <<>> /\ call = Idle
  BY DEF ParseCommandLine, ShowScaffold, InitInterpreter, Inside, session, Progress
<1>3. \/ stage' = "over"
      \/ stage' \in {"scaffold", "init", "files"} /\ ~Parsed.failed
  BY DEF ParseCommandLine, ShowScaffold, InitInterpreter, Exit, Progress
<1>4. Parsed' = Parsed /\ Opts' = Opts /\ Wanted' = Wanted
  BY <1>2, OptionsStay
<1>5. CASE stage' = "over"
  BY <1>2, <1>5 DEF Progress
<1>6. CASE stage' \in {"scaffold", "init", "files"} /\ ~Parsed.failed
  <2>1. Begun'
    <3>1. Begun
      BY <1>1, <1>2, <1>6, NothingBegun
    <3> QED  BY <1>2, <1>4, <3>1 DEF Begun
  <2>2. Len(ran) = 0 /\ Len(Opts.files) \in Nat
    BY <1>1, <1>2, <1>6, WantedIs, EmptySeq
  <2> QED  BY <1>2, <1>4, <1>6, <2>1, <2>2 DEF Progress
<1> QED  BY <1>3, <1>5, <1>6

(* A file or a text is begun. *)
LEMMA CallProgress ==
  ASSUME IInv, Progress, LoadNext \/ EvalNext PROVE Progress'
<1>1. argv \in Commands
  BY DEF IInv, Types, StageOK
<1>2. UNCHANGED <<argv, stage, status, ran>>
  BY DEF LoadNext, EvalNext, Uncalled
<1>3. Parsed' = Parsed /\ Opts' = Opts /\ Wanted' = Wanted
  BY <1>2, OptionsStay
<1>4. ~Parsed.failed /\ Begun
  BY DEF LoadNext, EvalNext, Progress
<1>5. Begun'
  BY <1>2, <1>3, <1>4 DEF Begun
<1>6. CASE LoadNext
  <2>1. stage = "files" /\ Len(ran) < Len(Opts.files)
    BY <1>6 DEF LoadNext
  <2>2. Refused'
    <3>1. ASSUME Opts.files[Len(ran) + 1] \in Missing PROVE todo' = <<>> /\ answer' = FALSE
      BY <1>6, <3>1 DEF LoadNext, NB!Report, NB!Busy
    <3> QED  BY <1>2, <1>3, <3>1 DEF Refused
  <2> QED  BY <1>2, <1>3, <1>4, <1>5, <2>1, <2>2 DEF Progress
<1>7. CASE EvalNext
  <2>1. stage = "codes" /\ Len(ran) < Len(Wanted)
    BY <1>1, <1>4, <1>7, WantedIs DEF EvalNext
  <2> QED  BY <1>2, <1>3, <1>4, <1>5, <2>1 DEF Progress
<1> QED  BY <1>6, <1>7

(* One more of what is wanted was carried out, and was no missing file.    *)
LEMMA CheckedProgress ==
  ASSUME IInv, Progress, Checked PROVE Progress'
<1>1. argv \in Commands
  BY DEF IInv, Types, StageOK
<1>2. stage \in {"files", "codes"} /\ call # Idle /\ todo = <<>> /\ argv' = argv /\ call' = Idle
  BY DEF Checked, NB!Busy
<1>3. ~Parsed.failed /\ Begun /\ Len(ran) < Len(Wanted)
  <2>1. ~Parsed.failed /\ Begun
    BY <1>2 DEF Progress
  <2>2. Len(ran) \in Nat
    BY <2>1 DEF Begun
  <2>3. /\ Len(Opts.files) \in Nat /\ Len(Opts.execCodes) \in Nat
        /\ Len(Wanted) = Len(Opts.files) + Len(Opts.execCodes)
    BY <1>1, <2>1, WantedIs
  <2>4. Len(ran) < Len(Opts.files) \/ Len(ran) < Len(Wanted)
    BY <1>2 DEF Progress
  <2>5. Len(ran) < Len(Wanted)
    <3> DEFINE r == Len(ran)  w == Len(Wanted)  a == Len(Opts.files)  b == Len(Opts.execCodes)
    <3>1. r \in Nat /\ a \in Nat /\ b \in Nat /\ w = a + b /\ (r < a \/ r < w)
      BY <2>2, <2>3, <2>4
    <3> HIDE DEF r, w, a, b
    <3>2. r < w
      BY <3>1
    <3> QED  BY <3>2 DEF r, w
  <2> QED  BY <2>1, <2>5
<1>4. Parsed' = Parsed /\ Opts' = Opts /\ Wanted' = Wanted
  BY <1>2, OptionsStay
<1>5. CASE answer
  <2> DEFINE n == Len(ran) + 1
  <2>1. ran' = Append(ran, Wanted[n]) /\ stage' = stage /\ status' = status
    BY <1>5 DEF Checked, Wanted
  <2>2. ran \in Seq(STRING) /\ Len(ran) \in Nat /\ Wanted \in Seq(STRING) /\ n \in 1..Len(Wanted)
    <3>1. ran \in Seq(STRING) /\ Wanted \in Seq(STRING) /\ Len(ran) < Len(Wanted)
      BY <1>1, <1>3, WantedIs DEF Begun
    <3>2. Len(ran) \in Nat /\ Len(Wanted) \in Nat
      BY <3>1
    <3> QED  BY <3>1, <3>2
  <2>3. Wanted[n] \in STRING
    BY <2>2
  <2>4. /\ ran' \in Seq(STRING) /\ Len(ran') = n /\ ran'[n] = Wanted[n]
        /\ \A k \in 1..Len(ran) : ran'[k] = ran[k]
    BY <2>1, <2>2, <2>3, AppendProperties
  <2>5. \A k \in 1..n : ran'[k] = Wanted[k]
    <3>1. \A k \in 1..n : k = n \/ k \in 1..Len(ran)
      BY <2>2
    <3> QED  BY <1>3, <2>4, <3>1 DEF Begun
  <2>6. ASSUME NEW k \in 1..Len(Opts.files), k <= n PROVE Opts.files[k] \notin Missing
    <3>1. CASE k <= Len(ran)
      BY <1>3, <3>1 DEF Begun
    <3>2. CASE ~(k <= Len(ran))
      <4>1. k = n /\ Len(ran) < Len(Opts.files) /\ Len(Opts.files) \in Nat
        BY <1>1, <1>3, <2>2, <2>6, <3>2, WantedIs
      <4>2. stage = "files" /\ Refused
        <5>1. stage # "codes"
          BY <1>2, <2>2, <4>1 DEF Progress
        <5> QED  BY <1>2, <5>1 DEF Progress
      <4> QED  BY <1>5, <4>1, <4>2 DEF Refused
    <3> QED  BY <3>1, <3>2
  <2>7. Begun'
    BY <1>4, <2>2, <2>4, <2>5, <2>6 DEF Begun
  <2>8. stage = "files" => n <= Len(Opts.files)
    BY <1>1, <1>2, <1>3, <2>2, WantedIs DEF Progress
  <2>9. stage = "codes" => Len(Opts.files) <= n
    BY <1>1, <1>2, <1>3, <2>2, WantedIs DEF Progress
  <2> QED  BY <1>2, <1>3, <1>4, <2>1, <2>4, <2>7, <2>8, <2>9 DEF Progress
<1>6. CASE ~answer
  <2>1. ran' = ran /\ stage' = "over" /\ status' = 1
    BY <1>6 DEF Checked, Exit
  <2>2. Begun'
    BY <1>3, <1>4, <2>1 DEF Begun
  <2> QED  BY <1>3, <1>4, <2>1, <2>2 DEF Progress
<1> QED  BY <1>5, <1>6

(* From the files to the texts, from the texts to the session, and its end. *)
LEMMA DoneProgress ==
  ASSUME IInv, Progress, FilesDone \/ CodesDone \/ SessionOver PROVE Progress'
<1>1. argv \in Commands
  BY DEF IInv, Types, StageOK
<1>2. UNCHANGED <<argv, ran, call>>
  BY DEF FilesDone, CodesDone, SessionOver, Inside, session
<1>3. Parsed' = Parsed /\ Opts' = Opts /\ Wanted' = Wanted
  BY <1>2, OptionsStay
<1>4. ~Parsed.failed /\ Begun
  BY DEF FilesDone, CodesDone, SessionOver, Progress
<1>5. Begun'
  BY <1>2, <1>3, <1>4 DEF Begun
<1>6. Len(Wanted) = Len(Opts.files) + Len(Opts.execCodes)
  BY <1>1, <1>4, WantedIs
<1>7. CASE FilesDone
  <2>1. stage' = "codes" /\ Len(ran) = Len(Opts.files) /\ call = Idle /\ Len(ran) \in Nat
    BY <1>4, <1>7 DEF FilesDone, Quiet, Begun
  <2> QED  BY <1>2, <1>3, <1>4, <1>5, <2>1 DEF Progress
<1>8. CASE CodesDone
  <2>1. stage' \in {"over", "session"} /\ Len(ran) = Len(Wanted)
    BY <1>6, <1>8 DEF CodesDone, Exit
  <2> QED  BY <1>2, <1>3, <1>4, <1>5, <2>1 DEF Progress
<1>9. CASE SessionOver
  <2>1. stage' = "over" /\ Len(ran) = Len(Wanted)
    BY <1>9 DEF SessionOver, Exit, Progress
  <2> QED  BY <1>2, <1>3, <1>4, <1>5, <2>1 DEF Progress
<1> QED  BY <1>7, <1>8, <1>9
--------------------------------------------------------------------------------
(* The theorem.                                                            *)

(* How far main() is, it stays true of every step. *)
LEMMA ProgressKeeps == IInv /\ Progress /\ [Next]_vars => Progress'
<1> SUFFICES ASSUME IInv, Progress, [Next]_vars PROVE Progress'
  OBVIOUS
<1>1. CASE Main
  BY <1>1, StartProgress, CallProgress, CheckedProgress, DoneProgress DEF Main
<1>2. CASE Carry /\ Unmoved
  BY <1>2, CarryProgress
<1>3. CASE Return /\ Unmoved
  BY <1>3, UserProgress
<1>4. CASE User
  BY <1>4, UserProgress
<1>5. CASE UNCHANGED vars
  <2>1. UNCHANGED <<argv, stage, status, ran, call, todo, answer>>
    BY <1>5 DEF vars, notebook, session
  <2>2. Refused => Refused'
    BY <2>1, OptionsStay DEF Refused
  <2> QED  BY <2>1, <2>2, ProgressStays
<1> QED  BY <1>1, <1>2, <1>3, <1>4, <1>5 DEF Next, Machine

(* With everything carried out, it is what the command line asks for. *)
LEMMA ProgressGives ==
  ASSUME IInv, Progress PROVE StartsAsAsked
<1> SUFFICES ASSUME stage = "session" \/ (stage = "over" /\ status = 0 /\ ran # <<>>)
             PROVE  /\ ran = Asked(IsFile) \o Asked(IsCodeArgument)
                    /\ \A k \in DOMAIN argv : IsFile(k) => argv[k] \notin Missing
  BY DEF StartsAsAsked
<1>1. argv \in Commands /\ ~Parsed.failed /\ Begun /\ Len(ran) = Len(Wanted)
  BY DEF IInv, Types, StageOK, Progress
<1>2. ran = Wanted
  <2>1. ran \in Seq(STRING) /\ Wanted \in Seq(STRING) /\ \A k \in 1..Len(ran) : ran[k] = Wanted[k]
    BY <1>1, WantedIs DEF Begun
  <2> QED  BY <1>1, <2>1
<1>3. Wanted = Asked(IsFile) \o Asked(IsCodeArgument)
  BY <1>1, ParsedIsAsked DEF Wanted
<1>4. ASSUME NEW k \in DOMAIN argv, IsFile(k) PROVE argv[k] \notin Missing
  <2>1. PICK i \in DOMAIN Opts.files : Opts.files[i] = argv[k]
    BY <1>1, <1>4, ParsedIsAsked
  <2>2. i \in 1..Len(Opts.files) /\ i <= Len(ran)
    <3>1. /\ Len(Opts.files) \in Nat /\ Len(Opts.execCodes) \in Nat /\ Opts.files \in Seq(STRING)
          /\ Len(ran) = Len(Opts.files) + Len(Opts.execCodes)
      BY <1>1, WantedIs
    <3>2. i \in 1..Len(Opts.files)
      BY <3>1
    <3> DEFINE r == Len(ran)  a == Len(Opts.files)  b == Len(Opts.execCodes)
    <3>3. a \in Nat /\ b \in Nat /\ r = a + b /\ i \in 1..a
      BY <3>1, <3>2
    <3> HIDE DEF r, a, b
    <3>4. i <= r
      BY <3>3
    <3> QED  BY <3>2, <3>4 DEF r
  <2> QED  BY <1>1, <2>1, <2>2 DEF Begun
<1> QED  BY <1>2, <1>3, <1>4

(* A session starts from, and a program that ends well has carried out,     *)
(* exactly the files and the -e texts that the command line asks for, in    *)
(* that order, and none of the files was missing: for every command line.   *)
THEOREM SessionStartsAsAsked == Spec => []StartsAsAsked
<1>1. Init => Progress
  BY ProgressStarts
<1>2. IInv /\ Progress /\ [Next]_vars => Progress'
  BY ProgressKeeps
<1>3. IInv /\ Progress => StartsAsAsked
  BY ProgressGives
<1> QED  BY <1>1, <1>2, <1>3, InvariantHolds, PTL DEF Spec
================================================================================
