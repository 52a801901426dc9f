---------------------------- MODULE ToolsProofs ----------------------------
(***************************************************************************)
(* Theorems about Files and Pages, for any texts, limits and agents, and   *)
(* about the tools together.                                               *)
(*                                                                         *)
(* The functions of Answers are folds over sequences and a recursive       *)
(* search.  Such a function is CHOOSEn for an equation, so it is shown     *)
(* first that one exists (FoldExists; the binary search in                 *)
(* LongestFitFacts); then that the fold of a sequence goes through it one  *)
(* element at a time (WidthSteps, JoinedSteps, TextsSteps, TurnIdsSteps,   *)
(* SizeSteps).  What the steps keep holds of their end by induction over   *)
(* the numbers up to the sequence's length (UpTo).                         *)
(*                                                                         *)
(* FilesInv: what an agent read of the file's present version and was not  *)
(* told to be cut is the whole file, and so is what it is about to write,  *)
(* but for what it adds (ReadIntact, EditIntact); versions count the       *)
(* writes that ran.                                                        *)
(*                                                                         *)
(* PagesInv: what lies between the cursor and the end was shown or marked  *)
(* (ReadSoFar), and the last answer is what _fit_thread_payload made of a  *)
(* page (Answered).  Both need that _turns_from_messages finds in the      *)
(* messages of a page its turns, whole and in order (PageTurns), and what  *)
(* fitting leaves of them (FitFacts); that it leaves no less than it must  *)
(* needs the search (LongestFitFacts) and that sizes only grow             *)
(* (ShorterFits, MarkGrows).                                               *)
(***************************************************************************)
EXTENDS MCTools, ThreadsProofs, AuthProofs, SequenceTheorems

(* Counting and folding *)

\* Induction over the numbers up to n.
LEMMA UpTo ==
  ASSUME NEW n \in Nat, NEW S \in SUBSET (0 .. n), 0 \in S,
         \A k \in S : k < n => k + 1 \in S
  PROVE  S = 0 .. n
<1> SUFFICES ASSUME (0 .. n) \ S # {} PROVE FALSE
  OBVIOUS
<1>1. PICK m \in (0 .. n) \ S : \A k \in (0 .. n) \ S : m <= k
  <2>1. (0 .. n) \ S \subseteq Nat
    OBVIOUS
  <2>. QED BY <2>1, MinimumExists
<1>2. m # 0 /\ m - 1 \in 0 .. n /\ ~ (m <= m - 1)
  OBVIOUS
<1>3. m - 1 \in S
  BY <1>1, <1>2
<1>. QED
  BY <1>3

LEMMA MaxOfRange ==
  ASSUME NEW n \in Nat, NEW S \in SUBSET (0 .. n), S # {}
  PROVE  Max(S) \in S /\ \A k \in S : k <= Max(S)
<1> DEFINE D == {k + 1 : k \in S}
<1>1. D \subseteq 1 .. (n + 1) /\ D # {} /\ n + 1 \in Nat
  <2>1. \A k \in S : k \in 0 .. n
    OBVIOUS
  <2>2. \A k \in S : k + 1 \in 1 .. (n + 1)
    BY <2>1
  <2>3. PICK k : k \in S
    OBVIOUS
  <2>4. k + 1 \in D
    BY <2>3
  <2>. QED BY <2>2, <2>4
<1>2. PICK d \in D : \A e \in D : e <= d
  <2> HIDE DEF D
  <2>. QED BY <1>1, MaximumExists
<1>3. PICK m \in S : d = m + 1
  BY <1>2
<1>4. \A k \in S : m >= k
  <2>1. \A k \in S : k + 1 <= m + 1
    BY <1>2, <1>3
  <2>. QED BY <2>1
<1>5. Max(S) \in S /\ \A k \in S : Max(S) >= k
  BY <1>4 DEF Max
<1>. QED BY <1>5

LEMMA MaxIn ==
  ASSUME NEW n \in Nat, NEW S \in SUBSET (1 .. n), S # {}
  PROVE  Max(S) \in S
<1>1. S \in SUBSET (0 .. n)
  OBVIOUS
<1>. QED BY <1>1, MaxOfRange

LEMMA MaxOfInterval ==
  ASSUME NEW k \in Nat \ {0}
  PROVE  Max(1 .. k) = k /\ (1 .. k) \ {k} = 1 .. (k - 1) /\ 1 .. k # {}
<1>1. 1 .. k \in SUBSET (0 .. k) /\ k \in 1 .. k
  OBVIOUS
<1>2. Max(1 .. k) \in 1 .. k /\ k <= Max(1 .. k)
  BY <1>1, MaxOfRange
<1>. QED BY <1>2

\* What FoldLeft looks for exists: a function on the sets of a sequence's indices that
\* takes the greatest index last.
Foldable(n, A, base, step) ==
  \E iter \in [SUBSET (1 .. n) -> A] :
    \A s \in SUBSET (1 .. n) :
      iter[s] = IF s = {} THEN base ELSE step[Max(s)][iter[s \ {Max(s)}]]

LEMMA FoldExists ==
  ASSUME NEW n \in Nat, NEW A, NEW base \in A, NEW step \in [1 .. n -> [A -> A]]
  PROVE  Foldable(n, A, base, step)
<1> DEFINE Folded(k, iter) ==
             \A s \in SUBSET (1 .. k) :
               iter[s] = IF s = {} THEN base ELSE step[Max(s)][iter[s \ {Max(s)}]]
           S == {k \in 0 .. n : \E iter \in [SUBSET (1 .. k) -> A] : Folded(k, iter)}
<1>1. 0 \in S
  <2>1. [s \in SUBSET (1 .. 0) |-> base] \in [SUBSET (1 .. 0) -> A]
    OBVIOUS
  <2>2. \A s \in SUBSET (1 .. 0) : s = {}
    OBVIOUS
  <2>3. Folded(0, [s \in SUBSET (1 .. 0) |-> base])
    BY <2>2
  <2> HIDE DEF Folded
  <2>. QED BY <2>1, <2>3
<1>2. ASSUME NEW k \in S, k < n PROVE k + 1 \in S
  <2>1. PICK iter \in [SUBSET (1 .. k) -> A] : Folded(k, iter)
    BY <1>2
  <2> DEFINE more == [s \in SUBSET (1 .. (k + 1)) |->
                        IF k + 1 \in s THEN step[k + 1][iter[s \ {k + 1}]] ELSE iter[s]]
  <2>2. \A s \in SUBSET (1 .. (k + 1)) :
          /\ s \ {k + 1} \in SUBSET (1 .. k)
          /\ k + 1 \notin s => s \in SUBSET (1 .. k)
          /\ k + 1 \in s => s # {} /\ Max(s) = k + 1
    <3> SUFFICES ASSUME NEW s \in SUBSET (1 .. (k + 1))
                 PROVE  /\ s \ {k + 1} \in SUBSET (1 .. k)
                        /\ k + 1 \notin s => s \in SUBSET (1 .. k)
                        /\ k + 1 \in s => s # {} /\ Max(s) = k + 1
      OBVIOUS
    <3>1. k \in 0 .. n
      BY <1>2
    <3>2. \A i \in s : i \in 1 .. (k + 1) /\ (i # k + 1 => i \in 1 .. k)
      BY <3>1
    <3>3. ASSUME k + 1 \in s PROVE Max(s) = k + 1
      <4>1. s \in SUBSET (0 .. (k + 1)) /\ k + 1 \in Nat
        BY <3>1, <3>2
      <4>2. Max(s) \in s /\ k + 1 <= Max(s)
        BY <3>3, <4>1, MaxOfRange
      <4>3. Max(s) \in 1 .. (k + 1)
        BY <3>2, <4>2
      <4>. QED BY <3>1, <4>2, <4>3
    <3>. QED BY <3>2, <3>3
  <2>3. k + 1 \in 1 .. n /\ step[k + 1] \in [A -> A]
    BY <1>2
  <2>4. more \in [SUBSET (1 .. (k + 1)) -> A]
    BY <2>2, <2>3
  <2>5. \A s \in SUBSET (1 .. k) : s \in SUBSET (1 .. (k + 1)) /\ k + 1 \notin s
    BY <1>2
  <2>6. \A s \in SUBSET (1 .. k) : more[s] = iter[s]
    BY <2>5
  <2>7. Folded(k + 1, more)
    <3> SUFFICES ASSUME NEW s \in SUBSET (1 .. (k + 1))
                 PROVE  more[s] = IF s = {} THEN base
                                  ELSE step[Max(s)][more[s \ {Max(s)}]]
      OBVIOUS
    <3>1. CASE k + 1 \in s
      <4>1. more[s] = step[k + 1][iter[s \ {k + 1}]]
        BY <3>1
      <4> HIDE DEF more
      <4>. QED BY <2>2, <2>6, <3>1, <4>1
    <3>2. CASE k + 1 \notin s
      <4>1. more[s] = iter[s] /\ s \in SUBSET (1 .. k)
        BY <2>2, <2>6, <3>2
      <4>2. s \ {Max(s)} \in SUBSET (1 .. k)
        BY <4>1
      <4> HIDE DEF more
      <4>. QED BY <2>1, <2>6, <4>1, <4>2
    <3>. QED BY <3>1, <3>2
  <2> HIDE DEF more, Folded
  <2>8. k + 1 \in 0 .. n
    BY <1>2
  <2>. QED BY <2>4, <2>7, <2>8
<1>3. S = 0 .. n
  <2>1. S \in SUBSET (0 .. n)
    OBVIOUS
  <2> HIDE DEF S
  <2>. QED BY <1>1, <1>2, <2>1, UpTo
<1>4. n \in S
  <2> HIDE DEF S
  <2>. QED BY <1>3
<1>. QED BY <1>4 DEF Foldable

\* The values of a fold after each of its steps.
Ordered(iter, n) ==
  \E f : /\ f[0] = iter[{}] /\ f[n] = iter[1 .. n]
         /\ \A k \in 1 .. n : /\ 1 .. k \in SUBSET (1 .. n) /\ 1 .. k # {}
                              /\ Max(1 .. k) = k
                              /\ f[k] = iter[1 .. k] /\ f[k - 1] = iter[(1 .. k) \ {k}]

LEMMA InOrder == ASSUME NEW n \in Nat, NEW iter PROVE Ordered(iter, n)
<1> DEFINE f == [k \in 0 .. n |-> iter[1 .. k]]
<1>1. \A k \in 0 .. n : f[k] = iter[1 .. k]
  OBVIOUS
<1>2. 1 .. 0 = {} /\ 0 \in 0 .. n /\ n \in 0 .. n
  OBVIOUS
<1> HIDE DEF f
<1>3. ASSUME NEW k \in 1 .. n
      PROVE  /\ 1 .. k \in SUBSET (1 .. n) /\ 1 .. k # {}
             /\ Max(1 .. k) = k
             /\ f[k] = iter[1 .. k] /\ f[k - 1] = iter[(1 .. k) \ {k}]
  <2>1. k \in Nat \ {0} /\ k \in 0 .. n /\ k - 1 \in 0 .. n /\ 1 .. k \in SUBSET (1 .. n)
    OBVIOUS
  <2>. QED BY <1>1, <2>1, MaxOfInterval
<1>. QED BY <1>1, <1>2, <1>3 DEF Ordered

\* Two runs of the same steps end alike.
LEMMA SameSteps ==
  ASSUME NEW n \in Nat, NEW f, NEW g, f[0] = g[0],
         \A k \in 1 .. n : f[k - 1] = g[k - 1] => f[k] = g[k]
  PROVE  f[n] = g[n]
<1> DEFINE S == {k \in 0 .. n : f[k] = g[k]}
<1>1. 0 \in S /\ S \in SUBSET (0 .. n)
  OBVIOUS
<1>2. \A k \in S : k < n => k + 1 \in S
  <2> SUFFICES ASSUME NEW k \in S, k < n PROVE k + 1 \in S
    OBVIOUS
  <2>1. k + 1 \in 1 .. n /\ (k + 1) - 1 = k
    OBVIOUS
  <2>. QED BY <2>1
<1>3. n \in S
  <2>1. n \in 0 .. n
    OBVIOUS
  <2> HIDE DEF S
  <2>. QED BY <1>1, <1>2, <2>1, UpTo
<1>. QED BY <1>3

\* The width of a text, character by character.
LEMMA WidthSteps ==
  ASSUME NEW text \in Seq(Nat)
  PROVE  \E f : /\ f[0] = 0 /\ Width(text) = f[Len(text)]
                /\ \A k \in 1 .. Len(text) : f[k] = f[k - 1] + text[k]
<1> DEFINE n == Len(text)
           Value(h, s) == IF s = {} THEN 0
                          ELSE h[s \ {Max(s)}] + text[Max(s)]
           Values(h) == [s \in SUBSET DOMAIN text |-> Value(h, s)]
           iter == CHOOSE h : h = Values(h)
           step == [k \in 1 .. n |-> [a \in Nat |-> a + text[k]]]
<1>1. n \in Nat /\ DOMAIN text = 1 .. n /\ 0 \in Nat
  OBVIOUS
<1>2. step \in [1 .. n -> [Nat -> Nat]]
  OBVIOUS
<1>3. \E h : h = Values(h)
  <2>1. PICK h \in [SUBSET (1 .. n) -> Nat] :
          \A s \in SUBSET (1 .. n) :
            h[s] = IF s = {} THEN 0 ELSE step[Max(s)][h[s \ {Max(s)}]]
    <3> HIDE DEF n, step
    <3>1. Foldable(n, Nat, 0, step)
      BY <1>1, <1>2, FoldExists
    <3>. QED BY <3>1 DEF Foldable
  <2>2. \A s \in SUBSET (1 .. n) : s # {} => Max(s) \in 1 .. n /\ h[s \ {Max(s)}] \in Nat
    BY <1>1, MaxIn
  <2>3. \A s \in SUBSET (1 .. n) : h[s] = Value(h, s)
    BY <2>1, <2>2
  <2> HIDE DEF Value
  <2>4. h = Values(h)
    BY <1>1, <2>3
  <2>. QED BY <2>4
<1>4. iter = Values(iter)
  <2> HIDE DEF Values
  <2>. QED BY <1>3
<1>5. Width(text) = iter[1 .. n]
  BY <1>1 DEF Width, FoldLeft, MapThenFoldSet
<1>6. \A s \in SUBSET (1 .. n) : iter[s] = Value(iter, s)
  <2> HIDE DEF iter, Value
  <2>. QED BY <1>1, <1>4
<1> HIDE DEF iter
<1>7. Ordered(iter, n)
  <2> HIDE DEF n
  <2>. QED BY <1>1, InOrder
<1>8. PICK f : /\ f[0] = iter[{}] /\ f[n] = iter[1 .. n]
               /\ \A k \in 1 .. n : /\ 1 .. k \in SUBSET (1 .. n) /\ 1 .. k # {}
                                    /\ Max(1 .. k) = k
                                    /\ f[k] = iter[1 .. k] /\ f[k - 1] = iter[(1 .. k) \ {k}]
  BY <1>7 DEF Ordered
<1>9. f[0] = 0
  <2>1. {} \in SUBSET (1 .. n)
    OBVIOUS
  <2>. QED BY <1>6, <1>8, <2>1
<1>10. \A k \in 1 .. n : f[k] = f[k - 1] + text[k]
  <2> TAKE k \in 1 .. n
  <2>1. iter[1 .. k] = Value(iter, 1 .. k)
    <3> HIDE DEF Value
    <3>. QED BY <1>6, <1>8
  <2> HIDE DEF n
  <2>. QED BY <1>8, <2>1
<1>. QED BY <1>5, <1>8, <1>9, <1>10

LEMMA JoinTyped ==
  ASSUME NEW l \in Seq(Nat), NEW r \in Seq(Nat)
  PROVE  JoinText(l, r) \in Seq(Nat)
  BY DEF JoinText, Newline

\* The texts of a turn, joined one by one.
LEMMA JoinedSteps ==
  ASSUME NEW texts \in Seq(Seq(Nat))
  PROVE  \E f : /\ f[0] = <<>> /\ Joined(texts) = f[Len(texts)]
                /\ \A k \in 1 .. Len(texts) : f[k] = JoinText(f[k - 1], texts[k])
<1> DEFINE n == Len(texts)
           Value(h, s) == IF s = {} THEN <<>>
                          ELSE JoinText(h[s \ {Max(s)}], texts[Max(s)])
           Values(h) == [s \in SUBSET DOMAIN texts |-> Value(h, s)]
           iter == CHOOSE h : h = Values(h)
           step == [k \in 1 .. n |-> [a \in Seq(Nat) |-> JoinText(a, texts[k])]]
<1>1. n \in Nat /\ DOMAIN texts = 1 .. n /\ <<>> \in Seq(Nat)
  OBVIOUS
<1>2. step \in [1 .. n -> [Seq(Nat) -> Seq(Nat)]]
  BY JoinTyped
<1>3. \E h : h = Values(h)
  <2>1. PICK h \in [SUBSET (1 .. n) -> Seq(Nat)] :
          \A s \in SUBSET (1 .. n) :
            h[s] = IF s = {} THEN <<>> ELSE step[Max(s)][h[s \ {Max(s)}]]
    <3> HIDE DEF n, step
    <3>1. Foldable(n, Seq(Nat), <<>>, step)
      BY <1>1, <1>2, FoldExists
    <3>. QED BY <3>1 DEF Foldable
  <2>2. \A s \in SUBSET (1 .. n) : s # {} => Max(s) \in 1 .. n /\ h[s \ {Max(s)}] \in Seq(Nat)
    BY <1>1, MaxIn
  <2>3. \A s \in SUBSET (1 .. n) : h[s] = Value(h, s)
    BY <2>1, <2>2
  <2> HIDE DEF Value
  <2>4. h = Values(h)
    BY <1>1, <2>3
  <2>. QED BY <2>4
<1>4. iter = Values(iter)
  <2> HIDE DEF Values
  <2>. QED BY <1>3
<1>5. Joined(texts) = iter[1 .. n]
  BY <1>1 DEF Joined, FoldLeft, MapThenFoldSet
<1>6. \A s \in SUBSET (1 .. n) : iter[s] = Value(iter, s)
  <2> HIDE DEF iter, Value
  <2>. QED BY <1>1, <1>4
<1> HIDE DEF iter
<1>7. Ordered(iter, n)
  <2> HIDE DEF n
  <2>. QED BY <1>1, InOrder
<1>8. PICK f : /\ f[0] = iter[{}] /\ f[n] = iter[1 .. n]
               /\ \A k \in 1 .. n : /\ 1 .. k \in SUBSET (1 .. n) /\ 1 .. k # {}
                                    /\ Max(1 .. k) = k
                                    /\ f[k] = iter[1 .. k] /\ f[k - 1] = iter[(1 .. k) \ {k}]
  BY <1>7 DEF Ordered
<1>9. f[0] = <<>>
  <2>1. {} \in SUBSET (1 .. n)
    OBVIOUS
  <2>. QED BY <1>6, <1>8, <2>1
<1>10. \A k \in 1 .. n : f[k] = JoinText(f[k - 1], texts[k])
  <2> TAKE k \in 1 .. n
  <2>1. iter[1 .. k] = Value(iter, 1 .. k)
    <3> HIDE DEF Value
    <3>. QED BY <1>6, <1>8
  <2> HIDE DEF n
  <2>. QED BY <1>8, <2>1
<1>. QED BY <1>5, <1>8, <1>9, <1>10

Roles == {"user", "assistant"}
Said == [turn : Nat, role : Roles, text : Seq(Nat)]

\* A step of Texts and one of TurnIds.
Heard(joined, m, i, r) ==
  IF m.turn = i /\ m.role = r THEN JoinText(joined, m.text) ELSE joined
Seen(ids, m) == IF Contains(ids, m.turn) THEN ids ELSE Append(ids, m.turn)

\* The texts of a role in a turn, message by message.
LEMMA TextsSteps ==
  ASSUME NEW ms \in Seq(Said), NEW i, NEW r
  PROVE  \E f : /\ f[0] = <<>> /\ Texts(ms, i, r) = f[Len(ms)]
                /\ \A k \in 1 .. Len(ms) : f[k] = Heard(f[k - 1], ms[k], i, r)
<1> DEFINE n == Len(ms)
           Value(h, s) == IF s = {} THEN <<>>
                          ELSE Heard(h[s \ {Max(s)}], ms[Max(s)], i, r)
           Values(h) == [s \in SUBSET DOMAIN ms |-> Value(h, s)]
           iter == CHOOSE h : h = Values(h)
           step == [k \in 1 .. n |-> [a \in Seq(Nat) |-> Heard(a, ms[k], i, r)]]
<1>1. n \in Nat /\ DOMAIN ms = 1 .. n /\ <<>> \in Seq(Nat)
  OBVIOUS
<1>2. step \in [1 .. n -> [Seq(Nat) -> Seq(Nat)]]
  <2>1. \A k \in 1 .. n : ms[k].text \in Seq(Nat)
    <3>1. \A k \in 1 .. n : ms[k] \in Said
      OBVIOUS
    <3>. QED BY <3>1 DEF Said
  <2>. QED BY <2>1, JoinTyped DEF Heard
<1>3. \E h : h = Values(h)
  <2>1. PICK h \in [SUBSET (1 .. n) -> Seq(Nat)] :
          \A s \in SUBSET (1 .. n) :
            h[s] = IF s = {} THEN <<>> ELSE step[Max(s)][h[s \ {Max(s)}]]
    <3> HIDE DEF n, step
    <3>1. Foldable(n, Seq(Nat), <<>>, step)
      BY <1>1, <1>2, FoldExists
    <3>. QED BY <3>1 DEF Foldable
  <2>2. \A s \in SUBSET (1 .. n) : s # {} => Max(s) \in 1 .. n /\ h[s \ {Max(s)}] \in Seq(Nat)
    BY <1>1, MaxIn
  <2>3. \A s \in SUBSET (1 .. n) : h[s] = Value(h, s)
    BY <2>1, <2>2
  <2> HIDE DEF Value
  <2>4. h = Values(h)
    BY <1>1, <2>3
  <2>. QED BY <2>4
<1>4. iter = Values(iter)
  <2> HIDE DEF Values
  <2>. QED BY <1>3
<1>5. Texts(ms, i, r) = iter[1 .. n]
  BY <1>1 DEF Texts, Heard, FoldLeft, MapThenFoldSet
<1>6. \A s \in SUBSET (1 .. n) : iter[s] = Value(iter, s)
  <2> HIDE DEF iter, Value
  <2>. QED BY <1>1, <1>4
<1> HIDE DEF iter
<1>7. Ordered(iter, n)
  <2> HIDE DEF n
  <2>. QED BY <1>1, InOrder
<1>8. PICK f : /\ f[0] = iter[{}] /\ f[n] = iter[1 .. n]
               /\ \A k \in 1 .. n : /\ 1 .. k \in SUBSET (1 .. n) /\ 1 .. k # {}
                                    /\ Max(1 .. k) = k
                                    /\ f[k] = iter[1 .. k] /\ f[k - 1] = iter[(1 .. k) \ {k}]
  BY <1>7 DEF Ordered
<1>9. f[0] = <<>>
  <2>1. {} \in SUBSET (1 .. n)
    OBVIOUS
  <2>. QED BY <1>6, <1>8, <2>1
<1>10. \A k \in 1 .. n : f[k] = Heard(f[k - 1], ms[k], i, r)
  <2> TAKE k \in 1 .. n
  <2>1. iter[1 .. k] = Value(iter, 1 .. k)
    <3> HIDE DEF Value
    <3>. QED BY <1>6, <1>8
  <2> HIDE DEF n
  <2>. QED BY <1>8, <2>1
<1>. QED BY <1>5, <1>8, <1>9, <1>10

\* The ids of the turns, message by message.
LEMMA TurnIdsSteps ==
  ASSUME NEW ms \in Seq(Said)
  PROVE  \E f : /\ f[0] = <<>> /\ TurnIds(ms) = f[Len(ms)]
                /\ \A k \in 1 .. Len(ms) : f[k] = Seen(f[k - 1], ms[k])
<1> DEFINE n == Len(ms)
           Value(h, s) == IF s = {} THEN <<>>
                          ELSE Seen(h[s \ {Max(s)}], ms[Max(s)])
           Values(h) == [s \in SUBSET DOMAIN ms |-> Value(h, s)]
           iter == CHOOSE h : h = Values(h)
           step == [k \in 1 .. n |-> [a \in Seq(Nat) |-> Seen(a, ms[k])]]
<1>1. n \in Nat /\ DOMAIN ms = 1 .. n /\ <<>> \in Seq(Nat)
  OBVIOUS
<1>2. step \in [1 .. n -> [Seq(Nat) -> Seq(Nat)]]
  <2>1. \A k \in 1 .. n : ms[k].turn \in Nat
    <3>1. \A k \in 1 .. n : ms[k] \in Said
      OBVIOUS
    <3>. QED BY <3>1 DEF Said
  <2>2. \A a \in Seq(Nat), k \in 1 .. n : Append(a, ms[k].turn) \in Seq(Nat)
    BY <2>1
  <2>. QED BY <2>2 DEF Seen
<1>3. \E h : h = Values(h)
  <2>1. PICK h \in [SUBSET (1 .. n) -> Seq(Nat)] :
          \A s \in SUBSET (1 .. n) :
            h[s] = IF s = {} THEN <<>> ELSE step[Max(s)][h[s \ {Max(s)}]]
    <3> HIDE DEF n, step
    <3>1. Foldable(n, Seq(Nat), <<>>, step)
      BY <1>1, <1>2, FoldExists
    <3>. QED BY <3>1 DEF Foldable
  <2>2. \A s \in SUBSET (1 .. n) : s # {} => Max(s) \in 1 .. n /\ h[s \ {Max(s)}] \in Seq(Nat)
    BY <1>1, MaxIn
  <2>3. \A s \in SUBSET (1 .. n) : h[s] = Value(h, s)
    BY <2>1, <2>2
  <2> HIDE DEF Value
  <2>4. h = Values(h)
    BY <1>1, <2>3
  <2>. QED BY <2>4
<1>4. iter = Values(iter)
  <2> HIDE DEF Values
  <2>. QED BY <1>3
<1>5. TurnIds(ms) = iter[1 .. n]
  BY <1>1 DEF TurnIds, Seen, FoldLeft, MapThenFoldSet
<1>6. \A s \in SUBSET (1 .. n) : iter[s] = Value(iter, s)
  <2> HIDE DEF iter, Value
  <2>. QED BY <1>1, <1>4
<1> HIDE DEF iter
<1>7. Ordered(iter, n)
  <2> HIDE DEF n
  <2>. QED BY <1>1, InOrder
<1>8. PICK f : /\ f[0] = iter[{}] /\ f[n] = iter[1 .. n]
               /\ \A k \in 1 .. n : /\ 1 .. k \in SUBSET (1 .. n) /\ 1 .. k # {}
                                    /\ Max(1 .. k) = k
                                    /\ f[k] = iter[1 .. k] /\ f[k - 1] = iter[(1 .. k) \ {k}]
  BY <1>7 DEF Ordered
<1>9. f[0] = <<>>
  <2>1. {} \in SUBSET (1 .. n)
    OBVIOUS
  <2>. QED BY <1>6, <1>8, <2>1
<1>10. \A k \in 1 .. n : f[k] = Seen(f[k - 1], ms[k])
  <2> TAKE k \in 1 .. n
  <2>1. iter[1 .. k] = Value(iter, 1 .. k)
    <3> HIDE DEF Value
    <3>. QED BY <1>6, <1>8
  <2> HIDE DEF n
  <2>. QED BY <1>8, <2>1
<1>. QED BY <1>5, <1>8, <1>9, <1>10
-----------------------------------------------------------------------------
(* Files *)

LEMMA KeptFacts ==
  ASSUME NEW C, NEW text \in Seq(C)
  PROVE  Kept(text) \in Seq(C)
<1> DEFINE S == {n \in 0 .. Len(text) : Width(Prefix(text, n)) <= READ_BYTE_LIMIT}
<1>1. Prefix(text, 0) = <<>> /\ <<>> \in Seq(Nat) /\ Len(<<>>) = 0
  BY DEF Prefix
<1>2. Width(<<>>) = 0
  BY <1>1, WidthSteps
<1>3. READ_BYTE_LIMIT \in Nat /\ 0 <= READ_BYTE_LIMIT
  BY LimitsAssumption
<1>4. 0 \in S /\ S \in SUBSET (0 .. Len(text)) /\ Len(text) \in Nat
  BY <1>1, <1>2, <1>3
<1>5. Max(S) \in 0 .. Len(text)
  <2> HIDE DEF S
  <2>. QED BY <1>4, MaxOfRange
<1>6. Kept(text) = SubSeq(text, 1, Max(S))
  BY DEF Kept, Prefix
<1> HIDE DEF S
<1>. QED BY <1>5, <1>6

\* While no other write came, what an agent read and was not told to be cut is the
\* whole file, and so is what it is about to write, but for the character it adds.
ReadIntact(c) ==
  /\ c.version <= file.version
  /\ c.version = file.version /\ ~ c.truncated => c.contents = file.contents

EditIntact(x) ==
  /\ x.version <= file.version
  /\ x.version = file.version /\ ~ x.truncated =>
       Len(x.contents) = Len(file.contents) + 1

FilesInv ==
  /\ FilesTypeOK
  /\ IsFiniteSet(ran) /\ file.version = Cardinality(ran)
  /\ \A x, y \in underway : x.id = y.id => x = y
  /\ \A a \in Editors : ReadIntact(held[a])
  /\ \A x \in underway : EditIntact(x)

LEMMA FilesInvStarts == FilesInit => FilesInv
<1> SUFFICES ASSUME FilesInit PROVE FilesInv
  OBVIOUS
<1>1. <<>> \in Seq(Widths) /\ 0 \in 0 .. MaxWrites
  BY FilesAssumption
<1>2. Nothing \in Copies
  BY <1>1 DEF Nothing, Copies
<1>3. FilesTypeOK
  BY <1>1, <1>2 DEF FilesInit, FilesTypeOK
<1>4. IsFiniteSet(ran) /\ file.version = Cardinality(ran)
  BY FS_EmptySet DEF FilesInit
<1>5. \A a \in Editors : ReadIntact(held[a])
  BY DEF FilesInit, ReadIntact, Nothing
<1>. QED BY <1>3, <1>4, <1>5 DEF FilesInv, FilesInit

LEMMA ReadKeeps ==
  ASSUME FilesInv, NEW a \in Editors, NEW n \in 0 .. Len(file.contents), ReadFile(a, n)
  PROVE  FilesInv'
<1> DEFINE s == Served(n)
           c == CapRead(s)
<1>1. file \in [contents : Seq(Widths), version : 0 .. MaxWrites]
  BY DEF FilesInv, FilesTypeOK
<1>2. /\ s \in Copies /\ s.version = file.version
      /\ ~ s.truncated => s.contents = file.contents
  <2>1. /\ s.contents = SubSeq(file.contents, 1, n) /\ s.version = file.version
        /\ s.truncated = (n < Len(file.contents))
        /\ s = [contents |-> s.contents, truncated |-> s.truncated, version |-> s.version]
    BY DEF Served, Prefix
  <2>2. s.contents \in Seq(Widths)
    BY <1>1, <2>1
  <2>3. ~ s.truncated => n = Len(file.contents)
    <3>1. Len(file.contents) \in Nat /\ n \in Nat /\ n <= Len(file.contents)
      BY <1>1
    <3>2. s.truncated <=> n < Len(file.contents)
      BY DEF Served
    <3>3. ~ (n < Len(file.contents)) => n = Len(file.contents)
      BY <3>1
    <3>. QED BY <3>2, <3>3
  <2>4. ~ s.truncated => s.contents = file.contents
    BY <1>1, <2>1, <2>3
  <2>5. s.truncated \in BOOLEAN /\ s.version \in 0 .. MaxWrites
    BY <1>1, <2>1
  <2>. QED BY <2>1, <2>2, <2>4, <2>5 DEF Copies
<1> HIDE DEF s
<1>3. /\ c \in Copies /\ c.version = file.version
      /\ ~ c.truncated => c.contents = file.contents
  <2>1. Kept(s.contents) \in Seq(Widths)
    BY <1>2, KeptFacts DEF Copies
  <2>. QED BY <1>2, <2>1 DEF CapRead, Copies
<1>4. held' = [held EXCEPT ![a] = c] /\ UNCHANGED <<file, writing, underway, ran, begun>>
  BY DEF ReadFile, s
<1> HIDE DEF c
<1>5. FilesTypeOK'
  BY <1>3, <1>4 DEF FilesInv, FilesTypeOK
<1>6. ReadIntact(c)
  BY <1>1, <1>3 DEF ReadIntact
<1>7. held \in [Editors -> Copies]
  BY DEF FilesInv, FilesTypeOK
<1>8. \A b \in Editors : ReadIntact(held[b])'
  BY <1>4, <1>6, <1>7 DEF FilesInv, ReadIntact
<1>. QED BY <1>4, <1>5, <1>8 DEF FilesInv, EditIntact

LEMMA WriteKeeps ==
  ASSUME FilesInv, NEW a \in Editors, NEW w \in Widths, WriteFile(a, w)
  PROVE  FilesInv'
<1> DEFINE h == held[a]
           x == [id |-> begun + 1, contents |-> Append(h.contents, w),
                 truncated |-> h.truncated, version |-> h.version]
<1>1. /\ h \in Copies /\ begun \in 0 .. MaxWrites /\ MaxWrites \in Nat /\ begun < MaxWrites
      /\ file \in [contents : Seq(Widths), version : 0 .. MaxWrites]
      /\ ReadIntact(h)
  BY FilesAssumption DEF FilesInv, FilesTypeOK, WriteFile
<1>2. /\ underway' = underway \cup {x} /\ begun' = begun + 1
      /\ writing' = [writing EXCEPT ![a] = begun + 1]
      /\ UNCHANGED <<file, held, ran>>
  BY DEF WriteFile
<1>3. /\ Append(h.contents, w) \in Seq(Widths)
      /\ Len(Append(h.contents, w)) = Len(h.contents) + 1
  BY <1>1 DEF Copies
<1>4. begun + 1 \in 1 .. (begun + 1) /\ begun + 1 \notin 1 .. begun
      /\ begun + 1 \in 0 .. MaxWrites
  BY <1>1
<1>5. 1 .. begun \subseteq 1 .. (begun + 1)
  BY <1>1
<1>6. FilesTypeOK'
  <2>1. \A y \in underway' :
          /\ y.id \in (1 .. begun') \ ran'
          /\ [contents |-> y.contents, truncated |-> y.truncated, version |-> y.version] \in Copies
    <3>1. x.id \in (1 .. begun') \ ran'
      BY <1>2, <1>4 DEF FilesInv, FilesTypeOK
    <3>2. [contents |-> x.contents, truncated |-> x.truncated, version |-> x.version] \in Copies
      BY <1>1, <1>3 DEF Copies
    <3> HIDE DEF x
    <3>. QED BY <1>2, <1>5, <3>1, <3>2 DEF FilesInv, FilesTypeOK
  <2>. QED BY <1>2, <1>4, <1>5, <2>1 DEF FilesInv, FilesTypeOK
<1>7. EditIntact(x)
  BY <1>1, <1>3 DEF ReadIntact, EditIntact
<1>8. \A y \in underway : y.id # x.id
  BY <1>4 DEF FilesInv, FilesTypeOK
<1> HIDE DEF x
<1>9. \A y, z \in underway' : y.id = z.id => y = z
  BY <1>2, <1>8 DEF FilesInv
<1>10. \A y \in underway' : EditIntact(y)'
  BY <1>2, <1>7 DEF FilesInv, EditIntact
<1>. QED BY <1>2, <1>6, <1>9, <1>10 DEF FilesInv, ReadIntact

LEMMA RunsKeeps ==
  ASSUME FilesInv, NEW x \in underway, Runs(x)
  PROVE  FilesInv'
<1>1. /\ x.id \in (1 .. begun) \ ran /\ begun \in 0 .. MaxWrites /\ MaxWrites \in Nat
      /\ file.version \in Nat /\ ran \subseteq 1 .. begun
      /\ x.contents \in Seq(Widths)
  BY FilesAssumption DEF FilesInv, FilesTypeOK, Copies
<1>2. /\ file'.contents = x.contents /\ file'.version = file.version + 1
      /\ file' = [contents |-> x.contents, version |-> file.version + 1]
      /\ underway' = underway \ {x} /\ ran' = ran \cup {x.id}
      /\ UNCHANGED <<held, writing, begun>>
  BY DEF Runs
<1>3. IsFiniteSet(ran') /\ Cardinality(ran') = file'.version
  BY <1>1, <1>2, FS_AddElement DEF FilesInv
<1>4. file'.version \in 0 .. MaxWrites
  <2>1. IsFiniteSet(1 .. begun) /\ Cardinality(1 .. begun) = begun
    <3>1. 1 \in Int /\ begun \in Int /\ begun - 1 + 1 = begun /\ begun >= 0
      BY <1>1
    <3>. QED BY <3>1, FS_Interval
  <2>2. ran' \subseteq 1 .. begun
    BY <1>1, <1>2
  <2>3. Cardinality(ran') <= begun
    BY <2>1, <2>2, FS_Subset
  <2>. QED BY <1>1, <1>2, <1>3, <2>3
<1>5. \A y \in underway' : y \in underway /\ y.id # x.id
  BY <1>2 DEF FilesInv
<1>6. FilesTypeOK'
  BY <1>1, <1>2, <1>4, <1>5 DEF FilesInv, FilesTypeOK
<1>7. \A a \in Editors : held[a].version \in Nat /\ held[a].version <= file.version
  BY DEF FilesInv, FilesTypeOK, Copies, ReadIntact
<1>8. \A a \in Editors : ReadIntact(held[a])'
  BY <1>1, <1>2, <1>7 DEF ReadIntact
<1>9. \A y \in underway : y.version \in Nat /\ y.version <= file.version
  BY DEF FilesInv, FilesTypeOK, Copies, EditIntact
<1>10. \A y \in underway' : EditIntact(y)'
  BY <1>1, <1>2, <1>5, <1>9 DEF EditIntact
<1>. QED BY <1>2, <1>3, <1>5, <1>6, <1>8, <1>10 DEF FilesInv

LEMMA FilesInvKept == FilesInv /\ [FilesNext]_fileVars => FilesInv'
<1> SUFFICES ASSUME FilesInv, [FilesNext]_fileVars PROVE FilesInv'
  OBVIOUS
<1>1. CASE UNCHANGED fileVars
  BY <1>1 DEF fileVars, FilesInv, FilesTypeOK, ReadIntact, EditIntact
<1>2. ASSUME NEW a \in Editors, Written(a) \/ WriteFails(a) PROVE FilesInv'
  <2>1. writing' = [writing EXCEPT ![a] = 0] /\ UNCHANGED <<file, held, underway, ran, begun>>
    BY <1>2 DEF Written, WriteFails
  <2>2. 0 \in 0 .. MaxWrites
    BY FilesAssumption
  <2>3. FilesTypeOK'
    BY <2>1, <2>2 DEF FilesInv, FilesTypeOK
  <2>. QED BY <2>1, <2>3 DEF FilesInv, ReadIntact, EditIntact
<1>. QED BY <1>1, <1>2, ReadKeeps, WriteKeeps, RunsKeeps DEF FilesNext

LEMMA FilesInvariant == FilesSpec => []FilesInv
  BY FilesInvStarts, FilesInvKept, PTL DEF FilesSpec

\* An edit drops the end of a file only if the read it comes from was marked
\* truncated, or if another write came between the read and it (_cap_read marks what
\* it cuts, and leaves the server's mark where it does not).
THEOREM NoSilentCut == FilesSpec => TailKept
<1> DEFINE Told == \/ Len(file'.contents) > Len(file.contents)
                   \/ \E x \in underway \ underway' : x.truncated \/ x.version # file.version
<1>1. FilesInv /\ [FilesNext]_fileVars => [file' # file => Told]_fileVars
  <2> SUFFICES ASSUME FilesInv, FilesNext, file' # file PROVE Told
    OBVIOUS
  <2>1. PICK x \in underway : Runs(x)
    BY DEF FilesNext, ReadFile, WriteFile, Written, WriteFails
  <2>2. x \in underway \ underway' /\ file'.contents = x.contents
    BY <2>1 DEF Runs
  <2>3. ~ x.truncated /\ x.version = file.version => Len(x.contents) = Len(file.contents) + 1
    BY DEF FilesInv, EditIntact
  <2>4. Len(file.contents) \in Nat
    BY DEF FilesInv, FilesTypeOK
  <2>. QED BY <2>2, <2>3, <2>4
<1>. QED BY <1>1, FilesInvariant, PTL DEF FilesSpec, TailKept
-----------------------------------------------------------------------------
(* Turns of messages *)

\* What holds at the start of some steps and is kept by each holds at their end.
LEMMA StepsStay ==
  ASSUME NEW n \in Nat, NEW A, NEW f, f[0] \in A,
         \A k \in 1 .. n : f[k - 1] \in A => f[k] \in A
  PROVE  f[n] \in A
<1> DEFINE S == {k \in 0 .. n : f[k] \in A}
<1>1. 0 \in S /\ S \in SUBSET (0 .. n)
  OBVIOUS
<1>2. \A k \in S : k < n => k + 1 \in S
  <2> SUFFICES ASSUME NEW k \in S, k < n PROVE k + 1 \in S
    OBVIOUS
  <2>1. k + 1 \in 1 .. n /\ (k + 1) - 1 = k
    OBVIOUS
  <2>. QED BY <2>1
<1>3. n \in S
  <2>1. n \in 0 .. n
    OBVIOUS
  <2> HIDE DEF S
  <2>. QED BY <1>1, <1>2, <2>1, UpTo
<1>. QED BY <1>3

LEMMA AppendFacts ==
  ASSUME NEW A, NEW s \in Seq(A), NEW x \in A
  PROVE  /\ Append(s, x) \in Seq(A) /\ Len(s) \in Nat
         /\ Len(Append(s, x)) = Len(s) + 1
         /\ Append(s, x)[Len(s) + 1] = x
         /\ \A k \in 1 .. Len(s) : Append(s, x)[k] = s[k] /\ k \in 1 .. Len(Append(s, x))
         /\ Len(s) + 1 \in 1 .. (Len(s) + 1)
  OBVIOUS

LEMMA JoinedAppend ==
  ASSUME NEW texts \in Seq(Seq(Nat)), NEW text \in Seq(Nat)
  PROVE  Joined(Append(texts, text)) = JoinText(Joined(texts), text)
<1> DEFINE n == Len(texts)
<1>1. /\ Append(texts, text) \in Seq(Seq(Nat)) /\ n \in Nat
      /\ Len(Append(texts, text)) = n + 1 /\ Append(texts, text)[n + 1] = text
      /\ \A k \in 1 .. n : Append(texts, text)[k] = texts[k] /\ k \in 1 .. (n + 1)
      /\ n + 1 \in 1 .. (n + 1)
  BY AppendFacts
<1>2. PICK f : /\ f[0] = <<>> /\ Joined(texts) = f[n]
               /\ \A k \in 1 .. n : f[k] = JoinText(f[k - 1], texts[k])
  BY JoinedSteps
<1>3. PICK g : /\ g[0] = <<>> /\ Joined(Append(texts, text)) = g[n + 1]
               /\ \A k \in 1 .. (n + 1) : g[k] = JoinText(g[k - 1], Append(texts, text)[k])
  <2> DEFINE more == Append(texts, text)
  <2>1. more \in Seq(Seq(Nat)) /\ Len(more) = n + 1
    BY <1>1
  <2> HIDE DEF more
  <2>2. \E g : /\ g[0] = <<>> /\ Joined(more) = g[Len(more)]
               /\ \A k \in 1 .. Len(more) : g[k] = JoinText(g[k - 1], more[k])
    BY <2>1, JoinedSteps
  <2>. QED BY <2>1, <2>2 DEF more
<1>4. f[n] = g[n]
  <2> HIDE DEF n
  <2>. QED BY <1>1, <1>2, <1>3, SameSteps
<1>5. g[n + 1] = JoinText(g[(n + 1) - 1], text) /\ (n + 1) - 1 = n
  <2> HIDE DEF n
  <2>. QED BY <1>1, <1>3
<1>. QED BY <1>2, <1>3, <1>4, <1>5

LEMMA TextsAppend ==
  ASSUME NEW ms \in Seq(Said), NEW m \in Said, NEW i, NEW r
  PROVE  Texts(Append(ms, m), i, r) = Heard(Texts(ms, i, r), m, i, r)
<1> DEFINE n == Len(ms)
<1>1. /\ Append(ms, m) \in Seq(Said) /\ n \in Nat
      /\ Len(Append(ms, m)) = n + 1 /\ Append(ms, m)[n + 1] = m
      /\ \A k \in 1 .. n : Append(ms, m)[k] = ms[k] /\ k \in 1 .. (n + 1)
      /\ n + 1 \in 1 .. (n + 1)
  BY AppendFacts
<1>2. PICK f : /\ f[0] = <<>> /\ Texts(ms, i, r) = f[n]
               /\ \A k \in 1 .. n : f[k] = Heard(f[k - 1], ms[k], i, r)
  BY TextsSteps
<1>3. PICK g : /\ g[0] = <<>> /\ Texts(Append(ms, m), i, r) = g[n + 1]
               /\ \A k \in 1 .. (n + 1) : g[k] = Heard(g[k - 1], Append(ms, m)[k], i, r)
  <2> DEFINE more == Append(ms, m)
  <2>1. more \in Seq(Said) /\ Len(more) = n + 1
    BY <1>1
  <2> HIDE DEF more
  <2>2. \E g : /\ g[0] = <<>> /\ Texts(more, i, r) = g[Len(more)]
               /\ \A k \in 1 .. Len(more) : g[k] = Heard(g[k - 1], more[k], i, r)
    BY <2>1, TextsSteps
  <2>. QED BY <2>1, <2>2 DEF more
<1>4. f[n] = g[n]
  <2> HIDE DEF n
  <2>1. ASSUME NEW k \in 1 .. n, f[k - 1] = g[k - 1] PROVE f[k] = g[k]
    <3>1. f[k] = Heard(f[k - 1], ms[k], i, r)
      BY <1>2
    <3>2. g[k] = Heard(g[k - 1], ms[k], i, r)
      BY <1>1, <1>3
    <3>. QED BY <2>1, <3>1, <3>2
  <2>. QED BY <1>1, <1>2, <1>3, <2>1, SameSteps
<1>5. g[n + 1] = Heard(g[(n + 1) - 1], m, i, r) /\ (n + 1) - 1 = n
  BY <1>1, <1>3
<1>. QED BY <1>2, <1>3, <1>4, <1>5

LEMMA TurnIdsAppend ==
  ASSUME NEW ms \in Seq(Said), NEW m \in Said
  PROVE  TurnIds(Append(ms, m)) = Seen(TurnIds(ms), m)
<1> DEFINE n == Len(ms)
<1>1. /\ Append(ms, m) \in Seq(Said) /\ n \in Nat
      /\ Len(Append(ms, m)) = n + 1 /\ Append(ms, m)[n + 1] = m
      /\ \A k \in 1 .. n : Append(ms, m)[k] = ms[k] /\ k \in 1 .. (n + 1)
      /\ n + 1 \in 1 .. (n + 1)
  BY AppendFacts
<1>2. PICK f : /\ f[0] = <<>> /\ TurnIds(ms) = f[n]
               /\ \A k \in 1 .. n : f[k] = Seen(f[k - 1], ms[k])
  BY TurnIdsSteps
<1>3. PICK g : /\ g[0] = <<>> /\ TurnIds(Append(ms, m)) = g[n + 1]
               /\ \A k \in 1 .. (n + 1) : g[k] = Seen(g[k - 1], Append(ms, m)[k])
  <2> DEFINE more == Append(ms, m)
  <2>1. more \in Seq(Said) /\ Len(more) = n + 1
    BY <1>1
  <2> HIDE DEF more
  <2>2. \E g : /\ g[0] = <<>> /\ TurnIds(more) = g[Len(more)]
               /\ \A k \in 1 .. Len(more) : g[k] = Seen(g[k - 1], more[k])
    BY <2>1, TurnIdsSteps
  <2>. QED BY <2>1, <2>2 DEF more
<1>4. f[n] = g[n]
  <2> HIDE DEF n
  <2>. QED BY <1>1, <1>2, <1>3, SameSteps
<1>5. g[n + 1] = Seen(g[(n + 1) - 1], m) /\ (n + 1) - 1 = n
  BY <1>1, <1>3
<1>. QED BY <1>2, <1>3, <1>4, <1>5

LEMMA NothingSaid ==
  /\ Joined(<<>>) = <<>> /\ TurnIds(<<>>) = <<>>
  /\ \A i, r : Texts(<<>>, i, r) = <<>>
<1>1. <<>> \in Seq(Seq(Nat)) /\ <<>> \in Seq(Said) /\ Len(<<>>) = 0
  OBVIOUS
<1>2. Joined(<<>>) = <<>>
  BY <1>1, JoinedSteps
<1>3. TurnIds(<<>>) = <<>>
  BY <1>1, TurnIdsSteps
<1>4. ASSUME NEW i, NEW r PROVE Texts(<<>>, i, r) = <<>>
  <2> DEFINE none == <<>>
  <2>1. none \in Seq(Said)
    BY <1>1
  <2> HIDE DEF none
  <2>2. PICK f : /\ f[0] = <<>> /\ Texts(none, i, r) = f[Len(none)]
                 /\ \A k \in 1 .. Len(none) : f[k] = Heard(f[k - 1], none[k], i, r)
    BY <2>1, TextsSteps
  <2>3. Texts(none, i, r) = <<>>
    BY <2>2 DEF none
  <2>. QED BY <2>3 DEF none
<1>. QED BY <1>2, <1>3, <1>4

LEMMA JoinedTyped ==
  ASSUME NEW texts \in Seq(Seq(Nat))
  PROVE  Joined(texts) \in Seq(Nat)
<1>1. PICK f : /\ f[0] = <<>> /\ Joined(texts) = f[Len(texts)]
               /\ \A k \in 1 .. Len(texts) : f[k] = JoinText(f[k - 1], texts[k])
  BY JoinedSteps
<1>2. /\ Len(texts) \in Nat /\ f[0] \in Seq(Nat)
      /\ \A k \in 1 .. Len(texts) : texts[k] \in Seq(Nat)
  BY <1>1
<1>3. \A k \in 1 .. Len(texts) : f[k - 1] \in Seq(Nat) => f[k] \in Seq(Nat)
  BY <1>1, <1>2, JoinTyped
<1>4. f[Len(texts)] \in Seq(Nat)
  BY <1>2, <1>3, StepsStay
<1>. QED BY <1>1, <1>4

\* The messages of an agent in a turn, one for each text.
SaidBy(i, texts) ==
  [k \in DOMAIN texts |-> [turn |-> i, role |-> "assistant", text |-> texts[k]]]

\* An agent's messages are joined to its turn, and change nothing else.
LEMMA SaidAppended ==
  ASSUME NEW ms \in Seq(Said), NEW j \in Nat, NEW texts \in Seq(Seq(Nat)),
         Contains(TurnIds(ms), j), Texts(ms, j, "assistant") = <<>>
  PROVE  LET all == ms \o SaidBy(j, texts)
         IN  /\ all \in Seq(Said) /\ TurnIds(all) = TurnIds(ms)
             /\ \A i \in Nat, r \in Roles :
                  Texts(all, i, r) = IF i = j /\ r = "assistant" THEN Joined(texts)
                                     ELSE Texts(ms, i, r)
<1> DEFINE n == Len(texts)
           part(k) == SubSeq(texts, 1, k)
           all(k) == ms \o SaidBy(j, part(k))
           P(k) == /\ all(k) \in Seq(Said) /\ TurnIds(all(k)) = TurnIds(ms)
                   /\ \A i \in Nat, r \in Roles :
                        Texts(all(k), i, r) = IF i = j /\ r = "assistant" THEN Joined(part(k))
                                              ELSE Texts(ms, i, r)
           S == {k \in 0 .. n : P(k)}
<1>1. n \in Nat /\ part(n) = texts /\ part(0) = <<>>
  OBVIOUS
<1>2. 0 \in S
  <2>1. SaidBy(j, <<>>) = <<>>
    BY DEF SaidBy
  <2>2. all(0) = ms
    <3>1. ms \o <<>> = ms
      OBVIOUS
    <3>. QED BY <1>1, <2>1, <3>1
  <2>3. P(0)
    <3> HIDE DEF all, part
    <3>. QED BY <1>1, <2>2, NothingSaid
  <2> HIDE DEF P
  <2>. QED BY <1>1, <2>3
<1>3. ASSUME NEW k \in S, k < n PROVE k + 1 \in S
  <2> DEFINE m == [turn |-> j, role |-> "assistant", text |-> texts[k + 1]]
  <2>1. k \in 0 .. n /\ k + 1 \in 1 .. n /\ k + 1 \in 0 .. n /\ P(k)
    BY <1>1, <1>3
  <2>2. texts[k + 1] \in Seq(Nat) /\ m \in Said
    BY <2>1 DEF Said, Roles
  <2>3. part(k) \in Seq(Seq(Nat)) /\ part(k + 1) = Append(part(k), texts[k + 1])
    BY <1>1, <2>1
  <2>4. SaidBy(j, part(k + 1)) = Append(SaidBy(j, part(k)), m)
    BY <1>1, <2>1, <2>3 DEF SaidBy
  <2>5. SaidBy(j, part(k)) \in Seq(Said)
    BY <1>1, <2>1, <2>3 DEF SaidBy, Said, Roles
  <2>6. all(k + 1) = Append(all(k), m)
    <3>1. ASSUME NEW s \in Seq(Said) PROVE ms \o Append(s, m) = Append(ms \o s, m)
      <4> HIDE DEF m
      <4>1. ms \o s \in Seq(Said) /\ <<m>> \in Seq(Said)
        BY <2>2
      <4>2. Append(s, m) = s \o <<m>> /\ Append(ms \o s, m) = (ms \o s) \o <<m>>
        BY <2>2, <4>1, AppendIsConcat
      <4>. QED BY <4>1, <4>2, ConcatAssociative
    <3> HIDE DEF part, m
    <3>. QED BY <2>4, <2>5, <3>1
  <2>9. all(k) \in Seq(Said) /\ TurnIds(all(k)) = TurnIds(ms)
    BY <2>1
  <2>7. Joined(part(k + 1)) = JoinText(Joined(part(k)), texts[k + 1])
    BY <2>2, <2>3, JoinedAppend
  <2>8. P(k + 1)
    <3>1. all(k + 1) \in Seq(Said)
      <4> HIDE DEF all, m
      <4>1. Append(all(k), m) \in Seq(Said)
        BY <2>2, <2>9, AppendProperties
      <4>. QED BY <2>6, <4>1
    <3>2. TurnIds(all(k + 1)) = TurnIds(ms)
      <4>1. TurnIds(all(k + 1)) = Seen(TurnIds(all(k)), m)
        <5> HIDE DEF all, m
        <5>. QED BY <2>2, <2>6, <2>9, TurnIdsAppend
      <4>. QED BY <2>9, <4>1 DEF Seen
    <3>3. ASSUME NEW i \in Nat, NEW r \in Roles
          PROVE  Texts(all(k + 1), i, r) = IF i = j /\ r = "assistant" THEN Joined(part(k + 1))
                                           ELSE Texts(ms, i, r)
      <4>1. Texts(all(k + 1), i, r) = Heard(Texts(all(k), i, r), m, i, r)
        <5> HIDE DEF all, m
        <5>1. Texts(Append(all(k), m), i, r) = Heard(Texts(all(k), i, r), m, i, r)
          BY <2>2, <2>9, TextsAppend
        <5>. QED BY <2>6, <5>1
      <4>2. m.turn = j /\ m.role = "assistant" /\ m.text = texts[k + 1]
        OBVIOUS
      <4> HIDE DEF all, m, part
      <4>. QED BY <2>1, <2>7, <4>1, <4>2 DEF Heard
    <3>. QED BY <3>1, <3>2, <3>3
  <2> HIDE DEF P
  <2>. QED BY <2>1, <2>8
<1>4. n \in S
  <2>1. n \in 0 .. n /\ S \in SUBSET (0 .. n)
    BY <1>1
  <2> HIDE DEF S, n
  <2>. QED BY <1>1, <1>2, <1>3, <2>1, UpTo
<1>5. P(n)
  BY <1>4
<1> HIDE DEF part
<1>. QED BY <1>1, <1>5
LEMMA TurnIdsTyped ==
  ASSUME NEW ms \in Seq(Said)
  PROVE  TurnIds(ms) \in Seq(Nat)
<1>1. PICK f : /\ f[0] = <<>> /\ TurnIds(ms) = f[Len(ms)]
               /\ \A k \in 1 .. Len(ms) : f[k] = Seen(f[k - 1], ms[k])
  BY TurnIdsSteps
<1>2. Len(ms) \in Nat /\ f[0] \in Seq(Nat) /\ \A k \in 1 .. Len(ms) : ms[k].turn \in Nat
  <2>1. \A k \in 1 .. Len(ms) : ms[k] \in Said
    OBVIOUS
  <2>. QED BY <1>1, <2>1 DEF Said
<1>3. \A k \in 1 .. Len(ms) : f[k - 1] \in Seq(Nat) => f[k] \in Seq(Nat)
  <2>1. \A a \in Seq(Nat), k \in 1 .. Len(ms) : Append(a, ms[k].turn) \in Seq(Nat)
    BY <1>2
  <2>. QED BY <1>1, <2>1 DEF Seen
<1>4. f[Len(ms)] \in Seq(Nat)
  BY <1>2, <1>3, StepsStay
<1>. QED BY <1>1, <1>4

\* A turn's messages come after those of other turns.
LEMMA TurnAppended ==
  ASSUME NEW ms \in Seq(Said), NEW j \in Nat, NEW user \in Seq(Nat),
         NEW texts \in Seq(Seq(Nat)),
         ~ Contains(TurnIds(ms), j), \A r \in Roles : Texts(ms, j, r) = <<>>
  PROVE  LET all == ms \o (<<[turn |-> j, role |-> "user", text |-> user]>> \o SaidBy(j, texts))
         IN  /\ all \in Seq(Said) /\ TurnIds(all) = Append(TurnIds(ms), j)
             /\ \A i \in Nat :
                  /\ Texts(all, i, "user") = IF i = j THEN user ELSE Texts(ms, i, "user")
                  /\ Texts(all, i, "assistant") = IF i = j THEN Joined(texts)
                                                  ELSE Texts(ms, i, "assistant")
<1> DEFINE m == [turn |-> j, role |-> "user", text |-> user]
           begun1 == Append(ms, m)
<1>1. /\ m \in Said /\ m.turn = j /\ m.role = "user" /\ m.text = user
  BY DEF Said, Roles
<1>2. begun1 \in Seq(Said)
  <2> HIDE DEF m
  <2>. QED BY <1>1, AppendProperties
<1>3. TurnIds(begun1) = Append(TurnIds(ms), j)
  <2> HIDE DEF m
  <2>. QED BY <1>1, TurnIdsAppend DEF Seen
<1>4. \A i, r : Texts(begun1, i, r) = Heard(Texts(ms, i, r), m, i, r)
  <2> HIDE DEF m
  <2>. QED BY <1>1, TextsAppend
<1>5. /\ Texts(begun1, j, "assistant") = <<>> /\ Texts(begun1, j, "user") = user
      /\ \A i \in Nat \ {j}, r \in Roles : Texts(begun1, i, r) = Texts(ms, i, r)
  <2>1. JoinText(<<>>, user) = user
    BY DEF JoinText
  <2> HIDE DEF m, begun1
  <2>2. Texts(begun1, j, "assistant") = <<>>
    BY <1>1, <1>4 DEF Heard, Roles
  <2>3. Texts(begun1, j, "user") = user
    BY <1>1, <1>4, <2>1 DEF Heard, Roles
  <2>4. \A i \in Nat \ {j}, r \in Roles : Texts(begun1, i, r) = Texts(ms, i, r)
    BY <1>1, <1>4 DEF Heard
  <2>. QED BY <2>2, <2>3, <2>4
<1>6. Contains(TurnIds(begun1), j)
  <2> DEFINE ids == TurnIds(ms)
  <2>1. ids \in Seq(Nat)
    BY TurnIdsTyped
  <2> HIDE DEF ids
  <2>2. /\ Len(Append(ids, j)) = Len(ids) + 1 /\ Append(ids, j)[Len(ids) + 1] = j
        /\ Len(ids) + 1 \in 1 .. (Len(ids) + 1)
    BY <2>1
  <2>. QED BY <1>3, <2>2 DEF Contains, ids
<1>7. ms \o (<<m>> \o SaidBy(j, texts)) = begun1 \o SaidBy(j, texts)
  <2>1. SaidBy(j, texts) \in Seq(Said)
    <3>1. Len(texts) \in Nat /\ DOMAIN texts = 1 .. Len(texts)
      OBVIOUS
    <3>2. \A k \in DOMAIN texts :
            [turn |-> j, role |-> "assistant", text |-> texts[k]] \in Said
      BY DEF Said, Roles
    <3> HIDE DEF m
    <3>. QED BY <3>1, <3>2 DEF SaidBy
  <2> HIDE DEF m
  <2>2. <<m>> \in Seq(Said)
    BY <1>1
  <2>. QED BY <1>1, <2>1, <2>2, AppendIsConcat, ConcatAssociative, SMTT(60)
<1> HIDE DEF begun1
<1>8. /\ begun1 \o SaidBy(j, texts) \in Seq(Said)
      /\ TurnIds(begun1 \o SaidBy(j, texts)) = TurnIds(begun1)
      /\ \A i \in Nat, r \in Roles :
           Texts(begun1 \o SaidBy(j, texts), i, r) =
             IF i = j /\ r = "assistant" THEN Joined(texts) ELSE Texts(begun1, i, r)
  BY <1>2, <1>5, <1>6, SaidAppended
<1> DEFINE all == begun1 \o SaidBy(j, texts)
<1> HIDE DEF all
<1>9. \A i \in Nat :
        /\ Texts(all, i, "user") = IF i = j THEN user ELSE Texts(ms, i, "user")
        /\ Texts(all, i, "assistant") = IF i = j THEN Joined(texts)
                                        ELSE Texts(ms, i, "assistant")
  BY <1>5, <1>8 DEF Roles, all
<1>. QED BY <1>3, <1>7, <1>8, <1>9 DEF all

LEMMA FlattenSteps ==
  ASSUME NEW A, NEW ps \in Seq(Seq(A))
  PROVE  \E f : /\ f[0] = <<>> /\ FlattenSeq(ps) = f[Len(ps)]
                /\ \A k \in 1 .. Len(ps) : f[k] = f[k - 1] \o ps[k]
<1> DEFINE n == Len(ps)
           step == [k \in 1 .. n |-> [a \in Seq(A) |-> a \o ps[k]]]
           Flat(h) == [i \in 1 .. n |-> IF i = 1 THEN ps[i] ELSE h[i - 1] \o ps[i]]
           flat == CHOOSE h : h = Flat(h)
<1>1. n \in Nat /\ <<>> \in Seq(A) /\ step \in [1 .. n -> [Seq(A) -> Seq(A)]]
  OBVIOUS
<1>2. PICK iter \in [SUBSET (1 .. n) -> Seq(A)] :
        \A s \in SUBSET (1 .. n) :
          iter[s] = IF s = {} THEN <<>> ELSE step[Max(s)][iter[s \ {Max(s)}]]
  <2> HIDE DEF n, step
  <2>1. Foldable(n, Seq(A), <<>>, step)
    BY <1>1, FoldExists
  <2>. QED BY <2>1 DEF Foldable
<1>3. PICK f : /\ f[0] = iter[{}] /\ f[n] = iter[1 .. n]
               /\ \A k \in 1 .. n : /\ 1 .. k \in SUBSET (1 .. n) /\ 1 .. k # {}
                                    /\ Max(1 .. k) = k
                                    /\ f[k] = iter[1 .. k] /\ f[k - 1] = iter[(1 .. k) \ {k}]
  <2> HIDE DEF n
  <2>1. Ordered(iter, n)
    BY <1>1, InOrder
  <2>. QED BY <2>1 DEF Ordered
<1>4. f[0] = <<>> /\ \A k \in 1 .. n : f[k - 1] \in Seq(A) /\ f[k] = step[k][f[k - 1]]
  <2>1. f[0] = <<>>
    <3>1. {} \in SUBSET (1 .. n)
      OBVIOUS
    <3>. QED BY <1>2, <1>3, <3>1
  <2>2. ASSUME NEW k \in 1 .. n
        PROVE  f[k - 1] \in Seq(A) /\ f[k] = step[k][f[k - 1]]
    <3>1. (1 .. k) \ {k} \in SUBSET (1 .. n)
      BY <1>3
    <3>2. iter[(1 .. k) \ {k}] \in Seq(A)
      BY <1>2, <3>1
    <3> HIDE DEF n, step
    <3>3. iter[1 .. k] = step[k][iter[(1 .. k) \ {k}]]
      BY <1>2, <1>3
    <3>. QED BY <1>3, <3>2, <3>3
  <2> HIDE DEF n, step
  <2>. QED BY <2>1, <2>2
<1>5. \A k \in 1 .. n : f[k] = f[k - 1] \o ps[k]
  BY <1>4
<1>6. CASE n = 0
  BY <1>4, <1>6 DEF FlattenSeq
<1>7. CASE n # 0
  <2> DEFINE g == [i \in 1 .. n |-> f[i]]
  <2>1. g = Flat(g)
    <3>1. \A i \in 1 .. n : g[i] = f[i]
      OBVIOUS
    <3>2. ASSUME NEW i \in 1 .. n, i = 1 PROVE f[i] = ps[i]
      <4>0. ps[i] \in Seq(A)
        OBVIOUS
      <4>1. f[i] = f[i - 1] \o ps[i]
        BY <1>5
      <4>2. i - 1 = 0
        BY <3>2
      <4>3. f[i - 1] = <<>>
        BY <1>4, <4>2
      <4>4. <<>> \o ps[i] = ps[i]
        BY <4>0
      <4>. QED BY <4>1, <4>3, <4>4
    <3>3. \A i \in 1 .. n : i # 1 => i - 1 \in 1 .. n
      BY <1>1
    <3> HIDE DEF g
    <3>4. \A i \in 1 .. n : g[i] = IF i = 1 THEN ps[i] ELSE g[i - 1] \o ps[i]
      BY <1>5, <3>1, <3>2, <3>3
    <3>. QED BY <3>4 DEF g
  <2>2. flat = Flat(flat)
    <3> HIDE DEF Flat
    <3>. QED BY <2>1
  <2>3. FlattenSeq(ps) = flat[n]
    BY <1>7 DEF FlattenSeq
  <2> HIDE DEF flat
  <2>4. \A i \in 1 .. n : flat[i] = IF i = 1 THEN ps[i] ELSE flat[i - 1] \o ps[i]
    BY <2>2
  <2> DEFINE h == [i \in 0 .. n |-> IF i = 0 THEN <<>> ELSE flat[i]]
  <2>5. h[0] = <<>> /\ h[n] = flat[n] /\ \A i \in 1 .. n : h[i] = flat[i]
    BY <1>1, <1>7
  <2>6. \A i \in 1 .. n : h[i] = h[i - 1] \o ps[i]
    <3> TAKE i \in 1 .. n
    <3>1. CASE i = 1
      <4>1. h[i - 1] = <<>> /\ ps[i] \in Seq(A)
        BY <2>5, <3>1
      <4>2. <<>> \o ps[i] = ps[i]
        BY <4>1
      <4> HIDE DEF h
      <4>. QED BY <2>4, <2>5, <3>1, <4>1, <4>2
    <3>2. CASE i # 1
      <4>1. i - 1 \in 1 .. n
        BY <1>1, <3>2
      <4> HIDE DEF h
      <4>. QED BY <2>4, <2>5, <3>2, <4>1
    <3>. QED BY <3>1, <3>2
  <2> HIDE DEF h
  <2>. QED BY <2>3, <2>5, <2>6
<1>. QED BY <1>6, <1>7
-----------------------------------------------------------------------------
(* Pages *)

Kinship == [user : Seq(Nat), says : Seq(Seq(Nat))]

\* The first k turns of a page, from a turn on.
From(first, k) == [i \in 1 .. k |-> first + i - 1]

LEMMA IdsGrow ==
  ASSUME NEW first \in Nat, NEW k \in Nat
  PROVE  /\ Append(From(first, k), first + k) = From(first, k + 1)
         /\ ~ Contains(From(first, k), first + k)
         /\ From(first, k) \in Seq(Nat) /\ Len(From(first, k)) = k
<1>1. From(first, k) \in Seq(Nat) /\ Len(From(first, k)) = k
  BY DEF From
<1>2. \A i \in 1 .. k : first + i - 1 # first + k
  OBVIOUS
<1>3. ~ Contains(From(first, k), first + k)
  BY <1>1, <1>2 DEF Contains, From
<1>4. Append(From(first, k), first + k) = From(first, k + 1)
  BY SMTT(60) DEF From
<1>. QED BY <1>1, <1>3, <1>4

\* The messages of a page hold each of its turns whole, in order, wherever the first
\* turn's last message stands.
LEMMA PageTurns ==
  ASSUME NEW first \in Nat \ {0}, NEW last \in Nat, first <= last + 1,
         NEW late, turns \in Seq(Kinship), last <= Len(turns)
  PROVE  TurnsFromMessages(Messages(first, last, late)) =
           [i \in 1 .. (last - first + 1) |-> Whole(first + i - 1)]
<1> DEFINE n == last - first + 1
           says(i) == IF late /\ i = first /\ turns[i].says # <<>>
                      THEN Front(turns[i].says) ELSE turns[i].says
           msg(i) == [turn |-> i, role |-> "user", text |-> turns[i].user]
           piece(i) == <<msg(i)>> \o SaidBy(i, says(i))
           pieces == [k \in 1 .. n |-> piece(first + k - 1)]
           tail == IF first <= last /\ says(first) # turns[first].says
                   THEN SaidBy(first, <<Last(turns[first].says)>>) ELSE <<>>
           body == FlattenSeq(pieces)
<1>1. Messages(first, last, late) = body \o tail
  BY DEF Messages, SaidBy
<1>2. n \in Nat
  OBVIOUS
<1>3. ASSUME NEW i \in first .. last
      PROVE  /\ i \in Nat /\ turns[i].user \in Seq(Nat) /\ turns[i].says \in Seq(Seq(Nat))
             /\ says(i) \in Seq(Seq(Nat))
             /\ piece(i) \in Seq(Said)
  <2>1. i \in Nat /\ i \in 1 .. Len(turns)
    OBVIOUS
  <2>2. turns[i] \in Kinship
    BY <2>1
  <2>3. turns[i].user \in Seq(Nat) /\ turns[i].says \in Seq(Seq(Nat))
    BY <2>2 DEF Kinship
  <2>4. says(i) \in Seq(Seq(Nat))
    <3>1. turns[i].says # <<>> => Front(turns[i].says) \in Seq(Seq(Nat))
      BY <2>3 DEF Front
    <3>. QED BY <2>3, <3>1
  <2> DEFINE texts == says(i)
  <2> HIDE DEF says
  <2>5. msg(i) \in Said
    BY <2>1, <2>3 DEF Said, Roles
  <2>6. SaidBy(i, texts) \in Seq(Said)
    <3> texts \in Seq(Seq(Nat))
      BY <2>4
    <3> HIDE DEF texts
    <3>1. Len(texts) \in Nat /\ DOMAIN texts = 1 .. Len(texts)
      OBVIOUS
    <3>2. \A k \in DOMAIN texts :
            [turn |-> i, role |-> "assistant", text |-> texts[k]] \in Said
      BY <2>1 DEF Said, Roles
    <3>. QED BY <3>1, <3>2 DEF SaidBy
  <2>7. piece(i) \in Seq(Said)
    <3> HIDE DEF msg
    <3>1. <<msg(i)>> \in Seq(Said)
      BY <2>5
    <3>. QED BY <2>6, <3>1
  <2>. QED BY <2>1, <2>3, <2>4, <2>7
<1>4. /\ pieces \in Seq(Seq(Said)) /\ Len(pieces) = n
      /\ \A k \in 1 .. n : pieces[k] = piece(first + k - 1) /\ first + k - 1 \in first .. last
  <2>1. \A k \in 1 .. n : first + k - 1 \in first .. last
    BY <1>2
  <2> HIDE DEF n, piece
  <2>2. \A k \in 1 .. n : piece(first + k - 1) \in Seq(Said)
    BY <1>3, <2>1
  <2>. QED BY <1>2, <2>1, <2>2
<1>5. PICK f : /\ f[0] = <<>> /\ body = f[n]
               /\ \A k \in 1 .. n : f[k] = f[k - 1] \o pieces[k]
  <2> HIDE DEF pieces, n
  <2>1. \E f : /\ f[0] = <<>> /\ FlattenSeq(pieces) = f[Len(pieces)]
               /\ \A k \in 1 .. Len(pieces) : f[k] = f[k - 1] \o pieces[k]
    BY <1>4, FlattenSteps
  <2>. QED BY <1>4, <2>1
<1> DEFINE user(i, k) == IF i \in first .. (first + k - 1) THEN turns[i].user ELSE <<>>
           out(i, k) == IF i \in first .. (first + k - 1) THEN Joined(says(i)) ELSE <<>>
           P(k) == /\ f[k] \in Seq(Said) /\ TurnIds(f[k]) = From(first, k)
                   /\ \A i \in Nat : /\ Texts(f[k], i, "user") = user(i, k)
                                     /\ Texts(f[k], i, "assistant") = out(i, k)
           S == {k \in 0 .. n : P(k)}
<1>6. 0 \in S
  <2>1. <<>> \in Seq(Said) /\ From(first, 0) = <<>>
    BY DEF From
  <2>2. first .. (first + 0 - 1) = {}
    OBVIOUS
  <2>3. P(0)
    BY <1>5, <2>1, <2>2, NothingSaid
  <2> HIDE DEF P
  <2>. QED BY <1>2, <2>3
<1>7. ASSUME NEW k \in S, k < n PROVE k + 1 \in S
  <2> DEFINE j == first + k
  <2>1. /\ k \in 0 .. n /\ k \in Nat /\ k + 1 \in 1 .. n /\ k + 1 \in 0 .. n
        /\ (k + 1) - 1 = k /\ first + (k + 1) - 1 = j /\ j \in Nat
    BY <1>2, <1>7
  <2>2. P(k)
    BY <1>7
  <2>3. f[k + 1] = f[k] \o piece(j) /\ j \in first .. last
    <3> HIDE DEF piece, pieces, n, j
    <3>. QED BY <1>4, <1>5, <2>1
  <2>4. /\ turns[j].user \in Seq(Nat) /\ says(j) \in Seq(Seq(Nat))
    BY <1>3, <2>3
  <2>5. /\ ~ Contains(TurnIds(f[k]), j) /\ f[k] \in Seq(Said)
        /\ Append(TurnIds(f[k]), j) = From(first, k + 1)
    BY <2>1, <2>2, IdsGrow
  <2>6. \A r \in Roles : Texts(f[k], j, r) = <<>>
    <3>1. j \notin first .. (first + k - 1)
      BY <2>1
    <3>. QED BY <2>1, <2>2, <3>1 DEF Roles
  <2>7. /\ f[k + 1] \in Seq(Said) /\ TurnIds(f[k + 1]) = Append(TurnIds(f[k]), j)
        /\ \A i \in Nat :
             /\ Texts(f[k + 1], i, "user") = IF i = j THEN turns[j].user
                                             ELSE Texts(f[k], i, "user")
             /\ Texts(f[k + 1], i, "assistant") = IF i = j THEN Joined(says(j))
                                                  ELSE Texts(f[k], i, "assistant")
    <3> DEFINE u == turns[j].user
               t == says(j)
    <3>1. f[k + 1] = f[k] \o (<<[turn |-> j, role |-> "user", text |-> u]>> \o SaidBy(j, t))
      BY <2>3
    <3>2. u \in Seq(Nat) /\ t \in Seq(Seq(Nat)) /\ j \in Nat
      BY <2>1, <2>4
    <3> HIDE DEF u, t, j
    <3> DEFINE ms == f[k]
               more == ms \o (<<[turn |-> j, role |-> "user", text |-> u]>> \o SaidBy(j, t))
    <3>4. ms \in Seq(Said) /\ ~ Contains(TurnIds(ms), j)
          /\ \A r \in Roles : Texts(ms, j, r) = <<>>
      BY <2>5, <2>6
    <3> HIDE DEF ms
    <3>5. /\ more \in Seq(Said) /\ TurnIds(more) = Append(TurnIds(ms), j)
          /\ \A i \in Nat :
               /\ Texts(more, i, "user") = IF i = j THEN u ELSE Texts(ms, i, "user")
               /\ Texts(more, i, "assistant") = IF i = j THEN Joined(t)
                                                ELSE Texts(ms, i, "assistant")
      BY <3>2, <3>4, TurnAppended, SMTT(60)
    <3>3. /\ f[k + 1] \in Seq(Said) /\ TurnIds(f[k + 1]) = Append(TurnIds(f[k]), j)
          /\ \A i \in Nat :
               /\ Texts(f[k + 1], i, "user") = IF i = j THEN u ELSE Texts(f[k], i, "user")
               /\ Texts(f[k + 1], i, "assistant") = IF i = j THEN Joined(t)
                                                    ELSE Texts(f[k], i, "assistant")
      BY <3>1, <3>5 DEF ms
    <3>. QED BY <3>3 DEF u, t
  <2>8. \A i \in Nat : i \in first .. (first + (k + 1) - 1) <=>
                         i = j \/ i \in first .. (first + k - 1)
    BY <2>1
  <2>9. j \notin first .. (first + k - 1)
    BY <2>1
  <2>10. P(k + 1)
    <3>1. f[k + 1] \in Seq(Said) /\ TurnIds(f[k + 1]) = From(first, k + 1)
      BY <2>5, <2>7
    <3>2. ASSUME NEW i \in Nat
          PROVE  /\ Texts(f[k + 1], i, "user") = user(i, k + 1)
                 /\ Texts(f[k + 1], i, "assistant") = out(i, k + 1)
      <4> HIDE DEF j, says
      <4>. QED BY <2>2, <2>7, <2>8
    <3>. QED BY <3>1, <3>2
  <2> HIDE DEF P
  <2>. QED BY <2>1, <2>10
<1>8. P(n)
  <2>1. n \in 0 .. n /\ S \in SUBSET (0 .. n)
    BY <1>2
  <2>2. n \in S
    <3> HIDE DEF S, n
    <3>. QED BY <1>2, <1>6, <1>7, <2>1, UpTo
  <2>. QED BY <2>2
<1> DEFINE all == body \o tail
<1>9. /\ body \in Seq(Said) /\ TurnIds(body) = From(first, n)
      /\ \A i \in first .. last : /\ Texts(body, i, "user") = turns[i].user
                                  /\ Texts(body, i, "assistant") = Joined(says(i))
  <2>1. \A i \in first .. last : i \in Nat /\ i \in first .. (first + n - 1)
    OBVIOUS
  <2> HIDE DEF n, says, body
  <2>. QED BY <1>5, <1>8, <2>1
<1>10. /\ TurnIds(all) = From(first, n)
       /\ \A i \in first .. last : /\ Texts(all, i, "user") = turns[i].user
                                   /\ Texts(all, i, "assistant") = Joined(turns[i].says)
  <2>1. CASE ~ (first <= last /\ says(first) # turns[first].says)
    <3>1. all = body
      <4> HIDE DEF body
      <4>. QED BY <1>9, <2>1, ConcatEmptySeq
    <3>2. \A i \in first .. last : says(i) = turns[i].says
      BY <2>1
    <3> HIDE DEF body, tail, says, all
    <3>. QED BY <1>9, <3>1, <3>2
  <2>2. CASE first <= last /\ says(first) # turns[first].says
    <3> DEFINE t == turns[first].says
               m == [turn |-> first, role |-> "assistant", text |-> Last(t)]
    <3>0. says(first) = IF late /\ first = first /\ t # <<>> THEN Front(t) ELSE t
      OBVIOUS
    <3>1. /\ first \in first .. last /\ t # <<>> /\ says(first) = Front(t)
          /\ t \in Seq(Seq(Nat))
          /\ \A i \in first .. last : i # first => says(i) = turns[i].says
      <4>1. first \in first .. last
        BY <2>2
      <4>2. t \in Seq(Seq(Nat))
        BY <1>3, <4>1
      <4>3. t # <<>> /\ says(first) = Front(t)
        <5> HIDE DEF says
        <5>. QED BY <2>2, <3>0
      <4>4. \A i \in first .. last : i # first => says(i) = turns[i].says
        OBVIOUS
      <4>. QED BY <4>1, <4>2, <4>3, <4>4
    <3>2. /\ Front(t) \in Seq(Seq(Nat)) /\ Last(t) \in Seq(Nat)
          /\ Append(Front(t), Last(t)) = t
      <4> HIDE DEF t
      <4>. QED BY <3>1 DEF Front, Last
    <3>3. m \in Said /\ m.turn = first /\ m.role = "assistant" /\ m.text = Last(t)
      <4> HIDE DEF t
      <4>. QED BY <3>2 DEF Said, Roles
    <3>4. tail = <<m>>
      <4>1. SaidBy(first, <<Last(t)>>) = <<m>>
        <5> HIDE DEF t
        <5>. QED BY DEF SaidBy
      <4>. QED BY <2>2, <4>1
    <3>5. all = Append(body, m)
      <4> HIDE DEF body, m, tail
      <4>. QED BY <1>9, <3>3, <3>4, AppendIsConcat
    <3>6. TurnIds(all) = From(first, n)
      <4>1. TurnIds(all) = Seen(TurnIds(body), m)
        <5> HIDE DEF body, m, all
        <5>. QED BY <1>9, <3>3, <3>5, TurnIdsAppend
      <4>2. Contains(From(first, n), first)
        <5>1. 1 \in 1 .. n /\ first + 1 - 1 = first /\ 1 \in Nat
          BY <2>2
        <5>2. From(first, n)[1] = first /\ 1 \in 1 .. Len(From(first, n))
          <6> HIDE DEF n
          <6>. QED BY <1>2, <5>1, IdsGrow DEF From
        <5> HIDE DEF n
        <5>. QED BY <5>2 DEF Contains
      <4> HIDE DEF body, m, all, n
      <4>. QED BY <1>9, <3>3, <4>1, <4>2 DEF Seen
    <3>7. ASSUME NEW i \in first .. last
          PROVE  /\ Texts(all, i, "user") = turns[i].user
                 /\ Texts(all, i, "assistant") = Joined(turns[i].says)
      <4>1. \A r : Texts(all, i, r) = Heard(Texts(body, i, r), m, i, r)
        <5> HIDE DEF body, m, all
        <5>. QED BY <1>9, <3>3, <3>5, TextsAppend
      <4>2. Joined(t) = JoinText(Joined(Front(t)), Last(t))
        <5> HIDE DEF t
        <5>. QED BY <3>2, JoinedAppend
      <4>3. Texts(all, i, "user") = turns[i].user
        <5> HIDE DEF body, m, all, says
        <5>. QED BY <1>9, <3>3, <4>1 DEF Heard
      <4>4. CASE i = first
        <5> HIDE DEF body, m, all, says
        <5>. QED BY <1>9, <3>1, <3>3, <4>1, <4>2, <4>3, <4>4 DEF Heard
      <4>5. CASE i # first
        <5> HIDE DEF body, m, all, says
        <5>. QED BY <1>9, <3>1, <3>3, <4>1, <4>3, <4>5 DEF Heard
      <4>. QED BY <4>4, <4>5
    <3>. QED BY <3>6, <3>7
  <2>. QED BY <2>1, <2>2
<1> HIDE DEF all
<1>11. From(first, n) = [i \in 1 .. n |-> first + i - 1] /\ DOMAIN From(first, n) = 1 .. n
  BY DEF From
<1>12. \A i \in 1 .. n : first + i - 1 \in first .. last
  OBVIOUS
<1>13. TurnsFromMessages(all) = [i \in 1 .. n |-> Whole(first + i - 1)]
  <2> HIDE DEF n
  <2>. QED BY <1>10, <1>11, <1>12 DEF TurnsFromMessages, Whole
<1>. QED BY <1>1, <1>13 DEF all

\* The turns of a page, whole.
Wholes(first, last) == [i \in 1 .. (last - first + 1) |-> Whole(first + i - 1)]

\* What _fit_thread_payload answers of the turns: all of them, or the latest of them
\* that fit, or the last one cut.
LEMMA FitFacts ==
  ASSUME NEW T, NEW n \in Nat, NEW A, T \in [1 .. n -> A]
  PROVE  LET fit == FitThreadPayload(T)
             newest(k) == SubSeq(T, n - k + 1, n)
         IN  \/ fit.turns = T /\ fit.truncated = FALSE /\ Fits(T, FALSE)
             \/ /\ fit.truncated = TRUE /\ ~ Fits(T, FALSE)
                /\ \/ \E k \in 1 .. (n - 1) :
                        /\ fit.turns = newest(k) /\ Fits(newest(k), TRUE)
                        /\ \A j \in 1 .. (n - 1) : j > k => ~ Fits(newest(j), TRUE)
                   \/ n = 0 /\ fit.turns = <<>>
                   \/ /\ n > 0 /\ fit.turns = CutTo(T[n], LongestFit(T[n]))
                      /\ \A j \in 1 .. (n - 1) : ~ Fits(newest(j), TRUE)
<1> DEFINE fit == FitThreadPayload(T)
           newest(k) == SubSeq(T, n - k + 1, n)
           fitting == {k \in 1 .. (n - 1) : Fits(newest(k), TRUE)}
<1>1. T \in Seq(A) /\ Len(T) = n
  OBVIOUS
<1>2. CASE Fits(T, FALSE)
  BY <1>2 DEF FitThreadPayload
<1>3. CASE ~ Fits(T, FALSE)
  <2>1. fit = [turns |-> CutDown(T), truncated |-> TRUE]
    BY <1>3 DEF FitThreadPayload
  <2>2. CutDown(T) = IF fitting # {} THEN newest(Max(fitting))
                     ELSE IF T = <<>> THEN T ELSE CutTo(Last(T), LongestFit(Last(T)))
    BY <1>1 DEF CutDown
  <2>3. CASE fitting # {}
    <3>1. fitting \in SUBSET (0 .. n)
      <4>1. \A k \in 1 .. (n - 1) : k \in 0 .. n
        OBVIOUS
      <4> HIDE DEF newest
      <4>. QED BY <4>1
    <3>2. Max(fitting) \in fitting /\ \A k \in fitting : k <= Max(fitting)
      <4> HIDE DEF fitting
      <4>. QED BY <2>3, <3>1, MaxOfRange
    <3>3. PICK k \in 1 .. (n - 1) : k = Max(fitting)
      BY <3>2
    <3>4. /\ fit.turns = newest(k) /\ Fits(newest(k), TRUE)
          /\ \A j \in 1 .. (n - 1) : j > k => ~ Fits(newest(j), TRUE)
      <4>1. \A j \in 1 .. (n - 1) : Fits(newest(j), TRUE) => j <= k
        BY <3>2, <3>3
      <4>2. Fits(newest(k), TRUE)
        BY <3>2, <3>3
      <4> HIDE DEF newest, fitting
      <4>3. CutDown(T) = newest(k)
        BY <2>2, <2>3, <3>3
      <4>4. fit.turns = CutDown(T)
        BY <2>1
      <4>5. \A j \in 1 .. (n - 1) : j > k => ~ Fits(newest(j), TRUE)
        <5>1. \A j \in 1 .. (n - 1) : j > k => ~ (j <= k)
          OBVIOUS
        <5>. QED BY <4>1, <5>1
      <4> HIDE DEF fit
      <4>. QED BY <4>2, <4>3, <4>4, <4>5
    <3>5. fit.truncated = TRUE
      BY <2>1
    <3> HIDE DEF fit
    <3>. QED BY <1>3, <3>4, <3>5 DEF fit
  <2>4. CASE fitting = {}
    <3>1. \A j \in 1 .. (n - 1) : ~ Fits(newest(j), TRUE)
      BY <2>4
    <3>2. T = <<>> <=> n = 0
      BY <1>1
    <3>3. Last(T) = T[n]
      BY <1>1 DEF Last
    <3>4. \/ n = 0 /\ CutDown(T) = <<>>
          \/ n > 0 /\ CutDown(T) = CutTo(T[n], LongestFit(T[n]))
      <4> HIDE DEF fitting
      <4>1. CutDown(T) = IF T = <<>> THEN T ELSE CutTo(T[n], LongestFit(T[n]))
        BY <2>2, <2>4, <3>3
      <4>. QED BY <3>2, <4>1
    <3>5. fit.turns = CutDown(T) /\ fit.truncated = TRUE
      BY <2>1
    <3> HIDE DEF fit
    <3>. QED BY <1>3, <3>1, <3>4, <3>5 DEF fit
  <2>. QED BY <2>3, <2>4
<1>. QED BY <1>2, <1>3

LEMMA MaxOfTwo ==
  ASSUME NEW x \in Int
  PROVE  Max({1, x}) \in {1, x} /\ Max({1, x}) >= 1 /\ Max({1, x}) >= x
<1>1. \E y \in {1, x} : \A z \in {1, x} : y >= z
  <2>1. CASE x >= 1
    BY <2>1
  <2>2. CASE ~ (x >= 1)
    BY <2>2
  <2>. QED BY <2>1, <2>2
<1>. QED BY <1>1 DEF Max

LEMMA FirstTurn ==
  ASSUME NEW last \in Nat, NEW limit \in TurnLimits
  PROVE  LET first == Max({1, last - TurnLimit(limit) + 1})
         IN  first \in Nat \ {0} /\ first <= last + 1
<1>1. TurnLimit(limit) \in Nat \ {0}
  BY PagesAssumption DEF TurnLimit
<1> DEFINE x == last - TurnLimit(limit) + 1
<1>2. x \in Int /\ x <= last
  BY <1>1
<1> HIDE DEF x
<1>3. Max({1, x}) \in {1, x} /\ Max({1, x}) >= 1 /\ Max({1, x}) >= x
  BY <1>2, MaxOfTwo
<1>. QED BY <1>2, <1>3 DEF x

\* What was answered: nothing yet, or what _fit_thread_payload made of a page.
Answered ==
  \/ answer = NoAnswer
  \/ \E first \in Nat \ {0}, last \in 0 .. Len(turns) :
       first <= last + 1 /\ answer = FitThreadPayload(Wholes(first, last))

\* What is read so far is shown or marked.
ReadSoFar ==
  /\ reading \in Reading
  /\ reading.total <= Len(turns) /\ reading.before <= reading.total
  /\ ((reading.before + 1) .. reading.total) \ reading.shown \subseteq reading.marked

PagesInv ==
  /\ turns \in Seq([user : Prompts, says : Outputs]) /\ Len(turns) <= MaxTurns
  /\ ReadSoFar
  /\ Answered

LEMMA TurnsTyped ==
  ASSUME turns \in Seq([user : Prompts, says : Outputs])
  PROVE  turns \in Seq(Kinship) /\ Len(turns) \in Nat
<1>1. [user : Prompts, says : Outputs] \subseteq Kinship
  BY PagesAssumption DEF Kinship
<1> DEFINE A == [user : Prompts, says : Outputs]
<1> HIDE DEF A
<1>2. A \subseteq Kinship /\ turns \in Seq(A)
  BY <1>1 DEF A
<1>3. turns \in Seq(Kinship) /\ Len(turns) \in Nat
  <2> DEFINE s == turns
  <2> HIDE DEF Kinship
  <2>. QED BY <1>2
<1>. QED BY <1>3

LEMMA PageKeeps ==
  ASSUME PagesInv, NEW last \in 0 .. Len(turns), NEW limit \in TurnLimits, NEW late,
         NEW from \in Reading, from.total <= Len(turns), last <= from.total,
         ((last + 1) .. from.total) \ from.shown \subseteq from.marked,
         Page(last, limit, late, from)
  PROVE  PagesInv'
<1> DEFINE first == Max({1, last - TurnLimit(limit) + 1})
           fit == FitThreadPayload(Wholes(first, last))
           seen == {i \in first .. last : Contains(fit.turns, Whole(i))}
           told == IF fit.truncated THEN first .. last ELSE {}
<1>1. /\ first \in Nat \ {0} /\ first <= last + 1 /\ last \in Nat /\ last <= Len(turns)
      /\ Len(turns) \in Nat /\ Len(turns) <= MaxTurns /\ MaxTurns \in Nat
      /\ turns \in Seq(Kinship)
  <2>1. /\ Len(turns) \in Nat /\ turns \in Seq(Kinship)
        /\ Len(turns) <= MaxTurns /\ MaxTurns \in Nat
    BY TurnsTyped, PagesAssumption DEF PagesInv
  <2>2. last \in Nat /\ last <= Len(turns)
    BY <2>1
  <2>3. first \in Nat \ {0} /\ first <= last + 1
    BY <2>2, FirstTurn
  <2>. QED BY <2>1, <2>2, <2>3
<1>2. TurnsFromMessages(Messages(first, last, late)) = Wholes(first, last)
  <2> HIDE DEF first
  <2>. QED BY <1>1, PageTurns DEF Wholes
<1>3. /\ answer' = fit /\ UNCHANGED turns
      /\ reading' = [from EXCEPT !.before = first - 1, !.shown = @ \cup seen,
                                 !.marked = @ \cup told]
  <2>1. LET f == FitThreadPayload(TurnsFromMessages(Messages(first, last, late)))
        IN  /\ answer' = f /\ UNCHANGED turns
            /\ reading' = [from EXCEPT !.before = first - 1,
                  !.shown = @ \cup {i \in first .. last : Contains(f.turns, Whole(i))},
                  !.marked = @ \cup (IF f.truncated THEN first .. last ELSE {})]
    BY DEF Page
  <2> HIDE DEF first
  <2>. QED BY <1>2, <2>1
<1> HIDE DEF first
<1>4. \A i \in first .. last : i \in seen \cup told
  <2> DEFINE T == Wholes(first, last)
             n == last - first + 1
             A == {Whole(i) : i \in first .. last}
  <2>1. n \in Nat
    BY <1>1
  <2>2. \A i \in 1 .. n : first + i - 1 \in first .. last
    BY <1>1
  <2>3. T \in [1 .. n -> A]
    <3> HIDE DEF n
    <3>1. T = [i \in 1 .. n |-> Whole(first + i - 1)]
      BY DEF Wholes, n
    <3>. QED BY <2>2, <3>1
  <2>4. fit.truncated = TRUE \/ fit.turns = T
    <3> HIDE DEF T, n, A
    <3>. QED BY <2>1, <2>3, FitFacts DEF T
  <2>5. ASSUME NEW i \in first .. last PROVE Contains(T, Whole(i))
    <3> DEFINE k == i - first + 1
    <3>1. k \in 1 .. n /\ first + k - 1 = i /\ n \in Nat
      BY <1>1
    <3>2. T[k] = Whole(i) /\ Len(T) = n
      <4> HIDE DEF k, n
      <4>1. T = [j \in 1 .. n |-> Whole(first + j - 1)]
        BY DEF Wholes, n
      <4> HIDE DEF T
      <4>. QED BY <3>1, <4>1
    <3> HIDE DEF T, k, n
    <3>. QED BY <3>1, <3>2 DEF Contains
  <2> HIDE DEF T, fit
  <2>. QED BY <2>4, <2>5
<1>5. seen \subseteq first .. last /\ told \subseteq first .. last
  OBVIOUS
<1> HIDE DEF seen, told
<1>6. first .. last \subseteq 1 .. MaxTurns /\ first - 1 \in 0 .. MaxTurns
  BY <1>1
<1>7. /\ reading' \in Reading /\ reading'.total = from.total /\ reading'.before = first - 1
      /\ reading'.shown = from.shown \cup seen /\ reading'.marked = from.marked \cup told
  BY <1>3, <1>5, <1>6 DEF Reading
<1>8. ReadSoFar'
  <2>1. first - 1 <= from.total /\ from.total \in Nat
    BY <1>1 DEF Reading
  <2>2. ASSUME NEW i \in (((first - 1) + 1) .. from.total) \ (from.shown \cup seen)
        PROVE  i \in from.marked \cup told
    <3>1. i \in first .. last \/ i \in (last + 1) .. from.total
      BY <1>1, <2>1
    <3>. QED BY <1>4, <2>2, <3>1
  <2>. QED BY <1>3, <1>7, <2>1, <2>2 DEF ReadSoFar
<1>9. Answered'
  <2>1. Wholes(first, last)' = Wholes(first, last)
    BY <1>3 DEF Wholes, Whole
  <2>2. answer' = FitThreadPayload(Wholes(first, last)')
    BY <1>3, <2>1
  <2> HIDE DEF fit
  <2>. QED BY <1>1, <1>3, <2>2 DEF Answered
<1>. QED BY <1>3, <1>8, <1>9 DEF PagesInv

LEMMA PagesInvStarts == PagesInit => PagesInv
<1> SUFFICES ASSUME PagesInit PROVE PagesInv
  OBVIOUS
<1>1. turns = <<>> /\ turns \in Seq([user : Prompts, says : Outputs]) /\ Len(turns) = 0
  BY DEF PagesInit
<1>2. MaxTurns \in Nat
  BY PagesAssumption
<1>3. ReadSoFar
  BY <1>1, <1>2 DEF PagesInit, Idle, ReadSoFar, Reading
<1>. QED BY <1>1, <1>2, <1>3 DEF PagesInit, PagesInv, Answered

\* A new turn leaves every page that was read as it was.
LEMMA NewTurnKeeps ==
  ASSUME PagesInv, NEW user \in Prompts, NEW says \in Outputs, NewTurn(user, says)
  PROVE  PagesInv'
<1> DEFINE A == [user : Prompts, says : Outputs]
           new == [user |-> user, says |-> says]
<1>1. /\ turns \in Seq(A) /\ new \in A /\ turns' = Append(turns, new)
      /\ UNCHANGED <<reading, answer>> /\ Len(turns) < MaxTurns /\ MaxTurns \in Nat
  BY PagesAssumption DEF PagesInv, NewTurn
<1> HIDE DEF A, new
<1>2. /\ turns' \in Seq(A) /\ Len(turns) \in Nat /\ Len(turns') = Len(turns) + 1
      /\ \A i \in 1 .. Len(turns) : turns'[i] = turns[i]
  BY <1>1
<1>3. Len(turns') <= MaxTurns
  BY <1>1, <1>2
<1>4. ReadSoFar'
  BY <1>1, <1>2 DEF PagesInv, ReadSoFar, Reading
<1>5. Answered'
  <2>1. CASE answer = NoAnswer
    BY <1>1, <2>1 DEF Answered
  <2>2. ASSUME NEW first \in Nat \ {0}, NEW last \in 0 .. Len(turns), first <= last + 1,
               answer = FitThreadPayload(Wholes(first, last))
        PROVE  Answered'
    <3>1. \A i \in 1 .. (last - first + 1) : first + i - 1 \in 1 .. Len(turns)
      BY <1>2
    <3>2. \A i \in 1 .. (last - first + 1) : Whole(first + i - 1)' = Whole(first + i - 1)
      BY <1>2, <3>1 DEF Whole
    <3>3. Wholes(first, last)' = Wholes(first, last)
      BY <3>2 DEF Wholes
    <3>4. last \in 0 .. Len(turns')
      BY <1>2
    <3>. QED BY <1>1, <2>2, <3>3, <3>4 DEF Answered
  <2>. QED BY <2>1, <2>2 DEF PagesInv, Answered
<1>. QED BY <1>2, <1>3, <1>4, <1>5 DEF PagesInv, A

LEMMA PagesInvKept == PagesInv /\ [PagesNext]_pageVars => PagesInv'
<1> SUFFICES ASSUME PagesInv, [PagesNext]_pageVars PROVE PagesInv'
  OBVIOUS
<1>1. ASSUME NEW user \in Prompts, NEW says \in Outputs, NewTurn(user, says) PROVE PagesInv'
  BY <1>1, NewTurnKeeps
<1>2. ASSUME NEW limit \in TurnLimits, NEW late \in BOOLEAN, ReadLatest(limit, late)
      PROVE  PagesInv'
  <2> DEFINE last == Len(turns)
             from == [Idle EXCEPT !.total = last]
  <2>1. last \in Nat /\ last <= MaxTurns /\ MaxTurns \in Nat
    BY TurnsTyped, PagesAssumption DEF PagesInv
  <2>2. last \in 0 .. Len(turns) /\ Page(last, limit, late, from)
    BY <1>2, <2>1 DEF ReadLatest
  <2> HIDE DEF last
  <2>3. from \in Reading /\ from.total = last /\ from.shown = {} /\ from.marked = {}
    BY <2>1 DEF Idle, Reading
  <2> HIDE DEF from
  <2>4. ((last + 1) .. from.total) \ from.shown \subseteq from.marked
    BY <2>1, <2>3
  <2>5. from.total <= Len(turns) /\ last <= from.total
    BY <2>1, <2>3 DEF last
  <2>. QED BY <2>2, <2>3, <2>4, <2>5, PageKeeps
<1>3. ASSUME NEW limit \in TurnLimits, NEW late \in BOOLEAN, ReadOlder(limit, late)
      PROVE  PagesInv'
  <2> DEFINE last == reading.before
  <2>1. /\ last \in 0 .. MaxTurns /\ reading \in Reading /\ reading.total \in 0 .. MaxTurns
        /\ reading.total <= Len(turns) /\ last <= reading.total
        /\ ((last + 1) .. reading.total) \ reading.shown \subseteq reading.marked
    BY DEF PagesInv, ReadSoFar, Reading
  <2>2. Len(turns) \in Nat /\ MaxTurns \in Nat
    BY TurnsTyped, PagesAssumption DEF PagesInv
  <2>3. last \in 0 .. Len(turns)
    BY <2>1, <2>2
  <2>4. Page(last, limit, late, reading)
    BY <1>3 DEF ReadOlder
  <2> HIDE DEF last
  <2>. QED BY <2>1, <2>3, <2>4, PageKeeps
<1>4. CASE UNCHANGED pageVars
  BY <1>4 DEF pageVars, PagesInv, ReadSoFar, Reading, Answered, Wholes, Whole
<1>. QED BY <1>1, <1>2, <1>3, <1>4 DEF PagesNext

LEMMA PagesInvariant == PagesSpec => []PagesInv
BY PagesInvStarts, PagesInvKept, PTL DEF PagesSpec

\* Paging to the beginning loses no turn without a word of it: when the cursor of
\* handle_t3_thread is back at the first turn, every turn the thread had was shown word
\* for word or was on a page marked as truncated, however the pages were cut.
THEOREM UnreadIsTold == PagesSpec => []UnreadIsMarked
<1>1. PagesInv => UnreadIsMarked
  BY DEF PagesInv, ReadSoFar, Reading, UnreadIsMarked
<1>. QED BY <1>1, PagesInvariant, PTL

-----------------------------------------------------------------------------
(* An answer that is cut *)

LEMMA WidthTyped ==
  ASSUME NEW text \in Seq(Nat)
  PROVE  Width(text) \in Nat
<1> DEFINE n == Len(text)
<1>1. PICK f : /\ f[0] = 0 /\ Width(text) = f[n]
               /\ \A k \in 1 .. n : f[k] = f[k - 1] + text[k]
  BY WidthSteps
<1>2. n \in Nat /\ \A k \in 1 .. n : text[k] \in Nat
  OBVIOUS
<1> DEFINE S == {k \in 0 .. n : f[k] \in Nat}
<1> HIDE DEF n
<1>3. 0 \in S /\ S \in SUBSET (0 .. n)
  BY <1>1, <1>2
<1>4. ASSUME NEW k \in S, k < n PROVE k + 1 \in S
  <2>1. k + 1 \in 1 .. n /\ (k + 1) - 1 = k
    BY <1>2, <1>4
  <2>2. f[k + 1] = f[(k + 1) - 1] + text[k + 1] /\ f[k] \in Nat /\ text[k + 1] \in Nat
    BY <1>1, <1>2, <2>1
  <2>3. f[k + 1] \in Nat
    BY <2>1, <2>2
  <2>. QED BY <2>1, <2>3
<1>5. n \in S
  <2>1. n \in 0 .. n
    BY <1>2
  <2> HIDE DEF S
  <2>. QED BY <1>2, <1>3, <1>4, <2>1, UpTo
<1>. QED BY <1>1, <1>5

\* A longer prefix is at least as wide.
LEMMA WidthGrows ==
  ASSUME NEW text \in Seq(Nat), NEW k \in 0 .. Len(text), NEW m \in 0 .. Len(text), k <= m
  PROVE  Width(Prefix(text, k)) <= Width(Prefix(text, m))
<1> DEFINE p == Prefix(text, k)
           q == Prefix(text, m)
<1>1. /\ p \in Seq(Nat) /\ Len(p) = k /\ q \in Seq(Nat) /\ Len(q) = m /\ k \in Nat /\ m \in Nat
      /\ \A i \in 1 .. m : q[i] \in Nat
      /\ \A i \in 1 .. k : p[i] = q[i]
  BY SMTT(60) DEF Prefix
<1> HIDE DEF p, q
<1>2. PICK f : /\ f[0] = 0 /\ Width(p) = f[Len(p)]
               /\ \A i \in 1 .. Len(p) : f[i] = f[i - 1] + p[i]
  BY <1>1, WidthSteps
<1>3. PICK g : /\ g[0] = 0 /\ Width(q) = g[Len(q)]
               /\ \A i \in 1 .. Len(q) : g[i] = g[i - 1] + q[i]
  BY <1>1, WidthSteps
<1>4. f[k] = g[k]
  <2>1. \A i \in 1 .. k : i \in 1 .. m
    BY <1>1
  <2>2. \A i \in 1 .. k : f[i - 1] = g[i - 1] => f[i] = g[i]
    BY <1>1, <1>2, <1>3, <2>1
  <2>3. f[0] = g[0] /\ k \in Nat
    BY <1>1, <1>2, <1>3
  <2>. QED BY <2>2, <2>3, SameSteps
<1> DEFINE S == {i \in 0 .. m : g[i] \in Nat /\ (k <= i => g[k] \in Nat /\ g[k] <= g[i])}
<1>5. 0 \in S /\ S \in SUBSET (0 .. m)
  BY <1>1, <1>3
<1>6. ASSUME NEW i \in S, i < m PROVE i + 1 \in S
  <2>1. i + 1 \in 1 .. m /\ (i + 1) - 1 = i
    BY <1>1, <1>6
  <2>2. g[i + 1] = g[i] + q[i + 1] /\ q[i + 1] \in Nat /\ g[i] \in Nat
    <3>1. \A j \in 1 .. m : g[j] = g[j - 1] + q[j]
      BY <1>1, <1>3
    <3>2. g[i + 1] = g[(i + 1) - 1] + q[i + 1]
      BY <2>1, <3>1
    <3>3. q[i + 1] \in Nat
      BY <1>1, <2>1
    <3>. QED BY <2>1, <3>2, <3>3
  <2>3. CASE k <= i
    BY <2>1, <2>2, <2>3
  <2>4. CASE ~ (k <= i)
    <3>1. k <= i + 1 => k = i + 1
      BY <2>1, <2>4
    <3>. QED BY <2>1, <2>2, <3>1, SMTT(60)
  <2>. QED BY <2>3, <2>4
<1>7. m \in S
  <2>1. m \in 0 .. m
    BY <1>1
  <2> HIDE DEF S
  <2>. QED BY <1>1, <1>5, <1>6, <2>1, UpTo
<1>. QED BY <1>1, <1>2, <1>3, <1>4, <1>7 DEF p, q

Counted == [id : Nat, user : Seq(Nat), out : Seq(Nat)]

\* The base and a step of Size.
Opening(cut) == Frame + (IF cut THEN Mark ELSE 0)
Grown(sum, t) == sum + Width(t.user) + Width(t.out)

\* The size of an answer, turn by turn.
LEMMA SizeSteps ==
  ASSUME NEW ts \in Seq(Counted), NEW cut \in BOOLEAN
  PROVE  \E f : /\ f[0] = Opening(cut) /\ Size(ts, cut) = f[Len(ts)]
                /\ \A k \in 1 .. Len(ts) : f[k] = Grown(f[k - 1], ts[k])
<1> DEFINE n == Len(ts)
           Value(h, s) == IF s = {} THEN Opening(cut)
                          ELSE Grown(h[s \ {Max(s)}], ts[Max(s)])
           Values(h) == [s \in SUBSET DOMAIN ts |-> Value(h, s)]
           iter == CHOOSE h : h = Values(h)
           step == [k \in 1 .. n |-> [a \in Nat |-> Grown(a, ts[k])]]
<1>1. n \in Nat /\ DOMAIN ts = 1 .. n /\ Opening(cut) \in Nat
  BY LimitsAssumption DEF Opening
<1>2. step \in [1 .. n -> [Nat -> Nat]]
  <2>1. \A k \in 1 .. n : Width(ts[k].user) \in Nat /\ Width(ts[k].out) \in Nat
    <3>1. \A k \in 1 .. n : ts[k] \in Counted
      OBVIOUS
    <3>. QED BY <3>1, WidthTyped DEF Counted
  <2>. QED BY <2>1 DEF Grown
<1>3. \E h : h = Values(h)
  <2>1. PICK h \in [SUBSET (1 .. n) -> Nat] :
          \A s \in SUBSET (1 .. n) :
            h[s] = IF s = {} THEN Opening(cut) ELSE step[Max(s)][h[s \ {Max(s)}]]
    <3> HIDE DEF n, step
    <3>1. Foldable(n, Nat, Opening(cut), step)
      BY <1>1, <1>2, FoldExists
    <3>. QED BY <3>1 DEF Foldable
  <2>2. \A s \in SUBSET (1 .. n) : s # {} => Max(s) \in 1 .. n /\ h[s \ {Max(s)}] \in Nat
    BY <1>1, MaxIn
  <2>3. \A s \in SUBSET (1 .. n) : h[s] = Value(h, s)
    BY <2>1, <2>2
  <2> HIDE DEF Value
  <2>4. h = Values(h)
    BY <1>1, <2>3
  <2>. QED BY <2>4
<1>4. iter = Values(iter)
  <2> HIDE DEF Values
  <2>. QED BY <1>3
<1>5. Size(ts, cut) = iter[1 .. n]
  BY <1>1 DEF Size, Opening, Grown, FoldLeft, MapThenFoldSet
<1>6. \A s \in SUBSET (1 .. n) : iter[s] = Value(iter, s)
  <2> HIDE DEF iter, Value
  <2>. QED BY <1>1, <1>4
<1> HIDE DEF iter
<1>7. Ordered(iter, n)
  <2> HIDE DEF n
  <2>. QED BY <1>1, InOrder
<1>8. PICK f : /\ f[0] = iter[{}] /\ f[n] = iter[1 .. n]
               /\ \A k \in 1 .. n : /\ 1 .. k \in SUBSET (1 .. n) /\ 1 .. k # {}
                                    /\ Max(1 .. k) = k
                                    /\ f[k] = iter[1 .. k] /\ f[k - 1] = iter[(1 .. k) \ {k}]
  BY <1>7 DEF Ordered
<1>9. f[0] = Opening(cut)
  <2>1. {} \in SUBSET (1 .. n)
    OBVIOUS
  <2>. QED BY <1>6, <1>8, <2>1
<1>10. \A k \in 1 .. n : f[k] = Grown(f[k - 1], ts[k])
  <2> TAKE k \in 1 .. n
  <2>1. iter[1 .. k] = Value(iter, 1 .. k)
    <3> HIDE DEF Value
    <3>. QED BY <1>6, <1>8
  <2> HIDE DEF n
  <2>. QED BY <1>8, <2>1
<1>. QED BY <1>5, <1>8, <1>9, <1>10

\* The size of one turn, and of the same turns with the mark.
LEMMA SizeOfOne ==
  ASSUME NEW t \in Counted, NEW cut \in BOOLEAN
  PROVE  /\ Size(<<t>>, cut) = Opening(cut) + Width(t.user) + Width(t.out)
         /\ Opening(cut) \in Nat /\ Width(t.user) \in Nat /\ Width(t.out) \in Nat
<1> DEFINE ts == <<t>>
<1>1. ts \in Seq(Counted) /\ Len(ts) = 1 /\ ts[1] = t
  OBVIOUS
<1> HIDE DEF ts
<1>2. PICK f : /\ f[0] = Opening(cut) /\ Size(ts, cut) = f[Len(ts)]
               /\ \A k \in 1 .. Len(ts) : f[k] = Grown(f[k - 1], ts[k])
  BY <1>1, SizeSteps
<1>3. f[1] = Grown(f[1 - 1], ts[1]) /\ 1 - 1 = 0
  BY <1>1, <1>2
<1>4. Size(ts, cut) = Grown(Opening(cut), t)
  BY <1>1, <1>2, <1>3
<1>5. Opening(cut) \in Nat
  BY LimitsAssumption DEF Opening
<1>6. Width(t.user) \in Nat /\ Width(t.out) \in Nat
  BY WidthTyped DEF Counted
<1>. QED BY <1>4, <1>5, <1>6 DEF ts, Grown

LEMMA MarkGrows ==
  ASSUME NEW ts \in Seq(Counted), Fits(ts, TRUE)
  PROVE  Fits(ts, FALSE)
<1> DEFINE n == Len(ts)
<1>1. n \in Nat /\ \A k \in 1 .. n : ts[k] \in Counted
  OBVIOUS
<1> HIDE DEF n
<1> DEFINE a == Opening(TRUE)
           b == Opening(FALSE)
           x == Size(ts, TRUE)
           y == Size(ts, FALSE)
<1>2. PICK f : /\ f[0] = a /\ x = f[n]
               /\ \A k \in 1 .. n : f[k] = Grown(f[k - 1], ts[k])
  BY SizeSteps DEF n
<1>3. PICK g : /\ g[0] = b /\ y = g[n]
               /\ \A k \in 1 .. n : g[k] = Grown(g[k - 1], ts[k])
  BY SizeSteps DEF n
<1>4. a \in Nat /\ b \in Nat /\ b <= a
  BY LimitsAssumption DEF Opening
<1>9. x <= OUTPUT_CHAR_LIMIT /\ OUTPUT_CHAR_LIMIT \in Nat
  BY LimitsAssumption DEF Fits
<1> HIDE DEF a, b, x, y
<1> DEFINE S == {k \in 0 .. n : f[k] \in Nat /\ g[k] \in Nat /\ g[k] <= f[k]}
<1>5. 0 \in S /\ S \in SUBSET (0 .. n)
  BY <1>1, <1>2, <1>3, <1>4
<1>6. ASSUME NEW k \in S, k < n PROVE k + 1 \in S
  <2>1. k + 1 \in 1 .. n /\ (k + 1) - 1 = k /\ k + 1 \in 0 .. n
    BY <1>1, <1>6
  <2>2. f[k + 1] = Grown(f[(k + 1) - 1], ts[k + 1])
        /\ g[k + 1] = Grown(g[(k + 1) - 1], ts[k + 1])
    BY <1>2, <1>3, <2>1
  <2>3. Width(ts[k + 1].user) \in Nat /\ Width(ts[k + 1].out) \in Nat
    <3>1. ts[k + 1] \in Counted
      BY <1>1, <2>1
    <3>2. ts[k + 1].user \in Seq(Nat) /\ ts[k + 1].out \in Seq(Nat)
      BY <3>1 DEF Counted
    <3>. QED BY <3>2, WidthTyped
  <2>4. f[k + 1] \in Nat /\ g[k + 1] \in Nat /\ g[k + 1] <= f[k + 1]
    BY <2>1, <2>2, <2>3, SMTT(60) DEF Grown
  <2>. QED BY <2>1, <2>4
<1>7. n \in S
  <2>1. n \in 0 .. n
    BY <1>1
  <2> HIDE DEF S
  <2>. QED BY <1>1, <1>5, <1>6, <2>1, UpTo
<1>8. y <= OUTPUT_CHAR_LIMIT
  BY <1>2, <1>3, <1>7, <1>9
<1>. QED BY <1>8 DEF Fits, y

\* If a cut fits, so does a shorter one.
LEMMA ShorterFits ==
  ASSUME NEW t \in Counted, NEW k \in 0 .. Len(t.out), NEW m \in 0 .. Len(t.out), k <= m,
         Fits(CutTo(t, m), TRUE)
  PROVE  Fits(CutTo(t, k), TRUE)
<1> DEFINE a == [t EXCEPT !.out = Prefix(@, k)]
           b == [t EXCEPT !.out = Prefix(@, m)]
<1>1. t.out \in Seq(Nat) /\ Len(t.out) \in Nat
  BY DEF Counted
<1>2. Prefix(t.out, k) \in Seq(Nat) /\ Prefix(t.out, m) \in Seq(Nat)
  BY <1>1 DEF Prefix
<1>3. /\ a \in Counted /\ b \in Counted /\ a.user = b.user
      /\ a.out = Prefix(t.out, k) /\ b.out = Prefix(t.out, m)
  BY <1>2 DEF Counted
<1>4. CutTo(t, k) = <<a>> /\ CutTo(t, m) = <<b>>
  BY DEF CutTo
<1> HIDE DEF a, b
<1>5. Width(a.out) <= Width(b.out)
  BY <1>1, <1>3, WidthGrows
<1>6. /\ Size(<<a>>, TRUE) = Opening(TRUE) + Width(a.user) + Width(a.out)
      /\ Opening(TRUE) \in Nat /\ Width(a.user) \in Nat /\ Width(a.out) \in Nat
  BY <1>3, SizeOfOne
<1>7. Size(<<b>>, TRUE) = Opening(TRUE) + Width(a.user) + Width(b.out) /\ Width(b.out) \in Nat
  BY <1>3, SizeOfOne
<1> DEFINE x == Size(<<a>>, TRUE)
           y == Size(<<b>>, TRUE)
           o == Opening(TRUE)
<1>8. y <= OUTPUT_CHAR_LIMIT /\ OUTPUT_CHAR_LIMIT \in Nat
  BY <1>4, LimitsAssumption DEF Fits
<1>9. x <= OUTPUT_CHAR_LIMIT
  <2>1. /\ x = o + Width(a.user) + Width(a.out) /\ y = o + Width(a.user) + Width(b.out)
        /\ o \in Nat
    BY <1>6, <1>7
  <2> HIDE DEF x, y, o
  <2>. QED BY <1>5, <1>6, <1>7, <1>8, <2>1
<1>. QED BY <1>4, <1>9 DEF Fits

\* What the binary search leaves: the greatest length from lo to hi that fits, or the
\* best there was.
Searches(t) == [lo : 0 .. (Len(t.out) + 1), hi : -1 .. Len(t.out), best : 0 .. Len(t.out)]

Found(t, s, n) ==
  \/ /\ n = s.best /\ \A k \in s.lo .. s.hi : ~ Fits(CutTo(t, k), TRUE)
  \/ /\ n \in s.lo .. s.hi /\ Fits(CutTo(t, n), TRUE)
     /\ \A k \in s.lo .. s.hi : k > n => ~ Fits(CutTo(t, k), TRUE)

LEMMA SearchStep ==
  ASSUME NEW t \in Counted, NEW s \in Searches(t), ~ (s.lo > s.hi)
  PROVE  LET mid == (s.lo + s.hi) \div 2
             up == [s EXCEPT !.lo = mid + 1, !.best = mid]
             down == [s EXCEPT !.hi = mid - 1]
         IN  /\ up \in Searches(t) /\ up.hi - up.lo < s.hi - s.lo
             /\ down \in Searches(t) /\ down.hi - down.lo < s.hi - s.lo
             /\ Fits(CutTo(t, mid), TRUE) => \A n : Found(t, up, n) => Found(t, s, n)
             /\ ~ Fits(CutTo(t, mid), TRUE) => \A n : Found(t, down, n) => Found(t, s, n)
<1> DEFINE mid == (s.lo + s.hi) \div 2
           up == [s EXCEPT !.lo = mid + 1, !.best = mid]
           down == [s EXCEPT !.hi = mid - 1]
           P(k) == Fits(CutTo(t, k), TRUE)
           top == Len(t.out)
           lo == s.lo
           hi == s.hi
<1>1. /\ top \in Nat /\ lo \in 0 .. (top + 1) /\ hi \in -1 .. top /\ s.best \in 0 .. top
      /\ lo <= hi
  BY DEF Counted, Searches
<1>2. mid \in lo .. hi
  BY <1>1
<1>3. \A k \in lo .. hi : k \in 0 .. top
  BY <1>1
<1>4. \A k \in 0 .. top, m \in 0 .. top : k <= m /\ P(m) => P(k)
  BY ShorterFits
<1> HIDE DEF mid
<1>5. /\ mid \in 0 .. top /\ mid + 1 \in 0 .. (top + 1) /\ mid - 1 \in -1 .. top
      /\ lo \in Int /\ hi \in Int /\ mid <= hi /\ lo <= mid
  BY <1>1, <1>2, <1>3
<1>6. /\ up \in Searches(t) /\ up.lo = mid + 1 /\ up.hi = hi /\ up.best = mid
      /\ down \in Searches(t) /\ down.lo = lo /\ down.hi = mid - 1 /\ down.best = s.best
  BY <1>5 DEF Searches
<1>7. \A x, n : Found(t, x, n) <=>
        \/ n = x.best /\ \A k \in x.lo .. x.hi : ~ P(k)
        \/ n \in x.lo .. x.hi /\ P(n) /\ \A k \in x.lo .. x.hi : k > n => ~ P(k)
  BY DEF Found
<1> HIDE DEF P, top, up, down, lo, hi
<1>8. ASSUME P(mid), NEW n, Found(t, up, n) PROVE Found(t, s, n)
  <2>1. \A k \in lo .. hi : k > mid => k \in (mid + 1) .. hi
    BY <1>2, <1>5
  <2>2. CASE n = mid /\ \A k \in (mid + 1) .. hi : ~ P(k)
    BY <1>2, <1>7, <1>8, <2>1, <2>2 DEF lo, hi
  <2>3. CASE /\ n \in (mid + 1) .. hi /\ P(n)
             /\ \A k \in (mid + 1) .. hi : k > n => ~ P(k)
    <3>1. n \in lo .. hi /\ \A k \in lo .. hi : k > n => k > mid
      BY <1>2, <1>5, <2>3
    <3>. QED BY <1>7, <2>1, <2>3, <3>1 DEF lo, hi
  <2>. QED BY <1>6, <1>7, <1>8, <2>2, <2>3
<1>9. ASSUME ~ P(mid), NEW n, Found(t, down, n) PROVE Found(t, s, n)
  <2>1. \A k \in lo .. hi : k \in lo .. (mid - 1) \/ mid <= k
    BY <1>2, <1>5
  <2>2. \A k \in lo .. hi : mid <= k => ~ P(k)
    BY <1>3, <1>4, <1>5, <1>9
  <2>3. \A k \in lo .. (mid - 1) : k \in lo .. hi
    BY <1>2, <1>5
  <2>4. \/ n = s.best /\ \A k \in lo .. (mid - 1) : ~ P(k)
        \/ n \in lo .. (mid - 1) /\ P(n) /\ \A k \in lo .. (mid - 1) : k > n => ~ P(k)
    BY <1>6, <1>7, <1>9
  <2>5. \/ n = s.best /\ \A k \in lo .. hi : ~ P(k)
        \/ n \in lo .. hi /\ P(n) /\ \A k \in lo .. hi : k > n => ~ P(k)
    BY <2>1, <2>2, <2>3, <2>4
  <2>. QED BY <1>7, <2>5 DEF lo, hi
<1>10. up.hi - up.lo < hi - lo /\ down.hi - down.lo < hi - lo
  BY <1>5, <1>6
<1>. QED BY <1>6, <1>8, <1>9, <1>10 DEF mid, P, up, down, lo, hi

\* Exactly one length is the one to be found.
LEMMA FoundOne ==
  ASSUME NEW t \in Counted, NEW s \in Searches(t)
  PROVE  /\ \E n : Found(t, s, n)
         /\ \A n, m : Found(t, s, n) /\ Found(t, s, m) => n = m
         /\ s.lo > s.hi => Found(t, s, s.best)
<1> DEFINE P(k) == Fits(CutTo(t, k), TRUE)
           lo == s.lo
           hi == s.hi
           S == {k \in lo .. hi : P(k)}
           top == Len(t.out)
<1>1. top \in Nat /\ lo \in 0 .. (top + 1) /\ hi \in -1 .. top
  BY DEF Counted, Searches
<1>2. \A n : Found(t, s, n) <=>
        \/ n = s.best /\ \A k \in lo .. hi : ~ P(k)
        \/ n \in lo .. hi /\ P(n) /\ \A k \in lo .. hi : k > n => ~ P(k)
  BY DEF Found
<1> HIDE DEF P, lo, hi
<1>3. \E n : Found(t, s, n)
  <2>1. CASE S = {}
    BY <1>2, <2>1
  <2>2. CASE S # {}
    <3>1. S \in SUBSET (0 .. top)
      BY <1>1
    <3>2. Max(S) \in S /\ \A k \in S : k <= Max(S)
      <4> HIDE DEF S, top
      <4>. QED BY <1>1, <2>2, <3>1, MaxOfRange
    <3>3. PICK n : n = Max(S)
      OBVIOUS
    <3>4. \A k \in lo .. hi : k > n => ~ P(k)
      <4>1. \A k \in lo .. hi : P(k) => k <= n
        BY <3>2, <3>3
      <4>2. n \in lo .. hi
        BY <3>2, <3>3
      <4>. QED BY <1>1, <4>1, <4>2
    <3>5. n \in lo .. hi /\ P(n)
      BY <3>2, <3>3
    <3>. QED BY <1>2, <3>4, <3>5
  <2>. QED BY <2>1, <2>2
<1>4. ASSUME NEW n, NEW m, Found(t, s, n), Found(t, s, m) PROVE n = m
  <2>1. CASE \A k \in lo .. hi : ~ P(k)
    BY <1>2, <1>4, <2>1
  <2>2. CASE ~ \A k \in lo .. hi : ~ P(k)
    <3>1. /\ n \in lo .. hi /\ P(n) /\ \A k \in lo .. hi : k > n => ~ P(k)
          /\ m \in lo .. hi /\ P(m) /\ \A k \in lo .. hi : k > m => ~ P(k)
      BY <1>2, <1>4, <2>2
    <3>2. ~ (n > m) /\ ~ (m > n)
      BY <3>1
    <3>. QED BY <1>1, <3>1, <3>2
  <2>. QED BY <2>1, <2>2
<1>5. ASSUME lo > hi PROVE Found(t, s, s.best)
  <2>1. lo .. hi = {}
    BY <1>1, <1>5
  <2>. QED BY <1>2, <2>1
<1>. QED BY <1>3, <1>4, <1>5 DEF lo, hi

\* The binary search of _fit_thread_payload finds the longest output that fits.
LEMMA LongestFitFacts ==
  ASSUME NEW t \in Counted
  PROVE  /\ LongestFit(t) \in 0 .. Len(t.out)
         /\ Fits(CutTo(t, LongestFit(t)), TRUE) \/ LongestFit(t) = 0
         /\ \A k \in 0 .. Len(t.out) : k > LongestFit(t) => ~ Fits(CutTo(t, k), TRUE)
<1> DEFINE top == Len(t.out)
           D == [lo : 0 .. (top + 1), hi : -1 .. top, best : 0 .. top]
           mid(s) == (s.lo + s.hi) \div 2
           up(s) == [s EXCEPT !.lo = mid(s) + 1, !.best = mid(s)]
           down(s) == [s EXCEPT !.hi = mid(s) - 1]
           Value(h, s) == IF s.lo > s.hi THEN s.best
                          ELSE IF Fits(CutTo(t, mid(s)), TRUE) THEN h[up(s)] ELSE h[down(s)]
           Values(h) == [s \in D |-> Value(h, s)]
           search == CHOOSE h : h = Values(h)
           start == [lo |-> 0, hi |-> top, best |-> 0]
<1>1. top \in Nat /\ D = Searches(t)
  BY DEF Counted, Searches
<1>2. LongestFit(t) = search[start]
  BY DEF LongestFit
<1> HIDE DEF top, D
<1>3. \A s \in D : ~ (s.lo > s.hi) =>
        /\ up(s) \in D /\ up(s).hi - up(s).lo < s.hi - s.lo
        /\ down(s) \in D /\ down(s).hi - down(s).lo < s.hi - s.lo
        /\ Fits(CutTo(t, mid(s)), TRUE) => \A n : Found(t, up(s), n) => Found(t, s, n)
        /\ ~ Fits(CutTo(t, mid(s)), TRUE) => \A n : Found(t, down(s), n) => Found(t, s, n)
  BY <1>1, SearchStep
<1>4. \A s \in D : /\ \E n : Found(t, s, n)
                   /\ \A n, m : Found(t, s, n) /\ Found(t, s, m) => n = m
                   /\ s.lo > s.hi => Found(t, s, s.best)
  BY <1>1, FoundOne
<1> HIDE DEF up, down, mid
<1>5. \E h : h = Values(h)
  <2> DEFINE h == [s \in D |-> CHOOSE n : Found(t, s, n)]
  <2>1. \A s \in D : h[s] = CHOOSE n : Found(t, s, n)
    OBVIOUS
  <2>2. h = [s \in D |-> h[s]]
    OBVIOUS
  <2> HIDE DEF h
  <2>3. \A s \in D : Found(t, s, h[s])
    BY <1>4, <2>1
  <2>4. ASSUME NEW s \in D PROVE h[s] = Value(h, s)
    <3>1. Found(t, s, Value(h, s))
      <4>1. CASE s.lo > s.hi
        BY <1>4, <4>1
      <4>2. CASE ~ (s.lo > s.hi) /\ Fits(CutTo(t, mid(s)), TRUE)
        BY <1>3, <2>3, <4>2
      <4>3. CASE ~ (s.lo > s.hi) /\ ~ Fits(CutTo(t, mid(s)), TRUE)
        BY <1>3, <2>3, <4>3
      <4>. QED BY <4>1, <4>2, <4>3
    <3> HIDE DEF Value
    <3>. QED BY <1>4, <2>3, <3>1
  <2> HIDE DEF Value
  <2>5. h = Values(h)
    BY <2>2, <2>4
  <2>. QED BY <2>5
<1>6. search = Values(search)
  <2> HIDE DEF Values
  <2>. QED BY <1>5
<1> HIDE DEF search
<1>7. \A s \in D : search[s] = Value(search, s)
  <2> HIDE DEF Value
  <2>. QED BY <1>6
<1>8. \A s \in D : s.lo \in 0 .. (top + 1) /\ s.hi \in -1 .. top /\ s.best \in 0 .. top
  BY DEF D
<1> DEFINE N == top + 1
           S == {k \in 0 .. N : \A s \in D : s.hi - s.lo < k => Found(t, s, search[s])}
<1>9. 0 \in S /\ S \in SUBSET (0 .. N)
  <2>1. \A s \in D : s.hi - s.lo < 0 => s.lo > s.hi
    BY <1>1, <1>8
  <2>2. \A s \in D : s.hi - s.lo < 0 => Found(t, s, search[s])
    BY <1>4, <1>7, <2>1
  <2>3. 0 \in 0 .. N
    BY <1>1
  <2>. QED BY <2>2, <2>3
<1>10. ASSUME NEW k \in S, k < N PROVE k + 1 \in S
  <2>1. k \in Nat /\ k + 1 \in 0 .. N
    BY <1>1, <1>10
  <2>2. ASSUME NEW s \in D, s.hi - s.lo < k + 1 PROVE Found(t, s, search[s])
    <3>1. CASE s.lo > s.hi
      BY <1>4, <1>7, <3>1
    <3>2. CASE ~ (s.lo > s.hi)
      <4>1. up(s) \in D /\ down(s) \in D
        BY <1>3, <3>2
      <4>2. up(s).hi - up(s).lo < k /\ down(s).hi - down(s).lo < k
        <5>1. s.lo \in Int /\ s.hi \in Int
          BY <1>8
        <5>2. up(s).lo \in Int /\ up(s).hi \in Int /\ down(s).lo \in Int /\ down(s).hi \in Int
          BY <1>8, <4>1
        <5>3. up(s).hi - up(s).lo < s.hi - s.lo /\ down(s).hi - down(s).lo < s.hi - s.lo
          BY <1>3, <3>2
        <5>4. s.hi - s.lo < k + 1
          BY <2>2
        <5>. QED BY <2>1, <5>1, <5>2, <5>3, <5>4
      <4>3. Found(t, up(s), search[up(s)]) /\ Found(t, down(s), search[down(s)])
        BY <4>1, <4>2
      <4>4. CASE Fits(CutTo(t, mid(s)), TRUE)
        BY <1>3, <1>7, <3>2, <4>3, <4>4
      <4>5. CASE ~ Fits(CutTo(t, mid(s)), TRUE)
        BY <1>3, <1>7, <3>2, <4>3, <4>5
      <4>. QED BY <4>4, <4>5
    <3>. QED BY <3>1, <3>2
  <2>. QED BY <2>1, <2>2
<1>11. S = 0 .. N
  <2>1. N \in Nat
    BY <1>1
  <2> HIDE DEF S, N
  <2>. QED BY <1>9, <1>10, <2>1, UpTo
<1>12. start \in D /\ start.hi - start.lo = top
  BY <1>1 DEF D
<1>13. Found(t, start, search[start])
  <2>1. N \in S /\ start.hi - start.lo < N
    BY <1>1, <1>11, <1>12
  <2>. QED BY <1>12, <2>1
<1>14. start.lo = 0 /\ start.hi = top /\ start.best = 0
  OBVIOUS
<1> DEFINE n == search[start]
<1> HIDE DEF n, start
<1>15. \/ n = 0 /\ \A k \in 0 .. top : ~ Fits(CutTo(t, k), TRUE)
       \/ /\ n \in 0 .. top /\ Fits(CutTo(t, n), TRUE)
          /\ \A k \in 0 .. top : k > n => ~ Fits(CutTo(t, k), TRUE)
  BY <1>13, <1>14 DEF Found, n
<1>16. 0 \in 0 .. top
  BY <1>1
<1>. QED BY <1>2, <1>15, <1>16 DEF n, top

LEMMA WholesTyped ==
  ASSUME turns \in Seq(Kinship), NEW first \in Nat \ {0}, NEW last \in 0 .. Len(turns),
         first <= last + 1
  PROVE  /\ Wholes(first, last) \in Seq(Counted)
         /\ Wholes(first, last) \in [1 .. (last - first + 1) -> Counted]
         /\ Len(Wholes(first, last)) = last - first + 1
         /\ \A i \in 1 .. (last - first + 1) : Wholes(first, last)[i] = Whole(first + i - 1)
         /\ \A i \in first .. last : Whole(i) \in Counted /\ Whole(i).id = i
<1> DEFINE n == last - first + 1
<1>1. n \in Nat /\ Len(turns) \in Nat /\ \A i \in first .. last : i \in 1 .. Len(turns)
  OBVIOUS
<1>2. \A i \in 1 .. n : first + i - 1 \in first .. last
  BY <1>1
<1>3. \A i \in first .. last : Whole(i) \in Counted /\ Whole(i).id = i
  <2> TAKE i \in first .. last
  <2>1. i \in 1 .. Len(turns) /\ i \in Nat
    BY <1>1
  <2>2. turns[i] \in Kinship
    BY <2>1
  <2>3. turns[i].user \in Seq(Nat) /\ turns[i].says \in Seq(Seq(Nat))
    BY <2>2 DEF Kinship
  <2>4. Joined(turns[i].says) \in Seq(Nat)
    BY <2>3, JoinedTyped
  <2>. QED BY <2>1, <2>3, <2>4 DEF Whole, Counted
<1> HIDE DEF n
<1>4. Wholes(first, last) = [i \in 1 .. n |-> Whole(first + i - 1)]
  BY DEF Wholes, n
<1>5. Wholes(first, last) \in [1 .. n -> Counted]
  BY <1>2, <1>3, <1>4
<1> DEFINE T == Wholes(first, last)
<1>6. \A i \in 1 .. n : T[i] = Whole(first + i - 1)
  BY <1>4
<1> HIDE DEF T
<1>7. T \in Seq(Counted) /\ Len(T) = n
  BY <1>1, <1>5 DEF T
<1>. QED BY <1>3, <1>5, <1>6, <1>7 DEF T, n

\* A cut turn.
LEMMA CutFacts ==
  ASSUME NEW t \in Counted, NEW k \in 0 .. Len(t.out)
  PROVE  LET c == [t EXCEPT !.out = Prefix(@, k)]
         IN  /\ CutTo(t, k) = <<c>> /\ c \in Counted /\ c.id = t.id
             /\ Len(c.out) = k /\ (k = Len(t.out) => c = t)
<1> DEFINE c == [t EXCEPT !.out = Prefix(@, k)]
<1>1. t.out \in Seq(Nat) /\ Len(t.out) \in Nat
  BY DEF Counted
<1>2. /\ Prefix(t.out, k) \in Seq(Nat) /\ Len(Prefix(t.out, k)) = k
      /\ k = Len(t.out) => Prefix(t.out, k) = t.out
  BY <1>1 DEF Prefix
<1>3. c \in Counted /\ c.id = t.id /\ c.out = Prefix(t.out, k)
  BY <1>2 DEF Counted
<1>4. k = Len(t.out) => c = t
  BY <1>2 DEF Counted
<1>. QED BY <1>2, <1>3, <1>4 DEF CutTo

\* The turns of an answer are turns of the page.
LEMMA AnswerFacts ==
  ASSUME PagesInv, answer # NoAnswer
  PROVE  \E first \in Nat \ {0}, last \in 0 .. Len(turns) :
           LET n == last - first + 1
               T == Wholes(first, last)
               newest(k) == SubSeq(T, n - k + 1, n)
               t == Whole(last)
               m == LongestFit(t)
           IN  /\ first <= last + 1
               /\ \/ answer.turns = T /\ answer.truncated = FALSE /\ Fits(T, FALSE)
                  \/ /\ answer.truncated = TRUE /\ ~ Fits(T, FALSE)
                     /\ \/ \E k \in 1 .. (n - 1) :
                             /\ answer.turns = newest(k) /\ Fits(newest(k), TRUE)
                             /\ \A j \in 1 .. (n - 1) : j > k => ~ Fits(newest(j), TRUE)
                        \/ n = 0 /\ answer.turns = <<>>
                        \/ /\ n > 0 /\ answer.turns = CutTo(t, m)
                           /\ \A j \in 1 .. (n - 1) : ~ Fits(newest(j), TRUE)
<1>1. PICK first \in Nat \ {0}, last \in 0 .. Len(turns) :
         first <= last + 1 /\ answer = FitThreadPayload(Wholes(first, last))
  BY DEF PagesInv, Answered
<1>2. turns \in Seq(Kinship) /\ Len(turns) \in Nat
  BY TurnsTyped DEF PagesInv
<1> DEFINE n == last - first + 1
           T == Wholes(first, last)
<1>3. /\ n \in Nat /\ T \in [1 .. n -> Counted]
      /\ \A i \in 1 .. n : T[i] = Whole(first + i - 1)
  BY <1>1, <1>2, WholesTyped
<1>4. n > 0 => T[n] = Whole(last)
  <2>1. n > 0 => n \in 1 .. n /\ first + n - 1 = last
    BY <1>1, <1>2
  <2> HIDE DEF T, n
  <2>. QED BY <1>3, <2>1
<1> DEFINE fit == FitThreadPayload(T)
           newest(k) == SubSeq(T, n - k + 1, n)
<1>5. \/ fit.turns = T /\ fit.truncated = FALSE /\ Fits(T, FALSE)
      \/ /\ fit.truncated = TRUE /\ ~ Fits(T, FALSE)
         /\ \/ \E k \in 1 .. (n - 1) :
                 /\ fit.turns = newest(k) /\ Fits(newest(k), TRUE)
                 /\ \A j \in 1 .. (n - 1) : j > k => ~ Fits(newest(j), TRUE)
            \/ n = 0 /\ fit.turns = <<>>
            \/ /\ n > 0 /\ fit.turns = CutTo(T[n], LongestFit(T[n]))
               /\ \A j \in 1 .. (n - 1) : ~ Fits(newest(j), TRUE)
  <2> HIDE DEF T, n
  <2>. QED BY <1>3, FitFacts
<1>6. answer = fit
  BY <1>1
<1> HIDE DEF fit, newest
<1>7. \/ fit.turns = T /\ fit.truncated = FALSE /\ Fits(T, FALSE)
      \/ /\ fit.truncated = TRUE /\ ~ Fits(T, FALSE)
         /\ \/ \E k \in 1 .. (n - 1) :
                 /\ fit.turns = newest(k) /\ Fits(newest(k), TRUE)
                 /\ \A j \in 1 .. (n - 1) : j > k => ~ Fits(newest(j), TRUE)
            \/ n = 0 /\ fit.turns = <<>>
            \/ /\ n > 0 /\ fit.turns = CutTo(Whole(last), LongestFit(Whole(last)))
               /\ \A j \in 1 .. (n - 1) : ~ Fits(newest(j), TRUE)
  <2> HIDE DEF T, n
  <2>. QED BY <1>4, <1>5
<1>. QED BY <1>1, <1>6, <1>7 DEF newest

\* What a page's tail holds.
LEMMA NewestFacts ==
  ASSUME NEW T, NEW n \in Nat, NEW k \in 1 .. n, T \in Seq(Counted), Len(T) = n
  PROVE  LET s == SubSeq(T, n - k + 1, n)
         IN  /\ s \in Seq(Counted) /\ Len(s) = k /\ s # <<>>
             /\ \A i \in 1 .. k : s[i] = T[n - k + i]
             /\ Last(s) = T[n] /\ Head(s) = T[n - k + 1]
<1> DEFINE s == SubSeq(T, n - k + 1, n)
<1>1. n - k + 1 \in 1 .. n /\ n \in 1 .. n
  OBVIOUS
<1>2. s = [i \in 1 .. k |-> T[n - k + i]]
  <2>1. s = [i \in 1 .. (n - (n - k + 1) + 1) |-> T[(n - k + 1) + i - 1]]
    BY DEF SubSeq
  <2>2. n - (n - k + 1) + 1 = k /\ \A i \in 1 .. k : (n - k + 1) + i - 1 = n - k + i
    OBVIOUS
  <2> HIDE DEF s
  <2>. QED BY <2>1, <2>2
<1>3. \A i \in 1 .. k : n - k + i \in 1 .. n /\ T[n - k + i] \in Counted
  OBVIOUS
<1> HIDE DEF s
<1>4. s \in Seq(Counted) /\ Len(s) = k
  BY <1>2, <1>3
<1>5. 1 \in 1 .. k /\ k \in 1 .. k /\ n - k + k = n
  OBVIOUS
<1>6. s[1] = T[n - k + 1] /\ s[k] = T[n]
  BY <1>2, <1>5
<1>7. Head(s) = s[1] /\ Last(s) = s[k]
  BY <1>4, <1>5 DEF Last
<1>8. s # <<>>
  BY <1>4, <1>5
<1>. QED BY <1>2, <1>4, <1>6, <1>7, <1>8 DEF s

\* Every turn of an answer is a turn of the thread.
LEMMA ShownAreTurns ==
  ASSUME PagesInv, NEW i \in DOMAIN answer.turns
  PROVE  answer.turns[i].id \in 1 .. Len(turns)
<1>1. CASE answer = NoAnswer
  BY <1>1 DEF NoAnswer
<1>2. CASE answer # NoAnswer
  <2>1. PICK first \in Nat \ {0}, last \in 0 .. Len(turns) :
           LET n == last - first + 1
               T == Wholes(first, last)
               newest(k) == SubSeq(T, n - k + 1, n)
               t == Whole(last)
               m == LongestFit(t)
           IN  /\ first <= last + 1
               /\ \/ answer.turns = T
                  \/ \E k \in 1 .. (n - 1) : answer.turns = newest(k)
                  \/ answer.turns = <<>>
                  \/ n > 0 /\ answer.turns = CutTo(t, m)
    BY <1>2, AnswerFacts
  <2> DEFINE n == last - first + 1
             T == Wholes(first, last)
             t == Whole(last)
             m == LongestFit(t)
  <2>2. turns \in Seq(Kinship) /\ Len(turns) \in Nat
    BY TurnsTyped DEF PagesInv
  <2>3. /\ n \in Nat /\ T \in Seq(Counted) /\ Len(T) = n
        /\ \A j \in 1 .. n : T[j] = Whole(first + j - 1)
        /\ \A j \in first .. last : Whole(j) \in Counted /\ Whole(j).id = j
    <3>1. first <= last + 1
      BY <2>1
    <3>2. n \in Nat
      BY <2>2, <3>1
    <3>. QED BY <2>2, <3>1, <3>2, WholesTyped
  <2>4. \A j \in 1 .. n : first + j - 1 \in first .. last /\ first + j - 1 \in 1 .. Len(turns)
    BY <2>2
  <2>5. \A j \in 1 .. n : T[j].id \in 1 .. Len(turns)
    <3> HIDE DEF T, n
    <3>. QED BY <2>3, <2>4
  <2>6. CASE answer.turns = T
    <3> HIDE DEF T, n
    <3>. QED BY <2>3, <2>5, <2>6
  <2>7. ASSUME NEW k \in 1 .. (n - 1), answer.turns = SubSeq(T, n - k + 1, n)
        PROVE  answer.turns[i].id \in 1 .. Len(turns)
    <3>1. k \in 1 .. n
      BY <2>3
    <3> HIDE DEF T, n
    <3> DEFINE s == SubSeq(T, n - k + 1, n)
    <3>5. n \in Nat /\ T \in Seq(Counted) /\ Len(T) = n
      BY <2>3
    <3>2. /\ s \in Seq(Counted) /\ Len(s) = k /\ \A j \in 1 .. k : s[j] = T[n - k + j]
      BY <3>1, <3>5, NewestFacts
    <3> HIDE DEF s
    <3>3. i \in 1 .. k /\ answer.turns[i] = s[i]
      BY <2>7, <3>2 DEF s
    <3>4. n - k + i \in 1 .. n
      BY <2>3, <3>1, <3>3
    <3>. QED BY <2>5, <3>2, <3>3, <3>4
  <2>8. CASE n > 0 /\ answer.turns = CutTo(t, m)
    <3>1. last \in first .. last /\ last \in 1 .. Len(turns)
      BY <2>2, <2>8
    <3>2. t \in Counted /\ t.id = last
      BY <2>3, <3>1
    <3> DEFINE c == [t EXCEPT !.out = Prefix(@, m)]
    <3> HIDE DEF t
    <3>3. m \in 0 .. Len(t.out)
      BY <3>2, LongestFitFacts
    <3> HIDE DEF m
    <3>4. CutTo(t, m) = <<c>> /\ c.id = last
      BY <3>2, <3>3, CutFacts
    <3> HIDE DEF c
    <3>5. answer.turns = <<c>>
      BY <2>8, <3>4
    <3>6. i = 1
      BY <3>5
    <3>. QED BY <3>1, <3>4, <3>5, <3>6
  <2>. QED BY <2>1, <2>6, <2>7, <2>8
<1>. QED BY <1>1, <1>2

\* The thread, the cursor and the answers of t3_thread are always well formed, whatever
\* turns come and whatever limits the agent asks for.
THEOREM PagesTyped == PagesSpec => []PagesTypeOK
<1>1. PagesInv => PagesTypeOK
  <2> SUFFICES ASSUME PagesInv PROVE PagesTypeOK
    OBVIOUS
  <2>1. answer.truncated \in BOOLEAN
    <3>1. CASE answer = NoAnswer
      BY <3>1 DEF NoAnswer
    <3>2. CASE answer # NoAnswer
      <4>1. answer.truncated = FALSE \/ answer.truncated = TRUE
        BY <3>2, AnswerFacts
      <4>. QED BY <4>1
    <3>. QED BY <3>1, <3>2
  <2>2. ASSUME NEW t \in Range(answer.turns) PROVE t.id \in 1 .. MaxTurns
    <3>1. PICK i \in DOMAIN answer.turns : t = answer.turns[i]
      BY DEF Range
    <3>2. t.id \in 1 .. Len(turns)
      BY <3>1, ShownAreTurns
    <3>3. Len(turns) \in Nat /\ Len(turns) <= MaxTurns /\ MaxTurns \in Nat
      BY TurnsTyped, PagesAssumption DEF PagesInv
    <3>. QED BY <3>2, <3>3
  <2>. QED BY <2>1, <2>2 DEF PagesInv, ReadSoFar, PagesTypeOK
<1>. QED BY <1>1, PagesInvariant, PTL

\* The longest tail of a page that fits is followed, going back, by one that does not.
LEMMA TailIsTight ==
  ASSUME turns \in Seq(Kinship), NEW first \in Nat \ {0}, NEW last \in 0 .. Len(turns),
         first <= last + 1, NEW k \in 1 .. ((last - first + 1) - 1),
         ~ Fits(Wholes(first, last), FALSE),
         \A j \in 1 .. ((last - first + 1) - 1) : j > k =>
            ~ Fits(SubSeq(Wholes(first, last), (last - first + 1) - j + 1, last - first + 1), TRUE)
  PROVE  LET s == SubSeq(Wholes(first, last), (last - first + 1) - k + 1, last - first + 1)
         IN  /\ Last(s) = Whole(last) /\ Last(s).id = last
             /\ ~ Fits(<<Whole(Head(s).id - 1)>> \o s, TRUE)
<1> DEFINE n == last - first + 1
           T == Wholes(first, last)
           newest(j) == SubSeq(T, n - j + 1, n)
           s == newest(k)
<1>1. n \in Nat /\ Len(turns) \in Nat /\ first <= last + 1
  OBVIOUS
<1>2. /\ T \in Seq(Counted) /\ Len(T) = n
      /\ \A j \in 1 .. n : T[j] = Whole(first + j - 1)
      /\ \A j \in first .. last : Whole(j) \in Counted /\ Whole(j).id = j
  BY <1>1, WholesTyped
<1>3. /\ n - k \in 1 .. n /\ first + n - 1 = last /\ n \in 1 .. n /\ last \in first .. last
      /\ first + (n - k + 1) - 1 = last - k + 1 /\ n - k + 1 \in 1 .. n
      /\ last - k + 1 \in first .. last /\ (last - k + 1) - 1 = last - k
      /\ first + (n - k) - 1 = last - k /\ k + 1 \in 1 .. n /\ k \in 1 .. n
      /\ n - (k + 1) + 1 = n - k
  BY <1>1
<1>4. \A j \in 1 .. (n - 1) : j > k => ~ Fits(newest(j), TRUE)
  OBVIOUS
<1>5. ~ Fits(T, FALSE)
  OBVIOUS
<1> HIDE DEF T, n, newest
<1>13. n \in Nat /\ T \in Seq(Counted) /\ Len(T) = n /\ k \in 1 .. n
  <2>1. T \in Seq(Counted) /\ Len(T) = n
    BY ONLY <1>2
  <2>2. n \in Nat
    BY ONLY <1>1
  <2>3. k \in 1 .. n
    BY ONLY <1>3
  <2>. QED BY ONLY <2>1, <2>2, <2>3
<1>14. ASSUME NEW l \in 1 .. n
       PROVE  /\ newest(l) \in Seq(Counted) /\ Len(newest(l)) = l
              /\ \A i \in 1 .. l : newest(l)[i] = T[n - l + i]
  BY ONLY <1>13, <1>14, NewestFacts DEF newest
<1>6. /\ s \in Seq(Counted) /\ Len(s) = k /\ \A i \in 1 .. k : s[i] = T[n - k + i]
      /\ Last(s) = T[n] /\ Head(s) = T[n - k + 1]
  <2>1. s \in Seq(Counted) /\ Len(s) = k /\ \A i \in 1 .. k : s[i] = T[n - k + i]
    BY <1>13, <1>14
  <2>2. n - k + k = n /\ k \in 1 .. k /\ 1 \in 1 .. k
    BY <1>13
  <2> HIDE DEF s
  <2>3. s[k] = T[n] /\ s[1] = T[n - k + 1]
    BY <1>13, <2>1, <2>2
  <2>4. Head(s) = s[1] /\ Last(s) = s[k]
    BY <2>1, <2>2 DEF Last
  <2>. QED BY <2>1, <2>3, <2>4
<1> DEFINE r == newest(k + 1)
<1>7. /\ r \in Seq(Counted) /\ Len(r) = k + 1
      /\ \A i \in 1 .. (k + 1) : r[i] = T[n - (k + 1) + i]
  <2> DEFINE l == k + 1
  <2>1. l \in 1 .. n
    BY <1>3
  <2> HIDE DEF l
  <2>2. /\ newest(l) \in Seq(Counted) /\ Len(newest(l)) = l
        /\ \A i \in 1 .. l : newest(l)[i] = T[n - l + i]
    BY <2>1, <1>14
  <2>. QED BY <2>2 DEF l
<1> HIDE DEF s, r
<1>8. T[n] = Whole(last) /\ T[n - k + 1] = Whole(last - k + 1) /\ T[n - k] = Whole(last - k)
  BY <1>2, <1>3
<1>9. Whole(last).id = last /\ Whole(last - k + 1).id = last - k + 1
  BY <1>2, <1>3
<1>10. Head(s).id - 1 = last - k
  BY <1>3, <1>6, <1>8, <1>9
<1> DEFINE w == Whole(last - k)
<1>11. r = <<w>> \o s
  <2>1. w = T[n - k] /\ w \in Counted
    BY <1>2, <1>3, <1>8
  <2> HIDE DEF w
  <2>2. <<w>> \o s \in Seq(Counted) /\ Len(<<w>> \o s) = k + 1
    <3>1. <<w>> \in Seq(Counted) /\ Len(<<w>>) = 1 /\ k \in Nat
      BY <2>1
    <3>. QED BY <1>6, <3>1
  <2>3. ASSUME NEW i \in 1 .. (k + 1) PROVE r[i] = (<<w>> \o s)[i]
    <3>1. CASE i = 1
      <4>1. r[1] = T[n - k]
        BY <1>1, <1>3, <1>7
      <4>2. (<<w>> \o s)[1] = w
        BY <1>6
      <4>. QED BY <2>1, <3>1, <4>1, <4>2
    <3>2. CASE i # 1
      <4>1. i - 1 \in 1 .. k /\ n - k + (i - 1) = n - (k + 1) + i
        BY <1>1, <1>3, <3>2
      <4>2. r[i] = s[i - 1]
        BY <1>6, <1>7, <4>1
      <4>3. (<<w>> \o s)[i] = s[i - 1]
        BY <1>6, <4>1
      <4>. QED BY <4>2, <4>3
    <3>. QED BY <3>1, <3>2
  <2> DEFINE q == <<w>> \o s
  <2>4. q \in Seq(Counted) /\ Len(q) = k + 1 /\ k + 1 \in Nat
    BY <2>2
  <2>5. \A i \in 1 .. (k + 1) : r[i] = q[i]
    BY <2>3
  <2> HIDE DEF q
  <2>6. r = q
    BY <1>7, <2>4, <2>5
  <2>. QED BY <2>6 DEF q
<1>12. ~ Fits(r, TRUE)
  <2>1. CASE k + 1 = n
    <3>1. r = T
      <4>1. \A i \in 1 .. n : r[i] = T[i]
        <5>1. \A i \in 1 .. n : n - (k + 1) + i = i
          BY <1>1, <2>1
        <5>. QED BY <1>7, <2>1, <5>1
      <4>. QED BY <1>2, <1>7, <2>1, <4>1
    <3>. QED BY <1>2, <1>5, <3>1, MarkGrows
  <2>2. CASE k + 1 # n
    <3>1. k + 1 \in 1 .. (n - 1) /\ k + 1 > k
      BY <1>1, <1>3, <2>2
    <3>. QED BY <1>4, <3>1 DEF r
  <2>. QED BY <2>1, <2>2
<1>. QED BY <1>6, <1>8, <1>9, <1>10, <1>11, <1>12 DEF s, newest, T, n

\* A truncated answer of t3_thread gives up no more than it must: one more turn, or one
\* more character of the newest turn's output, would be over the limit of characters.
\* So no page that was cut could have shown more.
THEOREM NoNeedlessCut == PagesSpec => []CutIsTight
<1>1. PagesInv => CutIsTight
  <2> SUFFICES ASSUME PagesInv, answer.truncated, answer.turns # <<>> PROVE CutIsTight
    BY DEF CutIsTight
  <2>1. answer # NoAnswer
    BY DEF NoAnswer
  <2>2. PICK first \in Nat \ {0}, last \in 0 .. Len(turns) :
           LET n == last - first + 1
               T == Wholes(first, last)
               newest(k) == SubSeq(T, n - k + 1, n)
               t == Whole(last)
               m == LongestFit(t)
           IN  /\ first <= last + 1
               /\ ~ Fits(T, FALSE)
               /\ \/ \E k \in 1 .. (n - 1) :
                       /\ answer.turns = newest(k) /\ Fits(newest(k), TRUE)
                       /\ \A j \in 1 .. (n - 1) : j > k => ~ Fits(newest(j), TRUE)
                  \/ /\ n > 0 /\ answer.turns = CutTo(t, m)
                     /\ \A j \in 1 .. (n - 1) : ~ Fits(newest(j), TRUE)
    BY <2>1, AnswerFacts
  <2>3. turns \in Seq(Kinship) /\ Len(turns) \in Nat /\ first <= last + 1
    BY <2>2, TurnsTyped DEF PagesInv
  <2> DEFINE n == last - first + 1
             T == Wholes(first, last)
             newest(k) == SubSeq(T, n - k + 1, n)
             t == Whole(last)
             m == LongestFit(t)
  <2>4. /\ n \in Nat /\ T \in Seq(Counted) /\ Len(T) = n
        /\ \A j \in 1 .. n : T[j] = Whole(first + j - 1)
        /\ \A j \in first .. last : Whole(j) \in Counted /\ Whole(j).id = j
    <3>1. n \in Nat
      BY <2>3
    <3>. QED BY <2>3, <3>1, WholesTyped
  <2>5. ASSUME NEW k \in 1 .. (n - 1), answer.turns = newest(k), Fits(newest(k), TRUE),
               \A j \in 1 .. (n - 1) : j > k => ~ Fits(newest(j), TRUE)
        PROVE  CutIsTight
    <3>1. ~ Fits(T, FALSE)
      BY <2>2
    <3>2. /\ Last(newest(k)) = t /\ Last(newest(k)).id = last
          /\ ~ Fits(<<Whole(Head(newest(k)).id - 1)>> \o newest(k), TRUE)
      BY <2>3, <2>5, <3>1, TailIsTight
    <3> DEFINE s == newest(k)
    <3>3. /\ answer.turns = s /\ Fits(s, TRUE) /\ Last(s) = Whole(Last(s).id)
          /\ ~ Fits(<<Whole(Head(s).id - 1)>> \o s, TRUE)
      BY <2>5, <3>2
    <3> HIDE DEF s
    <3>. QED BY <3>3 DEF CutIsTight
  <2>6. CASE /\ n > 0 /\ answer.turns = CutTo(t, m)
             /\ \A j \in 1 .. (n - 1) : ~ Fits(newest(j), TRUE)
    <3>1. last \in first .. last /\ n \in 1 .. n /\ first + n - 1 = last
      BY <2>3, <2>6
    <3>2. t \in Counted /\ t.id = last /\ T[n] = t
      BY <2>4, <3>1
    <3>3. /\ m \in 0 .. Len(t.out) /\ Len(t.out) \in Nat
          /\ Fits(CutTo(t, m), TRUE) \/ m = 0
          /\ \A k \in 0 .. Len(t.out) : k > m => ~ Fits(CutTo(t, k), TRUE)
      <4>1. Len(t.out) \in Nat
        BY <3>2 DEF Counted
      <4> HIDE DEF t
      <4>. QED BY <3>2, <4>1, LongestFitFacts
    <3>4. ~ Fits(<<t>>, TRUE)
      <4>1. CASE n = 1
        <5>1. T = <<t>>
          <6> HIDE DEF T, t, n
          <6>. QED BY <2>4, <3>2, <4>1
        <5>2. ~ Fits(T, FALSE)
          BY <2>2
        <5> HIDE DEF T, t
        <5>. QED BY <2>4, <5>1, <5>2, MarkGrows
      <4>2. CASE n # 1
        <5>1. 1 \in 1 .. (n - 1)
          BY <2>4, <4>2, <2>6
        <5>2. newest(1) = <<t>>
          <6> HIDE DEF T, t, n
          <6>1. 1 \in 1 .. n /\ n - 1 + 1 = n
            BY <2>4, <5>1
          <6> DEFINE s == newest(1)
          <6>2. s \in Seq(Counted) /\ Len(s) = 1 /\ s[1] = T[n]
            <7>1. /\ s \in Seq(Counted) /\ Len(s) = 1
                  /\ \A i \in 1 .. 1 : s[i] = T[n - 1 + i]
              BY <2>4, <6>1, NewestFacts
            <7>. QED BY <6>1, <7>1
          <6> HIDE DEF s
          <6>3. s = <<t>>
            BY <3>2, <6>2
          <6>. QED BY <6>3 DEF s
        <5>. QED BY <2>6, <5>1, <5>2
      <4>. QED BY <4>1, <4>2
    <3> DEFINE c == [t EXCEPT !.out = Prefix(@, m)]
    <3>5. /\ CutTo(t, m) = <<c>> /\ c \in Counted /\ c.id = t.id
          /\ Len(c.out) = m /\ (m = Len(t.out) => c = t)
      <4> HIDE DEF t, m
      <4>. QED BY <3>2, <3>3, CutFacts
    <3> HIDE DEF c, m
    <3>6. /\ answer.turns = <<c>> /\ Last(<<c>>) = c /\ Len(<<c>>) = 1 /\ CutTo(t, m)[1] = c
          /\ Whole(Last(<<c>>).id) = t
      <4>1. answer.turns = <<c>>
        BY <2>6, <3>5
      <4>2. Last(<<c>>) = c /\ Len(<<c>>) = 1
        BY DEF Last
      <4>. QED BY <3>2, <3>5, <4>1, <4>2
    <3> HIDE DEF t
    <3>7. Fits(<<c>>, TRUE) \/ (Len(<<c>>) = 1 /\ Len(c.out) = 0)
      BY <3>3, <3>5, <3>6
    <3>8. c = t => ~ Fits(<<c>>, TRUE)
      BY <3>4
    <3>9. c # t => ~ Fits(CutTo(t, Len(c.out) + 1), TRUE)
      <4> SUFFICES ASSUME c # t PROVE ~ Fits(CutTo(t, m + 1), TRUE)
        BY <3>5
      <4>1. m # Len(t.out)
        BY <3>5
      <4>2. m + 1 \in 0 .. Len(t.out) /\ m + 1 > m
        BY <3>3, <4>1
      <4>. QED BY <3>3, <4>2
    <3>10. c = CutTo(t, Len(c.out))[1]
      BY <3>5, <3>6
    <3>. QED BY <3>6, <3>7, <3>8, <3>9, <3>10 DEF CutIsTight
  <2>. QED BY <2>2, <2>5, <2>6
<1>. QED BY <1>1, PagesInvariant, PTL

-----------------------------------------------------------------------------
(* All of the tools *)

\* What is written and under way of a file stays well formed, and each write runs once.
THEOREM FilesTyped == FilesSpec => []FilesTypeOK
<1>1. FilesInv => FilesTypeOK
  BY DEF FilesInv
<1>. QED BY <1>1, FilesInvariant, PTL

\* Side by side, the five behave as each does by itself.
LEMMA SideBySide == Spec => ThreadsSpec /\ PagesSpec /\ FilesSpec /\ SignInSpec /\ ProofKeySpec
<1>1. Init => ThreadsInit /\ PagesInit /\ FilesInit /\ SignInInit /\ ProofKeyInit
  BY DEF Init
<1>2. [Next]_vars => /\ [ThreadsNext]_threadVars /\ [PagesNext]_pageVars /\ [FilesNext]_fileVars
                     /\ [SignInNext]_signInVars /\ [ProofKeyNext]_keyVars
  BY DEF Next, vars
<1>. QED
  BY <1>1, <1>2, PTL DEF Spec, ThreadsSpec, PagesSpec, FilesSpec, SignInSpec, ProofKeySpec

\* The tools' state is always well formed: threads, pages, files, sign-ins and the key.
THEOREM ToolsTyped == Spec => []TypeOK
BY SideBySide, ThreadsTyped, PagesTyped, FilesTyped, SignInTyped, ProofKeyTyped, PTL DEF TypeOK
=============================================================================
