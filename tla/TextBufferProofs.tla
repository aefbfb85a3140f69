-------------------------- MODULE TextBufferProofs --------------------------
(***************************************************************************)
(* Proofs about the text buffer, for every file, every key, every number   *)
(* of carets and every length of the undo stacks:                          *)
(*                                                                         *)
(*   - a tab without the dirty dot shows what is on disk;                  *)
(*   - carets stay in the text, unless the ranges of a batch overlapped,   *)
(*     and the find bar holds the matches of the text, unless a suggestion *)
(*     rewrote the file: no key edits outside the text (and makes the rope *)
(*     panic) but after one of the two;                                    *)
(*   - clangd has the text of the buffer after every key, batch, undo and  *)
(*     redo, under the same condition;                                     *)
(*   - the undo stacks act as the promised line of documents.              *)
(*                                                                         *)
(* The first compares two versions, so its proof is about how versions     *)
(* grow.  The others rest on one invariant, Inv: there is a line of texts  *)
(* X, one for every number of groups that may have been made, such that    *)
(* the operations of each group lead from its text to the next and back,   *)
(* the selections of each group are in the texts on its sides, the carets  *)
(* are in the text of now, in its order, and clangd has that text.  Line   *)
(* is what undo and redo need, Within makes the selections they bring back *)
(* fit, and the order of the carets makes the plans of the next key be in  *)
(* the order of the text.  Each key is shown to plan a Sound edit (a batch *)
(* in the text, selections in the text it makes), and a Sound edit whose   *)
(* ranges do not overlap to keep Inv; the two orders in which a batch is   *)
(* applied, left to right here and last range first at clangd, make the    *)
(* same text because its ranges are apart (Placed, BatchIs).               *)
(***************************************************************************)
EXTENDS TextBuffer, SequenceTheorems, FiniteSetTheorems, WellFoundedInduction, TLAPS

-----------------------------------------------------------------------------
(* Numbers.                                                                *)

\* A set of natural numbers has a least one.
LEMMA LeastNumber ==
    ASSUME NEW T, T \subseteq Nat, T # {}
    PROVE  \E x \in T : \A y \in T : x <= y
<1>1. IsWellFoundedOn(OpToRel(<, Nat), Nat)
  BY NatLessThanWellFounded
<1>2. PICK x \in T : \A y \in T : ~ (<<y, x>> \in OpToRel(<, Nat))
  BY <1>1, WFMin
<1>3. \A y \in T : ~(y < x)
  BY <1>2 DEF OpToRel
<1>4. QED BY <1>3

\* Induction, for the numbers that are in a set.
LEMMA Induction ==
    ASSUME NEW T, 0 \in T, \A n \in Nat : n \in T => n + 1 \in T
    PROVE  Nat \subseteq T
<1> SUFFICES ASSUME Nat \ T # {} PROVE FALSE OBVIOUS
<1>1. PICK x \in Nat \ T : \A y \in Nat \ T : x <= y BY LeastNumber
<1>2. x # 0 /\ x - 1 \in Nat /\ ~(x <= x - 1) BY <1>1
<1>3. x - 1 \in T BY <1>1, <1>2
<1>4. QED BY <1>1, <1>2, <1>3

\* The same up to a bound.
LEMMA InductionTo ==
    ASSUME NEW n \in Nat, NEW T, 0 \in T, \A k \in 0 .. n - 1 : k \in T => k + 1 \in T
    PROVE  0 .. n \subseteq T
<1> DEFINE U == {k \in Nat : k <= n => k \in T}
<1>1. 0 \in U OBVIOUS
<1>2. ASSUME NEW k \in Nat, k \in U PROVE k + 1 \in U
  <2>1. CASE k + 1 <= n
    <3>1. k \in 0 .. n - 1 /\ k \in T BY <1>2, <2>1
    <3>2. QED BY <3>1
  <2>2. QED BY <2>1
<1>3. Nat \subseteq U
  <2> HIDE DEF U
  <2>1. QED BY <1>1, <1>2, Induction
<1>4. QED BY <1>3

\* And from a bound down.
LEMMA InductionDown ==
    ASSUME NEW n \in Nat, NEW T, n \in T, \A k \in 1 .. n : k \in T => k - 1 \in T
    PROVE  0 .. n \subseteq T
<1> DEFINE U == {k \in Nat : k <= n => n - k \in T}
<1>1. 0 \in U OBVIOUS
<1>2. ASSUME NEW k \in Nat, k \in U PROVE k + 1 \in U
  <2>1. CASE k + 1 <= n
    <3>1. n - k \in 1 .. n /\ n - k \in T BY <1>2, <2>1
    <3>2. (n - k) - 1 = n - (k + 1) OBVIOUS
    <3>3. QED BY <3>1, <3>2
  <2>2. QED BY <2>1
<1>3. Nat \subseteq U
  <2> HIDE DEF U
  <2>1. QED BY <1>1, <1>2, Induction
<1>4. ASSUME NEW k \in 0 .. n PROVE k \in T
  <2>1. n - k \in U BY <1>3
  <2>2. n - (n - k) = k OBVIOUS
  <2>3. QED BY <2>1, <2>2
<1>5. QED BY <1>4

\* f is an iteration of n steps from x: up from 0, or down from n + 1.
Iteration(f, n, P, x, next) ==
    f \in [0 .. n -> P] /\ f[0] = x /\ \A k \in 1 .. n : f[k] = next[k][f[k - 1]]
IterationDown(f, n, P, x, next) ==
    f \in [1 .. n + 1 -> P] /\ f[n + 1] = x /\ \A k \in 1 .. n : f[k] = next[k][f[k + 1]]

\* An iteration has a value at every step.
LEMMA Iterates ==
    ASSUME NEW n \in Nat, NEW P, NEW x \in P, NEW next \in [1 .. n -> [P -> P]]
    PROVE  \E f : Iteration(f, n, P, x, next)
<1> DEFINE Is(f, m) == f \in [0 .. m -> P] /\ f[0] = x /\ \A k \in 1 .. m : f[k] = next[k][f[k - 1]]
           T == {m \in Nat : \E f : Is(f, m)}
<1>1. 0 \in T
  <2>1. Is([k \in 0 .. 0 |-> x], 0) OBVIOUS
  <2>2. QED BY <2>1
<1>2. ASSUME NEW m \in 0 .. n - 1, m \in T PROVE m + 1 \in T
  <2>1. PICK f : Is(f, m) BY <1>2
  <2> DEFINE g == [k \in 0 .. m + 1 |-> IF k = m + 1 THEN next[m + 1][f[m]] ELSE f[k]]
  <2>2. f[m] \in P /\ next[m + 1] \in [P -> P] BY <2>1
  <2>3. g \in [0 .. m + 1 -> P] BY <2>1, <2>2
  <2>4. g[0] = x BY <2>1
  <2>5. ASSUME NEW k \in 1 .. m + 1 PROVE g[k] = next[k][g[k - 1]]
    <3>1. CASE k = m + 1 BY <3>1
    <3>2. CASE k # m + 1
      <4>1. k \in 1 .. m /\ k - 1 \in 0 .. m BY <3>2
      <4>2. QED BY <2>1, <3>2, <4>1
    <3>3. QED BY <3>1, <3>2
  <2> HIDE DEF g
  <2>6. Is(g, m + 1) BY <2>3, <2>4, <2>5
  <2>7. m + 1 \in Nat OBVIOUS
  <2> HIDE DEF Is
  <2>8. QED BY <2>6, <2>7
<1> HIDE DEF Is
<1>3. 0 .. n \subseteq T
  <2> HIDE DEF T
  <2>1. QED BY <1>1, <1>2, InductionTo
<1>4. n \in T BY <1>3
<1>5. QED BY <1>4 DEF Is, Iteration

LEMMA IteratesDown ==
    ASSUME NEW n \in Nat, NEW P, NEW x \in P, NEW next \in [1 .. n -> [P -> P]]
    PROVE  \E f : IterationDown(f, n, P, x, next)
<1> DEFINE back == [k \in 1 .. n |-> next[n + 1 - k]]
<1>1. back \in [1 .. n -> [P -> P]]
  <2>1. \A k \in 1 .. n : n + 1 - k \in 1 .. n OBVIOUS
  <2>2. QED BY <2>1
<1>2. \A k \in 1 .. n : n + 1 - k \in 1 .. n /\ back[n + 1 - k] = next[k]
  <2>1. \A k \in 1 .. n : n + 1 - k \in 1 .. n /\ n + 1 - (n + 1 - k) = k OBVIOUS
  <2>2. QED BY <2>1
<1> HIDE DEF back
<1>3. PICK f : Iteration(f, n, P, x, back) BY <1>1, Iterates
<1> DEFINE g == [k \in 1 .. n + 1 |-> f[n + 1 - k]]
<1>4. g \in [1 .. n + 1 -> P]
  <2>1. \A k \in 1 .. n + 1 : n + 1 - k \in 0 .. n OBVIOUS
  <2>2. QED BY <1>3, <2>1 DEF Iteration
<1>5. g[n + 1] = x BY <1>3 DEF Iteration
<1>6. ASSUME NEW k \in 1 .. n PROVE g[k] = next[k][g[k + 1]]
  <2>1. n + 1 - k \in 1 .. n /\ (n + 1 - k) - 1 = n + 1 - (k + 1) OBVIOUS
  <2>2. g[k] = back[n + 1 - k][f[(n + 1 - k) - 1]] BY <1>3, <2>1 DEF Iteration
  <2>3. QED BY <1>2, <2>1, <2>2
<1>7. IterationDown(g, n, P, x, next) BY <1>4, <1>5, <1>6 DEF IterationDown
<1>8. QED BY <1>7

\* Min and Max.
LEMMA MinIsLeast ==
    ASSUME NEW T, T \subseteq Nat, T # {}
    PROVE  Min(T) \in T /\ \A y \in T : Min(T) <= y
<1>1. \E x \in T : \A y \in T : x =< y BY LeastNumber
<1>2. QED BY <1>1 DEF Min

LEMMA MaxIsGreatest ==
    ASSUME NEW n \in Nat, NEW T, T \subseteq 0 .. n, T # {}
    PROVE  Max(T) \in T /\ \A y \in T : Max(T) >= y
<1> DEFINE U == {n - x : x \in T}
<1>1. U \subseteq Nat /\ U # {} OBVIOUS
<1>2. PICK u \in U : \A y \in U : u <= y
  <2> HIDE DEF U
  <2>1. QED BY <1>1, LeastNumber
<1>3. PICK x \in T : u = n - x BY <1>2
<1>4. ASSUME NEW y \in T PROVE x >= y
  <2>1. n - x <= n - y BY <1>2, <1>3
  <2>2. x \in Int /\ y \in Int BY <1>3
  <2>3. QED BY <2>1, <2>2
<1>5. \E z \in T : \A y \in T : z >= y BY <1>4
<1>6. QED BY <1>5 DEF Max

LEMMA MinOfTwo ==
    ASSUME NEW a \in Nat, NEW b \in Nat
    PROVE  Min({a, b}) = IF a <= b THEN a ELSE b
<1>1. Min({a, b}) \in {a, b} /\ Min({a, b}) <= a /\ Min({a, b}) <= b BY MinIsLeast
<1>2. QED BY <1>1

LEMMA MaxOfTwo ==
    ASSUME NEW a \in Nat, NEW b \in Nat
    PROVE  Max({a, b}) = IF a >= b THEN a ELSE b
<1>1. {a, b} \subseteq 0 .. a + b OBVIOUS
<1>2. a + b \in Nat OBVIOUS
<1>3. Max({a, b}) \in {a, b} /\ Max({a, b}) >= a /\ Max({a, b}) >= b BY <1>1, <1>2, MaxIsGreatest
<1>4. QED BY <1>3

-----------------------------------------------------------------------------
(* Texts and plans.                                                        *)

\* A sequence has a length and elements.
LEMMA SeqIs ==
    ASSUME NEW X, NEW s \in Seq(X)
    PROVE  Len(s) \in Nat /\ DOMAIN s = 1 .. Len(s) /\ \A j \in 1 .. Len(s) : s[j] \in X
BY LenProperties, ElementOfSeq

\* And is one if it is a function on the numbers up to its length.
LEMMA FunctionIsSeq ==
    ASSUME NEW X, NEW n \in Nat, NEW s \in [1 .. n -> X]
    PROVE  s \in Seq(X) /\ Len(s) = n
<1>1. s = [i \in 1 .. n |-> s[i]] OBVIOUS
<1>2. s \in Seq(X) OBVIOUS
<1>3. DOMAIN s = 1 .. n OBVIOUS
<1>4. QED BY <1>2, <1>3, SeqIs

\* What a splice leaves where it was and what it moves.
SpliceIs(r, t, s, e, new) ==
    /\ r \in Seq(Char) /\ Len(r) = Len(t) - (e - s) + Len(new)
    /\ \A j \in 1 .. Len(r) :
         r[j] = IF j <= s THEN t[j] ELSE IF j <= s + Len(new) THEN new[j - s]
                ELSE t[j - Len(new) + (e - s)]

LEMMA SplicedIs ==
    ASSUME NEW t \in Seq(Char), NEW new \in Seq(Char), NEW e \in 0 .. Len(t), NEW s \in 0 .. e
    PROVE  SpliceIs(Spliced(t, s, e, new), t, s, e, new)
<1>1. Len(t) \in Nat /\ Len(new) \in Nat /\ \A j \in 1 .. Len(t) : t[j] \in Char BY SeqIs
<1> DEFINE u == SubSeq(t, 1, s)
           v == SubSeq(t, e + 1, Len(t))
<1>2. u \in Seq(Char) /\ Len(u) = s /\ \A j \in 1 .. s : u[j] = t[j]
  <2>1. \A j \in 1 .. s : t[j] \in Char BY <1>1
  <2>2. u \in Seq(Char) /\ Len(u) = (IF 1 <= s THEN s - 1 + 1 ELSE 0)
        /\ \A j \in 1 .. (s - 1 + 1) : u[j] = t[1 + j - 1]
    BY <2>1, SubSeqProperties
  <2>3. QED BY <1>1, <2>2
<1>3. v \in Seq(Char) /\ Len(v) = Len(t) - e /\ \A j \in 1 .. (Len(t) - e) : v[j] = t[e + j]
  <2>1. \A j \in (e + 1) .. Len(t) : t[j] \in Char BY <1>1
  <2>2. e + 1 \in Int /\ Len(t) \in Int BY <1>1
  <2>3. v \in Seq(Char) /\ Len(v) = (IF e + 1 <= Len(t) THEN Len(t) - (e + 1) + 1 ELSE 0)
        /\ \A j \in 1 .. (Len(t) - (e + 1) + 1) : v[j] = t[(e + 1) + j - 1]
    BY <2>1, <2>2, SubSeqProperties
  <2> HIDE DEF v
  <2>4. /\ (IF e + 1 <= Len(t) THEN Len(t) - (e + 1) + 1 ELSE 0) = Len(t) - e
        /\ Len(t) - (e + 1) + 1 = Len(t) - e
        /\ \A j \in 1 .. (Len(t) - e) : (e + 1) + j - 1 = e + j
    BY <1>1
  <2>5. QED BY <2>3, <2>4
<1> HIDE DEF u, v
<1> DEFINE w == u \o new
<1>4. w \in Seq(Char) /\ Len(w) = Len(u) + Len(new)
      /\ \A i \in 1 .. Len(u) + Len(new) : w[i] = IF i <= Len(u) THEN u[i] ELSE new[i - Len(u)]
  BY <1>2, ConcatProperties
<1> HIDE DEF w
<1> DEFINE r == w \o v
<1>5. r \in Seq(Char) /\ Len(r) = Len(w) + Len(v)
      /\ \A i \in 1 .. Len(w) + Len(v) : r[i] = IF i <= Len(w) THEN w[i] ELSE v[i - Len(w)]
  <2>1. w \in Seq(Char) /\ v \in Seq(Char) BY <1>3, <1>4
  <2>2. QED BY <2>1, ConcatProperties
<1>6. Spliced(t, s, e, new) = r BY DEF Spliced, u, v, w
<1> HIDE DEF r
<1>7. Len(r) = Len(t) - (e - s) + Len(new) BY <1>1, <1>2, <1>3, <1>4, <1>5
<1>8. ASSUME NEW j \in 1 .. Len(r)
      PROVE  r[j] = IF j <= s THEN t[j] ELSE IF j <= s + Len(new) THEN new[j - s]
                    ELSE t[j - Len(new) + (e - s)]
  <2>1. CASE j <= s + Len(new)
    <3>1. r[j] = w[j] BY <1>1, <1>2, <1>3, <1>4, <1>5, <2>1
    <3>2. w[j] = IF j <= s THEN u[j] ELSE new[j - s] BY <1>1, <1>2, <1>4, <2>1
    <3>3. QED BY <1>2, <2>1, <3>1, <3>2
  <2>2. CASE j > s + Len(new)
    <3>1. j - (s + Len(new)) \in 1 .. (Len(t) - e) BY <1>1, <1>7, <2>2
    <3>2. r[j] = v[j - (s + Len(new))] BY <1>1, <1>2, <1>4, <1>5, <1>3, <2>2
    <3>3. r[j] = t[e + (j - (s + Len(new)))] BY <3>1, <3>2, <1>3
    <3>4. e + (j - (s + Len(new))) = j - Len(new) + (e - s) BY <1>1
    <3>5. QED BY <1>1, <2>2, <3>3, <3>4
  <2>3. QED BY <1>1, <2>1, <2>2
<1>9. QED BY <1>5, <1>6, <1>7, <1>8 DEF SpliceIs

\* Texts of one length with the same characters are one text.
LEMMA SameText ==
    ASSUME NEW s \in Seq(Char), NEW t \in Seq(Char), Len(s) = Len(t),
           \A j \in 1 .. Len(s) : s[j] = t[j]
    PROVE  s = t
BY SeqEqual

\* A slice, and what it is put back over: a splice is undone by the splice of what it
\* took away over what it put there.
LEMMA SliceIs ==
    ASSUME NEW t \in Seq(Char), NEW e \in 0 .. Len(t), NEW s \in 0 .. e
    PROVE  /\ Slice(t, s, e) \in Seq(Char) /\ Len(Slice(t, s, e)) = e - s
           /\ \A j \in 1 .. e - s : Slice(t, s, e)[j] = t[s + j]
<1>1. Len(t) \in Nat /\ \A j \in 1 .. Len(t) : t[j] \in Char BY SeqIs
<1>2. \A j \in (s + 1) .. e : t[j] \in Char BY <1>1
<1> DEFINE v == SubSeq(t, s + 1, e)
<1>3. v \in Seq(Char) /\ Len(v) = (IF s + 1 <= e THEN e - (s + 1) + 1 ELSE 0)
      /\ \A j \in 1 .. (e - (s + 1) + 1) : v[j] = t[(s + 1) + j - 1]
  <2>1. s + 1 \in Int /\ e \in Int OBVIOUS
  <2>2. QED BY <1>2, <2>1, SubSeqProperties
<1>4. Slice(t, s, e) = v BY DEF Slice
<1> HIDE DEF v
<1>5. /\ (IF s + 1 <= e THEN e - (s + 1) + 1 ELSE 0) = e - s
      /\ e - (s + 1) + 1 = e - s
      /\ \A j \in 1 .. (e - s) : (s + 1) + j - 1 = s + j
  OBVIOUS
<1>6. QED BY <1>3, <1>4, <1>5

LEMMA SpliceUndone ==
    ASSUME NEW t \in Seq(Char), NEW new \in Seq(Char), NEW e \in 0 .. Len(t), NEW s \in 0 .. e
    PROVE  Spliced(Spliced(t, s, e, new), s, s + Len(new), Slice(t, s, e)) = t
<1> DEFINE r == Spliced(t, s, e, new)
           old == Slice(t, s, e)
           z == Spliced(r, s, s + Len(new), old)
<1>1. SpliceIs(r, t, s, e, new) BY SplicedIs
<1>2. old \in Seq(Char) /\ Len(old) = e - s /\ \A j \in 1 .. e - s : old[j] = t[s + j] BY SliceIs
<1> HIDE DEF r, old
<1>3. Len(t) \in Nat /\ Len(new) \in Nat BY SeqIs
<1>4. r \in Seq(Char) /\ s + Len(new) \in 0 .. Len(r) /\ s \in 0 .. s + Len(new)
      /\ Len(r) = Len(t) - (e - s) + Len(new)
  BY <1>1, <1>3 DEF SpliceIs
<1>5. SpliceIs(z, r, s, s + Len(new), old) BY <1>2, <1>4, SplicedIs
<1> HIDE DEF z
<1>6. z \in Seq(Char) /\ Len(z) = Len(t) BY <1>2, <1>3, <1>4, <1>5 DEF SpliceIs
<1>7. ASSUME NEW j \in 1 .. Len(z) PROVE z[j] = t[j]
  <2>1. z[j] = IF j <= s THEN r[j] ELSE IF j <= s + Len(old) THEN old[j - s]
               ELSE r[j - Len(old) + ((s + Len(new)) - s)]
    BY <1>5 DEF SpliceIs
  <2>2. CASE j <= s
    <3>1. j \in 1 .. Len(r) BY <1>3, <1>4, <2>2
    <3>2. QED BY <1>1, <2>1, <2>2, <3>1 DEF SpliceIs
  <2>3. CASE j > s /\ j <= e
    <3>1. j - s \in 1 .. e - s /\ s + (j - s) = j BY <2>3
    <3>2. QED BY <1>2, <2>1, <2>3, <3>1
  <2>4. CASE j > e
    <3> DEFINE i == j - (e - s) + Len(new)
    <3>1. z[j] = r[i] /\ i \in 1 .. Len(r) /\ i > s + Len(new) BY <1>2, <1>3, <1>4, <1>6, <2>1, <2>4
    <3>2. r[i] = t[i - Len(new) + (e - s)]
      <4> HIDE DEF i
      <4>1. ~(i <= s) /\ ~(i <= s + Len(new)) BY <1>3, <3>1
      <4>2. QED BY <1>1, <3>1, <4>1 DEF SpliceIs
    <3>3. i - Len(new) + (e - s) = j BY <1>3
    <3>4. QED BY <3>1, <3>2, <3>3
  <2>5. QED BY <2>2, <2>3, <2>4
<1>8. z = t BY <1>6, <1>7, SameText
<1>9. QED BY <1>8 DEF z, r, old

-----------------------------------------------------------------------------
(* What a batch adds before each of its plans.                             *)

\* Plans whose ranges do not run backwards.
PlanSet == {p \in [start : Nat, end : Nat, text : Seq(Char)] : p.start <= p.end}

LEMMA PlanFields ==
    ASSUME NEW plans \in Seq(PlanSet), NEW i \in 1 .. Len(plans)
    PROVE  /\ plans[i].start \in Nat /\ plans[i].end \in Nat /\ plans[i].start <= plans[i].end
           /\ plans[i].text \in Seq(Char) /\ Len(plans[i].text) \in Nat
           /\ Grows(plans[i]) = Len(plans[i].text) - (plans[i].end - plans[i].start)
           /\ Grows(plans[i]) \in Int
<1>1. plans[i] \in PlanSet BY SeqIs
<1>2. /\ plans[i].start \in Nat /\ plans[i].end \in Nat /\ plans[i].start <= plans[i].end
      /\ plans[i].text \in Seq(Char)
  BY <1>1 DEF PlanSet
<1>3. Len(plans[i].text) \in Nat BY <1>2, SeqIs
<1>4. QED BY <1>2, <1>3 DEF Grows

Deltas(plans) ==
    /\ \A i \in 1 .. Len(plans) + 1 : Delta(plans, i) \in Int
    /\ Delta(plans, 1) = 0
    /\ \A i \in 1 .. Len(plans) : Delta(plans, i + 1) = Delta(plans, i) + Grows(plans[i])

LEMMA DeltasAre ==
    ASSUME NEW plans \in Seq(PlanSet)
    PROVE  Deltas(plans)
<1> DEFINE n == Len(plans)
           Is(f) == f = [k \in 0 .. Len(plans) |-> IF k = 0 THEN 0 ELSE f[k - 1] + Grows(plans[k])]
           sum == CHOOSE f : Is(f)
           next == [k \in 1 .. n |-> [x \in Int |-> x + Grows(plans[k])]]
<1>1. n \in Nat /\ \A k \in 1 .. n : Grows(plans[k]) \in Int BY SeqIs, PlanFields
<1>2. next \in [1 .. n -> [Int -> Int]] BY <1>1
<1>3. PICK f : Iteration(f, n, Int, 0, next)
  <2> HIDE DEF n, next
  <2>1. 0 \in Int OBVIOUS
  <2>2. QED BY <1>1, <1>2, <2>1, Iterates
<1>4. \A k \in 1 .. n : f[k] = f[k - 1] + Grows(plans[k])
  <2>1. \A k \in 1 .. n : k - 1 \in 0 .. n BY <1>1
  <2>2. QED BY <1>1, <1>3, <2>1 DEF Iteration
<1>5. Is(f) BY <1>3, <1>4 DEF Iteration
<1>6. Is(sum) BY <1>5
<1>7. \A k \in 0 .. n : sum[k] = IF k = 0 THEN 0 ELSE sum[k - 1] + Grows(plans[k])
  <2> HIDE DEF sum
  <2>1. QED BY <1>6
<1>8. \A i : Delta(plans, i) = sum[i - 1] BY DEF Delta
<1> HIDE DEF sum, Is, next
<1>9. 0 .. n \subseteq {k \in 0 .. n : sum[k] \in Int}
  <2> DEFINE T == {k \in 0 .. n : sum[k] \in Int}
  <2>1. 0 \in T BY <1>1, <1>7
  <2>2. ASSUME NEW k \in 0 .. n - 1, k \in T PROVE k + 1 \in T
    <3>1. k + 1 \in 0 .. n /\ k + 1 # 0 /\ (k + 1) - 1 = k /\ k + 1 \in 1 .. n BY <1>1
    <3>2. sum[k + 1] = sum[k] + Grows(plans[k + 1]) BY <1>7, <3>1
    <3>3. QED BY <1>1, <2>2, <3>1, <3>2
  <2> HIDE DEF T, n
  <2>3. QED BY <1>1, <2>1, <2>2, InductionTo DEF T
<1>10. ASSUME NEW i \in 1 .. n + 1 PROVE Delta(plans, i) \in Int
  <2>1. i - 1 \in 0 .. n BY <1>1
  <2>2. QED BY <1>8, <1>9, <2>1
<1>11. Delta(plans, 1) = 0
  <2>1. 1 - 1 = 0 /\ 0 \in 0 .. n BY <1>1
  <2>2. QED BY <1>7, <1>8, <2>1
<1>12. ASSUME NEW i \in 1 .. n PROVE Delta(plans, i + 1) = Delta(plans, i) + Grows(plans[i])
  <2>1. (i + 1) - 1 = i /\ i \in 0 .. n /\ i # 0 BY <1>1
  <2>2. QED BY <1>7, <1>8, <2>1
<1>13. QED BY <1>10, <1>11, <1>12 DEF Deltas

\* Where the i-th plan goes, once those before it are made.
Spot(plans, i) == plans[i].start + Delta(plans, i)

\* Plans in the order of a text of m characters, none over another.
Placed(plans, m) ==
    /\ plans \in Seq(PlanSet) /\ ~Overlap(plans)
    /\ \A i \in 1 .. Len(plans) : plans[i].end <= m

\* What they leave is in their order too.
Spread(plans, m) ==
    /\ m + Delta(plans, Len(plans) + 1) \in Nat
    /\ \A i \in 1 .. Len(plans) :
         /\ Spot(plans, i) \in Nat
         /\ Spot(plans, i) + Len(plans[i].text) = plans[i].end + Delta(plans, i + 1)
         /\ Spot(plans, i) + Len(plans[i].text) <= m + Delta(plans, Len(plans) + 1)
    /\ \A i, j \in 1 .. Len(plans) : i < j => Spot(plans, i) + Len(plans[i].text) <= Spot(plans, j)

LEMMA PlacedSpread ==
    ASSUME NEW m \in Nat, NEW plans, Placed(plans, m)
    PROVE  Spread(plans, m)
<1> DEFINE n == Len(plans)
           L(i) == Len(plans[i].text)
<1>1. plans \in Seq(PlanSet) BY DEF Placed
<1>2. n \in Nat /\ DOMAIN plans = 1 .. n BY <1>1, SeqIs
<1>3. Deltas(plans) BY <1>1, DeltasAre
<1>4. \A i, j \in 1 .. n : i < j => plans[i].end <= plans[j].start
  <2>1. ASSUME NEW i \in 1 .. n, NEW j \in 1 .. n, i < j
        PROVE  plans[i].end <= plans[j].start
    <3>1. plans[i].end \in Nat /\ plans[j].start \in Nat BY <1>1, PlanFields
    <3>2. ~(plans[i].end > plans[j].start) BY <1>2, <2>1 DEF Placed, Overlap
    <3>3. QED BY <3>1, <3>2
  <2>2. QED BY <2>1
<1>5. ASSUME NEW i \in 1 .. n
      PROVE  /\ plans[i].start \in Nat /\ plans[i].end \in Nat /\ plans[i].start <= plans[i].end
             /\ L(i) \in Nat /\ plans[i].end <= m
             /\ Delta(plans, i) \in Int /\ Delta(plans, i + 1) \in Int
             /\ Delta(plans, i + 1) = Delta(plans, i) + (L(i) - (plans[i].end - plans[i].start))
  <2>1. i \in 1 .. n + 1 /\ i + 1 \in 1 .. n + 1 BY <1>2
  <2>2. QED BY <1>1, <1>3, <2>1, PlanFields DEF Deltas, Placed
<1> HIDE DEF n, L
<1>6. ASSUME NEW i \in 1 .. n
      PROVE  Spot(plans, i) \in Int /\ Spot(plans, i) + L(i) = plans[i].end + Delta(plans, i + 1)
  <2>1. Spot(plans, i) = plans[i].start + Delta(plans, i) BY DEF Spot
  <2>2. QED BY <1>5, <2>1
<1> DEFINE T == {k \in 0 .. n : k # 0 => /\ Spot(plans, k) \in Nat
                                         /\ \A i \in 1 .. k - 1 : Spot(plans, i) + L(i) <= Spot(plans, k)}
<1>7. 0 .. n \subseteq T
  <2>1. 0 \in T BY <1>2
  <2>2. ASSUME NEW k \in 0 .. n - 1, k \in T PROVE k + 1 \in T
    <3>1. k + 1 \in 1 .. n BY <1>2
    <3>2. CASE k = 0
      <4>1. Delta(plans, 1) = 0 BY <1>3 DEF Deltas
      <4>2. Spot(plans, 1) \in Nat
        <5>1. 1 \in 1 .. n BY <3>1, <3>2
        <5>2. QED BY <1>5, <4>1, <5>1 DEF Spot
      <4>3. 1 .. (k + 1) - 1 = {} BY <3>2
      <4>4. QED BY <3>1, <3>2, <4>2, <4>3
    <3>3. CASE k # 0
      <4>1. k \in 1 .. n /\ k < k + 1 BY <3>3, <1>2
      <4>2. plans[k].end <= plans[k + 1].start BY <1>4, <3>1, <4>1
      <4>3. Spot(plans, k) + L(k) <= Spot(plans, k + 1)
        <5>1. Spot(plans, k + 1) = plans[k + 1].start + Delta(plans, k + 1) BY DEF Spot
        <5>2. QED BY <1>5, <1>6, <3>1, <4>1, <4>2, <5>1
      <4>4. Spot(plans, k) \in Nat /\ L(k) \in Nat /\ Spot(plans, k + 1) \in Int
        BY <1>5, <1>6, <2>2, <3>1, <3>3, <4>1
      <4>5. ASSUME NEW i \in 1 .. (k + 1) - 1 PROVE Spot(plans, i) + L(i) <= Spot(plans, k + 1)
        <5>1. i \in 1 .. n /\ (i = k \/ i \in 1 .. k - 1) BY <1>2, <4>1
        <5>2. CASE i = k BY <4>3, <5>2
        <5>3. CASE i \in 1 .. k - 1
          <6>1. Spot(plans, i) + L(i) <= Spot(plans, k) BY <2>2, <3>3, <5>3
          <6>2. QED BY <1>5, <1>6, <4>3, <4>4, <5>1, <6>1
        <5>4. QED BY <5>1, <5>2, <5>3
      <4>6. Spot(plans, k + 1) \in Nat BY <4>3, <4>4
      <4>7. QED BY <3>1, <4>5, <4>6
    <3>4. QED BY <3>2, <3>3
  <2> HIDE DEF T
  <2>3. QED BY <1>2, <2>1, <2>2, InductionTo
<1>8. \A i \in 1 .. n : Spot(plans, i) \in Nat
  <2> SUFFICES ASSUME NEW i \in 1 .. n PROVE Spot(plans, i) \in Nat OBVIOUS
  <2>1. i \in T BY <1>7
  <2>2. QED BY <2>1
<1>9. \A i, j \in 1 .. n : i < j => Spot(plans, i) + L(i) <= Spot(plans, j)
  <2> SUFFICES ASSUME NEW i \in 1 .. n, NEW j \in 1 .. n, i < j
               PROVE  Spot(plans, i) + L(i) <= Spot(plans, j)
    OBVIOUS
  <2>1. j \in T /\ i \in 1 .. j - 1 BY <1>7
  <2>2. QED BY <2>1
<1>10. m + Delta(plans, n + 1) \in Nat /\ \A i \in 1 .. n : Spot(plans, i) + L(i) <= m + Delta(plans, n + 1)
  <2>1. CASE n = 0
    <3>1. Delta(plans, 1) = 0 BY <1>3 DEF Deltas
    <3>2. QED BY <2>1, <3>1
  <2>2. CASE n # 0
    <3>1. n \in 1 .. n BY <1>2, <2>2
    <3>2. Spot(plans, n) + L(n) <= m + Delta(plans, n + 1) BY <1>5, <1>6, <3>1
    <3>3. Spot(plans, n) \in Nat /\ L(n) \in Nat /\ Delta(plans, n + 1) \in Int BY <1>5, <1>8, <3>1
    <3>4. ASSUME NEW i \in 1 .. n PROVE Spot(plans, i) + L(i) <= m + Delta(plans, n + 1)
      <4>1. CASE i = n BY <3>2, <4>1
      <4>2. CASE i < n
        <5>1. Spot(plans, i) + L(i) <= Spot(plans, n) BY <1>9, <3>1, <4>2
        <5>2. Spot(plans, i) \in Nat /\ L(i) \in Nat BY <1>5, <1>8
        <5>3. QED BY <3>2, <3>3, <5>1, <5>2
      <4>3. QED BY <1>2, <4>1, <4>2
    <3>5. QED BY <3>2, <3>3, <3>4
  <2>3. QED BY <2>1, <2>2
<1>11. QED BY <1>6, <1>8, <1>9, <1>10 DEF Spread, n, L

-----------------------------------------------------------------------------
(* A batch, plan by plan.                                                  *)

Op == [start : Nat, old : Seq(Char), new : Seq(Char)]
Progress == [ok : BOOLEAN, text : Seq(Char), ops : Seq(Op)]

\* One plan, after those before it.
Fitting(plans, acc, i) == acc.ok /\ Spot(plans, i) >= 0 /\ plans[i].end + Delta(plans, i) <= Len(acc.text)
Operation(plans, acc, i) ==
    [start |-> Spot(plans, i), new |-> plans[i].text,
     old |-> Slice(acc.text, Spot(plans, i), plans[i].end + Delta(plans, i))]
Progressed(plans, acc, i) ==
    IF Fitting(plans, acc, i)
    THEN [ok |-> TRUE,
          text |-> Spliced(acc.text, Spot(plans, i), plans[i].end + Delta(plans, i), plans[i].text),
          ops |-> Append(acc.ops, Operation(plans, acc, i))]
    ELSE [ok |-> FALSE, text |-> acc.text, ops |-> acc.ops]

LEMMA FittingRange ==
    ASSUME NEW plans \in Seq(PlanSet), NEW acc \in Progress, NEW i \in 1 .. Len(plans), Fitting(plans, acc, i)
    PROVE  /\ plans[i].end + Delta(plans, i) \in 0 .. Len(acc.text)
           /\ Spot(plans, i) \in 0 .. plans[i].end + Delta(plans, i)
           /\ acc.text \in Seq(Char) /\ Len(acc.text) \in Nat /\ plans[i].text \in Seq(Char)
<1>1. acc.text \in Seq(Char) BY DEF Progress
<1>2. Len(acc.text) \in Nat BY <1>1, SeqIs
<1>3. i \in 1 .. Len(plans) + 1 /\ Deltas(plans) BY SeqIs, DeltasAre
<1>4. Delta(plans, i) \in Int BY <1>3 DEF Deltas
<1>5. plans[i].start \in Nat /\ plans[i].end \in Nat /\ plans[i].start <= plans[i].end /\ plans[i].text \in Seq(Char)
  BY PlanFields
<1>6. QED BY <1>1, <1>2, <1>4, <1>5 DEF Fitting, Spot

LEMMA OperationIs ==
    ASSUME NEW plans \in Seq(PlanSet), NEW acc \in Progress, NEW i \in 1 .. Len(plans), Fitting(plans, acc, i)
    PROVE  /\ Operation(plans, acc, i) \in Op
           /\ Operation(plans, acc, i).start = Spot(plans, i)
           /\ Operation(plans, acc, i).new = plans[i].text
           /\ Operation(plans, acc, i).old = Slice(acc.text, Spot(plans, i), plans[i].end + Delta(plans, i))
           /\ Len(Operation(plans, acc, i).old) = plans[i].end - plans[i].start
<1> DEFINE s == Spot(plans, i)
           e == plans[i].end + Delta(plans, i)
           old == Slice(acc.text, s, e)
<1>1. e \in 0 .. Len(acc.text) /\ s \in 0 .. e /\ acc.text \in Seq(Char) /\ plans[i].text \in Seq(Char)
      /\ Len(acc.text) \in Nat
  BY FittingRange
<1>2. e - s = plans[i].end - plans[i].start
  <2>1. i \in 1 .. Len(plans) + 1 /\ Deltas(plans) BY SeqIs, DeltasAre
  <2>2. Delta(plans, i) \in Int BY <2>1 DEF Deltas
  <2>3. plans[i].start \in Nat /\ plans[i].end \in Nat BY PlanFields
  <2>4. QED BY <2>2, <2>3 DEF Spot
<1> HIDE DEF s, e
<1>3. old \in Seq(Char) /\ Len(old) = e - s BY <1>1, SliceIs
<1>4. s \in Nat BY <1>1
<1>5. Operation(plans, acc, i) = [start |-> s, new |-> plans[i].text, old |-> old] BY DEF Operation, s, e
<1> HIDE DEF old
<1>6. [start |-> s, new |-> plans[i].text, old |-> old] \in Op BY <1>1, <1>3, <1>4 DEF Op
<1>7. QED BY <1>2, <1>3, <1>5, <1>6 DEF s, e, old

LEMMA ProgressedIs ==
    ASSUME NEW plans \in Seq(PlanSet), NEW acc \in Progress, NEW i \in 1 .. Len(plans)
    PROVE  Progressed(plans, acc, i) \in Progress
<1>1. acc.text \in Seq(Char) /\ acc.ops \in Seq(Op) BY DEF Progress
<1>2. CASE Fitting(plans, acc, i)
  <2> DEFINE s == Spot(plans, i)
             e == plans[i].end + Delta(plans, i)
             t == Spliced(acc.text, s, e, plans[i].text)
             ops == Append(acc.ops, Operation(plans, acc, i))
  <2>1. e \in 0 .. Len(acc.text) /\ s \in 0 .. e /\ plans[i].text \in Seq(Char) BY <1>2, FittingRange
  <2>2. t \in Seq(Char)
    <3> HIDE DEF s, e
    <3>1. SpliceIs(t, acc.text, s, e, plans[i].text) BY <1>1, <2>1, SplicedIs
    <3>2. QED BY <3>1 DEF SpliceIs
  <2>3. ops \in Seq(Op)
    <3>1. Operation(plans, acc, i) \in Op BY <1>2, OperationIs
    <3>2. QED BY <1>1, <3>1, AppendProperties
  <2>4. Progressed(plans, acc, i) = [ok |-> TRUE, text |-> t, ops |-> ops] BY <1>2 DEF Progressed
  <2> HIDE DEF t, ops
  <2>5. QED BY <2>2, <2>3, <2>4 DEF Progress
<1>3. CASE ~Fitting(plans, acc, i)
  <2>1. Progressed(plans, acc, i) = [ok |-> FALSE, text |-> acc.text, ops |-> acc.ops] BY <1>3 DEF Progressed
  <2>2. QED BY <1>1, <2>1 DEF Progress
<1>4. QED BY <1>2, <1>3

Begun(text) == [ok |-> TRUE, text |-> text, ops |-> <<>>]

\* f is the batch, plan by plan.
Run(f, text, plans) ==
    /\ f \in [0 .. Len(plans) -> Progress] /\ f[0] = Begun(text)
    /\ \A k \in 1 .. Len(plans) : f[k] = Progressed(plans, f[k - 1], k)

LEMMA AppliedRuns ==
    ASSUME NEW text \in Seq(Char), NEW plans \in Seq(PlanSet)
    PROVE  \E f : Run(f, text, plans) /\ Applied(text, plans) = f[Len(plans)]
<1> DEFINE n == Len(plans)
           step(acc, i) ==
             LET s == plans[i].start + Delta(plans, i)
                 e == plans[i].end + Delta(plans, i)
             IN IF ~acc.ok \/ s < 0 \/ e > Len(acc.text)
                THEN [ok |-> FALSE, text |-> acc.text, ops |-> acc.ops]
                ELSE [ok |-> TRUE,
                      text |-> Spliced(acc.text, s, e, plans[i].text),
                      ops |-> Append(acc.ops, [start |-> s, new |-> plans[i].text,
                                               old |-> Slice(acc.text, s, e)])]
           Is(f) == f = [i \in 0 .. Len(plans) |->
                           IF i = 0 THEN [ok |-> TRUE, text |-> text, ops |-> <<>>] ELSE step(f[i - 1], i)]
           done == CHOOSE f : Is(f)
           next == [k \in 1 .. n |-> [acc \in Progress |-> Progressed(plans, acc, k)]]
<1>1. n \in Nat BY SeqIs
<1>2. ASSUME NEW acc \in Progress, NEW i \in 1 .. n PROVE step(acc, i) = Progressed(plans, acc, i)
  <2>1. i \in 1 .. Len(plans) + 1 /\ Deltas(plans) BY SeqIs, DeltasAre
  <2>2. Delta(plans, i) \in Int BY <2>1 DEF Deltas
  <2>3. plans[i].start \in Nat /\ plans[i].end \in Nat BY PlanFields
  <2>4. acc.text \in Seq(Char) BY DEF Progress
  <2>5. Len(acc.text) \in Nat BY <2>4, SeqIs
  <2>6. (~acc.ok \/ plans[i].start + Delta(plans, i) < 0 \/ plans[i].end + Delta(plans, i) > Len(acc.text))
        <=> ~Fitting(plans, acc, i)
    BY <2>2, <2>3, <2>5, SMTT(40) DEF Fitting, Spot
  <2>7. QED BY <2>6 DEF Progressed, Operation, Spot
<1>3. next \in [1 .. n -> [Progress -> Progress]] BY ProgressedIs
<1>4. Begun(text) \in Progress
  <2>1. <<>> \in Seq(Op) BY EmptySeq
  <2>2. QED BY <2>1 DEF Begun, Progress
<1>5. PICK f : Iteration(f, n, Progress, Begun(text), next)
  <2> HIDE DEF n, next
  <2>1. QED BY <1>1, <1>3, <1>4, Iterates
<1> HIDE DEF step
<1>6. \A k \in 1 .. n : k - 1 \in 0 .. n /\ f[k - 1] \in Progress BY <1>1, <1>5 DEF Iteration
<1>7. \A k \in 1 .. n : f[k] = step(f[k - 1], k) BY <1>2, <1>5, <1>6 DEF Iteration
<1>8. Is(f) BY <1>5, <1>7 DEF Iteration, Begun
<1>9. Is(done) BY <1>8
<1>10. Applied(text, plans) = done[n] BY DEF Applied, step
<1> HIDE DEF done
<1>11. done[0] = Begun(text) /\ \A k \in 1 .. n : done[k] = step(done[k - 1], k)
  <2>1. \A k \in 0 .. n : done[k] = IF k = 0 THEN Begun(text) ELSE step(done[k - 1], k) BY <1>9 DEF Begun
  <2>2. QED BY <1>1, <2>1
<1>12. \A k \in 0 .. n : done[k] \in Progress
  <2> DEFINE T == {k \in 0 .. n : done[k] \in Progress}
  <2>1. 0 \in T BY <1>1, <1>4, <1>11
  <2>2. ASSUME NEW k \in 0 .. n - 1, k \in T PROVE k + 1 \in T
    <3>1. k + 1 \in 1 .. n /\ (k + 1) - 1 = k BY <1>1
    <3>2. done[k + 1] = Progressed(plans, done[k], k + 1) BY <1>2, <1>11, <2>2, <3>1
    <3>3. done[k + 1] \in Progress BY <2>2, <3>1, <3>2, ProgressedIs
    <3>4. QED BY <3>1, <3>3
  <2> HIDE DEF T, n
  <2>3. 0 .. n \subseteq T BY <1>1, <2>1, <2>2, InductionTo
  <2>4. QED BY <2>3 DEF T
<1>13. \A k \in 1 .. n : done[k] = Progressed(plans, done[k - 1], k)
  <2>1. \A k \in 1 .. n : k - 1 \in 0 .. n BY <1>1
  <2>2. QED BY <1>2, <1>11, <1>12, <2>1
<1>14. DOMAIN done = 0 .. n /\ done = [k \in 0 .. n |-> done[k]] BY <1>9
<1>15. done \in [0 .. n -> Progress] BY <1>12, <1>14
<1>16. Run(done, text, plans) BY <1>11, <1>13, <1>15 DEF Run
<1>17. QED BY <1>10, <1>16

-----------------------------------------------------------------------------
(* Operations, made and undone.                                            *)

\* op makes u of t, and holds what it took away.
Turns(t, op, u) ==
    /\ t \in Seq(Char) /\ u \in Seq(Char) /\ op \in Op
    /\ op.start + Len(op.old) <= Len(t)
    /\ op.old = Slice(t, op.start, op.start + Len(op.old))
    /\ u = Spliced(t, op.start, op.start + Len(op.old), op.new)

\* The operations make b of a, by way of the texts T.
By(T, a, ops, b) ==
    /\ T \in [0 .. Len(ops) -> Seq(Char)] /\ T[0] = a /\ T[Len(ops)] = b
    /\ \A k \in 1 .. Len(ops) : Turns(T[k - 1], ops[k], T[k])
Makes(a, ops, b) == ops \in Seq(Op) /\ \E T : By(T, a, ops, b)

LEMMA TurnsBack ==
    ASSUME NEW t, NEW op, NEW u, Turns(t, op, u)
    PROVE  Spliced(u, op.start, op.start + Len(op.new), op.old) = t
<1>1. /\ t \in Seq(Char) /\ op.start \in Nat /\ op.old \in Seq(Char) /\ op.new \in Seq(Char)
      /\ op.start + Len(op.old) <= Len(t)
  BY DEF Turns, Op
<1>2. Len(t) \in Nat /\ Len(op.old) \in Nat BY <1>1, SeqIs
<1>3. op.start + Len(op.old) \in 0 .. Len(t) /\ op.start \in 0 .. op.start + Len(op.old) BY <1>1, <1>2
<1>4. Spliced(Spliced(t, op.start, op.start + Len(op.old), op.new), op.start,
              op.start + Len(op.new), Slice(t, op.start, op.start + Len(op.old))) = t
  BY <1>1, <1>3, SpliceUndone
<1>5. QED BY <1>4 DEF Turns

LEMMA MakesTexts ==
    ASSUME NEW a, NEW ops, NEW b, Makes(a, ops, b)
    PROVE  a \in Seq(Char) /\ b \in Seq(Char) /\ ops \in Seq(Op)
<1>1. PICK T : By(T, a, ops, b) BY DEF Makes
<1>2. ops \in Seq(Op) BY DEF Makes
<1>3. Len(ops) \in Nat BY <1>2, SeqIs
<1>4. 0 \in 0 .. Len(ops) /\ Len(ops) \in 0 .. Len(ops) BY <1>3
<1>5. QED BY <1>1, <1>2, <1>4 DEF By

\* Undo leads back, redo leads there again.
LEMMA MakesReverted ==
    ASSUME NEW a, NEW ops, NEW b, Makes(a, ops, b)
    PROVE  Reverted(b, ops) = a
<1>1. PICK T : By(T, a, ops, b) BY DEF Makes
<1>2. ops \in Seq(Op) BY DEF Makes
<1> DEFINE n == Len(ops)
           back(t, i) == Spliced(t, ops[i].start, ops[i].start + Len(ops[i].new), ops[i].old)
           Is(f) == f = [i \in 1 .. Len(ops) + 1 |-> IF i > Len(ops) THEN b ELSE back(f[i + 1], i)]
           from == CHOOSE f : Is(f)
           g == [i \in 1 .. n + 1 |-> T[i - 1]]
<1>3. n \in Nat BY <1>2, SeqIs
<1>4. Reverted(b, ops) = from[1] BY DEF Reverted
<1>5. \A k \in 1 .. n : back(T[k], k) = T[k - 1] BY <1>1, TurnsBack DEF By
<1> HIDE DEF back
<1>6. Is(g)
  <2>1. ASSUME NEW i \in 1 .. n + 1 PROVE g[i] = IF i > n THEN b ELSE back(g[i + 1], i)
    <3>1. CASE i = n + 1 BY <1>1, <1>3, <3>1 DEF By
    <3>2. CASE i # n + 1
      <4>1. i \in 1 .. n /\ i + 1 \in 1 .. n + 1 /\ (i + 1) - 1 = i BY <1>3, <3>2
      <4>2. QED BY <1>3, <1>5, <4>1
    <3>3. QED BY <3>1, <3>2
  <2>2. QED BY <2>1
<1>7. Is(from) BY <1>6
<1> HIDE DEF from
<1>8. \A i \in 1 .. n + 1 : from[i] = IF i > n THEN b ELSE back(from[i + 1], i) BY <1>7
<1> DEFINE S == {k \in 0 .. n : from[k + 1] = T[k]}
<1>9. n \in S
  <2>1. n + 1 \in 1 .. n + 1 /\ n + 1 > n BY <1>3
  <2>2. from[n + 1] = b BY <1>8, <2>1
  <2>3. QED BY <1>1, <1>3, <2>2 DEF By
<1>10. ASSUME NEW k \in 1 .. n, k \in S PROVE k - 1 \in S
  <2>1. k \in 1 .. n + 1 /\ ~(k > n) /\ (k - 1) + 1 = k /\ k - 1 \in 0 .. n BY <1>3
  <2>2. from[k] = back(from[k + 1], k) BY <1>8, <2>1
  <2>3. QED BY <1>5, <1>10, <2>1, <2>2
<1>11. 0 .. n \subseteq S
  <2> HIDE DEF S, n
  <2>1. QED BY <1>3, <1>9, <1>10, InductionDown
<1>12. 0 \in S BY <1>3, <1>11
<1>13. QED BY <1>1, <1>4, <1>12 DEF By

LEMMA MakesRepeated ==
    ASSUME NEW a, NEW ops, NEW b, Makes(a, ops, b)
    PROVE  Repeated(a, ops) = b
<1>1. PICK T : By(T, a, ops, b) BY DEF Makes
<1>2. ops \in Seq(Op) BY DEF Makes
<1> DEFINE n == Len(ops)
           forth(t, i) == Spliced(t, ops[i].start, ops[i].start + Len(ops[i].old), ops[i].new)
           Is(f) == f = [i \in 0 .. Len(ops) |-> IF i = 0 THEN a ELSE forth(f[i - 1], i)]
           upto == CHOOSE f : Is(f)
<1>3. n \in Nat BY <1>2, SeqIs
<1>4. Repeated(a, ops) = upto[n] BY DEF Repeated
<1>5. \A k \in 1 .. n : forth(T[k - 1], k) = T[k] BY <1>1 DEF By, Turns
<1> HIDE DEF forth
<1>6. Is(T)
  <2>1. ASSUME NEW i \in 0 .. n PROVE T[i] = IF i = 0 THEN a ELSE forth(T[i - 1], i)
    <3>1. CASE i = 0 BY <1>1, <3>1 DEF By
    <3>2. CASE i # 0
      <4>1. i \in 1 .. n BY <1>3, <3>2
      <4>2. QED BY <1>5, <3>2, <4>1
    <3>3. QED BY <3>1, <3>2
  <2>2. T = [i \in 0 .. n |-> T[i]] BY <1>1 DEF By
  <2>3. QED BY <2>1, <2>2
<1>7. Is(upto) BY <1>6
<1> HIDE DEF upto
<1>8. \A i \in 0 .. n : upto[i] = IF i = 0 THEN a ELSE forth(upto[i - 1], i) BY <1>7
<1> DEFINE S == {k \in 0 .. n : upto[k] = T[k]}
<1>9. 0 \in S BY <1>1, <1>3, <1>8 DEF By
<1>10. ASSUME NEW k \in 0 .. n - 1, k \in S PROVE k + 1 \in S
  <2>1. k + 1 \in 1 .. n /\ k + 1 \in 0 .. n /\ k + 1 # 0 /\ (k + 1) - 1 = k BY <1>3
  <2>2. upto[k + 1] = forth(upto[k], k + 1) BY <1>8, <2>1
  <2>3. QED BY <1>5, <1>10, <2>1, <2>2
<1>11. 0 .. n \subseteq S
  <2> HIDE DEF S, n
  <2>1. QED BY <1>3, <1>9, <1>10, InductionTo
<1>12. n \in S BY <1>3, <1>11
<1>13. QED BY <1>1, <1>4, <1>12 DEF By

LEMMA MakesNothing ==
    ASSUME NEW a \in Seq(Char)
    PROVE  Makes(a, <<>>, a)
<1>1. <<>> \in Seq(Op) /\ Len(<<>>) = 0 BY EmptySeq
<1>2. By([k \in 0 .. 0 |-> a], a, <<>>, a) BY <1>1 DEF By
<1>3. QED BY <1>1, <1>2 DEF Makes

LEMMA MakesOneMore ==
    ASSUME NEW a, NEW ops, NEW b, Makes(a, ops, b), NEW op, NEW c, Turns(b, op, c)
    PROVE  Makes(a, Append(ops, op), c)
<1>1. PICK T : By(T, a, ops, b) BY DEF Makes
<1>2. ops \in Seq(Op) /\ op \in Op BY DEF Makes, Turns
<1> DEFINE n == Len(ops)
           more == Append(ops, op)
           U == [k \in 0 .. n + 1 |-> IF k = n + 1 THEN c ELSE T[k]]
<1>3. n \in Nat BY <1>2, SeqIs
<1>4. more \in Seq(Op) /\ Len(more) = n + 1 /\ more[n + 1] = op /\ \A i \in 1 .. n : more[i] = ops[i]
  BY <1>2, AppendProperties
<1>5. U \in [0 .. n + 1 -> Seq(Char)] BY <1>1, <1>3 DEF By, Turns
<1>6. U[0] = a /\ U[n + 1] = c /\ U[n] = b
  <2>1. 0 \in 0 .. n + 1 /\ n + 1 \in 0 .. n + 1 /\ n \in 0 .. n + 1 /\ 0 # n + 1 /\ n # n + 1 BY <1>3
  <2>2. QED BY <1>1, <2>1 DEF By
<1> HIDE DEF more
<1>7. ASSUME NEW k \in 1 .. n + 1 PROVE Turns(U[k - 1], more[k], U[k])
  <2>1. CASE k = n + 1
    <3>1. k - 1 = n BY <1>3, <2>1
    <3>2. QED BY <1>4, <1>6, <2>1, <3>1
  <2>2. CASE k # n + 1
    <3>1. k \in 1 .. n /\ k \in 0 .. n + 1 /\ k - 1 \in 0 .. n + 1 /\ k - 1 # n + 1 BY <1>3, <2>2
    <3>2. U[k] = T[k] /\ U[k - 1] = T[k - 1] BY <2>2, <3>1
    <3> HIDE DEF U
    <3>3. QED BY <1>1, <1>4, <3>1, <3>2 DEF By
  <2>3. QED BY <2>1, <2>2
<1> HIDE DEF U
<1>8. By(U, a, more, c) BY <1>4, <1>5, <1>6, <1>7 DEF By
<1>9. QED BY <1>4, <1>8 DEF Makes, more

\* One after the other.
LEMMA MakesBoth ==
    ASSUME NEW a, NEW o1, NEW b, NEW o2, NEW c, Makes(a, o1, b), Makes(b, o2, c)
    PROVE  Makes(a, o1 \o o2, c)
<1>1. PICK T : By(T, a, o1, b) BY DEF Makes
<1>2. PICK U : By(U, b, o2, c) BY DEF Makes
<1>3. o1 \in Seq(Op) /\ o2 \in Seq(Op) BY DEF Makes
<1> DEFINE n == Len(o1)
           m == Len(o2)
           ops == o1 \o o2
           V == [k \in 0 .. n + m |-> IF k <= n THEN T[k] ELSE U[k - n]]
<1>4. n \in Nat /\ m \in Nat BY <1>3, SeqIs
<1>5. ops \in Seq(Op) /\ Len(ops) = n + m
      /\ \A i \in 1 .. n + m : ops[i] = IF i <= n THEN o1[i] ELSE o2[i - n]
  BY <1>3, ConcatProperties
<1> HIDE DEF ops
<1>6. \A k \in 0 .. n + m : (k <= n => k \in 0 .. n) /\ (k > n => k - n \in 1 .. m) BY <1>4
<1>7. V \in [0 .. n + m -> Seq(Char)] BY <1>1, <1>2, <1>4, <1>6 DEF By
<1>8. \A k \in 0 .. m : V[n + k] = U[k]
  <2> SUFFICES ASSUME NEW k \in 0 .. m PROVE V[n + k] = U[k] OBVIOUS
  <2>1. CASE k = 0 BY <1>1, <1>2, <1>4, <2>1 DEF By
  <2>2. CASE k # 0
    <3>1. n + k \in 0 .. n + m /\ ~(n + k <= n) /\ (n + k) - n = k BY <1>4, <2>2
    <3>2. QED BY <3>1
  <2>3. QED BY <2>1, <2>2
<1>9. \A k \in 0 .. n : V[k] = T[k] BY <1>4
<1> HIDE DEF V
<1>10. ASSUME NEW k \in 1 .. n + m PROVE Turns(V[k - 1], ops[k], V[k])
  <2>1. CASE k <= n
    <3>1. k \in 1 .. n /\ k \in 0 .. n /\ k - 1 \in 0 .. n BY <1>4, <2>1
    <3>2. QED BY <1>1, <1>5, <1>9, <2>1, <3>1 DEF By
  <2>2. CASE k > n
    <3> DEFINE j == k - n
    <3>1. j \in 1 .. m /\ j \in 0 .. m /\ j - 1 \in 0 .. m /\ n + j = k /\ n + (j - 1) = k - 1 /\ ~(k <= n)
      BY <1>4, <2>2
    <3>2. ops[k] = o2[j] BY <1>5, <3>1
    <3> HIDE DEF j
    <3>3. V[k] = U[j] /\ V[k - 1] = U[j - 1] BY <1>8, <3>1
    <3>4. QED BY <1>2, <3>1, <3>2, <3>3 DEF By
  <2>3. QED BY <1>4, <2>1, <2>2
<1>11. V[0] = a BY <1>1, <1>4, <1>9 DEF By
<1>12. V[n + m] = c BY <1>2, <1>4, <1>8 DEF By
<1>13. By(V, a, ops, c) BY <1>5, <1>7, <1>10, <1>11, <1>12 DEF By
<1>14. QED BY <1>5, <1>13 DEF Makes, ops

\* A batch that fits is its operations.
LEMMA AppliedMakes ==
    ASSUME NEW text \in Seq(Char), NEW plans \in Seq(PlanSet), Applied(text, plans).ok
    PROVE  /\ Makes(text, Applied(text, plans).ops, Applied(text, plans).text)
           /\ Len(Applied(text, plans).ops) = Len(plans)
<1>1. PICK f : Run(f, text, plans) /\ Applied(text, plans) = f[Len(plans)] BY AppliedRuns
<1> DEFINE n == Len(plans)
           S == {k \in 0 .. n : f[k].ok => Makes(text, f[k].ops, f[k].text) /\ Len(f[k].ops) = k}
<1>2. n \in Nat BY SeqIs
<1>3. 0 \in S
  <2>1. f[0] = Begun(text) BY <1>1 DEF Run
  <2>2. Makes(text, <<>>, text) BY MakesNothing
  <2>3. Len(<<>>) = 0 BY EmptySeq
  <2>4. QED BY <1>2, <2>1, <2>2, <2>3 DEF Begun
<1>4. ASSUME NEW k \in 0 .. n - 1, k \in S PROVE k + 1 \in S
  <2> SUFFICES ASSUME f[k + 1].ok
               PROVE  Makes(text, f[k + 1].ops, f[k + 1].text) /\ Len(f[k + 1].ops) = k + 1
    BY <1>2
  <2>1. k + 1 \in 1 .. n /\ (k + 1) - 1 = k /\ k \in 0 .. n BY <1>2
  <2>2. f[k] \in Progress /\ f[k + 1] = Progressed(plans, f[k], k + 1) BY <1>1, <2>1 DEF Run
  <2> DEFINE acc == f[k]
             i == k + 1
             op == Operation(plans, acc, i)
  <2>3. Fitting(plans, acc, i) BY <2>2 DEF Progressed
  <2>4. /\ f[k + 1].text = Spliced(acc.text, Spot(plans, i), plans[i].end + Delta(plans, i), plans[i].text)
        /\ f[k + 1].ops = Append(acc.ops, op)
    BY <2>2, <2>3 DEF Progressed
  <2>5. f[k].ok BY <2>3 DEF Fitting
  <2>6. Makes(text, acc.ops, acc.text) /\ Len(acc.ops) = k BY <1>4, <2>5
  <2> HIDE DEF op
  <2>7. /\ op \in Op /\ op.start = Spot(plans, i) /\ op.new = plans[i].text
        /\ op.old = Slice(acc.text, Spot(plans, i), plans[i].end + Delta(plans, i))
        /\ Len(op.old) = plans[i].end - plans[i].start
    BY <2>1, <2>2, <2>3, OperationIs DEF op
  <2>8. /\ plans[i].end + Delta(plans, i) \in 0 .. Len(acc.text)
        /\ acc.text \in Seq(Char)
    BY <2>1, <2>2, <2>3, FittingRange
  <2>9. op.start + Len(op.old) = plans[i].end + Delta(plans, i)
    <3>1. i \in 1 .. Len(plans) + 1 /\ Deltas(plans) BY <1>2, DeltasAre
    <3>2. Delta(plans, i) \in Int BY <3>1 DEF Deltas
    <3>3. plans[i].start \in Nat /\ plans[i].end \in Nat BY <2>1, PlanFields
    <3> HIDE DEF i
    <3>4. op.start = plans[i].start + Delta(plans, i) BY <2>7 DEF Spot
    <3> DEFINE x == op.start  y == Len(op.old)  s == plans[i].start  e == plans[i].end  D == Delta(plans, i)
    <3>5. x = s + D /\ y = e - s BY <2>7, <3>4
    <3>6. s \in Nat /\ e \in Nat /\ D \in Int BY <3>2, <3>3
    <3> HIDE DEF x, y, s, e, D
    <3>7. x + y = e + D BY <3>5, <3>6
    <3>8. QED BY <3>7 DEF x, y, e, D
  <2>10. f[k + 1].text \in Seq(Char)
    <3>1. f[k + 1] \in Progress BY <1>1, <2>1 DEF Run
    <3>2. QED BY <3>1 DEF Progress
  <2>11. op.start + Len(op.old) <= Len(acc.text)
    <3>1. Len(acc.text) \in Nat BY <2>8, SeqIs
    <3>2. QED BY <2>8, <2>9, <3>1
  <2>12. Turns(acc.text, op, f[k + 1].text) BY <2>4, <2>7, <2>8, <2>9, <2>10, <2>11 DEF Turns
  <2>13. Makes(text, Append(acc.ops, op), f[k + 1].text)
    <3> HIDE DEF acc
    <3>1. QED BY <2>6, <2>12, MakesOneMore
  <2>14. Len(Append(acc.ops, op)) = k + 1
    <3>1. acc.ops \in Seq(Op) BY <2>2 DEF Progress
    <3>2. QED BY <2>6, <2>7, <3>1, AppendProperties
  <2>15. QED BY <2>4, <2>13, <2>14
<1>5. n \in S
  <2> HIDE DEF S, n
  <2>1. 0 .. n \subseteq S BY <1>2, <1>3, <1>4, InductionTo
  <2>2. QED BY <1>2, <2>1
<1>6. QED BY <1>1, <1>5

-----------------------------------------------------------------------------
(* Plans in the order of the text: they fit, and clangd's order makes the   *)
(* same text.                                                              *)

\* The numbers of the k-th plan.
Figures(plans, m, k) ==
    /\ plans[k].start \in Nat /\ plans[k].end \in Nat /\ plans[k].start <= plans[k].end
    /\ plans[k].end <= m /\ plans[k].text \in Seq(Char) /\ Len(plans[k].text) \in Nat
    /\ Delta(plans, k) \in Int /\ Delta(plans, k + 1) \in Int
    /\ Delta(plans, k + 1) = Delta(plans, k) + (Len(plans[k].text) - (plans[k].end - plans[k].start))
    /\ Spot(plans, k) = plans[k].start + Delta(plans, k) /\ Spot(plans, k) \in Nat

LEMMA FiguresAre ==
    ASSUME NEW m \in Nat, NEW plans, Placed(plans, m), NEW k \in 1 .. Len(plans)
    PROVE  Figures(plans, m, k)
<1>1. plans \in Seq(PlanSet) /\ Spread(plans, m) BY PlacedSpread DEF Placed
<1>2. k \in 1 .. Len(plans) + 1 /\ k + 1 \in 1 .. Len(plans) + 1 /\ Deltas(plans)
  BY <1>1, SeqIs, DeltasAre
<1>3. Delta(plans, k) \in Int /\ Delta(plans, k + 1) \in Int
      /\ Delta(plans, k + 1) = Delta(plans, k) + Grows(plans[k])
  BY <1>2 DEF Deltas
<1>4. /\ plans[k].start \in Nat /\ plans[k].end \in Nat /\ plans[k].start <= plans[k].end
      /\ plans[k].text \in Seq(Char) /\ Len(plans[k].text) \in Nat
      /\ Grows(plans[k]) = Len(plans[k].text) - (plans[k].end - plans[k].start)
  BY <1>1, PlanFields
<1>5. Spot(plans, k) \in Nat BY <1>1 DEF Spread
<1>6. plans[k].end <= m BY DEF Placed
<1>7. QED BY <1>3, <1>4, <1>5, <1>6 DEF Figures, Spot

\* Where the k-th plan ends.
End(plans, k) == IF k = 0 THEN 0 ELSE plans[k].end

LEMMA EndsBefore ==
    ASSUME NEW m \in Nat, NEW plans, Placed(plans, m), NEW k \in 1 .. Len(plans)
    PROVE  End(plans, k - 1) \in Nat /\ End(plans, k - 1) <= plans[k].start
<1>1. plans \in Seq(PlanSet) BY DEF Placed
<1>2. CASE k = 1 BY <1>1, <1>2, PlanFields DEF End
<1>3. CASE k # 1
  <2>1. k - 1 \in 1 .. Len(plans) /\ k - 1 # 0 /\ k - 1 < k BY <1>1, <1>3, SeqIs
  <2>2. k \in DOMAIN plans /\ k - 1 \in DOMAIN plans BY <1>1, <2>1, SeqIs
  <2>3. ~(plans[k - 1].end > plans[k].start) BY <2>1, <2>2 DEF Placed, Overlap
  <2>4. plans[k - 1].end \in Nat /\ plans[k].start \in Nat BY <1>1, <2>1, PlanFields
  <2>5. QED BY <2>1, <2>3, <2>4 DEF End
<1>4. QED BY <1>2, <1>3

\* After k plans: what is behind them was moved only.
Aft(f, text, plans, k) ==
    /\ f[k].ok /\ Len(f[k].text) = Len(text) + Delta(plans, k + 1)
    /\ \A j \in 1 .. Len(f[k].text) : j > End(plans, k) + Delta(plans, k + 1) =>
         f[k].text[j] = text[j - Delta(plans, k + 1)]

LEMMA PlanSplices ==
    ASSUME NEW text \in Seq(Char), NEW plans, Placed(plans, Len(text)), NEW f, Run(f, text, plans),
           NEW k \in 1 .. Len(plans), Aft(f, text, plans, k - 1)
    PROVE  /\ f[k].ok
           /\ SpliceIs(f[k].text, f[k - 1].text, Spot(plans, k), plans[k].end + Delta(plans, k), plans[k].text)
<1>1. plans \in Seq(PlanSet) BY DEF Placed
<1>2. Len(text) \in Nat /\ Len(plans) \in Nat BY <1>1, SeqIs
<1>3. Figures(plans, Len(text), k) BY <1>2, FiguresAre
<1>4. k - 1 \in 0 .. Len(plans) /\ (k - 1) + 1 = k BY <1>2
<1>5. f[k - 1] \in Progress /\ f[k] = Progressed(plans, f[k - 1], k) BY <1>4 DEF Run
<1>6. f[k - 1].ok /\ Len(f[k - 1].text) = Len(text) + Delta(plans, k) BY <1>4 DEF Aft
<1>7. Spot(plans, k) >= 0 BY <1>3 DEF Figures
<1>8. plans[k].end + Delta(plans, k) <= Len(f[k - 1].text) BY <1>2, <1>3, <1>6 DEF Figures
<1>9. Fitting(plans, f[k - 1], k) BY <1>6, <1>7, <1>8 DEF Fitting
<1>10. /\ f[k].ok
       /\ f[k].text = Spliced(f[k - 1].text, Spot(plans, k), plans[k].end + Delta(plans, k), plans[k].text)
  BY <1>5, <1>9 DEF Progressed
<1>11. /\ plans[k].end + Delta(plans, k) \in 0 .. Len(f[k - 1].text)
       /\ Spot(plans, k) \in 0 .. plans[k].end + Delta(plans, k)
       /\ f[k - 1].text \in Seq(Char) /\ plans[k].text \in Seq(Char)
  BY <1>1, <1>5, <1>9, FittingRange
<1>12. QED BY <1>10, <1>11, SplicedIs

LEMMA BatchFits ==
    ASSUME NEW text \in Seq(Char), NEW plans, Placed(plans, Len(text)), NEW f, Run(f, text, plans)
    PROVE  \A k \in 0 .. Len(plans) : Aft(f, text, plans, k)
<1> DEFINE n == Len(plans)
           S == {k \in 0 .. n : Aft(f, text, plans, k)}
<1>1. plans \in Seq(PlanSet) BY DEF Placed
<1>2. n \in Nat /\ Len(text) \in Nat BY <1>1, SeqIs
<1>3. Deltas(plans) BY <1>1, DeltasAre
<1>4. Aft(f, text, plans, 0)
  <2>1. f[0].ok /\ f[0].text = text BY DEF Run, Begun
  <2>2. Delta(plans, 0 + 1) = 0 BY <1>3 DEF Deltas
  <2>3. QED BY <1>2, <2>1, <2>2 DEF Aft
<1>5. ASSUME NEW k \in 0 .. n - 1, k \in S PROVE k + 1 \in S
  <2> DEFINE i == k + 1
             D == Delta(plans, i)
             D2 == Delta(plans, i + 1)
             s == Spot(plans, i)
             a == plans[i].start
             e == plans[i].end
             l == Len(plans[i].text)
             t == f[k].text
             r == f[i].text
  <2>1. i \in 1 .. n /\ i \in 0 .. n /\ i - 1 = k /\ i # 0 BY <1>2
  <2>2. Aft(f, text, plans, i - 1) BY <1>5, <2>1
  <2>3. f[i].ok /\ SpliceIs(r, t, s, e + D, plans[i].text) BY <2>1, <2>2, PlanSplices
  <2>4. End(plans, i - 1) \in Nat /\ End(plans, i - 1) <= a BY <1>2, <2>1, EndsBefore
  <2>5. /\ a \in Nat /\ e \in Nat /\ a <= e /\ e <= Len(text) /\ l \in Nat
        /\ D \in Int /\ D2 \in Int /\ D2 = D + (l - (e - a)) /\ s = a + D /\ s \in Nat
    BY <1>2, <2>1, FiguresAre DEF Figures
  <2>6. Len(t) = Len(text) + D BY <2>1, <2>2 DEF Aft
  <2>7. Len(r) = Len(t) - ((e + D) - s) + l BY <2>3 DEF SpliceIs
  <2>8. \A j \in 1 .. Len(t) : j > End(plans, k) + D => t[j] = text[j - D] BY <2>1, <2>2 DEF Aft
  <2>9. \A j \in 1 .. Len(r) : r[j] = IF j <= s THEN t[j] ELSE IF j <= s + l THEN plans[i].text[j - s]
                                      ELSE t[j - l + ((e + D) - s)]
    BY <2>3 DEF SpliceIs
  <2>10. End(plans, k) \in Nat /\ End(plans, k) <= a BY <2>1, <2>4
  <2> HIDE DEF D, D2, s, a, e, l, t, r
  <2>11. Len(r) = Len(text) + D2 BY <1>2, <2>5, <2>6, <2>7
  <2>12. ASSUME NEW j \in 1 .. Len(r), j > e + D2 PROVE r[j] = text[j - D2]
    <3>1. j > s + l /\ ~(j <= s) /\ ~(j <= s + l) /\ s + l \in Int BY <2>5, <2>12
    <3>2. r[j] = t[j - l + ((e + D) - s)] BY <2>9, <3>1
    <3> DEFINE q == j - l + ((e + D) - s)
    <3>3. q \in 1 .. Len(t) /\ q > End(plans, k) + D /\ q - D = j - D2
      <4>1. q = j - D2 + D BY <1>2, <2>5, <2>11
      <4> HIDE DEF q
      <4>2. j > e + D2 /\ j <= Len(text) + D2 /\ j \in Int BY <1>2, <2>5, <2>11, <2>12
      <4>3. End(plans, k) <= e BY <2>5, <2>10
      <4>4. QED BY <1>2, <2>5, <2>6, <2>10, <4>1, <4>2, <4>3
    <3> HIDE DEF q
    <3>4. t[q] = text[q - D] BY <2>8, <3>3
    <3>5. QED BY <3>2, <3>3, <3>4 DEF q
  <2>13. Aft(f, text, plans, i)
    <3>1. End(plans, i) = e BY <2>1 DEF End, e
    <3> HIDE DEF i
    <3>2. QED BY <2>3, <2>11, <2>12, <3>1 DEF Aft, r, D2
  <2>14. QED BY <2>1, <2>13
<1> HIDE DEF S, n
<1>6. 0 \in S BY <1>2, <1>4 DEF S
<1>7. 0 .. n \subseteq S BY <1>2, <1>5, <1>6, InductionTo
<1>8. QED BY <1>7 DEF S, n

\* What is before the next plan stays.
Settled(f, plans, k) ==
    k < Len(plans) => \A j \in 1 .. Spot(plans, k + 1) : f[Len(plans)].text[j] = f[k].text[j]

LEMMA BatchSettles ==
    ASSUME NEW text \in Seq(Char), NEW plans, Placed(plans, Len(text)), NEW f, Run(f, text, plans)
    PROVE  \A k \in 0 .. Len(plans) : Settled(f, plans, k)
<1> DEFINE n == Len(plans)
           S == {k \in 0 .. n : Settled(f, plans, k)}
<1>1. plans \in Seq(PlanSet) BY DEF Placed
<1>2. n \in Nat /\ Len(text) \in Nat BY <1>1, SeqIs
<1>3. Spread(plans, Len(text)) BY <1>2, PlacedSpread
<1>4. n \in S BY <1>2 DEF Settled
<1>5. ASSUME NEW k \in 1 .. n, k \in S PROVE k - 1 \in S
  <2>1. (k - 1) + 1 = k /\ k - 1 \in 0 .. n BY <1>2
  <2> SUFFICES ASSUME NEW j \in 1 .. Spot(plans, k)
               PROVE  f[n].text[j] = f[k - 1].text[j]
    BY <2>1 DEF Settled
  <2>2. Aft(f, text, plans, k - 1) /\ Aft(f, text, plans, k) BY <1>2, <2>1, BatchFits
  <2>3. SpliceIs(f[k].text, f[k - 1].text, Spot(plans, k), plans[k].end + Delta(plans, k), plans[k].text)
    BY <2>2, PlanSplices
  <2>4. Spot(plans, k) \in Nat /\ Figures(plans, Len(text), k) BY <1>2, <1>3, FiguresAre DEF Spread
  <2>5. j \in 1 .. Len(f[k].text)
    <3>1. Spot(plans, k) <= Len(text) + Delta(plans, k + 1)
      <4>1. Spot(plans, k) + Len(plans[k].text) = plans[k].end + Delta(plans, k + 1) BY <1>3 DEF Spread
      <4>2. /\ plans[k].end \in Nat /\ plans[k].end <= Len(text) /\ Len(plans[k].text) \in Nat
            /\ Delta(plans, k + 1) \in Int /\ Spot(plans, k) \in Nat
        BY <2>4 DEF Figures
      <4> DEFINE s == Spot(plans, k)  l == Len(plans[k].text)  e == plans[k].end  D == Delta(plans, k + 1)
                 m == Len(text)
      <4>3. s + l = e + D BY <4>1
      <4>4. e \in Nat /\ e <= m /\ l \in Nat /\ D \in Int /\ s \in Nat /\ m \in Nat BY <1>2, <4>2
      <4> HIDE DEF s, l, e, D, m
      <4>5. s <= m + D BY <4>3, <4>4
      <4>6. QED BY <4>5 DEF s, m, D
    <3>2. Len(f[k].text) = Len(text) + Delta(plans, k + 1) BY <2>2 DEF Aft
    <3>3. Len(text) + Delta(plans, k + 1) \in Int BY <1>2, <2>4 DEF Figures
    <3>4. QED BY <2>4, <3>1, <3>2, <3>3
  <2>6. f[k].text[j] = f[k - 1].text[j]
    <3>1. j <= Spot(plans, k) BY <2>4
    <3>2. QED BY <2>3, <2>5, <3>1 DEF SpliceIs
  <2>7. f[n].text[j] = f[k].text[j]
    <3>1. CASE k = n BY <3>1
    <3>2. CASE k < n
      <4>1. k + 1 \in 1 .. n /\ k < k + 1 BY <1>2, <3>2
      <4>2. Spot(plans, k) + Len(plans[k].text) <= Spot(plans, k + 1) /\ Spot(plans, k + 1) \in Nat
        BY <1>3, <4>1 DEF Spread
      <4>3. Len(plans[k].text) \in Nat BY <2>4 DEF Figures
      <4>4. j \in 1 .. Spot(plans, k + 1) BY <2>4, <4>2, <4>3
      <4>5. QED BY <1>5, <3>2, <4>4 DEF Settled
    <3>3. QED BY <1>2, <3>1, <3>2
  <2>8. QED BY <2>6, <2>7
<1>6. 0 .. n \subseteq S
  <2> HIDE DEF S, n
  <2>1. QED BY <1>2, <1>4, <1>5, InductionDown
<1>7. QED BY <1>6

\* From the last plan up to the k-th: what is before them is as it was, what is
\* behind the one before them is as it will be.
Halfway(w, text, made, plans, k) ==
    /\ w \in Seq(Char) /\ Len(w) = Len(made) - Delta(plans, k + 1)
    /\ \A j \in 1 .. Len(w) :
         /\ k < Len(plans) /\ j <= plans[k + 1].start => w[j] = text[j]
         /\ k = Len(plans) => w[j] = text[j]
         /\ j > End(plans, k) => w[j] = made[j + Delta(plans, k + 1)]

LEMMA HalfwayOn ==
    ASSUME NEW text \in Seq(Char), NEW plans, Placed(plans, Len(text)), NEW f, Run(f, text, plans),
           NEW k \in 1 .. Len(plans), NEW w, Halfway(w, text, f[Len(plans)].text, plans, k)
    PROVE  /\ plans[k].end <= Len(w)
           /\ Halfway(Spliced(w, plans[k].start, plans[k].end, plans[k].text), text,
                      f[Len(plans)].text, plans, k - 1)
<1> DEFINE n == Len(plans)
           made == f[n].text
           D == Delta(plans, k)
           D2 == Delta(plans, k + 1)
           Z == Delta(plans, n + 1)
           a == plans[k].start
           e == plans[k].end
           l == Len(plans[k].text)
           s == Spot(plans, k)
           b == End(plans, k - 1)
           v == Spliced(w, a, e, plans[k].text)
           m == Len(text)
<1>1. plans \in Seq(PlanSet) BY DEF Placed
<1>2. n \in Nat /\ m \in Nat BY <1>1, SeqIs
<1>3. /\ a \in Nat /\ e \in Nat /\ a <= e /\ e <= m /\ l \in Nat /\ plans[k].text \in Seq(Char)
      /\ D \in Int /\ D2 \in Int /\ D2 = D + (l - (e - a)) /\ s = a + D /\ s \in Nat
  BY <1>2, FiguresAre DEF Figures
<1>4. b \in Nat /\ b <= a BY <1>2, EndsBefore
<1>5. Spread(plans, Len(text)) BY <1>2, PlacedSpread
<1>6. s + l = e + D2 /\ s + l <= m + Z /\ m + Z \in Nat BY <1>5 DEF Spread
<1>7. Aft(f, text, plans, k - 1) /\ Aft(f, text, plans, k) /\ Aft(f, text, plans, n)
  <2>1. k - 1 \in 0 .. n /\ k \in 0 .. n /\ n \in 0 .. n BY <1>2
  <2>2. QED BY <2>1, BatchFits
<1>8. Settled(f, plans, k - 1) /\ Settled(f, plans, k)
  <2>1. k - 1 \in 0 .. n /\ k \in 0 .. n BY <1>2
  <2>2. QED BY <2>1, BatchSettles
<1>9. Len(made) = m + Z BY <1>7 DEF Aft
<1>10. w \in Seq(Char) /\ Len(w) = Len(made) - D2 BY DEF Halfway
<1>11. SpliceIs(f[k].text, f[k - 1].text, s, e + D, plans[k].text) BY <1>7, PlanSplices
<1>12. /\ Len(f[k].text) = m + D2 /\ Len(f[k - 1].text) = m + D
       /\ \A j \in 1 .. Len(f[k - 1].text) : j > b + D => f[k - 1].text[j] = text[j - D]
  <2>1. (k - 1) + 1 = k OBVIOUS
  <2>2. QED BY <1>7, <2>1 DEF Aft
<1>13. \A j \in 1 .. s : made[j] = f[k - 1].text[j]
  <2>1. (k - 1) + 1 = k /\ k - 1 < n BY <1>2
  <2>2. QED BY <1>8, <2>1 DEF Settled
<1>14. \A j \in 1 .. s + l : made[j] = f[k].text[j]
  <2>1. CASE k = n BY <2>1
  <2>2. CASE k # n
    <3>1. k < n /\ k + 1 \in 1 .. n /\ k < k + 1 BY <1>2, <2>2
    <3>2. s + l <= Spot(plans, k + 1) /\ Spot(plans, k + 1) \in Nat BY <1>5, <3>1 DEF Spread
    <3>3. \A j \in 1 .. Spot(plans, k + 1) : made[j] = f[k].text[j] BY <1>8, <3>1 DEF Settled
    <3>4. \A j \in 1 .. s + l : j \in 1 .. Spot(plans, k + 1) BY <1>3, <3>2
    <3>5. QED BY <3>3, <3>4
  <2>3. QED BY <2>1, <2>2
<1>15. \A j \in 1 .. Len(w) :
         /\ j <= a => w[j] = text[j]
         /\ j > e => w[j] = made[j + D2]
  <2>1. End(plans, k) = e BY DEF End
  <2>2. CASE k = n BY <2>1, <2>2 DEF Halfway
  <2>3. CASE k # n
    <3>1. k < n /\ k + 1 \in 1 .. n /\ k \in DOMAIN plans /\ k + 1 \in DOMAIN plans /\ k < k + 1
      BY <1>1, <1>2, <2>3, SeqIs
    <3>2. e <= plans[k + 1].start /\ plans[k + 1].start \in Nat
      <4>1. ~(plans[k].end > plans[k + 1].start) BY <3>1 DEF Placed, Overlap
      <4>2. plans[k + 1].start \in Nat BY <1>1, <3>1, PlanFields
      <4> DEFINE x == plans[k + 1].start
      <4>3. ~(e > x) /\ x \in Nat /\ e \in Nat BY <1>3, <4>1, <4>2
      <4> HIDE DEF e, x
      <4>4. e <= x /\ x \in Nat BY <4>3
      <4>5. QED BY <4>4 DEF x
    <3>3. \A j \in 1 .. Len(w) : j <= a => j <= plans[k + 1].start
      <4>1. Len(w) \in Nat BY <1>10, SeqIs
      <4> DEFINE x == plans[k + 1].start
      <4>2. a \in Nat /\ e \in Nat /\ a <= e /\ e <= x /\ x \in Nat BY <1>3, <3>2
      <4> HIDE DEF a, e, x
      <4>3. a <= x /\ a \in Nat /\ x \in Nat BY <4>2
      <4>4. \A j \in 1 .. Len(w) : j <= a => j <= x BY <4>1, <4>3
      <4>5. QED BY <4>4 DEF x
    <3>4. QED BY <2>1, <3>1, <3>3 DEF Halfway
  <2>4. QED BY <2>2, <2>3
<1>16. \A j \in 1 .. Len(f[k].text) :
         f[k].text[j] = IF j <= s THEN f[k - 1].text[j] ELSE IF j <= s + l THEN plans[k].text[j - s]
                        ELSE f[k - 1].text[j - l + ((e + D) - s)]
  BY <1>11 DEF SpliceIs
<1> HIDE DEF n, made, D, D2, Z, a, e, l, s, b, v, m
<1>17. e <= Len(w) BY <1>3, <1>6, <1>9, <1>10
<1>18. SpliceIs(v, w, a, e, plans[k].text)
  <2>1. Len(w) \in Nat BY <1>10, SeqIs
  <2>2. e \in 0 .. Len(w) /\ a \in 0 .. e BY <1>3, <1>17, <2>1
  <2>3. QED BY <1>3, <1>10, <2>2, SplicedIs DEF v
<1>19. v \in Seq(Char) /\ Len(v) = Len(w) - (e - a) + l
       /\ \A j \in 1 .. Len(v) :
         v[j] = IF j <= a THEN w[j] ELSE IF j <= a + l THEN plans[k].text[j - a] ELSE w[j - l + (e - a)]
  BY <1>18 DEF SpliceIs, l
<1>20. Len(v) = Len(made) - D
  <2> DEFINE x == Len(v)  y == Len(w)  c == Len(made)
  <2>1. a \in Nat /\ e \in Nat /\ l \in Nat /\ D \in Int /\ D2 = D + (l - (e - a)) BY <1>3
  <2>2. c \in Nat BY <1>6, <1>9
  <2>3. y = c - D2 /\ x = y - (e - a) + l BY <1>10, <1>19
  <2> HIDE DEF x, y, c
  <2>4. x = c - D BY <2>1, <2>2, <2>3
  <2>5. QED BY <2>4 DEF x, c
<1>21. ASSUME NEW j \in 1 .. Len(v), j <= a PROVE v[j] = text[j]
  <2>1. j \in 1 .. Len(w) BY <1>3, <1>6, <1>9, <1>10, <1>17, <1>21
  <2>2. QED BY <1>15, <1>19, <1>21, <2>1
<1>22. ASSUME NEW j \in 1 .. Len(v), j > b PROVE v[j] = made[j + D]
  <2>1. CASE j <= a
    <3>1. j + D \in 1 .. s /\ j + D > b + D /\ (j + D) - D = j
      <4>1. b + D >= 0
        <5>1. CASE k = 1
          <6>1. Deltas(plans) BY <1>1, DeltasAre
          <6>2. D = 0 /\ b = 0 BY <5>1, <6>1 DEF Deltas, D, b, End
          <6>3. QED BY <6>2
        <5>2. CASE k # 1
          <6>1. k - 1 \in 1 .. n /\ (k - 1) + 1 = k /\ k - 1 # 0 BY <1>2, <5>2 DEF n
          <6>2. Spot(plans, k - 1) \in Nat /\ Figures(plans, m, k - 1)
                /\ Spot(plans, k - 1) + Len(plans[k - 1].text) = plans[k - 1].end + Delta(plans, k)
            BY <1>2, <1>5, <6>1, FiguresAre DEF Spread, n, m
          <6>3. Len(plans[k - 1].text) \in Nat BY <6>2 DEF Figures
          <6>4. b = plans[k - 1].end BY <6>1 DEF b, End
          <6>5. QED BY <6>2, <6>3, <6>4 DEF D
        <5>3. QED BY <5>1, <5>2
      <4>2. QED BY <1>3, <1>4, <1>22, <2>1, <4>1
    <3>2. j + D \in 1 .. Len(f[k - 1].text)
      <4>1. Len(f[k - 1].text) = m + D BY <1>12
      <4>2. s <= m + D BY <1>2, <1>3
      <4>3. QED BY <1>2, <1>3, <3>1, <4>1, <4>2
    <3>3. made[j + D] = text[j]
      <4>1. made[j + D] = f[k - 1].text[j + D] BY <1>13, <3>1
      <4>2. f[k - 1].text[j + D] = text[(j + D) - D] BY <1>12, <3>1, <3>2
      <4>3. QED BY <3>1, <4>1, <4>2
    <3>4. QED BY <1>21, <2>1, <3>3
  <2>2. CASE j > a /\ j <= a + l
    <3>1. j + D \in 1 .. s + l /\ ~(j + D <= s) /\ j + D <= s + l /\ (j + D) - s = j - a
      BY <1>3, <2>2
    <3>2. j + D \in 1 .. Len(f[k].text)
      <4>1. Len(f[k].text) = m + D2 BY <1>12
      <4>2. s + l <= m + D2 BY <1>2, <1>3, <1>6
      <4>3. QED BY <1>2, <1>3, <3>1, <4>1, <4>2
    <3>3. made[j + D] = plans[k].text[j - a]
      <4>1. made[j + D] = f[k].text[j + D] BY <1>14, <3>1
      <4>2. f[k].text[j + D] = plans[k].text[(j + D) - s] BY <1>16, <3>1, <3>2
      <4>3. QED BY <3>1, <4>1, <4>2
    <3>4. ~(j <= a) BY <1>3, <2>2
    <3>5. QED BY <1>19, <2>2, <3>3, <3>4
  <2>3. CASE j > a + l
    <3> DEFINE q == j - l + (e - a)
    <3>1. q \in 1 .. Len(w) /\ q > e /\ q + D2 = j + D
      <4>1. a \in Nat /\ e \in Nat /\ a <= e /\ l \in Nat /\ D \in Int /\ D2 = D + (l - (e - a)) BY <1>3
      <4> DEFINE x == Len(v)  y == Len(w)
      <4>2. y \in Nat /\ x = y - (e - a) + l /\ j \in 1 .. x BY <1>10, <1>19, SeqIs
      <4> HIDE DEF x, y
      <4>3. q \in 1 .. y /\ q > e /\ q + D2 = j + D BY <2>3, <4>1, <4>2
      <4>4. QED BY <4>3 DEF y
    <3>2. ~(j <= a) /\ ~(j <= a + l) BY <1>3, <2>3
    <3>3. v[j] = w[q] BY <1>19, <3>2
    <3> HIDE DEF q
    <3>4. w[q] = made[q + D2] BY <1>15, <3>1
    <3>5. QED BY <3>1, <3>3, <3>4
  <2>4. QED BY <1>3, <2>1, <2>2, <2>3
<1>23. Halfway(v, text, made, plans, k - 1)
  <2>1. (k - 1) + 1 = k /\ k - 1 # Len(plans) BY <1>2 DEF n
  <2>2. QED BY <1>19, <1>20, <1>21, <1>22, <2>1 DEF Halfway, a, b, D
<1>24. QED BY <1>17, <1>23 DEF e, v, a, made, n

\* The batch fits, and the changes of the record in clangd's order make its text.
LEMMA BatchIs ==
    ASSUME NEW text \in Seq(Char), NEW plans, Placed(plans, Len(text))
    PROVE  /\ Applied(text, plans).ok
           /\ Applied(text, plans).text \in Seq(Char)
           /\ Len(Applied(text, plans).text) = Len(text) + Delta(plans, Len(plans) + 1)
           /\ Sent(text, plans) = Applied(text, plans).text
<1> DEFINE n == Len(plans)
           put(t, i) == Spliced(t, plans[i].start, plans[i].end, plans[i].text)
           Is(g) == g = [i \in 1 .. Len(plans) + 1 |-> IF i > Len(plans) THEN text ELSE put(g[i + 1], i)]
           from == CHOOSE g : Is(g)
           next == [k \in 1 .. n |-> [t \in Seq(Char) |-> IF plans[k].end <= Len(t) THEN put(t, k) ELSE t]]
<1>1. plans \in Seq(PlanSet) BY DEF Placed
<1>2. n \in Nat /\ Len(text) \in Nat BY <1>1, SeqIs
<1>3. PICK f : Run(f, text, plans) /\ Applied(text, plans) = f[n] BY <1>1, AppliedRuns
<1>4. Aft(f, text, plans, n)
  <2>1. n \in 0 .. n BY <1>2
  <2>2. QED BY <1>3, <2>1, BatchFits
<1> DEFINE made == f[n].text
<1>5. f[n].ok /\ Len(made) = Len(text) + Delta(plans, n + 1)
      /\ \A j \in 1 .. Len(made) : j > End(plans, n) + Delta(plans, n + 1) => made[j] = text[j - Delta(plans, n + 1)]
  BY <1>4 DEF Aft
<1>6. made \in Seq(Char)
  <2>1. n \in 0 .. n BY <1>2
  <2>2. f[n] \in Progress BY <1>3, <2>1 DEF Run
  <2>3. QED BY <2>2 DEF Progress
<1>7. Sent(text, plans) = from[1] BY DEF Sent
<1>8. next \in [1 .. n -> [Seq(Char) -> Seq(Char)]]
  <2> SUFFICES ASSUME NEW k \in 1 .. n, NEW t \in Seq(Char), plans[k].end <= Len(t)
               PROVE  put(t, k) \in Seq(Char)
    OBVIOUS
  <2>1. Len(t) \in Nat BY SeqIs
  <2>2. plans[k].start \in Nat /\ plans[k].end \in Nat /\ plans[k].start <= plans[k].end
        /\ plans[k].text \in Seq(Char)
    BY <1>1, PlanFields
  <2>3. plans[k].end \in 0 .. Len(t) /\ plans[k].start \in 0 .. plans[k].end BY <2>1, <2>2
  <2>4. SpliceIs(put(t, k), t, plans[k].start, plans[k].end, plans[k].text) BY <2>2, <2>3, SplicedIs
  <2>5. QED BY <2>4 DEF SpliceIs
<1>9. PICK g : IterationDown(g, n, Seq(Char), text, next)
  <2> HIDE DEF n, next
  <2>1. QED BY <1>2, <1>8, IteratesDown
<1>10. g \in [1 .. n + 1 -> Seq(Char)] /\ g[n + 1] = text /\ \A k \in 1 .. n : g[k] = next[k][g[k + 1]]
  BY <1>9 DEF IterationDown
<1> DEFINE S == {k \in 0 .. n : Halfway(g[k + 1], text, made, plans, k)}
<1>11. n \in S
  <2>1. Deltas(plans) BY <1>1, DeltasAre
  <2>2. n + 1 \in 1 .. n + 1 BY <1>2
  <2>3. Delta(plans, n + 1) \in Int BY <2>1, <2>2 DEF Deltas
  <2>4. Len(text) = Len(made) - Delta(plans, n + 1) BY <1>2, <1>5, <2>3
  <2>5. End(plans, n) \in Nat /\ End(plans, n) + Delta(plans, n + 1) >= 0
    <3>1. CASE n = 0
      <4>1. Delta(plans, 0 + 1) = 0 BY <2>1 DEF Deltas
      <4>2. QED BY <3>1, <4>1 DEF End
    <3>2. CASE n # 0
      <4>1. n \in 1 .. n BY <1>2, <3>2
      <4>2. Figures(plans, Len(text), n) /\ Spread(plans, Len(text)) BY <1>2, <4>1, FiguresAre, PlacedSpread
      <4>3. /\ Spot(plans, n) + Len(plans[n].text) = plans[n].end + Delta(plans, n + 1)
            /\ Spot(plans, n) \in Nat
        BY <4>1, <4>2 DEF Spread
      <4>4. plans[n].end \in Nat /\ Len(plans[n].text) \in Nat BY <4>2 DEF Figures
      <4>5. QED BY <3>2, <4>3, <4>4 DEF End
    <3>3. QED BY <3>1, <3>2
  <2>6. ASSUME NEW j \in 1 .. Len(text), j > End(plans, n) PROVE text[j] = made[j + Delta(plans, n + 1)]
    <3> DEFINE Z == Delta(plans, n + 1)
               q == j + Z
    <3> HIDE DEF Z
    <3>1. Len(made) = Len(text) + Z /\ Z \in Int /\ End(plans, n) \in Nat /\ End(plans, n) + Z >= 0
      BY <1>5, <2>3, <2>5 DEF Z
    <3>2. q \in 1 .. Len(made) /\ q > End(plans, n) + Z /\ q - Z = j
      <4> HIDE DEF made, n
      <4>1. QED BY <1>2, <2>6, <3>1
    <3> HIDE DEF q
    <3>3. made[q] = text[q - Z] BY <1>5, <3>2 DEF Z
    <3>4. QED BY <3>2, <3>3 DEF q, Z
  <2>7. Halfway(text, text, made, plans, n)
    <3> HIDE DEF made
    <3>1. QED BY <2>4, <2>6 DEF Halfway
  <2>8. QED BY <1>2, <1>10, <2>7
<1>12. ASSUME NEW k \in 1 .. n, k \in S PROVE k - 1 \in S /\ g[k] = put(g[k + 1], k)
  <2>1. (k - 1) + 1 = k /\ k - 1 \in 0 .. n /\ k + 1 \in 1 .. n + 1 BY <1>2
  <2>2. g[k + 1] \in Seq(Char) BY <1>10, <2>1
  <2>3. Halfway(g[k + 1], text, f[n].text, plans, k) BY <1>12
  <2>4. plans[k].end <= Len(g[k + 1]) /\ Halfway(put(g[k + 1], k), text, f[n].text, plans, k - 1)
    BY <1>3, <2>3, HalfwayOn
  <2>5. g[k] = put(g[k + 1], k) BY <1>10, <2>2, <2>4
  <2>6. QED BY <2>1, <2>4, <2>5
<1>13. 0 .. n \subseteq S
  <2> HIDE DEF S, n, put
  <2>1. QED BY <1>2, <1>11, <1>12, InductionDown
<1>14. \A k \in 1 .. n : g[k] = put(g[k + 1], k)
  <2>1. \A k \in 1 .. n : k \in 0 .. n BY <1>2
  <2> HIDE DEF S, n, put
  <2>2. QED BY <1>12, <1>13, <2>1
<1> HIDE DEF put
<1>15. Is(g)
  <2>1. \A i \in 1 .. n + 1 : g[i] = IF i > n THEN text ELSE put(g[i + 1], i)
    <3> SUFFICES ASSUME NEW i \in 1 .. n + 1 PROVE g[i] = IF i > n THEN text ELSE put(g[i + 1], i) OBVIOUS
    <3>1. CASE i > n
      <4>1. i = n + 1 BY <1>2, <3>1
      <4>2. QED BY <1>10, <3>1, <4>1
    <3>2. CASE ~(i > n)
      <4>1. i \in 1 .. n BY <1>2, <3>2
      <4>2. QED BY <1>14, <3>2, <4>1
    <3>3. QED BY <3>1, <3>2
  <2>2. g = [i \in 1 .. n + 1 |-> g[i]] BY <1>10
  <2>3. QED BY <2>1, <2>2
<1>16. Is(from) BY <1>15
<1> HIDE DEF from
<1>17. \A i \in 1 .. n + 1 : from[i] = IF i > n THEN text ELSE put(from[i + 1], i) BY <1>16
<1> DEFINE R == {k \in 0 .. n : from[k + 1] = g[k + 1]}
<1>18. n \in R
  <2>1. n + 1 \in 1 .. n + 1 /\ n + 1 > n BY <1>2
  <2>2. QED BY <1>2, <1>10, <1>17, <2>1
<1>19. ASSUME NEW k \in 1 .. n, k \in R PROVE k - 1 \in R
  <2>1. k \in 1 .. n + 1 /\ ~(k > n) /\ (k - 1) + 1 = k /\ k - 1 \in 0 .. n BY <1>2
  <2>2. QED BY <1>14, <1>17, <1>19, <2>1
<1>20. 0 .. n \subseteq R
  <2> HIDE DEF R, n
  <2>1. QED BY <1>2, <1>18, <1>19, InductionDown
<1>21. from[1] = g[1]
  <2>1. 0 \in R BY <1>2, <1>20
  <2>2. 0 + 1 = 1 OBVIOUS
  <2>3. QED BY <2>1, <2>2
<1>22. g[1] = made
  <2>1. 0 \in S /\ 0 + 1 = 1 BY <1>2, <1>13
  <2>2. Halfway(g[1], text, made, plans, 0) BY <2>1
  <2>3. Delta(plans, 1) = 0 BY <1>1, DeltasAre DEF Deltas
  <2>4. Len(made) \in Nat BY <1>6, SeqIs
  <2> HIDE DEF made
  <2>5. g[1] \in Seq(Char) /\ Len(g[1]) = Len(made) - 0
        /\ \A j \in 1 .. Len(g[1]) : j > 0 => g[1][j] = made[j + 0]
    BY <2>2, <2>3 DEF Halfway, End
  <2>6. Len(g[1]) = Len(made) /\ \A j \in 1 .. Len(g[1]) : g[1][j] = made[j] BY <2>4, <2>5
  <2>7. QED BY <1>6, <2>5, <2>6, SameText DEF made
<1>23. QED BY <1>3, <1>5, <1>6, <1>7, <1>21, <1>22

-----------------------------------------------------------------------------
(* Numbers in their order.                                                 *)

\* How many of S are not above x.
Rank(S, x) == Cardinality({y \in S : y <= x})

LEMMA EveryRank ==
    ASSUME NEW m \in Nat, NEW S \in SUBSET (0 .. m)
    PROVE  IsFiniteSet(S) /\ Cardinality(S) \in Nat /\ \A q \in 1 .. Cardinality(S) : \E x \in S : Rank(S, x) = q
<1> DEFINE T == {k \in Nat : \A R \in SUBSET (0 .. k - 1) :
                    IsFiniteSet(R) /\ \A q \in 1 .. Cardinality(R) : \E x \in R : Rank(R, x) = q}
<1>1. 0 \in T
  <2>1. ASSUME NEW R \in SUBSET (0 .. 0 - 1) PROVE R = {} OBVIOUS
  <2>2. IsFiniteSet({}) /\ Cardinality({}) = 0 BY FS_EmptySet
  <2>3. \A q \in 1 .. 0 : FALSE OBVIOUS
  <2>4. ASSUME NEW R \in SUBSET (0 .. 0 - 1)
        PROVE  IsFiniteSet(R) /\ \A q \in 1 .. Cardinality(R) : \E x \in R : Rank(R, x) = q
    <3>1. R = {} BY <2>1
    <3>2. QED BY <2>2, <2>3, <3>1
  <2>5. QED BY <2>4
<1>2. ASSUME NEW k \in Nat, k \in T PROVE k + 1 \in T
  <2> SUFFICES ASSUME NEW R \in SUBSET (0 .. k)
               PROVE  IsFiniteSet(R) /\ \A q \in 1 .. Cardinality(R) : \E x \in R : Rank(R, x) = q
    <3>1. (k + 1) - 1 = k OBVIOUS
    <3>2. QED BY <3>1
  <2>1. CASE R \in SUBSET (0 .. k - 1) BY <1>2, <2>1
  <2>2. CASE R \notin SUBSET (0 .. k - 1)
    <3> DEFINE Q == R \ {k}
    <3>1. Q \in SUBSET (0 .. k - 1) /\ k \in R /\ k \notin Q /\ R = Q \cup {k} BY <2>2
    <3>2. IsFiniteSet(Q) /\ \A q \in 1 .. Cardinality(Q) : \E x \in Q : Rank(Q, x) = q BY <1>2, <3>1
    <3>3. IsFiniteSet(R) /\ Cardinality(R) = Cardinality(Q) + 1 /\ Cardinality(Q) \in Nat
      <4> HIDE DEF Q
      <4>1. /\ IsFiniteSet(Q \cup {k})
            /\ Cardinality(Q \cup {k}) = IF k \in Q THEN Cardinality(Q) ELSE Cardinality(Q) + 1
        BY <3>2, FS_AddElement
      <4>2. Cardinality(Q) \in Nat BY <3>2, FS_CardinalityType
      <4>3. QED BY <3>1, <4>1, <4>2
    <3>4. Rank(R, k) = Cardinality(R)
      <4>0. \A y \in R : y \in 0 .. k OBVIOUS
      <4>1. \A y \in R : y <= k BY <4>0
      <4>2. {y \in R : y <= k} = R BY <4>1
      <4>3. QED BY <4>2 DEF Rank
    <3>5. ASSUME NEW x \in Q PROVE Rank(R, x) = Rank(Q, x)
      <4>1. {y \in R : y <= x} = {y \in Q : y <= x} BY <3>1
      <4>2. QED BY <4>1 DEF Rank
    <3> HIDE DEF Q
    <3>6. ASSUME NEW q \in 1 .. Cardinality(R) PROVE \E x \in R : Rank(R, x) = q
      <4>1. CASE q = Cardinality(R) BY <3>1, <3>4, <4>1
      <4>2. CASE q # Cardinality(R)
        <5>1. q \in 1 .. Cardinality(Q) BY <3>3, <4>2
        <5>2. PICK x \in Q : Rank(Q, x) = q BY <3>2, <5>1
        <5>3. QED BY <3>1, <3>5, <5>2
      <4>3. QED BY <4>1, <4>2
    <3>7. QED BY <3>3, <3>6
  <2>3. QED BY <2>1, <2>2
<1> HIDE DEF T
<1>3. Nat \subseteq T BY <1>1, <1>2, Induction
<1>4. m + 1 \in T /\ (m + 1) - 1 = m BY <1>3
<1>5. IsFiniteSet(S) /\ \A q \in 1 .. Cardinality(S) : \E x \in S : Rank(S, x) = q BY <1>4 DEF T
<1>6. QED BY <1>5, FS_CardinalityType

LEMMA RankGrows ==
    ASSUME NEW m \in Nat, NEW S \in SUBSET (0 .. m), NEW x \in S, NEW y \in S, x < y
    PROVE  Rank(S, x) \in Nat /\ Rank(S, y) \in Nat /\ Rank(S, x) < Rank(S, y)
<1> DEFINE A == {z \in S : z <= x}
           B == {z \in S : z <= y}
<1>1. A \subseteq B /\ B \subseteq S /\ y \in B /\ y \notin A
  <2>1. \A z \in S : z \in 0 .. m OBVIOUS
  <2>2. x \in 0 .. m /\ y \in 0 .. m BY <2>1
  <2>3. ~(y <= x) /\ x <= y /\ y <= y BY <2>2
  <2>4. \A z \in S : z <= x => z <= y
    <3> SUFFICES ASSUME NEW z \in S, z <= x PROVE z <= y OBVIOUS
    <3>1. z \in 0 .. m BY <2>1
    <3>2. QED BY <2>2, <3>1
  <2>5. QED BY <2>3, <2>4
<1>2. IsFiniteSet(S) BY EveryRank
<1> HIDE DEF A, B
<1>3. IsFiniteSet(B) /\ IsFiniteSet(A) /\ Cardinality(A) <= Cardinality(B)
      /\ (Cardinality(A) = Cardinality(B) => A = B)
  <2>1. IsFiniteSet(B) BY <1>1, <1>2, FS_Subset
  <2>2. QED BY <1>1, <2>1, FS_Subset
<1>4. Cardinality(A) \in Nat /\ Cardinality(B) \in Nat BY <1>3, FS_CardinalityType
<1>5. Cardinality(A) < Cardinality(B) BY <1>1, <1>3, <1>4
<1>6. QED BY <1>4, <1>5 DEF Rank, A, B

\* Sorted lists a set, the smallest first.
Lists(s, S) ==
    /\ s \in Seq(S) /\ Len(s) = Cardinality(S) /\ Cardinality(S) \in Nat
    /\ \A i, j \in 1 .. Len(s) : i < j => s[i] < s[j]
    /\ \A x \in S : Rank(S, x) \in 1 .. Len(s) /\ s[Rank(S, x)] = x

LEMMA SortedLists ==
    ASSUME NEW m \in Nat, NEW S \in SUBSET (0 .. m)
    PROVE  Lists(Sorted(S), S)
<1> DEFINE s == Sorted(S)
           n == Cardinality(S)
<1>1. n \in Nat /\ IsFiniteSet(S) /\ \A q \in 1 .. n : \E x \in S : Rank(S, x) = q BY EveryRank
<1>2. s = [q \in 1 .. n |-> CHOOSE x \in S : Rank(S, x) = q] BY DEF Sorted, Rank
<1>3. \A q \in 1 .. n : s[q] \in S /\ Rank(S, s[q]) = q BY <1>1, <1>2
<1>4. s \in [1 .. n -> S] BY <1>2, <1>3
<1> HIDE DEF s, n
<1>5. s \in Seq(S) /\ Len(s) = n BY <1>1, <1>4, FunctionIsSeq
<1>6. ASSUME NEW i \in 1 .. n, NEW j \in 1 .. n, i < j PROVE s[i] < s[j]
  <2>1. s[i] \in S /\ s[j] \in S /\ Rank(S, s[i]) = i /\ Rank(S, s[j]) = j BY <1>3
  <2>0. \A z \in S : z \in 0 .. m OBVIOUS
  <2>6. s[i] \in 0 .. m /\ s[j] \in 0 .. m BY <2>0, <2>1
  <2>2. s[i] \in Int /\ s[j] \in Int BY <2>6
  <2>3. CASE s[i] = s[j] BY <1>6, <2>1, <2>3
  <2>4. CASE s[j] < s[i]
    <3>1. Rank(S, s[j]) < Rank(S, s[i]) BY <2>1, <2>4, RankGrows
    <3>2. QED BY <1>6, <2>1, <3>1
  <2>5. QED BY <2>2, <2>3, <2>4
<1>7. ASSUME NEW x \in S PROVE Rank(S, x) \in 1 .. n /\ s[Rank(S, x)] = x
  <2> DEFINE A == {y \in S : y <= x}
  <2>1. A \subseteq S /\ x \in A OBVIOUS
  <2>2. Cardinality(A) <= n /\ Cardinality(A) \in Nat /\ Cardinality(A) # 0
    <3> HIDE DEF A
    <3>1. IsFiniteSet(A) /\ Cardinality(A) <= n BY <1>1, <2>1, FS_Subset DEF n
    <3>2. Cardinality(A) \in Nat BY <3>1, FS_CardinalityType
    <3>3. Cardinality(A) # 0 BY <2>1, <3>1, FS_EmptySet
    <3>4. QED BY <3>1, <3>2, <3>3
  <2>3. Rank(S, x) \in 1 .. n
    <3> HIDE DEF A
    <3>1. Cardinality(A) \in 1 .. n BY <1>1, <2>2
    <3>2. QED BY <3>1 DEF Rank, A
  <2> DEFINE z == s[Rank(S, x)]
  <2>4. z \in S /\ Rank(S, z) = Rank(S, x) BY <1>3, <2>3
  <2> HIDE DEF z
  <2>5. ~(z < x)
    <3> SUFFICES ASSUME z < x PROVE FALSE OBVIOUS
    <3>1. Rank(S, z) < Rank(S, x) BY <2>4, RankGrows
    <3>2. QED BY <1>1, <2>3, <2>4, <3>1
  <2>6. ~(x < z)
    <3> SUFFICES ASSUME x < z PROVE FALSE OBVIOUS
    <3>1. Rank(S, x) < Rank(S, z) BY <2>4, RankGrows
    <3>2. QED BY <1>1, <2>3, <2>4, <3>1
  <2>0. \A y \in S : y \in 0 .. m OBVIOUS
  <2>7. z \in Int /\ x \in Int BY <2>0, <2>4
  <2>8. z = x BY <2>5, <2>6, <2>7
  <2>9. QED BY <2>3, <2>8 DEF z
<1>8. QED BY <1>1, <1>5, <1>6, <1>7 DEF Lists, s, n

-----------------------------------------------------------------------------
(* Carets.                                                                 *)

\* Selections in the order of a text of m characters.
Inside(sels, m) ==
    /\ sels \in Seq(Selection) /\ sels # <<>>
    /\ \A i \in 1 .. Len(sels) : sels[i].anchor <= m /\ sels[i].head <= m
    /\ \A i, j \in 1 .. Len(sels) : i < j => sels[i].anchor <= sels[j].anchor /\ sels[i].head <= sels[j].head

LEMMA InsideFields ==
    ASSUME NEW m \in Nat, NEW sels, Inside(sels, m)
    PROVE  /\ Len(sels) \in Nat \ {0} /\ DOMAIN sels = 1 .. Len(sels)
           /\ \A i \in 1 .. Len(sels) : sels[i].anchor \in 0 .. m /\ sels[i].head \in 0 .. m
<1>1. sels \in Seq(Selection) /\ sels # <<>> BY DEF Inside
<1>2. Len(sels) \in Nat \ {0} BY <1>1, EmptySeq
<1>3. DOMAIN sels = 1 .. Len(sels) BY <1>1, SeqIs
<1>4. ASSUME NEW i \in 1 .. Len(sels) PROVE sels[i].anchor \in 0 .. m /\ sels[i].head \in 0 .. m
  <2>1. sels[i] \in Selection BY <1>1, SeqIs
  <2>2. sels[i].anchor \in Nat /\ sels[i].head \in Nat BY <2>1 DEF Selection
  <2>3. QED BY <2>2 DEF Inside
<1>5. QED BY <1>2, <1>3, <1>4

\* Carets in their order.
LEMMA CaretsInside ==
    ASSUME NEW m \in Nat, NEW n \in Nat \ {0}, NEW c \in [1 .. n -> 0 .. m],
           \A i, j \in 1 .. n : i < j => c[i] <= c[j]
    PROVE  Inside([i \in 1 .. n |-> At(c[i])], m)
<1> DEFINE s == [i \in 1 .. n |-> At(c[i])]
<1>1. s \in [1 .. n -> Selection] BY DEF At, Selection
<1>2. \A i \in 1 .. n : s[i].anchor = c[i] /\ s[i].head = c[i] BY DEF At
<1> HIDE DEF s
<1>3. s \in Seq(Selection) /\ Len(s) = n BY <1>1, FunctionIsSeq
<1>4. s # <<>> BY <1>3, EmptySeq
<1>5. QED BY <1>2, <1>3, <1>4 DEF Inside, s

\* The caret each plan leaves somewhere in its text.
LEMMA PlannedInside ==
    ASSUME NEW m \in Nat, NEW plans, Placed(plans, m), plans # <<>>,
           NEW c, \A i \in 1 .. Len(plans) : c[i] \in 0 .. Len(plans[i].text)
    PROVE  Inside([i \in DOMAIN plans |-> At(Spot(plans, i) + c[i])], m + Delta(plans, Len(plans) + 1))
<1> DEFINE n == Len(plans)
           z == m + Delta(plans, n + 1)
           d == [i \in 1 .. n |-> Spot(plans, i) + c[i]]
<1>1. plans \in Seq(PlanSet) BY DEF Placed
<1>2. n \in Nat \ {0} /\ DOMAIN plans = 1 .. n BY <1>1, EmptySeq, SeqIs
<1>3. Spread(plans, m) BY PlacedSpread
<1>4. z \in Nat BY <1>3 DEF Spread
<1>5. ASSUME NEW i \in 1 .. n
      PROVE  /\ Spot(plans, i) \in Nat /\ c[i] \in Nat /\ c[i] <= Len(plans[i].text)
             /\ Len(plans[i].text) \in Nat /\ Spot(plans, i) + Len(plans[i].text) <= z
  <2>1. Len(plans[i].text) \in Nat BY <1>1, PlanFields
  <2>2. QED BY <1>3, <2>1 DEF Spread
<1>6. \A i, j \in 1 .. n : i < j => Spot(plans, i) + Len(plans[i].text) <= Spot(plans, j)
  BY <1>3 DEF Spread
<1> HIDE DEF n, z
<1>7. d \in [1 .. n -> 0 .. z]
  <2> SUFFICES ASSUME NEW i \in 1 .. n PROVE Spot(plans, i) + c[i] \in 0 .. z OBVIOUS
  <2> DEFINE x == Spot(plans, i)  y == c[i]  l == Len(plans[i].text)
  <2>1. x \in Nat /\ y \in Nat /\ y <= l /\ l \in Nat /\ x + l <= z BY <1>5
  <2> HIDE DEF x, y, l
  <2>2. x + y \in 0 .. z BY <1>4, <2>1
  <2>3. QED BY <2>2 DEF x, y
<1>8. ASSUME NEW i \in 1 .. n, NEW j \in 1 .. n, i < j PROVE d[i] <= d[j]
  <2>1. d[i] = Spot(plans, i) + c[i] /\ d[j] = Spot(plans, j) + c[j] OBVIOUS
  <2>2. Spot(plans, i) + Len(plans[i].text) <= Spot(plans, j) BY <1>6, <1>8
  <2> DEFINE x == Spot(plans, i)  y == c[i]  l == Len(plans[i].text)  u == Spot(plans, j)  w == c[j]
  <2>3. x \in Nat /\ y \in Nat /\ y <= l /\ l \in Nat BY <1>5
  <2>4. u \in Nat /\ w \in Nat /\ x + l <= u BY <1>5, <2>2
  <2>5. d[i] = x + y /\ d[j] = u + w BY <2>1
  <2> HIDE DEF d, x, y, l, u, w
  <2>6. x + y <= u + w BY <2>3, <2>4
  <2>7. QED BY <2>5, <2>6
<1>9. \A i \in 1 .. n : d[i] = Spot(plans, i) + c[i] OBVIOUS
<1> HIDE DEF d
<1>10. Inside([i \in 1 .. n |-> At(d[i])], z) BY <1>2, <1>4, <1>7, <1>8, CaretsInside
<1>11. [i \in 1 .. n |-> At(d[i])] = [i \in DOMAIN plans |-> At(Spot(plans, i) + c[i])] BY <1>2, <1>9
<1>12. QED BY <1>10, <1>11 DEF z, n

\* A batch that fits, in whatever order its ranges are, puts nothing before the text.
LEMMA FitsSpots ==
    ASSUME NEW text \in Seq(Char), NEW plans \in Seq(PlanSet), Applied(text, plans).ok
    PROVE  \A i \in 1 .. Len(plans) : Spot(plans, i) \in Nat
<1>1. PICK f : Run(f, text, plans) /\ Applied(text, plans) = f[Len(plans)] BY AppliedRuns
<1> DEFINE n == Len(plans)
           S == {k \in 0 .. n : f[k].ok}
<1>2. n \in Nat BY SeqIs
<1>3. ASSUME NEW k \in 1 .. n, f[k].ok PROVE Fitting(plans, f[k - 1], k)
  <2>1. f[k] = Progressed(plans, f[k - 1], k) BY <1>1 DEF Run
  <2>2. QED BY <1>3, <2>1 DEF Progressed
<1>4. n \in S BY <1>1, <1>2
<1>5. ASSUME NEW k \in 1 .. n, k \in S PROVE k - 1 \in S
  <2>1. Fitting(plans, f[k - 1], k) BY <1>3, <1>5
  <2>2. f[k - 1].ok /\ k - 1 \in 0 .. n BY <1>2, <2>1 DEF Fitting
  <2>3. QED BY <2>2
<1>6. 0 .. n \subseteq S
  <2> HIDE DEF S, n
  <2>1. QED BY <1>2, <1>4, <1>5, InductionDown
<1>7. ASSUME NEW i \in 1 .. n PROVE Spot(plans, i) \in Nat
  <2>1. i \in S /\ i - 1 \in 0 .. n BY <1>2, <1>6
  <2>2. Fitting(plans, f[i - 1], i) BY <1>3, <2>1
  <2>3. f[i - 1] \in Progress BY <1>1, <2>1 DEF Run
  <2>4. /\ Spot(plans, i) \in 0 .. plans[i].end + Delta(plans, i)
        /\ plans[i].end + Delta(plans, i) \in 0 .. Len(f[i - 1].text)
    BY <2>2, <2>3, FittingRange
  <2>5. QED BY <2>4
<1>8. QED BY <1>7

\* What an indent does to an offset: the plans that end at or before it move it.
Passed(plans, off) == Cardinality({i \in DOMAIN plans : plans[i].end <= off})

LEMMA PassedIs ==
    ASSUME NEW m \in Nat, NEW plans, Placed(plans, m), NEW off \in 0 .. m
    PROVE  /\ Passed(plans, off) \in 0 .. Len(plans)
           /\ \A i \in 1 .. Len(plans) : plans[i].end <= off <=> i <= Passed(plans, off)
<1> DEFINE n == Len(plans)
           C == {i \in DOMAIN plans : plans[i].end <= off}
<1>1. plans \in Seq(PlanSet) BY DEF Placed
<1>2. n \in Nat /\ DOMAIN plans = 1 .. n BY <1>1, SeqIs
<1>3. \A i \in 1 .. n : plans[i].end \in Nat /\ plans[i].start \in Nat /\ plans[i].start <= plans[i].end
  BY <1>1, PlanFields
<1>4. \A i, j \in 1 .. n : i < j => plans[i].end <= plans[j].end
  <2> SUFFICES ASSUME NEW i \in 1 .. n, NEW j \in 1 .. n, i < j PROVE plans[i].end <= plans[j].end OBVIOUS
  <2>1. ~(plans[i].end > plans[j].start) BY <1>2 DEF Placed, Overlap
  <2>2. QED BY <1>3, <2>1
<1>5. \E k \in 0 .. n : C = 1 .. k
  <2>1. CASE C = {}
    <3>1. 0 \in 0 .. n /\ C = 1 .. 0 BY <1>2, <2>1
    <3>2. QED BY <3>1
  <2>2. CASE C # {}
    <3>1. C \subseteq 0 .. n BY <1>2
    <3>2. Max(C) \in C /\ \A y \in C : Max(C) >= y
      <4> HIDE DEF C, n
      <4>1. QED BY <1>2, <2>2, <3>1, MaxIsGreatest
    <3> DEFINE k == Max(C)
    <3>3. k \in C /\ \A y \in C : k >= y BY <3>2
    <3> HIDE DEF k
    <3>4. k \in 1 .. n /\ plans[k].end <= off BY <1>2, <3>3
    <3>5. ASSUME NEW y \in 1 .. k PROVE y \in C
      <4>1. y \in 1 .. n /\ plans[y].end <= plans[k].end BY <1>2, <1>3, <1>4, <3>4
      <4>2. plans[y].end <= off BY <1>3, <3>4, <4>1
      <4>3. QED BY <1>2, <4>1, <4>2
    <3>6. ASSUME NEW y \in C PROVE y \in 1 .. k BY <1>2, <3>3, <3>4
    <3>7. C = 1 .. k BY <3>5, <3>6
    <3>8. QED BY <3>4, <3>7
  <2>3. QED BY <2>1, <2>2
<1>6. PICK k \in 0 .. n : C = 1 .. k BY <1>5
<1>7. Passed(plans, off) = k
  <2>1. Cardinality(1 .. k) = k
    <3>1. Cardinality(1 .. k) = IF 1 > k THEN 0 ELSE k - 1 + 1 BY FS_Interval
    <3>2. QED BY <3>1
  <2>2. QED BY <1>6, <2>1 DEF Passed
<1>8. \A i \in 1 .. n : plans[i].end <= off <=> i \in 1 .. k BY <1>2, <1>6
<1>9. QED BY <1>2, <1>7, <1>8

\* Plans that take one character at most.
Shallow(plans) == \A i \in 1 .. Len(plans) : plans[i].end <= plans[i].start + 1

LEMMA MappedIs ==
    ASSUME NEW m \in Nat, NEW plans, Placed(plans, m), Shallow(plans), NEW off \in 0 .. m
    PROVE  Mapped(plans, off) = off + Delta(plans, Passed(plans, off) + 1)
<1>1. plans \in Seq(PlanSet) BY DEF Placed
<1>2. DOMAIN plans = 1 .. Len(plans) BY <1>1, SeqIs
<1>3. ASSUME NEW i \in DOMAIN plans PROVE ~(plans[i].start < off /\ off < plans[i].end)
  <2>1. plans[i].start \in Nat /\ plans[i].end \in Nat /\ plans[i].end <= plans[i].start + 1
    BY <1>1, <1>2, PlanFields DEF Shallow
  <2>2. QED BY <2>1
<1>4. {i \in DOMAIN plans : plans[i].start < off /\ off < plans[i].end} = {} BY <1>3
<1>5. QED BY <1>4 DEF Mapped, Passed

LEMMA MappedStays ==
    ASSUME NEW m \in Nat, NEW plans, Placed(plans, m), Shallow(plans), NEW off \in 0 .. m
    PROVE  Mapped(plans, off) \in 0 .. m + Delta(plans, Len(plans) + 1)
<1> DEFINE n == Len(plans)
           k == Passed(plans, off)
           D == Delta(plans, k + 1)
           z == m + Delta(plans, n + 1)
<1>1. plans \in Seq(PlanSet) BY DEF Placed
<1>2. n \in Nat BY <1>1, SeqIs
<1>3. Spread(plans, m) BY PlacedSpread
<1>4. k \in 0 .. n /\ \A i \in 1 .. n : plans[i].end <= off <=> i <= k BY PassedIs
<1>5. Mapped(plans, off) = off + D BY MappedIs
<1>6. z \in Nat BY <1>3 DEF Spread
<1>7. D \in Int
  <2> HIDE DEF k
  <2>1. k + 1 \in 1 .. n + 1 BY <1>2, <1>4
  <2>2. QED BY <1>1, <2>1, DeltasAre DEF Deltas
<1>8. off + D >= 0
  <2>1. CASE k = 0
    <3>1. D = 0 BY <1>1, <2>1, DeltasAre DEF Deltas
    <3> HIDE DEF D
    <3>2. QED BY <3>1
  <2>2. CASE k # 0
    <3>1. k \in 1 .. n /\ plans[k].end <= off BY <1>4, <2>2
    <3>2. Spot(plans, k) \in Nat /\ Spot(plans, k) + Len(plans[k].text) = plans[k].end + D
      BY <1>3, <3>1 DEF Spread
    <3>3. Len(plans[k].text) \in Nat /\ plans[k].end \in Nat BY <1>1, <3>1, PlanFields
    <3> HIDE DEF k, D
    <3>4. QED BY <1>7, <3>1, <3>2, <3>3
  <2>3. QED BY <2>1, <2>2
<1>9. off + D <= z
  <2>1. CASE k = n BY <2>1, <1>7, <1>6
  <2>2. CASE k # n
    <3>1. k + 1 \in 1 .. n /\ ~(k + 1 <= k) BY <1>2, <1>4, <2>2
    <3>2. ~(plans[k + 1].end <= off) BY <1>4, <3>1
    <3>3. /\ plans[k + 1].end \in Nat /\ plans[k + 1].start \in Nat /\ Len(plans[k + 1].text) \in Nat
          /\ plans[k + 1].end <= plans[k + 1].start + 1
      BY <1>1, <3>1, PlanFields DEF Shallow
    <3>4. Spot(plans, k + 1) + Len(plans[k + 1].text) <= z BY <1>3, <3>1 DEF Spread
    <3>5. Spot(plans, k + 1) = plans[k + 1].start + D BY DEF Spot
    <3> DEFINE s == plans[k + 1].start  e == plans[k + 1].end  l == Len(plans[k + 1].text)
    <3>6. ~(e <= off) /\ e \in Nat /\ s \in Nat /\ l \in Nat /\ e <= s + 1 BY <3>2, <3>3
    <3>7. (s + D) + l <= z BY <3>4, <3>5
    <3> HIDE DEF k, D, z, s, e, l
    <3>8. off <= s BY <3>6
    <3>9. QED BY <1>6, <1>7, <3>6, <3>7, <3>8
  <2>3. QED BY <2>1, <2>2
<1> HIDE DEF k, D, z
<1>10. QED BY <1>5, <1>6, <1>7, <1>8, <1>9 DEF z, n

LEMMA MappedOrder ==
    ASSUME NEW m \in Nat, NEW plans, Placed(plans, m), Shallow(plans),
           NEW off \in 0 .. m, NEW to \in 0 .. m, off <= to
    PROVE  Mapped(plans, off) <= Mapped(plans, to)
<1> DEFINE n == Len(plans)
           k == Passed(plans, off)
           j == Passed(plans, to)
           D == Delta(plans, k + 1)
           E == Delta(plans, j + 1)
<1>1. plans \in Seq(PlanSet) BY DEF Placed
<1>2. n \in Nat BY <1>1, SeqIs
<1>3. Spread(plans, m) BY PlacedSpread
<1>4. k \in 0 .. n /\ \A i \in 1 .. n : plans[i].end <= off <=> i <= k BY PassedIs
<1>5. j \in 0 .. n /\ \A i \in 1 .. n : plans[i].end <= to <=> i <= j BY PassedIs
<1>6. Mapped(plans, off) = off + D /\ Mapped(plans, to) = to + E BY MappedIs
<1> HIDE DEF n, k, j
<1>7. D \in Int /\ E \in Int
  <2>1. k + 1 \in 1 .. n + 1 /\ j + 1 \in 1 .. n + 1 BY <1>2, <1>4, <1>5
  <2>2. QED BY <1>1, <2>1, DeltasAre DEF Deltas, n
<1>8. k <= j
  <2>1. CASE k = 0 BY <1>5, <2>1
  <2>2. CASE k # 0
    <3>1. k \in 1 .. n /\ plans[k].end <= off BY <1>4, <2>2
    <3>2. plans[k].end \in Nat BY <1>1, <3>1, PlanFields DEF n
    <3>3. plans[k].end <= to BY <3>1, <3>2
    <3>4. QED BY <1>5, <3>1, <3>3
  <2>3. QED BY <2>1, <2>2
<1>9. CASE k = j BY <1>6, <1>7, <1>9
<1>10. CASE k < j
  <2>1. k + 1 \in 1 .. n /\ ~(k + 1 <= k) /\ j \in 1 .. n BY <1>2, <1>4, <1>5, <1>10
  <2>2. ~(plans[k + 1].end <= off) /\ plans[j].end <= to BY <1>4, <1>5, <2>1
  <2>3. /\ plans[k + 1].end \in Nat /\ plans[k + 1].start \in Nat /\ Len(plans[k + 1].text) \in Nat
        /\ plans[k + 1].end <= plans[k + 1].start + 1
    BY <1>1, <2>1, PlanFields DEF Shallow, n
  <2>4. Spot(plans, k + 1) = plans[k + 1].start + D BY DEF Spot
  <2>5. Spot(plans, j) \in Nat /\ Spot(plans, j) + Len(plans[j].text) = plans[j].end + E
    BY <1>3, <2>1 DEF Spread, n
  <2>6. Len(plans[j].text) \in Nat /\ plans[j].end \in Nat BY <1>1, <2>1, PlanFields DEF n
  <2>7. Spot(plans, k + 1) <= Spot(plans, j)
    <3>1. CASE k + 1 = j BY <2>5, <3>1
    <3>2. CASE k + 1 # j
      <4>1. k + 1 < j BY <1>2, <1>4, <1>5, <1>10, <3>2
      <4>2. Spot(plans, k + 1) + Len(plans[k + 1].text) <= Spot(plans, j) /\ Spot(plans, k + 1) \in Nat
        BY <1>3, <2>1, <4>1 DEF Spread, n
      <4>3. QED BY <2>3, <2>5, <4>2
    <3>3. QED BY <3>1, <3>2
  <2> HIDE DEF D, E
  <2>8. off + D <= to + E
    <3>1. off <= plans[k + 1].start BY <2>2, <2>3
    <3>2. off + D <= Spot(plans, k + 1) /\ Spot(plans, k + 1) \in Int BY <1>7, <2>3, <2>4, <3>1
    <3>3. Spot(plans, j) <= plans[j].end + E BY <1>7, <2>5, <2>6
    <3>4. Spot(plans, j) <= to + E BY <1>7, <2>2, <2>5, <2>6, <3>3
    <3>5. QED BY <1>7, <2>5, <2>7, <3>2, <3>4
  <2>9. QED BY <1>6, <2>8 DEF D, E
<1>11. QED BY <1>2, <1>4, <1>5, <1>8, <1>9, <1>10

-----------------------------------------------------------------------------
(* Rows, words and indents.                                                *)

LEMMA RowStartIs ==
    ASSUME NEW t, NEW off \in 0 .. Len(t), Len(t) \in Nat
    PROVE  RowStart(t, off) \in 0 .. off /\ RowStart(t, off) \in RowStarts(t)
<1> DEFINE S == {s \in RowStarts(t) : s <= off}
<1>1. S \subseteq 0 .. off BY DEF RowStarts, Offsets
<1>2. 0 \in S BY DEF RowStarts, Offsets
<1>3. Max(S) \in S BY <1>1, <1>2, MaxIsGreatest
<1>4. RowStart(t, off) = Max(S) BY DEF RowStart
<1>5. Max(S) \in RowStarts(t) BY <1>3
<1>6. Max(S) \in 0 .. off BY <1>1, <1>3
<1>7. QED BY <1>4, <1>5, <1>6

LEMMA RowStartOrder ==
    ASSUME NEW t, Len(t) \in Nat, NEW off \in 0 .. Len(t), NEW to \in 0 .. Len(t), off <= to
    PROVE  RowStart(t, off) <= RowStart(t, to)
<1> DEFINE S == {s \in RowStarts(t) : s <= to}
<1>1. S \subseteq 0 .. to /\ 0 \in S BY DEF RowStarts, Offsets
<1>2. \A y \in S : Max(S) >= y BY <1>1, MaxIsGreatest
<1>3. RowStart(t, to) = Max(S) BY DEF RowStart
<1>4. RowStart(t, off) \in RowStarts(t) /\ RowStart(t, off) \in 0 .. off BY RowStartIs
<1>5. RowStart(t, off) \in S BY <1>4
<1> HIDE DEF S
<1>6. Max(S) >= RowStart(t, off) BY <1>2, <1>5
<1>7. RowStart(t, to) \in 0 .. to BY RowStartIs
<1>8. QED BY <1>3, <1>4, <1>6, <1>7

LEMMA RowEndIs ==
    ASSUME NEW t, Len(t) \in Nat, NEW row \in 0 .. Len(t)
    PROVE  RowEnd(t, row) \in row .. Len(t) /\ (RowEnd(t, row) = Len(t) \/ t[RowEnd(t, row) + 1] = "nl")
<1> DEFINE S == {e \in row .. Len(t) : e = Len(t) \/ t[e + 1] = "nl"}
<1>1. S \subseteq Nat /\ Len(t) \in S OBVIOUS
<1>2. Min(S) \in S BY <1>1, MinIsLeast
<1>3. RowEnd(t, row) = Min(S) BY DEF RowEnd
<1>4. QED BY <1>2, <1>3

LEMMA RowEndOrder ==
    ASSUME NEW t, Len(t) \in Nat, NEW row \in 0 .. Len(t), NEW to \in 0 .. Len(t), row <= to
    PROVE  RowEnd(t, row) <= RowEnd(t, to)
<1> DEFINE S == {e \in row .. Len(t) : e = Len(t) \/ t[e + 1] = "nl"}
<1>1. S \subseteq Nat /\ Len(t) \in S OBVIOUS
<1>2. \A y \in S : Min(S) <= y BY <1>1, MinIsLeast
<1>3. RowEnd(t, row) = Min(S) BY DEF RowEnd
<1>4. RowEnd(t, to) \in to .. Len(t) /\ (RowEnd(t, to) = Len(t) \/ t[RowEnd(t, to) + 1] = "nl") BY RowEndIs
<1>5. RowEnd(t, to) \in S BY <1>4
<1> HIDE DEF S
<1>6. QED BY <1>2, <1>3, <1>5

LEMMA NextRowIs ==
    ASSUME NEW t, Len(t) \in Nat, NEW row \in 0 .. Len(t)
    PROVE  NextRow(t, row) \in row .. Len(t)
<1>1. RowEnd(t, row) \in row .. Len(t) BY RowEndIs
<1>2. QED BY <1>1 DEF NextRow

LEMMA IndentIs ==
    ASSUME NEW t, NEW row \in Nat, NEW to \in Nat, row <= to
    PROVE  Indent(t, row, to) \in 0 .. to - row
<1> DEFINE S == {e \in row .. to : \A i \in row + 1 .. e : t[i] = "tab"}
<1>1. S \subseteq 0 .. to OBVIOUS
<1>2. row \in S OBVIOUS
<1>3. Max(S) \in S BY <1>1, <1>2, MaxIsGreatest
<1>4. Max(S) \in row .. to BY <1>3
<1>5. Indent(t, row, to) = Max(S) - row BY DEF Indent
<1> HIDE DEF S
<1>6. QED BY <1>4, <1>5

LEMMA TabsAre ==
    ASSUME NEW n \in Nat
    PROVE  Tabs(n) \in Seq(Char) /\ Len(Tabs(n)) = n
<1>1. Tabs(n) \in [1 .. n -> Char] BY DEF Tabs, Char
<1>2. QED BY <1>1, FunctionIsSeq

\* The end of the word before an offset, and its start.
WordEdge(t, off) == Max({k \in 0 .. off : k = 0 \/ Class(t[k]) # "white"})

LEMMA WordEdgeIs ==
    ASSUME NEW t, NEW off \in Nat
    PROVE  /\ WordEdge(t, off) \in 0 .. off
           /\ WordEdge(t, off) = 0 \/ Class(t[WordEdge(t, off)]) # "white"
           /\ \A k \in 0 .. off : k = 0 \/ Class(t[k]) # "white" => k <= WordEdge(t, off)
<1> DEFINE S == {k \in 0 .. off : k = 0 \/ Class(t[k]) # "white"}
<1>1. S \subseteq 0 .. off /\ 0 \in S OBVIOUS
<1>2. Max(S) \in S /\ \A y \in S : Max(S) >= y BY <1>1, MaxIsGreatest
<1>3. WordEdge(t, off) = Max(S) BY DEF WordEdge
<1>4. Max(S) \in 0 .. off BY <1>2
<1>5. Max(S) = 0 \/ Class(t[Max(S)]) # "white" BY <1>2
<1>6. ASSUME NEW k \in 0 .. off, k = 0 \/ Class(t[k]) # "white" PROVE k <= Max(S)
  <2>1. k \in S BY <1>6
  <2> HIDE DEF S
  <2>2. Max(S) >= k BY <1>2, <2>1
  <2>3. QED BY <1>4, <2>2
<1>7. QED BY <1>3, <1>4, <1>5, <1>6

WordRun(t, k, edge) == \A j \in k + 1 .. edge : Class(t[j]) = Class(t[edge])

LEMMA WordLeftIs ==
    ASSUME NEW t, NEW off \in Nat
    PROVE  /\ WordLeft(t, off) \in 0 .. WordEdge(t, off)
           /\ WordRun(t, WordLeft(t, off), WordEdge(t, off))
           /\ \A k \in 0 .. WordEdge(t, off) : WordRun(t, k, WordEdge(t, off)) => WordLeft(t, off) <= k
<1> DEFINE edge == WordEdge(t, off)
           S == {k \in 0 .. edge : \A j \in k + 1 .. edge : Class(t[j]) = Class(t[edge])}
<1>1. edge \in 0 .. off BY WordEdgeIs
<1>2. WordLeft(t, off) = Min(S) BY DEF WordLeft, WordEdge
<1> HIDE DEF edge
<1>3. S \subseteq Nat /\ edge \in S BY <1>1
<1>4. Min(S) \in S /\ \A y \in S : Min(S) <= y BY <1>3, MinIsLeast
<1>5. Min(S) \in 0 .. edge /\ WordRun(t, Min(S), edge) BY <1>4 DEF WordRun
<1>6. ASSUME NEW k \in 0 .. edge, WordRun(t, k, edge) PROVE Min(S) <= k
  <2>1. k \in S BY <1>6 DEF WordRun
  <2> HIDE DEF S
  <2>2. QED BY <1>4, <2>1
<1>7. QED BY <1>2, <1>5, <1>6 DEF edge

\* There is a character between an offset and the word edge before it, except at 0.
LEMMA WordLeftMoves ==
    ASSUME NEW t, NEW off \in Nat
    PROVE  WordLeft(t, off) \in 0 .. off /\ (off # 0 => WordLeft(t, off) < off)
<1> DEFINE edge == WordEdge(t, off)
<1>1. edge \in 0 .. off BY WordEdgeIs
<1>2. WordLeft(t, off) \in 0 .. edge BY WordLeftIs
<1>3. \A k \in 0 .. edge : WordRun(t, k, edge) => WordLeft(t, off) <= k BY WordLeftIs
<1> HIDE DEF edge
<1>4. CASE edge = 0 BY <1>1, <1>2, <1>4
<1>5. CASE edge # 0
  <2>1. edge - 1 \in 0 .. edge /\ \A j \in edge - 1 + 1 .. edge : j = edge BY <1>1, <1>5
  <2>2. WordRun(t, edge - 1, edge) BY <2>1 DEF WordRun
  <2>3. WordLeft(t, off) <= edge - 1 BY <1>3, <2>1, <2>2
  <2>4. QED BY <1>1, <1>2, <2>3
<1>6. QED BY <1>4, <1>5

LEMMA WordLeftOrder ==
    ASSUME NEW t, NEW off \in Nat, NEW to \in Nat, off <= to
    PROVE  WordLeft(t, off) <= WordLeft(t, to)
<1> DEFINE e == WordEdge(t, off)
           g == WordEdge(t, to)
           x == WordLeft(t, off)
           y == WordLeft(t, to)
<1>1. e \in 0 .. off /\ (e = 0 \/ Class(t[e]) # "white") BY WordEdgeIs
<1>2. g \in 0 .. to /\ \A k \in 0 .. to : k = 0 \/ Class(t[k]) # "white" => k <= g BY WordEdgeIs
<1>3. x \in 0 .. e /\ \A k \in 0 .. e : WordRun(t, k, e) => x <= k BY WordLeftIs
<1>4. y \in 0 .. g /\ WordRun(t, y, g) BY WordLeftIs
<1> HIDE DEF e, g, x, y
<1>5. e <= g
  <2>1. e \in 0 .. to BY <1>1
  <2>2. QED BY <1>1, <1>2, <2>1
<1>6. ASSUME y >= e PROVE x <= y BY <1>1, <1>2, <1>3, <1>4, <1>6
<1>7. ASSUME y < e PROVE x <= y
  <2>1. e \in y + 1 .. g BY <1>1, <1>2, <1>4, <1>5, <1>7
  <2>2. \A j \in y + 1 .. e : j \in y + 1 .. g BY <1>1, <1>2, <1>4, <1>5
  <2>3. WordRun(t, y, e)
    <3> SUFFICES ASSUME NEW j \in y + 1 .. e PROVE Class(t[j]) = Class(t[e]) BY DEF WordRun
    <3>1. j \in y + 1 .. g BY <2>2
    <3>2. Class(t[j]) = Class(t[g]) /\ Class(t[e]) = Class(t[g]) BY <1>4, <2>1, <3>1 DEF WordRun
    <3>3. QED BY <3>2
  <2>4. y \in 0 .. e BY <1>1, <1>4, <1>7
  <2>5. QED BY <1>3, <2>3, <2>4
<1>8. x <= y BY <1>1, <1>2, <1>3, <1>4, <1>6, <1>7
<1>9. QED BY <1>8 DEF x, y

\* The start of the word behind an offset, and its end.
WordHead(t, off) == Min({k \in off .. Len(t) : k = Len(t) \/ Class(t[k + 1]) # "white"})

LEMMA WordHeadIs ==
    ASSUME NEW t, Len(t) \in Nat, NEW off \in 0 .. Len(t)
    PROVE  /\ WordHead(t, off) \in off .. Len(t)
           /\ WordHead(t, off) = Len(t) \/ Class(t[WordHead(t, off) + 1]) # "white"
           /\ \A k \in off .. Len(t) : k = Len(t) \/ Class(t[k + 1]) # "white" => WordHead(t, off) <= k
<1> DEFINE S == {k \in off .. Len(t) : k = Len(t) \/ Class(t[k + 1]) # "white"}
<1>1. S \subseteq Nat /\ Len(t) \in S OBVIOUS
<1>2. Min(S) \in S /\ \A y \in S : Min(S) <= y BY <1>1, MinIsLeast
<1>3. WordHead(t, off) = Min(S) BY DEF WordHead
<1>4. Min(S) \in off .. Len(t) BY <1>2
<1>5. Min(S) = Len(t) \/ Class(t[Min(S) + 1]) # "white" BY <1>2
<1>6. ASSUME NEW k \in off .. Len(t), k = Len(t) \/ Class(t[k + 1]) # "white" PROVE Min(S) <= k
  <2>1. k \in S BY <1>6
  <2> HIDE DEF S
  <2>2. QED BY <1>2, <2>1
<1>7. QED BY <1>3, <1>4, <1>5, <1>6

RunOn(t, k, edge) == \A j \in edge + 1 .. k : Class(t[j]) = Class(t[edge + 1])

LEMMA WordRightIs ==
    ASSUME NEW t, Len(t) \in Nat, NEW off \in 0 .. Len(t)
    PROVE  /\ WordRight(t, off) \in WordHead(t, off) .. Len(t)
           /\ RunOn(t, WordRight(t, off), WordHead(t, off))
           /\ \A k \in WordHead(t, off) .. Len(t) : RunOn(t, k, WordHead(t, off)) => k <= WordRight(t, off)
<1> DEFINE edge == WordHead(t, off)
           m == Len(t)
           S == {k \in edge .. m : \A j \in edge + 1 .. k : Class(t[j]) = Class(t[edge + 1])}
<1>1. edge \in 0 .. m
  <2>1. edge \in off .. m BY WordHeadIs
  <2> HIDE DEF edge
  <2>2. QED BY <2>1
<1>2. WordRight(t, off) = Max(S) BY DEF WordRight, WordHead
<1> HIDE DEF edge, m
<1>3. m \in Nat BY DEF m
<1>4. S \subseteq 0 .. m /\ edge \in S BY <1>1, <1>3
<1>5. Max(S) \in S /\ \A y \in S : Max(S) >= y BY <1>3, <1>4, MaxIsGreatest
<1>6. Max(S) \in edge .. m /\ RunOn(t, Max(S), edge) BY <1>5 DEF RunOn
<1>7. ASSUME NEW k \in edge .. m, RunOn(t, k, edge) PROVE k <= Max(S)
  <2>1. k \in S BY <1>7 DEF RunOn
  <2> HIDE DEF S
  <2>2. Max(S) >= k BY <1>5, <2>1
  <2>3. QED BY <1>1, <1>3, <1>6, <2>2
<1>8. QED BY <1>2, <1>6, <1>7 DEF edge, m

LEMMA WordRightOrder ==
    ASSUME NEW t, Len(t) \in Nat, NEW off \in 0 .. Len(t), NEW to \in 0 .. Len(t), off <= to
    PROVE  WordRight(t, off) <= WordRight(t, to)
<1> DEFINE m == Len(t)
           e == WordHead(t, off)
           g == WordHead(t, to)
           x == WordRight(t, off)
           y == WordRight(t, to)
<1>1. e \in off .. m /\ \A k \in off .. m : k = m \/ Class(t[k + 1]) # "white" => e <= k BY WordHeadIs
<1>2. g \in to .. m /\ (g = m \/ Class(t[g + 1]) # "white") BY WordHeadIs
<1>3. x \in e .. m /\ RunOn(t, x, e) BY WordRightIs
<1>4. y \in g .. m /\ \A k \in g .. m : RunOn(t, k, g) => k <= y BY WordRightIs
<1> HIDE DEF m, e, g, x, y
<1>5. off \in 0 .. m /\ to \in 0 .. m /\ m \in Nat BY DEF m
<1>6. e <= g
  <2>1. g \in off .. m BY <1>2, <1>5
  <2>2. QED BY <1>1, <1>2, <2>1
<1>7. ASSUME x <= g PROVE x <= y BY <1>2, <1>3, <1>4, <1>5, <1>7
<1>8. ASSUME x > g PROVE x <= y
  <2>1. g + 1 \in e + 1 .. x BY <1>1, <1>2, <1>3, <1>5, <1>6, <1>8
  <2>2. \A j \in g + 1 .. x : j \in e + 1 .. x BY <1>1, <1>2, <1>3, <1>5, <1>6
  <2>3. RunOn(t, x, g)
    <3> SUFFICES ASSUME NEW j \in g + 1 .. x PROVE Class(t[j]) = Class(t[g + 1]) BY DEF RunOn
    <3>1. j \in e + 1 .. x BY <2>2
    <3>2. Class(t[j]) = Class(t[e + 1]) /\ Class(t[g + 1]) = Class(t[e + 1]) BY <1>3, <2>1, <3>1 DEF RunOn
    <3>3. QED BY <3>2
  <2>4. x \in g .. m BY <1>2, <1>3, <1>5, <1>8
  <2>5. QED BY <1>4, <2>3, <2>4
<1>9. x <= y BY <1>1, <1>2, <1>3, <1>5, <1>7, <1>8
<1>10. QED BY <1>9 DEF x, y

-----------------------------------------------------------------------------
(* Selections and the edits that keys make of them.                        *)

\* A text with selections in it.
Fine(b) == b.text \in Seq(Char) /\ Inside(b.cursors, Len(b.text))

\* The two ends of a selection.
Ends(sel, m) ==
    /\ sel.anchor \in 0 .. m /\ sel.head \in 0 .. m
    /\ Lo(sel) \in 0 .. m /\ Hi(sel) \in 0 .. m /\ Lo(sel) <= Hi(sel)
    /\ Lo(sel) = IF sel.anchor <= sel.head THEN sel.anchor ELSE sel.head
    /\ Hi(sel) = IF sel.anchor >= sel.head THEN sel.anchor ELSE sel.head

LEMMA EndsAre ==
    ASSUME NEW m \in Nat, NEW sels, Inside(sels, m), NEW i \in 1 .. Len(sels)
    PROVE  Ends(sels[i], m)
<1>1. sels[i].anchor \in 0 .. m /\ sels[i].head \in 0 .. m BY InsideFields
<1>2. Lo(sels[i]) = IF sels[i].anchor <= sels[i].head THEN sels[i].anchor ELSE sels[i].head
  BY <1>1, MinOfTwo DEF Lo
<1>3. Hi(sels[i]) = IF sels[i].anchor >= sels[i].head THEN sels[i].anchor ELSE sels[i].head
  BY <1>1, MaxOfTwo DEF Hi
<1>4. QED BY <1>1, <1>2, <1>3 DEF Ends

LEMMA EndsOrder ==
    ASSUME NEW m \in Nat, NEW sels, Inside(sels, m),
           NEW i \in 1 .. Len(sels), NEW j \in 1 .. Len(sels), i < j
    PROVE  Lo(sels[i]) <= Lo(sels[j]) /\ Hi(sels[i]) <= Hi(sels[j])
<1>1. Ends(sels[i], m) /\ Ends(sels[j], m) BY EndsAre
<1>2. sels[i].anchor <= sels[j].anchor /\ sels[i].head <= sels[j].head BY DEF Inside
<1>3. QED BY <1>1, <1>2 DEF Ends

LEMMA FirstSel ==
    ASSUME NEW b, Fine(b)
    PROVE  /\ b.text \in Seq(Char) /\ Len(b.text) \in Nat
           /\ Len(b.cursors) \in Nat \ {0} /\ 1 \in 1 .. Len(b.cursors) /\ DOMAIN b.cursors = 1 .. Len(b.cursors)
           /\ Ends(b.cursors[1], Len(b.text))
<1>1. b.text \in Seq(Char) /\ Len(b.text) \in Nat BY SeqIs DEF Fine
<1>2. Len(b.cursors) \in Nat \ {0} /\ DOMAIN b.cursors = 1 .. Len(b.cursors) BY <1>1, InsideFields DEF Fine
<1>3. 1 \in 1 .. Len(b.cursors) BY <1>2
<1>4. QED BY <1>1, <1>2, <1>3, EndsAre DEF Fine

LEMMA PlanIs ==
    ASSUME NEW s \in Nat, NEW e \in Nat, s <= e, NEW text \in Seq(Char)
    PROVE  /\ Plan(s, e, text) \in PlanSet
           /\ Plan(s, e, text).start = s /\ Plan(s, e, text).end = e /\ Plan(s, e, text).text = text
BY DEF Plan, PlanSet

\* What a key plans for a text and the selections it leaves: the plans are in the
\* text; if none is over another the selections are in the text they make, and if
\* the batch fits at all they are selections.
Sound(t, edit) ==
    /\ edit.plans \in Seq(PlanSet) /\ \A i \in 1 .. Len(edit.plans) : edit.plans[i].end <= Len(t)
    /\ edit.coalesce \in BOOLEAN
    /\ edit.plans # <<>> => edit.sels # <<>>
    /\ ~Overlap(edit.plans) => Inside(OrStart(edit.sels), Len(t) + Delta(edit.plans, Len(edit.plans) + 1))
    /\ Applied(t, edit.plans).ok => edit.sels \in Seq(Selection)

LEMMA EditIs ==
    ASSUME NEW plans, NEW sels, NEW coalesce
    PROVE  /\ Edit(plans, sels, coalesce).plans = plans /\ Edit(plans, sels, coalesce).sels = sels
           /\ Edit(plans, sels, coalesce).coalesce = coalesce
BY DEF Edit

\* Carets somewhere in what each plan inserts.
LEMMA PlannedSound ==
    ASSUME NEW t \in Seq(Char), NEW plans \in Seq(PlanSet), plans # <<>>,
           \A i \in 1 .. Len(plans) : plans[i].end <= Len(t),
           NEW c, \A i \in 1 .. Len(plans) : c[i] \in 0 .. Len(plans[i].text), NEW coalesce \in BOOLEAN
    PROVE  Sound(t, Edit(plans, [i \in DOMAIN plans |-> At(Spot(plans, i) + c[i])], coalesce))
<1> DEFINE sels == [i \in DOMAIN plans |-> At(Spot(plans, i) + c[i])]
           n == Len(plans)
<1>1. n \in Nat \ {0} /\ DOMAIN plans = 1 .. n /\ Len(t) \in Nat BY EmptySeq, SeqIs
<1>2. sels # <<>>
  <2>1. DOMAIN sels = 1 .. n /\ 1 \in 1 .. n BY <1>1
  <2>2. DOMAIN <<>> = {} OBVIOUS
  <2> HIDE DEF sels
  <2>3. QED BY <2>1, <2>2
<1>3. ASSUME ~Overlap(plans) PROVE Inside(OrStart(sels), Len(t) + Delta(plans, n + 1))
  <2>1. Placed(plans, Len(t)) BY <1>3 DEF Placed
  <2>2. Inside(sels, Len(t) + Delta(plans, n + 1)) BY <1>1, <2>1, PlannedInside
  <2>3. QED BY <1>2, <2>2 DEF OrStart
<1>4. ASSUME Applied(t, plans).ok PROVE sels \in Seq(Selection)
  <2>1. ASSUME NEW i \in 1 .. n PROVE sels[i] \in Selection
    <3>1. Spot(plans, i) \in Nat BY <1>4, FitsSpots
    <3>2. Len(plans[i].text) \in Nat BY PlanFields
    <3>3. c[i] \in Nat BY <3>2
    <3>4. sels[i] = At(Spot(plans, i) + c[i]) BY <1>1
    <3> HIDE DEF sels
    <3>5. QED BY <3>1, <3>3, <3>4 DEF At, Selection
  <2>2. sels \in [1 .. n -> Selection] BY <1>1, <2>1
  <2> HIDE DEF sels
  <2>3. QED BY <1>1, <2>2, FunctionIsSeq
<1> HIDE DEF sels
<1>5. QED BY <1>2, <1>3, <1>4, EditIs DEF Sound, sels

LEMMA BatchSound ==
    ASSUME NEW t \in Seq(Char), NEW plans \in Seq(PlanSet), plans # <<>>,
           \A i \in 1 .. Len(plans) : plans[i].end <= Len(t), NEW coalesce \in BOOLEAN
    PROVE  Sound(t, Edit(plans, CaretsAfter(plans), coalesce))
<1> DEFINE c == [i \in 1 .. Len(plans) |-> Len(plans[i].text)]
<1>1. DOMAIN plans = 1 .. Len(plans) BY SeqIs
<1>2. \A i \in 1 .. Len(plans) : c[i] = Len(plans[i].text) OBVIOUS
<1>3. \A i \in 1 .. Len(plans) : c[i] \in 0 .. Len(plans[i].text)
  <2> SUFFICES ASSUME NEW i \in 1 .. Len(plans) PROVE c[i] \in 0 .. Len(plans[i].text) OBVIOUS
  <2>1. Len(plans[i].text) \in Nat BY PlanFields
  <2>2. QED BY <2>1
<1> HIDE DEF c
<1>4. Sound(t, Edit(plans, [i \in DOMAIN plans |-> At(Spot(plans, i) + c[i])], coalesce)) BY <1>3, PlannedSound
<1>5. [i \in DOMAIN plans |-> At(Spot(plans, i) + c[i])] = CaretsAfter(plans)
  <2>1. \A i \in DOMAIN plans : At(Spot(plans, i) + c[i]) = At(plans[i].start + Delta(plans, i) + Len(plans[i].text))
    BY <1>1, <1>2 DEF Spot
  <2>2. QED BY <2>1 DEF CaretsAfter
<1>6. QED BY <1>4, <1>5

\* One plan for every selection.
LEMMA PerSel ==
    ASSUME NEW b, Fine(b), NEW text, \A i \in 1 .. Len(b.cursors) : text[i] \in Seq(Char),
           NEW plans, plans = [i \in DOMAIN b.cursors |-> Plan(Lo(b.cursors[i]), Hi(b.cursors[i]), text[i])]
    PROVE  /\ plans \in Seq(PlanSet) /\ plans # <<>> /\ Len(plans) = Len(b.cursors)
           /\ \A i \in 1 .. Len(plans) : plans[i].end <= Len(b.text) /\ plans[i].text = text[i]
<1> DEFINE n == Len(b.cursors)
<1>1. n \in Nat \ {0} /\ DOMAIN b.cursors = 1 .. n BY FirstSel
<1>2. ASSUME NEW i \in 1 .. n
      PROVE  plans[i] \in PlanSet /\ plans[i].end <= Len(b.text) /\ plans[i].text = text[i]
  <2>1. Ends(b.cursors[i], Len(b.text)) BY FirstSel, EndsAre DEF Fine
  <2>2. Lo(b.cursors[i]) \in Nat /\ Hi(b.cursors[i]) \in Nat /\ Lo(b.cursors[i]) <= Hi(b.cursors[i])
        /\ Hi(b.cursors[i]) <= Len(b.text)
    BY <2>1, FirstSel DEF Ends
  <2>3. plans[i] = Plan(Lo(b.cursors[i]), Hi(b.cursors[i]), text[i]) BY <1>1
  <2>4. QED BY <2>2, <2>3, PlanIs
<1>3. plans \in [1 .. n -> PlanSet] BY <1>1, <1>2
<1> HIDE DEF n
<1>4. plans \in Seq(PlanSet) /\ Len(plans) = n BY <1>1, <1>3, FunctionIsSeq
<1>5. plans # <<>> BY <1>1, <1>4, EmptySeq
<1>6. QED BY <1>2, <1>4, <1>5 DEF n

LEMMA InsertsSound ==
    ASSUME NEW b, Fine(b), NEW text \in Seq(Char), NEW coalesce \in BOOLEAN
    PROVE  Sound(b.text, Inserts(b, text, coalesce))
<1> DEFINE same == [i \in 1 .. Len(b.cursors) |-> text]
           plans == [i \in DOMAIN b.cursors |-> Plan(Lo(b.cursors[i]), Hi(b.cursors[i]), text)]
           like == [i \in DOMAIN b.cursors |-> Plan(Lo(b.cursors[i]), Hi(b.cursors[i]), same[i])]
<1>1. DOMAIN b.cursors = 1 .. Len(b.cursors) /\ b.text \in Seq(Char) BY FirstSel
<1>2. \A i \in 1 .. Len(b.cursors) : same[i] = text OBVIOUS
<1> HIDE DEF same
<1>3. plans = like BY <1>1, <1>2
<1>4. \A i \in 1 .. Len(b.cursors) : same[i] \in Seq(Char) BY <1>2
<1>5. like \in Seq(PlanSet) /\ like # <<>> /\ \A i \in 1 .. Len(like) : like[i].end <= Len(b.text)
  BY <1>4, PerSel
<1>6. Inserts(b, text, coalesce) = Edit(plans, CaretsAfter(plans), coalesce) BY DEF Inserts
<1> HIDE DEF plans, like
<1>7. QED BY <1>1, <1>3, <1>5, <1>6, BatchSound

LEMMA NewRowIs ==
    ASSUME NEW b, Fine(b), NEW i \in 1 .. Len(b.cursors)
    PROVE  /\ NewRow(b.text, b.cursors[i]).text \in Seq(Char)
           /\ NewRow(b.text, b.cursors[i]).caret \in 0 .. Len(NewRow(b.text, b.cursors[i]).text)
<1> DEFINE t == b.text
           sel == b.cursors[i]
           row == RowStart(t, Lo(sel))
           base == Indent(t, row, Lo(sel))
           opens == Count(t, row, Lo(sel), "{") > Count(t, row, Lo(sel), "}")
           closes == \E c \in Hi(sel) .. RowEnd(t, RowStart(t, Hi(sel))) - 1 :
                       t[c + 1] = "}" /\ \A k \in Hi(sel) + 1 .. c : t[k] = "tab"
           deep == IF opens THEN base + 1 ELSE base
           tail == IF opens /\ closes THEN <<"nl">> \o Tabs(base) ELSE <<>>
           new == <<"nl">> \o Tabs(deep) \o tail
           caret == IF opens THEN base + 2 ELSE base + 1
<1>1. NewRow(t, sel).text = new /\ NewRow(t, sel).caret = caret BY DEF NewRow
<1>2. t \in Seq(Char) /\ Len(t) \in Nat /\ Ends(sel, Len(t)) BY FirstSel, EndsAre DEF Fine
<1>3. Lo(sel) \in 0 .. Len(t) BY <1>2 DEF Ends
<1> HIDE DEF t, sel
<1>4. row \in 0 .. Lo(sel) BY <1>2, <1>3, RowStartIs
<1>5. base \in Nat
  <2> HIDE DEF row
  <2>1. base \in 0 .. Lo(sel) - row BY <1>3, <1>4, IndentIs
  <2>2. QED BY <1>3, <1>4, <2>1
<1> HIDE DEF base, opens, closes
<1>6. deep \in Nat /\ caret = deep + 1 BY <1>5
<1> HIDE DEF deep, caret
<1>7. Tabs(deep) \in Seq(Char) /\ Len(Tabs(deep)) = deep /\ Tabs(base) \in Seq(Char) BY <1>5, <1>6, TabsAre
<1>8. <<"nl">> \in Seq(Char) /\ Len(<<"nl">>) = 1 /\ <<>> \in Seq(Char) BY DEF Char
<1>9. tail \in Seq(Char) BY <1>7, <1>8
<1> HIDE DEF tail
<1>10. <<"nl">> \o Tabs(deep) \in Seq(Char) /\ Len(<<"nl">> \o Tabs(deep)) = 1 + deep
  BY <1>6, <1>7, <1>8, ConcatProperties
<1>11. new \in Seq(Char) /\ Len(new) = 1 + deep + Len(tail) BY <1>9, <1>10, ConcatProperties
<1>12. Len(tail) \in Nat BY <1>9, SeqIs
<1> HIDE DEF new
<1>13. caret \in 0 .. Len(new) BY <1>6, <1>11, <1>12
<1>14. QED BY <1>1, <1>11, <1>13 DEF t, sel

LEMMA NewlinesSound ==
    ASSUME NEW b, Fine(b)
    PROVE  Sound(b.text, Newlines(b))
<1> DEFINE new == [i \in DOMAIN b.cursors |-> NewRow(b.text, b.cursors[i])]
           plans == [i \in DOMAIN new |-> Plan(Lo(b.cursors[i]), Hi(b.cursors[i]), new[i].text)]
           sels == [i \in DOMAIN new |-> At(plans[i].start + Delta(plans, i) + new[i].caret)]
           text == [i \in 1 .. Len(b.cursors) |-> NewRow(b.text, b.cursors[i]).text]
           caret == [i \in 1 .. Len(b.cursors) |-> NewRow(b.text, b.cursors[i]).caret]
           like == [i \in DOMAIN b.cursors |-> Plan(Lo(b.cursors[i]), Hi(b.cursors[i]), text[i])]
<1>1. DOMAIN b.cursors = 1 .. Len(b.cursors) /\ b.text \in Seq(Char) BY FirstSel
<1>2. Newlines(b) = Edit(plans, sels, FALSE) BY DEF Newlines
<1>3. \A i \in 1 .. Len(b.cursors) : text[i] = new[i].text /\ caret[i] = new[i].caret BY <1>1
<1>4. \A i \in 1 .. Len(b.cursors) : text[i] \in Seq(Char) /\ caret[i] \in 0 .. Len(text[i]) BY NewRowIs
<1>5. DOMAIN new = 1 .. Len(b.cursors) BY <1>1
<1> HIDE DEF new, text, caret
<1>6. plans = like BY <1>1, <1>3, <1>5
<1>7. /\ like \in Seq(PlanSet) /\ like # <<>> /\ Len(like) = Len(b.cursors)
      /\ \A i \in 1 .. Len(like) : like[i].end <= Len(b.text) /\ like[i].text = text[i]
  BY <1>4, PerSel
<1>8. DOMAIN plans = DOMAIN new OBVIOUS
<1> HIDE DEF plans, like
<1>9. \A i \in 1 .. Len(plans) : caret[i] \in 0 .. Len(plans[i].text) BY <1>4, <1>6, <1>7
<1>10. Sound(b.text, Edit(plans, [i \in DOMAIN plans |-> At(Spot(plans, i) + caret[i])], FALSE))
  BY <1>1, <1>6, <1>7, <1>9, PlannedSound
<1>11. [i \in DOMAIN plans |-> At(Spot(plans, i) + caret[i])] = sels
  <2>1. \A i \in DOMAIN new : At(Spot(plans, i) + caret[i]) = At(plans[i].start + Delta(plans, i) + new[i].caret)
    BY <1>3, <1>5 DEF Spot
  <2>2. QED BY <1>8, <2>1
<1>12. QED BY <1>2, <1>10, <1>11

LEMMA ReplacesSound ==
    ASSUME NEW t \in Seq(Char), NEW e \in 0 .. Len(t), NEW s \in 0 .. e, NEW text \in Seq(Char),
           NEW coalesce \in BOOLEAN
    PROVE  Sound(t, Replaces(s, e, text, coalesce))
<1> DEFINE plans == <<Plan(s, e, text)>>
<1>1. Len(t) \in Nat /\ Len(text) \in Nat BY SeqIs
<1>2. s \in Nat /\ e \in Nat /\ s <= e /\ e <= Len(t) BY <1>1
<1>3. Plan(s, e, text) \in PlanSet /\ Plan(s, e, text).start = s /\ Plan(s, e, text).end = e
      /\ Plan(s, e, text).text = text
  BY <1>2, PlanIs
<1>4. plans \in Seq(PlanSet) /\ Len(plans) = 1 /\ plans # <<>> /\ plans[1] = Plan(s, e, text)
      /\ DOMAIN plans = {1}
  BY <1>3
<1>5. Replaces(s, e, text, coalesce) = Edit(plans, <<At(s + Len(text))>>, coalesce) BY DEF Replaces
<1> HIDE DEF plans
<1>6. \A i \in 1 .. Len(plans) : plans[i].end <= Len(t) BY <1>2, <1>3, <1>4
<1>7. Sound(t, Edit(plans, CaretsAfter(plans), coalesce)) BY <1>4, <1>6, BatchSound
<1>8. Delta(plans, 1) = 0 BY <1>4, DeltasAre DEF Deltas
<1>9. CaretsAfter(plans) = <<At(s + Len(text))>>
  <2>1. CaretsAfter(plans) = [i \in {1} |-> At(plans[i].start + Delta(plans, i) + Len(plans[i].text))]
    BY <1>4 DEF CaretsAfter
  <2>2. plans[1].start + Delta(plans, 1) + Len(plans[1].text) = s + Len(text)
    BY <1>2, <1>3, <1>4, <1>8
  <2>3. CaretsAfter(plans) = [i \in {1} |-> At(s + Len(text))]
    <3>1. \A i \in {1} : At(plans[i].start + Delta(plans, i) + Len(plans[i].text)) = At(s + Len(text)) BY <2>2
    <3>2. QED BY <2>1, <3>1
  <2>4. <<At(s + Len(text))>> = [i \in {1} |-> At(s + Len(text))] OBVIOUS
  <2>5. QED BY <2>3, <2>4
<1>10. QED BY <1>5, <1>7, <1>9

LEMMA SoundIs ==
    ASSUME NEW t, NEW plans \in Seq(PlanSet), \A i \in 1 .. Len(plans) : plans[i].end <= Len(t),
           NEW coalesce \in BOOLEAN, NEW sels \in Seq(Selection), sels # <<>> \/ plans = <<>>,
           Overlap(plans) \/ Inside(OrStart(sels), Len(t) + Delta(plans, Len(plans) + 1))
    PROVE  Sound(t, Edit(plans, sels, coalesce))
<1> DEFINE e == Edit(plans, sels, coalesce)
<1>1. e.plans = plans /\ e.sels = sels /\ e.coalesce = coalesce BY EditIs
<1> HIDE DEF e
<1>2. Sound(t, e) BY <1>1 DEF Sound
<1>3. QED BY <1>2 DEF e

LEMMA NoPlans ==
    ASSUME NEW plans, plans = <<>>
    PROVE  plans \in Seq(PlanSet) /\ Len(plans) = 0 /\ DOMAIN plans = {} /\ Delta(plans, Len(plans) + 1) = 0
<1>1. plans \in Seq(PlanSet) /\ Len(plans) = 0 /\ DOMAIN plans = {} OBVIOUS
<1>2. Delta(plans, 1) = 0 BY <1>1, DeltasAre DEF Deltas
<1>3. Len(plans) + 1 = 1 BY <1>1
<1>4. QED BY <1>1, <1>2, <1>3

\* A plan over w characters at each of some places that are w apart.
LEMMA SortedPlaced ==
    ASSUME NEW m \in Nat, NEW S \in SUBSET (0 .. m), NEW w \in Nat, \A s \in S : s + w <= m,
           \A s, q \in S : s < q => s + w <= q,
           NEW text \in Seq(Char),
           NEW plans, plans = [i \in DOMAIN Sorted(S) |-> Plan(Sorted(S)[i], Sorted(S)[i] + w, text)]
    PROVE  Placed(plans, m) /\ (w <= 1 => Shallow(plans))
<1> DEFINE r == Sorted(S)
           n == Len(r)
<1>1. Lists(r, S) BY SortedLists
<1>2. r \in Seq(S) BY <1>1 DEF Lists
<1>3. n \in Nat /\ DOMAIN r = 1 .. n /\ \A i \in 1 .. n : r[i] \in S BY <1>2, SeqIs
<1>4. \A i, j \in 1 .. n : i < j => r[i] < r[j] BY <1>1 DEF Lists
<1>5. plans = [i \in 1 .. n |-> Plan(r[i], r[i] + w, text)] BY <1>3
<1> HIDE DEF r, n
<1>6. ASSUME NEW i \in 1 .. n
      PROVE  /\ plans[i] \in PlanSet /\ plans[i].start = r[i] /\ plans[i].end = r[i] + w
             /\ r[i] \in Nat /\ r[i] + w <= m /\ r[i] \in S
  <2>1. r[i] \in S BY <1>3
  <2>2. r[i] \in 0 .. m /\ r[i] + w <= m BY <2>1
  <2>3. r[i] \in Nat /\ r[i] + w \in Nat /\ r[i] <= r[i] + w BY <2>2
  <2>4. plans[i] = Plan(r[i], r[i] + w, text) BY <1>5
  <2>5. QED BY <2>1, <2>2, <2>3, <2>4, PlanIs
<1>7. plans \in [1 .. n -> PlanSet]
  <2>1. \A i \in 1 .. n : Plan(r[i], r[i] + w, text) \in PlanSet BY <1>5, <1>6
  <2>2. QED BY <1>5, <2>1
<1>8. plans \in Seq(PlanSet) /\ Len(plans) = n BY <1>3, <1>7, FunctionIsSeq
<1>9. DOMAIN plans = 1 .. n BY <1>5
<1>10. ~Overlap(plans)
  <2> SUFFICES ASSUME NEW i \in 1 .. n, NEW j \in 1 .. n, i < j PROVE ~(plans[i].end > plans[j].start)
    BY <1>9 DEF Overlap
  <2>1. r[i] < r[j] BY <1>4
  <2>2. plans[i].end = r[i] + w /\ r[i] \in Nat BY <1>6
  <2>3. plans[j].start = r[j] /\ r[j] \in Nat BY <1>6
  <2>4. r[i] \in S /\ r[j] \in S BY <1>6
  <2>5. r[i] + w <= r[j] BY <2>1, <2>4
  <2>6. QED BY <2>2, <2>3, <2>5
<1>11. \A i \in 1 .. n : plans[i].end <= m /\ (w <= 1 => plans[i].end <= plans[i].start + 1)
  <2> SUFFICES ASSUME NEW i \in 1 .. n
               PROVE  plans[i].end <= m /\ (w <= 1 => plans[i].end <= plans[i].start + 1) OBVIOUS
  <2>1. QED BY <1>6
<1>12. QED BY <1>8, <1>10, <1>11 DEF Placed, Shallow

LEMMA EverywhereSound ==
    ASSUME NEW t \in Seq(Char), NEW n \in Nat, NEW sites, sites \subseteq 0 .. Len(t) - n,
           \A s, q \in sites : s < q => s + n <= q, NEW text \in Seq(Char)
    PROVE  Sound(t, Everywhere(sites, n, text)) /\ Placed(Everywhere(sites, n, text).plans, Len(t))
<1> DEFINE plans == [k \in DOMAIN Sorted(sites) |-> Plan(Sorted(sites)[k], Sorted(sites)[k] + n, text)]
           m == Len(t)
<1>1. m \in Nat BY SeqIs
<1>2. \A s \in sites : s \in 0 .. m - n OBVIOUS
<1>3. sites \in SUBSET (0 .. m) /\ \A s \in sites : s + n <= m BY <1>1, <1>2
<1>4. Everywhere(sites, n, text) = Edit(plans, CaretsAfter(plans), FALSE) BY DEF Everywhere, Batch
<1> HIDE DEF m
<1>5. Placed(plans, m) BY <1>1, <1>3, SortedPlaced
<1> HIDE DEF plans
<1>6. plans \in Seq(PlanSet) /\ \A i \in 1 .. Len(plans) : plans[i].end <= Len(t) BY <1>5 DEF Placed, m
<1>7. ASSUME plans # <<>> PROVE Sound(t, Edit(plans, CaretsAfter(plans), FALSE)) BY <1>6, <1>7, BatchSound
<1>8. ASSUME plans = <<>> PROVE Sound(t, Edit(plans, CaretsAfter(plans), FALSE))
  <2>1. Len(plans) = 0 /\ DOMAIN plans = {} /\ Delta(plans, Len(plans) + 1) = 0 BY <1>8, NoPlans
  <2>2. CaretsAfter(plans) = <<>> BY <2>1 DEF CaretsAfter
  <2>3. OrStart(<<>>) = <<At(0)>> /\ <<>> \in Seq(Selection) BY DEF OrStart
  <2>4. Inside(<<At(0)>>, Len(t))
    <3>1. At(0).anchor = 0 /\ At(0).head = 0 /\ At(0) \in Selection BY DEF At, Selection
    <3> DEFINE s == <<At(0)>>
    <3>2. s \in Seq(Selection) /\ s # <<>> /\ Len(s) = 1 /\ s[1] = At(0) BY <3>1
    <3> HIDE DEF s
    <3>3. \A i \in 1 .. Len(s) : s[i] = At(0) BY <3>2
    <3>4. \A i \in 1 .. Len(s) : s[i].anchor = 0 /\ s[i].head = 0 BY <3>1, <3>3
    <3>5. Inside(s, Len(t)) BY <1>1, <3>2, <3>4 DEF Inside, m
    <3>6. QED BY <3>5 DEF s
  <2>5. Len(t) + Delta(plans, Len(plans) + 1) = Len(t) BY <1>1, <2>1 DEF m
  <2>6. Inside(OrStart(CaretsAfter(plans)), Len(t) + Delta(plans, Len(plans) + 1)) BY <2>2, <2>3, <2>4, <2>5
  <2>7. CaretsAfter(plans) \in Seq(Selection) BY <2>2, <2>3
  <2>8. QED BY <1>6, <1>8, <2>6, <2>7, SoundIs
<1>9. Everywhere(sites, n, text).plans = plans BY <1>4 DEF Edit
<1>10. Placed(Everywhere(sites, n, text).plans, Len(t)) BY <1>5, <1>9 DEF m
<1>11. Sound(t, Everywhere(sites, n, text)) BY <1>4, <1>7, <1>8
<1>12. QED BY <1>10, <1>11

\* Indents and what they do to the selections.
LEMMA ReindentsSound ==
    ASSUME NEW b, Fine(b), NEW plans, Placed(plans, Len(b.text)), Shallow(plans)
    PROVE  Sound(b.text, Reindents(b, plans))
<1> DEFINE m == Len(b.text)
           z == m + Delta(plans, Len(plans) + 1)
           n == Len(b.cursors)
           sels == [i \in DOMAIN b.cursors |-> [anchor |-> Mapped(plans, b.cursors[i].anchor),
                                                head |-> Mapped(plans, b.cursors[i].head)]]
<1>1. m \in Nat /\ n \in Nat \ {0} /\ DOMAIN b.cursors = 1 .. n BY FirstSel
<1>2. plans \in Seq(PlanSet) /\ \A i \in 1 .. Len(plans) : plans[i].end <= m BY DEF Placed
<1>3. Spread(plans, m) BY <1>1, PlacedSpread
<1>4. z \in Nat BY <1>3 DEF Spread
<1>5. Reindents(b, plans) = Edit(plans, sels, FALSE) BY DEF Reindents
<1>6. Inside(b.cursors, m) BY DEF Fine
<1> HIDE DEF m
<1>7. \A off \in 0 .. m : Mapped(plans, off) \in 0 .. z BY <1>1, MappedStays DEF m
<1>8. \A off, to \in 0 .. m : off <= to => Mapped(plans, off) <= Mapped(plans, to) BY <1>1, MappedOrder DEF m
<1> HIDE DEF z, n
<1>9. ASSUME NEW i \in 1 .. n
      PROVE  /\ b.cursors[i].anchor \in 0 .. m /\ b.cursors[i].head \in 0 .. m
             /\ sels[i] \in Selection /\ sels[i].anchor <= z /\ sels[i].head <= z
             /\ sels[i].anchor = Mapped(plans, b.cursors[i].anchor)
             /\ sels[i].head = Mapped(plans, b.cursors[i].head)
  <2>1. b.cursors[i].anchor \in 0 .. m /\ b.cursors[i].head \in 0 .. m BY <1>1, <1>6, InsideFields DEF n
  <2>2. Mapped(plans, b.cursors[i].anchor) \in 0 .. z /\ Mapped(plans, b.cursors[i].head) \in 0 .. z
    BY <1>7, <2>1
  <2>3. sels[i].anchor = Mapped(plans, b.cursors[i].anchor) /\ sels[i].head = Mapped(plans, b.cursors[i].head)
    BY <1>1
  <2>4. sels[i] = [anchor |-> Mapped(plans, b.cursors[i].anchor), head |-> Mapped(plans, b.cursors[i].head)]
    BY <1>1
  <2> HIDE DEF sels
  <2>5. sels[i] \in Selection BY <1>4, <2>2, <2>4 DEF Selection
  <2>6. QED BY <1>4, <2>1, <2>2, <2>3, <2>5
<1>10. DOMAIN sels = 1 .. n BY <1>1
<1>11. sels \in [1 .. n -> Selection] BY <1>1, <1>9
<1> HIDE DEF sels
<1>12. sels \in Seq(Selection) /\ Len(sels) = n BY <1>1, <1>11, FunctionIsSeq
<1>13. sels # <<>> BY <1>1, <1>12, EmptySeq
<1>14. ASSUME NEW i \in 1 .. n, NEW j \in 1 .. n, i < j
       PROVE  sels[i].anchor <= sels[j].anchor /\ sels[i].head <= sels[j].head
  <2>1. b.cursors[i].anchor <= b.cursors[j].anchor /\ b.cursors[i].head <= b.cursors[j].head
    BY <1>6, <1>14 DEF Inside, n
  <2>2. QED BY <1>8, <1>9, <2>1
<1>15. Inside(sels, z) BY <1>9, <1>12, <1>13, <1>14 DEF Inside
<1>16. OrStart(sels) = sels BY <1>13 DEF OrStart
<1>17. Sound(b.text, Edit(plans, sels, FALSE))
  BY <1>2, <1>12, <1>13, <1>15, <1>16, SoundIs DEF z, m
<1>18. QED BY <1>5, <1>17

LEMMA IndentsSound ==
    ASSUME NEW b, Fine(b)
    PROVE  Sound(b.text, Indents(b))
<1> DEFINE m == Len(b.text)
           S == {r \in SelectedRows(b) : RowEnd(b.text, r) # r}
           text == Tabs(1)
           plans == [i \in DOMAIN Sorted(S) |-> Plan(Sorted(S)[i], Sorted(S)[i], text)]
           like == [i \in DOMAIN Sorted(S) |-> Plan(Sorted(S)[i], Sorted(S)[i] + 0, text)]
<1>1. m \in Nat BY FirstSel
<1>2. S \in SUBSET (0 .. m) BY DEF SelectedRows, RowStarts, Offsets
<1>3. text \in Seq(Char) BY TabsAre
<1>4. Indents(b) = Reindents(b, plans) BY DEF Indents
<1> HIDE DEF m, S, text
<1>5. \A s \in S : s + 0 <= m
  <2>1. \A s \in S : s \in 0 .. m BY <1>2
  <2>2. QED BY <1>1, <2>1
<1>6. Placed(like, m) /\ Shallow(like)
  <2>1. \A s, q \in S : s < q => s + 0 <= q BY <1>2
  <2>2. 0 \in Nat /\ 0 <= 1 OBVIOUS
  <2> HIDE DEF like
  <2>3. Placed(like, m) /\ (0 <= 1 => Shallow(like)) BY <1>1, <1>2, <1>3, <1>5, <2>1, <2>2, SortedPlaced DEF like
  <2>4. QED BY <2>2, <2>3
<1>7. plans = like
  <2>1. Lists(Sorted(S), S) BY <1>1, <1>2, SortedLists
  <2>2. Sorted(S) \in Seq(S) BY <2>1 DEF Lists
  <2>3. ASSUME NEW i \in DOMAIN Sorted(S) PROVE Sorted(S)[i] + 0 = Sorted(S)[i]
    <3>1. Sorted(S)[i] \in S BY <2>2, SeqIs
    <3>2. Sorted(S)[i] \in 0 .. m BY <1>2, <3>1
    <3>3. QED BY <3>2
  <2>4. QED BY <2>3
<1> HIDE DEF plans, like
<1>8. QED BY <1>4, <1>6, <1>7, ReindentsSound DEF m

LEMMA OutdentsSound ==
    ASSUME NEW b, Fine(b)
    PROVE  Sound(b.text, Outdents(b))
<1> DEFINE m == Len(b.text)
           t == b.text
           S == {r \in SelectedRows(b) : Indent(b.text, r, RowEnd(b.text, r)) # 0}
           plans == [i \in DOMAIN Sorted(S) |-> Plan(Sorted(S)[i], Sorted(S)[i] + 1, <<>>)]
<1>1. m \in Nat BY FirstSel
<1>2. S \in SUBSET (0 .. m) BY DEF SelectedRows, RowStarts, Offsets
<1>3. Outdents(b) = Reindents(b, plans) BY DEF Outdents
<1>4. ASSUME NEW r \in S PROVE r + 1 <= m
  <2>1. Indent(t, r, RowEnd(t, r)) # 0 /\ r \in 0 .. m BY <1>2
  <2> HIDE DEF S
  <2>2. RowEnd(t, r) \in r .. m BY <1>1, <2>1, RowEndIs
  <2>3. Indent(t, r, RowEnd(t, r)) \in 0 .. RowEnd(t, r) - r
    <3> DEFINE e == RowEnd(t, r)
    <3>1. e \in Nat /\ r \in Nat /\ r <= e BY <1>1, <2>1, <2>2
    <3> HIDE DEF e
    <3>2. Indent(t, r, e) \in 0 .. e - r BY <3>1, IndentIs
    <3>3. QED BY <3>2 DEF e
  <2> DEFINE e == RowEnd(t, r)  w == Indent(t, r, RowEnd(t, r))
  <2>4. e \in r .. m /\ w \in 0 .. e - r /\ w # 0 /\ r \in 0 .. m BY <2>1, <2>2, <2>3
  <2> HIDE DEF e, w, m
  <2>5. r + 1 <= m BY <1>1, <2>4
  <2>6. QED BY <2>5 DEF m
<1> HIDE DEF m, S
<1>5. <<>> \in Seq(Char) OBVIOUS
<1>6. Placed(plans, m) /\ Shallow(plans)
  <2>1. \A s, q \in S : s < q => s + 1 <= q BY <1>2
  <2>2. 1 \in Nat /\ 1 <= 1 OBVIOUS
  <2>3. Placed(plans, m) /\ (1 <= 1 => Shallow(plans)) BY <1>1, <1>2, <1>4, <1>5, <2>1, <2>2, SortedPlaced
  <2>4. QED BY <2>2, <2>3
<1> HIDE DEF plans
<1>7. QED BY <1>3, <1>6, ReindentsSound DEF m

\* The alignment of a closer.
LEMMA AlignmentSound ==
    ASSUME NEW b, Fine(b), Aligns(b)
    PROVE  Sound(b.text, Alignment(b)) /\ Len(Alignment(b).plans) \in {0, 1}
<1> DEFINE t == b.text
           caret == b.cursors[1].head
           row == RowStart(t, caret)
           old == Indent(t, row, caret)
           from == RowStart(t, Max(Opener(t, row)))
           new == Indent(t, from, RowEnd(t, from))
           p == Plan(row, row + old, Tabs(new))
           plans == IF new = old THEN <<>> ELSE <<p>>
           sel == At(caret + new - old)
<1>1. t \in Seq(Char) /\ Len(t) \in Nat /\ caret \in 0 .. Len(t) BY FirstSel DEF Ends
<1>2. Alignment(b) = Edit(plans, <<sel>>, TRUE) BY DEF Alignment
<1>3. row + old + 1 = caret /\ Opener(t, row) # {} BY DEF Aligns
<1> HIDE DEF t, caret
<1>4. row \in 0 .. caret BY <1>1, RowStartIs
<1>5. old \in Nat
  <2> HIDE DEF row
  <2>1. old \in 0 .. caret - row BY <1>1, <1>4, IndentIs
  <2>2. QED BY <1>1, <1>4, <2>1
<1> HIDE DEF row, old
<1>6. Max(Opener(t, row)) \in 0 .. Len(t)
  <2>1. Opener(t, row) \subseteq 0 .. row - 1 BY DEF Opener
  <2>2. Opener(t, row) \subseteq 0 .. row BY <1>1, <1>4, <2>1
  <2>3. row \in Nat BY <1>1, <1>4
  <2>4. Max(Opener(t, row)) \in Opener(t, row) BY <1>3, <2>2, <2>3, MaxIsGreatest
  <2>5. QED BY <1>1, <1>4, <2>2, <2>4
<1>7. from \in 0 .. Len(t)
  <2> DEFINE x == Max(Opener(t, row))
  <2>1. x \in 0 .. Len(t) BY <1>6
  <2> HIDE DEF x
  <2>2. RowStart(t, x) \in 0 .. x BY <1>1, <2>1, RowStartIs
  <2>3. RowStart(t, x) \in 0 .. Len(t) BY <1>1, <2>1, <2>2
  <2>4. QED BY <2>3 DEF x
<1> HIDE DEF from
<1>8. new \in Nat
  <2> DEFINE e == RowEnd(t, from)
  <2>1. e \in from .. Len(t) BY <1>1, <1>7, RowEndIs
  <2> HIDE DEF e
  <2>2. Indent(t, from, e) \in 0 .. e - from BY <1>1, <1>7, <2>1, IndentIs
  <2>3. Indent(t, from, e) \in Nat BY <1>1, <1>7, <2>1, <2>2
  <2>4. QED BY <2>3 DEF e
<1> HIDE DEF new
<1>9. Tabs(new) \in Seq(Char) /\ Len(Tabs(new)) = new BY <1>8, TabsAre
<1>10. caret + new - old \in Nat BY <1>3, <1>4, <1>5, <1>8
<1>11. sel \in Selection /\ sel.anchor = caret + new - old /\ sel.head = caret + new - old
  BY <1>10 DEF At, Selection
<1>12. plans \in Seq(PlanSet) /\ (new # old => plans = <<p>>) /\ (new = old => plans = <<>>)
       /\ p.start = row /\ p.end = row + old /\ p.text = Tabs(new)
  <2>1. row \in Nat /\ row + old \in Nat /\ row <= row + old BY <1>1, <1>4, <1>5
  <2>2. p \in PlanSet /\ p.start = row /\ p.end = row + old /\ p.text = Tabs(new) BY <1>9, <2>1, PlanIs
  <2> HIDE DEF p
  <2>3. QED BY <2>2
<1> HIDE DEF p, plans, sel
<1>13. Len(plans) \in {0, 1} BY <1>12
<1>14. \A i \in 1 .. Len(plans) : plans[i].end <= Len(t)
  <2>1. CASE new = old BY <1>12, <2>1
  <2>2. CASE new # old
    <3>0. Len(plans) = 1 /\ plans[1] = p BY <1>12, <2>2
    <3>1. \A i \in 1 .. Len(plans) : plans[i] = p BY <3>0
    <3>2. p.end <= Len(t) BY <1>1, <1>3, <1>4, <1>5, <1>12
    <3>3. QED BY <3>1, <3>2
  <2>3. QED BY <2>1, <2>2
<1>15. Delta(plans, Len(plans) + 1) = new - old
  <2>1. CASE new = old
    <3>1. Delta(plans, Len(plans) + 1) = 0 BY <1>12, <2>1, NoPlans
    <3>2. QED BY <1>5, <1>8, <2>1, <3>1
  <2>2. CASE new # old
    <3>1. Len(plans) = 1 /\ plans[1] = p /\ 1 \in 1 .. 1 BY <1>12, <2>2
    <3>2. Delta(plans, 1) = 0 /\ Delta(plans, 1 + 1) = Delta(plans, 1) + Grows(plans[1])
      BY <1>12, <3>1, DeltasAre DEF Deltas
    <3>3. Grows(plans[1]) = Len(p.text) - (p.end - p.start) BY <3>1 DEF Grows
    <3>4. Grows(plans[1]) = new - old BY <1>1, <1>4, <1>5, <1>8, <1>9, <1>12, <3>3
    <3>5. QED BY <1>5, <1>8, <3>1, <3>2, <3>4
  <2>3. QED BY <2>1, <2>2
<1>16. Inside(<<sel>>, Len(t) + Delta(plans, Len(plans) + 1))
  <2> DEFINE s == <<sel>>  z == Len(t) + Delta(plans, Len(plans) + 1)
  <2>1. caret + new - old <= z BY <1>1, <1>5, <1>8, <1>15
  <2>2. s \in Seq(Selection) /\ s # <<>> /\ Len(s) = 1 /\ s[1] = sel BY <1>11
  <2> HIDE DEF s, z
  <2>3. \A i \in 1 .. Len(s) : s[i] = sel /\ i = 1 BY <2>2
  <2>4. Inside(s, z) BY <1>11, <2>1, <2>2, <2>3 DEF Inside
  <2>5. QED BY <2>4 DEF s, z
<1>17. OrStart(<<sel>>) = <<sel>> /\ <<sel>> # <<>> /\ <<sel>> \in Seq(Selection) BY <1>11 DEF OrStart
<1>18. Sound(t, Edit(plans, <<sel>>, TRUE)) BY <1>12, <1>14, <1>16, <1>17, SoundIs
<1>19. Alignment(b).plans = plans
  <2>1. Edit(plans, <<sel>>, TRUE).plans = plans BY DEF Edit
  <2>2. QED BY <1>2, <2>1
<1>20. QED BY <1>2, <1>13, <1>18, <1>19 DEF t

-----------------------------------------------------------------------------
(* Deletions: a selection at an edge of the text deletes nothing.          *)

LEMMA RankSteps ==
    ASSUME NEW n \in Nat, NEW S \in SUBSET (1 .. n)
    PROVE  /\ Rank(S, 0) = 0 /\ Rank(S, n) = Cardinality(S)
           /\ \A i \in 1 .. n : /\ Rank(S, i - 1) \in Nat
                                /\ Rank(S, i) = IF i \in S THEN Rank(S, i - 1) + 1 ELSE Rank(S, i - 1)
<1>0. \A y \in S : y \in 1 .. n OBVIOUS
<1>a. \A y \in S : ~(y <= 0) /\ y <= n BY <1>0
<1>1. Rank(S, 0) = 0
  <2>1. {y \in S : y <= 0} = {} BY <1>a
  <2>2. QED BY <2>1, FS_EmptySet DEF Rank
<1>2. Rank(S, n) = Cardinality(S)
  <2>1. {y \in S : y <= n} = S BY <1>a
  <2>2. QED BY <2>1 DEF Rank
<1>3. ASSUME NEW i \in 1 .. n
      PROVE  /\ Rank(S, i - 1) \in Nat
             /\ Rank(S, i) = IF i \in S THEN Rank(S, i - 1) + 1 ELSE Rank(S, i - 1)
  <2> DEFINE A == {y \in S : y <= i - 1}
             B == {y \in S : y <= i}
  <2>1. IsFiniteSet(A)
    <3>1. IsFiniteSet(1 .. n) BY FS_Interval
    <3>2. A \in SUBSET (1 .. n) BY <1>0
    <3> HIDE DEF A
    <3>3. QED BY <3>1, <3>2, FS_Subset
  <2>2. Cardinality(A) \in Nat BY <2>1, FS_CardinalityType
  <2>3. CASE i \in S
    <3>1. i \notin A OBVIOUS
    <3>2. B = A \cup {i}
      <4>1. ASSUME NEW y \in B PROVE y \in A \cup {i} BY <1>0
      <4>2. ASSUME NEW y \in A PROVE y \in B BY <1>0
      <4>3. i \in B BY <2>3
      <4>4. QED BY <4>1, <4>2, <4>3
    <3> HIDE DEF A, B
    <3>3. Cardinality(A \cup {i}) = Cardinality(A) + 1 BY <2>1, <3>1, FS_AddElement
    <3>4. QED BY <2>2, <2>3, <3>2, <3>3 DEF A, B, Rank
  <2>4. CASE i \notin S
    <3>1. B = A
      <4>1. ASSUME NEW y \in B PROVE y \in A
        <5>1. y \in S /\ y <= i /\ y \in 1 .. n BY <1>0
        <5>2. y # i BY <2>4, <5>1
        <5>3. QED BY <5>1, <5>2
      <4>2. ASSUME NEW y \in A PROVE y \in B BY <1>0
      <4>3. QED BY <4>1, <4>2
    <3>2. QED BY <2>2, <2>4, <3>1 DEF Rank
  <2>5. QED BY <2>3, <2>4
<1>4. QED BY <1>1, <1>2, <1>3

\* Deletions that end in the order of the text; what deletes nothing is in no other.
Cuts(all, m) ==
    /\ all \in Seq(PlanSet) /\ all # <<>>
    /\ \A i \in 1 .. Len(all) : all[i].text = <<>> /\ all[i].end <= m
    /\ \A i, j \in 1 .. Len(all) : i < j =>
         /\ all[i].end <= all[j].end
         /\ all[i].start = all[i].end => all[i].end <= all[j].start

\* Those that delete something, and their list.
Real(all) == {i \in 1 .. Len(all) : all[i].start # all[i].end}
Kept(all) == [k \in DOMAIN Sorted(Real(all)) |-> all[Sorted(Real(all))[k]]]

\* The i-th deletion among those that are kept.
KeptAt(all, i) ==
    /\ Rank(Real(all), i - 1) \in Nat
    /\ i \in Real(all) => /\ Rank(Real(all), i) = Rank(Real(all), i - 1) + 1
                          /\ Rank(Real(all), i) \in 1 .. Len(Kept(all))
                          /\ Kept(all)[Rank(Real(all), i)] = all[i]
    /\ i \notin Real(all) => Rank(Real(all), i) = Rank(Real(all), i - 1) /\ all[i].start = all[i].end

LEMMA KeptIs ==
    ASSUME NEW m \in Nat, NEW all, Cuts(all, m)
    PROVE  /\ Kept(all) \in Seq(PlanSet)
           /\ \A k \in 1 .. Len(Kept(all)) : Kept(all)[k].end <= m
           /\ Rank(Real(all), 0) = 0 /\ Rank(Real(all), Len(all)) = Len(Kept(all))
           /\ \A i \in 1 .. Len(all) : KeptAt(all, i)
           /\ \A i, j \in Real(all) : i < j => Rank(Real(all), i) < Rank(Real(all), j)
<1> DEFINE n == Len(all)
           K == Real(all)
           s == Sorted(K)
<1>1. all \in Seq(PlanSet) BY DEF Cuts
<1>2. n \in Nat /\ \A i \in 1 .. n : all[i] \in PlanSet BY <1>1, SeqIs
<1>3. K \in SUBSET (1 .. n) BY DEF Real
<1> HIDE DEF n, K
<1>4. K \in SUBSET (0 .. n)
  <2>1. \A y \in K : y \in 1 .. n BY <1>3
  <2>2. \A y \in K : y \in 0 .. n BY <1>2, <2>1
  <2>3. QED BY <2>2
<1>5. Lists(s, K) BY <1>2, <1>4, SortedLists
<1>6. s \in Seq(K) /\ Len(s) = Cardinality(K) /\ Cardinality(K) \in Nat BY <1>5 DEF Lists
<1>7. DOMAIN s = 1 .. Len(s) /\ \A k \in 1 .. Len(s) : s[k] \in K BY <1>6, SeqIs
<1>8. Kept(all) = [k \in 1 .. Len(s) |-> all[s[k]]] BY <1>7 DEF Kept, K
<1> HIDE DEF s
<1>9. \A k \in 1 .. Len(s) : s[k] \in 1 .. n BY <1>3, <1>7
<1>10. Kept(all) \in [1 .. Len(s) -> PlanSet]
  <2>1. \A k \in 1 .. Len(s) : all[s[k]] \in PlanSet BY <1>2, <1>9
  <2>2. QED BY <1>8, <2>1
<1>11. Kept(all) \in Seq(PlanSet) /\ Len(Kept(all)) = Len(s) BY <1>6, <1>10, FunctionIsSeq
<1>12. ASSUME NEW k \in 1 .. Len(Kept(all)) PROVE Kept(all)[k].end <= m
  <2>1. Kept(all)[k] = all[s[k]] /\ s[k] \in 1 .. n BY <1>8, <1>9, <1>11
  <2>2. QED BY <2>1 DEF Cuts, n
<1>13. /\ Rank(K, 0) = 0 /\ Rank(K, n) = Cardinality(K)
       /\ \A i \in 1 .. n : /\ Rank(K, i - 1) \in Nat
                            /\ Rank(K, i) = IF i \in K THEN Rank(K, i - 1) + 1 ELSE Rank(K, i - 1)
  BY <1>2, <1>3, RankSteps
<1>14. \A x \in K : Rank(K, x) \in 1 .. Len(s) /\ s[Rank(K, x)] = x BY <1>5 DEF Lists
<1>15. ASSUME NEW i \in 1 .. n PROVE KeptAt(all, i)
  <2>1. i \in K => Rank(K, i) \in 1 .. Len(Kept(all)) /\ Kept(all)[Rank(K, i)] = all[i]
    BY <1>8, <1>11, <1>14
  <2>2. i \notin K => all[i].start = all[i].end BY DEF K, Real, n
  <2>3. QED BY <1>13, <2>1, <2>2 DEF KeptAt, K
<1>16. ASSUME NEW i \in K, NEW j \in K, i < j PROVE Rank(K, i) < Rank(K, j)
  BY <1>2, <1>4, <1>16, RankGrows
<1>17. QED BY <1>6, <1>11, <1>12, <1>13, <1>15, <1>16 DEF n, K

\* What deletes nothing moves nothing.
LEMMA KeptDelta ==
    ASSUME NEW m \in Nat, NEW all, Cuts(all, m)
    PROVE  \A i \in 0 .. Len(all) : Delta(all, i + 1) = Delta(Kept(all), Rank(Real(all), i) + 1)
<1> DEFINE n == Len(all)
           K == Real(all)
           kept == Kept(all)
           T == {i \in 0 .. n : Delta(all, i + 1) = Delta(kept, Rank(K, i) + 1)}
<1>1. all \in Seq(PlanSet) BY DEF Cuts
<1>2. n \in Nat BY <1>1, SeqIs
<1>3. kept \in Seq(PlanSet) /\ Rank(K, 0) = 0 /\ \A i \in 1 .. n : KeptAt(all, i) BY KeptIs
<1>4. Deltas(all) /\ Deltas(kept) BY <1>1, <1>3, DeltasAre
<1> HIDE DEF n, K, kept
<1>5. 0 \in T
  <2>1. Delta(all, 1) = 0 /\ Delta(kept, 1) = 0 BY <1>4 DEF Deltas
  <2>2. 0 + 1 = 1 /\ 0 \in 0 .. n BY <1>2
  <2>3. QED BY <1>3, <2>1, <2>2
<1>6. ASSUME NEW k \in 0 .. n - 1, k \in T PROVE k + 1 \in T
  <2> DEFINE i == k + 1
             r == Rank(K, k)
  <2>1. i \in 1 .. n /\ i - 1 = k /\ i \in 0 .. n BY <1>2
  <2>2. KeptAt(all, i) BY <1>3, <2>1
  <2>3. Delta(all, k + 1) = Delta(kept, r + 1) BY <1>6
  <2>4. Delta(all, i + 1) = Delta(all, i) + Grows(all[i]) BY <1>4, <2>1 DEF Deltas, n
  <2>5. r \in Nat BY <2>1, <2>2 DEF KeptAt, K
  <2>6. CASE i \in K
    <3>1. Rank(K, i) = r + 1 /\ Rank(K, i) \in 1 .. Len(kept) /\ kept[Rank(K, i)] = all[i]
      BY <2>1, <2>2, <2>6 DEF KeptAt, K, kept
    <3>2. Delta(kept, Rank(K, i) + 1) = Delta(kept, Rank(K, i)) + Grows(kept[Rank(K, i)])
      BY <1>4, <3>1 DEF Deltas
    <3>3. Delta(kept, Rank(K, i) + 1) = Delta(all, i + 1) BY <2>3, <2>4, <3>1, <3>2
    <3>4. QED BY <2>1, <3>3
  <2>7. CASE i \notin K
    <3>1. Rank(K, i) = r /\ all[i].start = all[i].end BY <2>1, <2>2, <2>7 DEF KeptAt, K
    <3>2. all[i].text = <<>> BY <2>1 DEF Cuts, n
    <3>3. all[i].start \in Nat /\ Grows(all[i]) = Len(all[i].text) - (all[i].end - all[i].start)
      BY <1>1, <2>1, PlanFields DEF n
    <3>4. Grows(all[i]) = 0
      <4>1. Len(all[i].text) = 0 BY <3>2
      <4>2. QED BY <3>1, <3>3, <4>1
    <3>5. Delta(all, i) \in Int BY <1>4, <2>1 DEF Deltas, n
    <3>6. Delta(all, i + 1) = Delta(all, i) BY <2>4, <3>4, <3>5
    <3>7. QED BY <2>1, <2>3, <3>1, <3>6
  <2>8. QED BY <2>6, <2>7
<1>7. 0 .. n \subseteq T
  <2> HIDE DEF T
  <2>1. QED BY <1>2, <1>5, <1>6, InductionTo
<1>8. QED BY <1>7 DEF n, K, kept

LEMMA CutsApart ==
    ASSUME NEW m \in Nat, NEW all, Cuts(all, m), ~Overlap(Kept(all))
    PROVE  Placed(all, m)
<1>1. all \in Seq(PlanSet) BY DEF Cuts
<1>2. DOMAIN all = 1 .. Len(all) BY <1>1, SeqIs
<1>3. /\ Kept(all) \in Seq(PlanSet) /\ \A i \in 1 .. Len(all) : KeptAt(all, i)
      /\ \A i, j \in Real(all) : i < j => Rank(Real(all), i) < Rank(Real(all), j)
  BY KeptIs
<1>4. DOMAIN Kept(all) = 1 .. Len(Kept(all)) BY <1>3, SeqIs
<1>5. ASSUME NEW i \in 1 .. Len(all), NEW j \in 1 .. Len(all), i < j PROVE ~(all[i].end > all[j].start)
  <2>1. all[i].end \in Nat /\ all[j].start \in Nat /\ all[j].end \in Nat BY <1>1, PlanFields
  <2>2. CASE i \in Real(all) /\ j \in Real(all)
    <3> DEFINE p == Rank(Real(all), i)  q == Rank(Real(all), j)
    <3>1. p \in 1 .. Len(Kept(all)) /\ Kept(all)[p] = all[i] BY <1>3, <2>2 DEF KeptAt
    <3>2. q \in 1 .. Len(Kept(all)) /\ Kept(all)[q] = all[j] BY <1>3, <2>2 DEF KeptAt
    <3>3. p < q BY <1>3, <1>5, <2>2
    <3> HIDE DEF p, q
    <3>4. ~(Kept(all)[p].end > Kept(all)[q].start) BY <1>4, <3>1, <3>2, <3>3 DEF Overlap
    <3>5. QED BY <3>1, <3>2, <3>4
  <2>3. CASE i \notin Real(all)
    <3>1. all[i].start = all[i].end BY <1>3, <2>3 DEF KeptAt
    <3>2. all[i].end <= all[j].start BY <1>5, <3>1 DEF Cuts
    <3>3. QED BY <2>1, <3>2
  <2>4. CASE j \notin Real(all)
    <3>1. all[j].start = all[j].end BY <1>3, <2>4 DEF KeptAt
    <3>2. all[i].end <= all[j].end BY <1>5 DEF Cuts
    <3>3. QED BY <2>1, <3>1, <3>2
  <2>5. QED BY <2>2, <2>3, <2>4
<1>6. ~Overlap(all) BY <1>2, <1>5 DEF Overlap
<1>7. QED BY <1>1, <1>6 DEF Placed, Cuts

\* Every caret of deletions that fit is at an offset.
LEMMA CutsSpots ==
    ASSUME NEW t \in Seq(Char), NEW all, Cuts(all, Len(t)), Applied(t, Kept(all)).ok
    PROVE  \A i \in 1 .. Len(all) : Spot(all, i) \in Nat
<1> DEFINE n == Len(all)
           T == {i \in 0 .. n : Delta(all, i + 1) + End(all, i) >= 0}
<1>0. Len(t) \in Nat BY SeqIs
<1>1. all \in Seq(PlanSet) BY DEF Cuts
<1>2. n \in Nat /\ Deltas(all) BY <1>1, SeqIs, DeltasAre
<1>3. Kept(all) \in Seq(PlanSet) /\ \A i \in 1 .. n : KeptAt(all, i) BY <1>0, KeptIs
<1>4. \A k \in 1 .. Len(Kept(all)) : Spot(Kept(all), k) \in Nat BY <1>3, FitsSpots
<1>5. ASSUME NEW i \in 1 .. n
      PROVE  /\ all[i].start \in Nat /\ all[i].end \in Nat /\ Delta(all, i) \in Int
             /\ Spot(all, i) = all[i].start + Delta(all, i)
             /\ Delta(all, i + 1) = Delta(all, i) - (all[i].end - all[i].start)
             /\ i \in 0 .. n /\ i - 1 \in 0 .. n - 1 /\ (i - 1) + 1 = i
             /\ End(all, i) = all[i].end
  <2>1. all[i].start \in Nat /\ all[i].end \in Nat /\ Grows(all[i]) = Len(all[i].text) - (all[i].end - all[i].start)
    BY <1>1, PlanFields
  <2>2. all[i].text = <<>> BY DEF Cuts
  <2>3. Len(all[i].text) = 0 BY <2>2
  <2>4. Delta(all, i) \in Int /\ Delta(all, i + 1) = Delta(all, i) + Grows(all[i]) BY <1>2 DEF Deltas
  <2>5. i \in 0 .. n /\ i - 1 \in 0 .. n - 1 /\ (i - 1) + 1 = i /\ i # 0 BY <1>2
  <2>6. Delta(all, i + 1) = Delta(all, i) - (all[i].end - all[i].start) BY <2>1, <2>3, <2>4
  <2>7. End(all, i) = all[i].end BY <2>5 DEF End
  <2>8. QED BY <2>1, <2>4, <2>5, <2>6, <2>7 DEF Spot
<1>6. ASSUME NEW i \in 1 .. n, i \in Real(all) PROVE Spot(all, i) \in Nat
  <2> DEFINE r == Rank(Real(all), i - 1)
  <2>1. r \in Nat /\ Rank(Real(all), i) = r + 1 /\ r + 1 \in 1 .. Len(Kept(all)) /\ Kept(all)[r + 1] = all[i]
    BY <1>3, <1>6 DEF KeptAt
  <2>2. i - 1 \in 0 .. Len(all) /\ (i - 1) + 1 = i BY <1>2
  <2>3. Delta(all, (i - 1) + 1) = Delta(Kept(all), r + 1) BY <1>0, <2>2, KeptDelta
  <2>4. Spot(Kept(all), r + 1) = Spot(all, i) BY <2>1, <2>2, <2>3 DEF Spot
  <2>5. QED BY <1>4, <2>1, <2>4
<1> HIDE DEF n
<1>7. 0 \in T
  <2>1. Delta(all, 0 + 1) = 0 BY <1>2 DEF Deltas
  <2>2. End(all, 0) = 0 BY DEF End
  <2>3. QED BY <1>2, <2>1, <2>2
<1>8. ASSUME NEW i \in 1 .. n, i - 1 \in T PROVE Spot(all, i) \in Nat
  <2>1. CASE i \in Real(all) BY <1>6, <2>1
  <2>2. CASE i \notin Real(all)
    <3>1. all[i].start = all[i].end BY <1>3, <2>2 DEF KeptAt
    <3>2. Delta(all, i) + End(all, i - 1) >= 0 BY <1>5, <1>8
    <3>3. End(all, i - 1) \in Nat /\ End(all, i - 1) <= all[i].end
      <4>1. CASE i = 1 BY <1>5, <4>1 DEF End
      <4>2. CASE i # 1
        <5>1. i - 1 \in 1 .. n /\ i - 1 < i /\ i - 1 # 0 BY <1>2, <4>2
        <5>2. all[i - 1].end <= all[i].end BY <5>1 DEF Cuts, n
        <5>3. all[i - 1].end \in Nat BY <1>5, <5>1
        <5>4. QED BY <5>1, <5>2, <5>3 DEF End
      <4>3. QED BY <4>1, <4>2
    <3> DEFINE e == End(all, i - 1)  D == Delta(all, i)  s == all[i].start  f == all[i].end
    <3>4. s \in Nat /\ f \in Nat /\ D \in Int /\ Spot(all, i) = s + D BY <1>5
    <3>5. s = f /\ D + e >= 0 /\ e \in Nat /\ e <= f BY <3>1, <3>2, <3>3
    <3> HIDE DEF e, D, s, f
    <3>6. QED BY <3>4, <3>5
  <2>3. QED BY <2>1, <2>2
<1>9. ASSUME NEW k \in 0 .. n - 1, k \in T PROVE k + 1 \in T
  <2> DEFINE i == k + 1
  <2>1. i \in 1 .. n /\ i - 1 = k /\ i \in 0 .. n BY <1>2
  <2>2. Spot(all, i) \in Nat BY <1>8, <1>9, <2>1
  <2> DEFINE D == Delta(all, i)  s == all[i].start  f == all[i].end  x == Delta(all, i + 1)
  <2>3. /\ s \in Nat /\ f \in Nat /\ D \in Int /\ Spot(all, i) = s + D /\ x = D - (f - s)
        /\ End(all, i) = f
    BY <1>5, <2>1
  <2> HIDE DEF D, s, f, i, x
  <2>4. x + End(all, i) >= 0 BY <2>2, <2>3
  <2>5. i \in T BY <2>1, <2>4 DEF x
  <2>6. QED BY <2>5 DEF i
<1>10. 0 .. n \subseteq T
  <2> HIDE DEF T
  <2>1. QED BY <1>2, <1>7, <1>9, InductionTo
<1> HIDE DEF T
<1>11. ASSUME NEW i \in 1 .. n PROVE Spot(all, i) \in Nat
  <2>1. i - 1 \in 0 .. n BY <1>2
  <2>2. QED BY <1>8, <1>10, <2>1
<1>12. QED BY <1>11 DEF n

\* Where a key that deletes leads from every offset: back, or on by one.
Edged(edge, m) ==
    /\ edge \in [0 .. m -> 0 .. m]
    /\ \/ \A p \in 0 .. m : edge[p] <= p /\ (edge[p] = p => p = 0)
       \/ \A p \in 0 .. m : p <= edge[p] /\ edge[p] <= p + 1 /\ (edge[p] = p => p = m)

CutOf(sel, edge) ==
    IF IsEmpty(sel)
    THEN Plan(Min({sel.head, edge[sel.head]}), Max({sel.head, edge[sel.head]}), <<>>)
    ELSE Plan(Lo(sel), Hi(sel), <<>>)

\* The numbers of one deletion.
CutIs(p, sel, edge, m) ==
    /\ Ends(sel, m) /\ p \in PlanSet /\ p.text = <<>> /\ p.end <= m
    /\ p.start \in Nat /\ p.end \in Nat
    /\ sel.anchor # sel.head => p.start = Lo(sel) /\ p.end = Hi(sel)
    /\ sel.anchor = sel.head =>
         /\ edge[sel.head] \in 0 .. m
         /\ edge[sel.head] <= sel.head => p.start = edge[sel.head] /\ p.end = sel.head
         /\ edge[sel.head] >= sel.head => p.start = sel.head /\ p.end = edge[sel.head]

LEMMA CutOfIs ==
    ASSUME NEW m \in Nat, NEW sels, Inside(sels, m), NEW i \in 1 .. Len(sels), NEW edge, Edged(edge, m)
    PROVE  CutIs(CutOf(sels[i], edge), sels[i], edge, m)
<1> DEFINE sel == sels[i]
           h == sels[i].head
           p == CutOf(sels[i], edge)
           x == edge[h]
<1>1. Ends(sel, m) BY EndsAre
<1>2. h \in 0 .. m /\ x \in 0 .. m BY <1>1 DEF Ends, Edged
<1>3. <<>> \in Seq(Char) OBVIOUS
<1>4. CASE sel.anchor = sel.head
  <2>1. p = Plan(Min({h, x}), Max({h, x}), <<>>) BY <1>4 DEF CutOf, IsEmpty
  <2>2. Min({h, x}) = IF h <= x THEN h ELSE x BY <1>2, MinOfTwo
  <2>3. Max({h, x}) = IF h >= x THEN h ELSE x BY <1>2, MaxOfTwo
  <2> DEFINE lo == Min({h, x})  hi == Max({h, x})
  <2>4. lo \in Nat /\ hi \in Nat /\ lo <= hi /\ hi <= m BY <1>2, <2>2, <2>3
  <2>5. (x <= h => lo = x /\ hi = h) /\ (x >= h => lo = h /\ hi = x) BY <1>2, <2>2, <2>3
  <2>6. p = Plan(lo, hi, <<>>) BY <2>1
  <2> HIDE DEF lo, hi, p
  <2>7. p \in PlanSet /\ p.start = lo /\ p.end = hi /\ p.text = <<>>
    <3> DEFINE none == <<>>
    <3>1. p = Plan(lo, hi, none) /\ none \in Seq(Char) BY <1>3, <2>6
    <3> HIDE DEF none
    <3>2. p \in PlanSet /\ p.start = lo /\ p.end = hi /\ p.text = none BY <2>4, <3>1, PlanIs
    <3>3. QED BY <3>2 DEF none
  <2>8. CutIs(p, sel, edge, m) BY <1>1, <1>2, <1>4, <2>4, <2>5, <2>7 DEF CutIs
  <2>9. QED BY <2>8 DEF p
<1>5. CASE sel.anchor # sel.head
  <2>1. p = Plan(Lo(sel), Hi(sel), <<>>) BY <1>5 DEF CutOf, IsEmpty
  <2>2. Lo(sel) \in Nat /\ Hi(sel) \in Nat /\ Lo(sel) <= Hi(sel) /\ Hi(sel) <= m BY <1>1 DEF Ends
  <2> HIDE DEF p
  <2>3. p \in PlanSet /\ p.start = Lo(sel) /\ p.end = Hi(sel) /\ p.text = <<>>
    <3> DEFINE none == <<>>
    <3>1. p = Plan(Lo(sel), Hi(sel), none) /\ none \in Seq(Char) BY <1>3, <2>1
    <3> HIDE DEF none, sel
    <3>2. p \in PlanSet /\ p.start = Lo(sel) /\ p.end = Hi(sel) /\ p.text = none BY <2>2, <3>1, PlanIs
    <3>3. QED BY <3>2 DEF none
  <2>4. CutIs(p, sel, edge, m) BY <1>1, <1>5, <2>2, <2>3 DEF CutIs
  <2>5. QED BY <2>4 DEF p
<1>6. QED BY <1>4, <1>5

LEMMA CutsOrder ==
    ASSUME NEW m \in Nat, NEW sels, Inside(sels, m), NEW i \in 1 .. Len(sels), NEW j \in 1 .. Len(sels),
           i < j, NEW edge, Edged(edge, m), NEW p, p = CutOf(sels[i], edge), NEW q, q = CutOf(sels[j], edge)
    PROVE  p.end <= q.end /\ (p.start = p.end => p.end <= q.start)
<1> DEFINE a == sels[i]
           b == sels[j]
           x == edge[sels[i].head]
           y == edge[sels[j].head]
<1>1. CutIs(p, a, edge, m) /\ CutIs(q, b, edge, m) BY CutOfIs
<1>2. a.anchor <= b.anchor /\ a.head <= b.head BY DEF Inside
<1>3. /\ a.anchor \in 0 .. m /\ a.head \in 0 .. m /\ b.anchor \in 0 .. m /\ b.head \in 0 .. m
      /\ Lo(a) = (IF a.anchor <= a.head THEN a.anchor ELSE a.head)
      /\ Hi(a) = (IF a.anchor >= a.head THEN a.anchor ELSE a.head)
      /\ Lo(b) = (IF b.anchor <= b.head THEN b.anchor ELSE b.head)
      /\ Hi(b) = (IF b.anchor >= b.head THEN b.anchor ELSE b.head)
  BY <1>1 DEF CutIs, Ends
<1>4. /\ p.start \in Nat /\ p.end \in Nat /\ q.start \in Nat /\ q.end \in Nat
      /\ a.anchor # a.head => p.start = Lo(a) /\ p.end = Hi(a)
      /\ b.anchor # b.head => q.start = Lo(b) /\ q.end = Hi(b)
      /\ q.end <= m
  BY <1>1 DEF CutIs
<1>5. x \in 0 .. m /\ y \in 0 .. m BY <1>3 DEF Edged
<1>6. a.anchor = a.head => /\ x <= a.head => p.start = x /\ p.end = a.head
                           /\ x >= a.head => p.start = a.head /\ p.end = x
  BY <1>1 DEF CutIs
<1>7. b.anchor = b.head => /\ y <= b.head => q.start = y /\ q.end = b.head
                           /\ y >= b.head => q.start = b.head /\ q.end = y
  BY <1>1 DEF CutIs
<1>8. CASE \A r \in 0 .. m : edge[r] <= r /\ (edge[r] = r => r = 0)
  <2>1. x <= a.head /\ (x = a.head => a.head = 0) /\ y <= b.head /\ (y = b.head => b.head = 0) BY <1>3, <1>8
  <2> HIDE DEF a, b, x, y
  <2>2. p.end = Hi(a) /\ q.end = Hi(b) BY <1>3, <1>4, <1>6, <1>7, <2>1
  <2>3. p.end <= q.end BY <1>2, <1>3, <2>2
  <2>4. ASSUME p.start = p.end PROVE p.end = 0
    <3>1. a.anchor = a.head BY <1>3, <1>4, <2>4
    <3>2. QED BY <1>3, <1>5, <1>6, <2>1, <2>4, <3>1
  <2>5. QED BY <1>4, <2>3, <2>4
<1>9. CASE \A r \in 0 .. m : r <= edge[r] /\ edge[r] <= r + 1 /\ (edge[r] = r => r = m)
  <2>1. /\ a.head <= x /\ x <= a.head + 1 /\ (x = a.head => a.head = m)
        /\ b.head <= y /\ y <= b.head + 1 /\ (y = b.head => b.head = m)
    BY <1>3, <1>9
  <2> HIDE DEF a, b, x, y
  <2>2. q.start = Lo(b) BY <1>3, <1>4, <1>7, <2>1
  <2>3. p.end <= q.end
    <3>1. CASE a.anchor # a.head
      <4>1. p.end = Hi(a) /\ Hi(b) <= q.end BY <1>3, <1>4, <1>5, <1>7, <2>1, <3>1
      <4>2. Hi(a) \in Nat /\ Hi(b) \in Nat /\ Hi(a) <= Hi(b) BY <1>2, <1>3
      <4>3. q.end \in Nat BY <1>4
      <4>4. QED BY <4>1, <4>2, <4>3
    <3>2. CASE a.anchor = a.head
      <4>1. p.end = x BY <1>6, <2>1, <3>2
      <4>2. CASE b.anchor # b.head
        <5>1. q.end = Hi(b) BY <1>4, <4>2
        <5>2. Hi(b) >= a.head + 1 \/ a.head = m BY <1>2, <1>3, <3>2, <4>2
        <5>3. a.head + 1 <= Hi(b) BY <1>2, <1>3, <3>2, <4>2
        <5>4. QED BY <1>3, <1>5, <2>1, <4>1, <5>1, <5>3
      <4>3. CASE b.anchor = b.head
        <5>1. q.end = y BY <1>7, <2>1, <4>3
        <5>2. x <= y
          <6>1. CASE a.head = b.head
            <7>1. x = y BY <6>1 DEF a, b, x, y
            <7>2. QED BY <1>5, <7>1
          <6>2. CASE a.head # b.head
            <7>1. a.head + 1 <= b.head BY <1>2, <1>3, <6>2
            <7>2. QED BY <1>3, <1>5, <2>1, <7>1
          <6>3. QED BY <6>1, <6>2
        <5>3. QED BY <4>1, <5>1, <5>2
      <4>4. QED BY <4>2, <4>3
    <3>3. QED BY <3>1, <3>2
  <2>4. ASSUME p.start = p.end PROVE p.end <= q.start
    <3>1. a.anchor = a.head BY <1>3, <1>4, <2>4
    <3>2. x = a.head /\ p.end = m /\ a.head = m BY <1>3, <1>5, <1>6, <2>1, <2>4, <3>1
    <3>3. Lo(b) = m BY <1>2, <1>3, <3>1, <3>2
    <3>4. QED BY <2>2, <3>2, <3>3
  <2>5. QED BY <2>3, <2>4
<1>10. QED BY <1>8, <1>9 DEF Edged

LEMMA DeletesSound ==
    ASSUME NEW b, Fine(b), NEW edge, Edged(edge, Len(b.text))
    PROVE  Sound(b.text, Deletes(b, edge))
<1> DEFINE t == b.text
           m == Len(t)
           n == Len(b.cursors)
           all == [i \in DOMAIN b.cursors |-> CutOf(b.cursors[i], edge)]
<1>1. t \in Seq(Char) /\ m \in Nat /\ n \in Nat \ {0} /\ DOMAIN b.cursors = 1 .. n BY FirstSel
<1>2. Inside(b.cursors, m) BY DEF Fine
<1>3. all = [i \in 1 .. n |-> CutOf(b.cursors[i], edge)] BY <1>1
<1>4. \A i \in 1 .. n : CutIs(CutOf(b.cursors[i], edge), b.cursors[i], edge, m) BY <1>1, <1>2, CutOfIs
<1>5. all \in [1 .. n -> PlanSet] BY <1>3, <1>4 DEF CutIs
<1>6. \A i \in 1 .. n : all[i] = CutOf(b.cursors[i], edge) BY <1>3
<1> HIDE DEF all, n, m
<1>7. all \in Seq(PlanSet) /\ Len(all) = n BY <1>1, <1>5, FunctionIsSeq
<1>8. all # <<>> /\ DOMAIN all = 1 .. n BY <1>1, <1>7, EmptySeq, SeqIs
<1>9. \A i \in 1 .. n : all[i].text = <<>> /\ all[i].end <= m BY <1>4, <1>6 DEF CutIs
<1>10. ASSUME NEW i \in 1 .. n, NEW j \in 1 .. n, i < j
       PROVE  all[i].end <= all[j].end /\ (all[i].start = all[i].end => all[i].end <= all[j].start)
  <2>1. all[i] = CutOf(b.cursors[i], edge) /\ all[j] = CutOf(b.cursors[j], edge) BY <1>6
  <2>2. QED BY <1>1, <1>2, <1>10, <2>1, CutsOrder DEF n, m
<1>11. Cuts(all, m) BY <1>7, <1>8, <1>9, <1>10 DEF Cuts
<1>12. Deletes(b, edge) = Edit(Kept(all), CaretsAfter(all), TRUE)
  <2>1. {i \in DOMAIN all : all[i].start # all[i].end} = Real(all) BY <1>7, <1>8 DEF Real
  <2> DEFINE kept == Sorted({i \in DOMAIN all : all[i].start # all[i].end})
  <2>2. Deletes(b, edge) = Edit([k \in DOMAIN kept |-> all[kept[k]]], CaretsAfter(all), TRUE)
    BY DEF Deletes, CutOf, all
  <2>3. kept = Sorted(Real(all)) BY <2>1
  <2> HIDE DEF kept
  <2>4. QED BY <2>2, <2>3 DEF Kept
<1>13. /\ Kept(all) \in Seq(PlanSet) /\ \A k \in 1 .. Len(Kept(all)) : Kept(all)[k].end <= m
       /\ Rank(Real(all), n) = Len(Kept(all))
  BY <1>1, <1>7, <1>11, KeptIs
<1> DEFINE c == [i \in 1 .. n |-> 0]
           sels == CaretsAfter(all)
<1>14. CaretsAfter(all) = [i \in DOMAIN all |-> At(Spot(all, i) + c[i])]
  <2>1. ASSUME NEW i \in DOMAIN all
        PROVE  At(all[i].start + Delta(all, i) + Len(all[i].text)) = At(Spot(all, i) + c[i])
    <3>1. i \in 1 .. n BY <1>8
    <3>2. all[i].text = <<>> BY <1>9, <3>1
    <3>3. Len(all[i].text) = 0 /\ c[i] = 0 BY <3>1, <3>2
    <3>4. QED BY <3>3 DEF Spot
  <2>2. QED BY <2>1 DEF CaretsAfter
<1>15. \A i \in 1 .. Len(all) : c[i] \in 0 .. Len(all[i].text)
  <2> SUFFICES ASSUME NEW i \in 1 .. n PROVE c[i] \in 0 .. Len(all[i].text) BY <1>7
  <2>1. all[i].text = <<>> BY <1>9
  <2>2. QED BY <2>1
<1>16. ASSUME ~Overlap(Kept(all)) PROVE Inside(sels, m + Delta(Kept(all), Len(Kept(all)) + 1))
  <2>1. Placed(all, m) BY <1>1, <1>11, <1>16, CutsApart
  <2>2. n \in 0 .. Len(all) BY <1>1, <1>7
  <2>3. Delta(all, n + 1) = Delta(Kept(all), Len(Kept(all)) + 1) BY <1>1, <1>11, <1>13, <2>2, KeptDelta
  <2> HIDE DEF c
  <2>4. Inside([i \in DOMAIN all |-> At(Spot(all, i) + c[i])], m + Delta(all, Len(all) + 1))
    BY <1>1, <1>8, <1>15, <2>1, PlannedInside
  <2>5. QED BY <1>7, <1>14, <2>3, <2>4
<1>17. sels # <<>> /\ DOMAIN sels = 1 .. n
  <2>1. DOMAIN sels = 1 .. n BY <1>8 DEF CaretsAfter
  <2>2. 1 \in DOMAIN sels BY <1>1, <2>1
  <2>3. DOMAIN <<>> = {} OBVIOUS
  <2> HIDE DEF sels
  <2>4. QED BY <2>1, <2>2, <2>3
<1>18. ASSUME Applied(t, Kept(all)).ok PROVE sels \in Seq(Selection)
  <2>1. \A i \in 1 .. n : Spot(all, i) \in Nat BY <1>1, <1>7, <1>11, <1>18, CutsSpots DEF m
  <2>2. ASSUME NEW i \in 1 .. n PROVE At(Spot(all, i) + c[i]) \in Selection
    <3>1. Spot(all, i) \in Nat /\ c[i] = 0 BY <2>1
    <3>2. QED BY <3>1 DEF At, Selection
  <2>3. sels \in [1 .. n -> Selection] BY <1>8, <1>14, <2>2
  <2> HIDE DEF sels
  <2>4. QED BY <1>1, <2>3, FunctionIsSeq
<1>19. OrStart(sels) = sels BY <1>17 DEF OrStart
<1> HIDE DEF sels, c
<1>20. Sound(t, Edit(Kept(all), sels, TRUE))
  <2> DEFINE e == Edit(Kept(all), sels, TRUE)
  <2>1. e.plans = Kept(all) /\ e.sels = sels /\ e.coalesce = TRUE BY DEF Edit
  <2> HIDE DEF e
  <2>2. e.coalesce \in BOOLEAN BY <2>1
  <2>3. Sound(t, e) BY <1>13, <1>16, <1>17, <1>18, <1>19, <2>1, <2>2 DEF Sound, m
  <2>4. QED BY <2>3 DEF e
<1>21. QED BY <1>12, <1>20 DEF sels, t

-----------------------------------------------------------------------------
(* Where keys lead.                                                        *)

\* An edge that keeps the order of what it moves.
Climbs(edge, m) ==
    /\ edge \in [0 .. m -> 0 .. m]
    /\ \A p, q \in 0 .. m : p <= q => edge[p] <= edge[q]

LEMMA BeforeIs ==
    ASSUME NEW t, Len(t) \in Nat, NEW off \in 0 .. Len(t)
    PROVE  Before(t)[off] = IF off = 0 THEN 0 ELSE off - 1
<1>1. Before(t)[off] = Max({0, off - 1}) BY DEF Before, Offsets
<1>2. CASE off = 0
  <2>1. {0, off - 1} = {0, -1} BY <1>2
  <2>2. Max({0, -1}) = 0 BY DEF Max
  <2>3. QED BY <1>1, <1>2, <2>1, <2>2
<1>3. CASE off # 0
  <2> DEFINE p == off - 1
  <2>1. p \in Nat BY <1>3
  <2>2. Before(t)[off] = Max({0, p}) BY <1>1
  <2> HIDE DEF p
  <2>3. Max({0, p}) = IF 0 >= p THEN 0 ELSE p BY <2>1, MaxOfTwo
  <2>4. Before(t)[off] = p BY <2>1, <2>2, <2>3
  <2>5. QED BY <1>3, <2>4 DEF p
<1>4. QED BY <1>2, <1>3

LEMMA BehindIs ==
    ASSUME NEW t, Len(t) \in Nat, NEW off \in 0 .. Len(t)
    PROVE  Behind(t)[off] = IF off = Len(t) THEN off ELSE off + 1
<1>1. Behind(t)[off] = Min({Len(t), off + 1}) BY DEF Behind, Offsets
<1> DEFINE m == Len(t)  p == off + 1
<1>2. m \in Nat /\ p \in Nat OBVIOUS
<1>3. Min({m, p}) = IF m <= p THEN m ELSE p
  <2> HIDE DEF m, p
  <2>1. QED BY <1>2, MinOfTwo
<1>4. QED BY <1>1, <1>3

LEMMA EdgeKeys ==
    ASSUME NEW t, Len(t) \in Nat
    PROVE  /\ Edged(Before(t), Len(t)) /\ Edged(Behind(t), Len(t)) /\ Edged(WordBefore(t), Len(t))
           /\ Climbs(Before(t), Len(t)) /\ Climbs(Behind(t), Len(t)) /\ Climbs(WordBefore(t), Len(t))
<1> DEFINE m == Len(t)
           x == Before(t)
           y == Behind(t)
           w == WordBefore(t)
<1>1. \A p \in 0 .. m : x[p] = IF p = 0 THEN 0 ELSE p - 1 BY BeforeIs
<1>2. \A p \in 0 .. m : y[p] = IF p = m THEN p ELSE p + 1 BY BehindIs
<1>3. ASSUME NEW p \in 0 .. m PROVE w[p] \in 0 .. p /\ (p # 0 => w[p] < p)
  <2>1. w[p] = WordLeft(t, p) BY DEF WordBefore, Offsets
  <2>2. p \in Nat OBVIOUS
  <2>3. QED BY <2>1, <2>2, WordLeftMoves
<1>4. ASSUME NEW p \in 0 .. m, NEW q \in 0 .. m, p <= q PROVE w[p] <= w[q]
  <2>1. w[p] = WordLeft(t, p) /\ w[q] = WordLeft(t, q) BY DEF WordBefore, Offsets
  <2>2. p \in Nat /\ q \in Nat OBVIOUS
  <2>3. QED BY <1>4, <2>1, <2>2, WordLeftOrder
<1>5. /\ x = [p \in 0 .. m |-> x[p]] /\ y = [p \in 0 .. m |-> y[p]] /\ w = [p \in 0 .. m |-> w[p]]
  BY DEF Before, Behind, WordBefore, Offsets
<1> HIDE DEF x, y, w
<1>6. x \in [0 .. m -> 0 .. m]
  <2>1. \A p \in 0 .. m : x[p] \in 0 .. m BY <1>1
  <2>2. QED BY <1>5, <2>1
<1>7. y \in [0 .. m -> 0 .. m]
  <2>1. \A p \in 0 .. m : y[p] \in 0 .. m BY <1>2
  <2>2. QED BY <1>5, <2>1
<1>8. w \in [0 .. m -> 0 .. m]
  <2>1. ASSUME NEW p \in 0 .. m PROVE w[p] \in 0 .. m
    <3>1. w[p] \in 0 .. p BY <1>3
    <3>2. QED BY <3>1
  <2>2. QED BY <1>5, <2>1
<1>9. Edged(x, m)
  <2>1. \A p \in 0 .. m : x[p] <= p /\ (x[p] = p => p = 0) BY <1>1
  <2>2. QED BY <1>6, <2>1 DEF Edged
<1>10. Edged(y, m)
  <2>1. \A p \in 0 .. m : p <= y[p] /\ y[p] <= p + 1 /\ (y[p] = p => p = m) BY <1>2
  <2>2. QED BY <1>7, <2>1 DEF Edged
<1>11. Edged(w, m)
  <2>1. ASSUME NEW p \in 0 .. m PROVE w[p] <= p /\ (w[p] = p => p = 0)
    <3>1. w[p] \in 0 .. p /\ (p # 0 => w[p] < p) BY <1>3
    <3>2. QED BY <3>1
  <2>2. QED BY <1>8, <2>1 DEF Edged
<1>12. Climbs(x, m)
  <2>1. \A p, q \in 0 .. m : p <= q => x[p] <= x[q] BY <1>1
  <2>2. QED BY <1>6, <2>1 DEF Climbs
<1>13. Climbs(y, m)
  <2>1. \A p, q \in 0 .. m : p <= q => y[p] <= y[q] BY <1>2
  <2>2. QED BY <1>7, <2>1 DEF Climbs
<1>14. Climbs(w, m) BY <1>4, <1>8 DEF Climbs
<1>15. QED BY <1>9, <1>10, <1>11, <1>12, <1>13, <1>14 DEF x, y, w, m

LEMMA WordBehindClimbs ==
    ASSUME NEW t, Len(t) \in Nat
    PROVE  Climbs(WordBehind(t), Len(t))
<1> DEFINE m == Len(t)
           w == WordBehind(t)
<1>1. w = [p \in 0 .. m |-> WordRight(t, p)] BY DEF WordBehind, Offsets
<1>2. ASSUME NEW p \in 0 .. m PROVE WordRight(t, p) \in 0 .. m
  <2> DEFINE e == WordHead(t, p)
  <2>1. e \in p .. m /\ WordRight(t, p) \in e .. m BY WordHeadIs, WordRightIs
  <2> HIDE DEF e
  <2>2. QED BY <2>1
<1>3. \A p, q \in 0 .. m : p <= q => WordRight(t, p) <= WordRight(t, q) BY WordRightOrder
<1> HIDE DEF m, w
<1>4. w \in [0 .. m -> 0 .. m] BY <1>1, <1>2
<1>5. Climbs(w, m) BY <1>1, <1>3, <1>4 DEF Climbs
<1>6. QED BY <1>5 DEF w, m

LEMMA RowEdge ==
    ASSUME NEW t, Len(t) \in Nat
    PROVE  Climbs([off \in 0 .. Len(t) |-> RowEnd(t, RowStart(t, off))], Len(t))
<1> DEFINE edge == [off \in 0 .. Len(t) |-> RowEnd(t, RowStart(t, off))]
           m == Len(t)
<1>1. ASSUME NEW p \in 0 .. m PROVE RowStart(t, p) \in 0 .. m /\ RowEnd(t, RowStart(t, p)) \in 0 .. m
  <2> DEFINE s == RowStart(t, p)
  <2>1. s \in 0 .. p BY RowStartIs
  <2> HIDE DEF s
  <2>2. s \in 0 .. m BY <2>1
  <2>3. RowEnd(t, s) \in s .. m BY <2>2, RowEndIs
  <2>4. RowEnd(t, s) \in 0 .. m BY <2>2, <2>3
  <2>5. QED BY <2>2, <2>4 DEF s
<1>2. edge \in [0 .. m -> 0 .. m] BY <1>1
<1>3. ASSUME NEW p \in 0 .. m, NEW q \in 0 .. m, p <= q PROVE edge[p] <= edge[q]
  <2>1. RowStart(t, p) <= RowStart(t, q) BY <1>3, RowStartOrder
  <2>2. RowEnd(t, RowStart(t, p)) <= RowEnd(t, RowStart(t, q)) BY <1>1, <2>1, RowEndOrder
  <2>3. QED BY <2>2
<1> HIDE DEF edge, m
<1>4. Climbs(edge, m) BY <1>2, <1>3 DEF Climbs
<1>5. QED BY <1>4 DEF edge, m

LEMMA EdgesClimb ==
    ASSUME Len(buf.text) \in Nat, NEW extend, NEW edge \in Edges(extend)
    PROVE  Climbs(edge, Len(buf.text))
<1> DEFINE t == buf.text
           m == Len(buf.text)
<1>1. Climbs(WordBefore(t), m) /\ Climbs(Before(t), m) /\ Climbs(Behind(t), m) /\ Climbs(WordBehind(t), m)
  BY EdgeKeys, WordBehindClimbs
<1>2. Climbs([off \in Offsets(t) |-> RowEnd(t, RowStart(t, off))], m) BY RowEdge DEF Offsets
<1>3. Climbs([off \in Offsets(t) |-> 0], m) BY DEF Offsets, Climbs
<1>4. Climbs([off \in Offsets(t) |-> Len(t)], m) BY DEF Offsets, Climbs
<1>5. \/ edge \in {WordBefore(t), WordBehind(t), [off \in Offsets(t) |-> RowEnd(t, RowStart(t, off))],
                   [off \in Offsets(t) |-> 0], [off \in Offsets(t) |-> Len(t)]}
      \/ edge \in {Before(t), Behind(t)}
  BY DEF Edges
<1>6. QED BY <1>1, <1>2, <1>3, <1>4, <1>5

\* Selections, one for each there was.
LEMMA Reselected ==
    ASSUME NEW m \in Nat, NEW n \in Nat \ {0}, NEW sels \in [1 .. n -> Selection],
           \A i \in 1 .. n : sels[i].anchor <= m /\ sels[i].head <= m,
           \A i, j \in 1 .. n : i < j => sels[i].anchor <= sels[j].anchor /\ sels[i].head <= sels[j].head
    PROVE  Inside(sels, m)
<1>1. sels \in Seq(Selection) /\ Len(sels) = n BY FunctionIsSeq
<1>2. sels # <<>> BY <1>1, EmptySeq
<1>3. QED BY <1>1, <1>2 DEF Inside

LEMMA MovedInside ==
    ASSUME NEW b, Fine(b), NEW edge, Climbs(edge, Len(b.text)), NEW extend,
           NEW sels, sels = [i \in DOMAIN b.cursors |->
                               IF extend THEN [b.cursors[i] EXCEPT !.head = edge[b.cursors[i].head]]
                               ELSE At(edge[b.cursors[i].head])]
    PROVE  Inside(sels, Len(b.text))
<1> DEFINE m == Len(b.text)
           n == Len(b.cursors)
<1>1. m \in Nat /\ n \in Nat \ {0} /\ DOMAIN b.cursors = 1 .. n BY FirstSel
<1>2. Inside(b.cursors, m) BY DEF Fine
<1>3. b.cursors \in Seq(Selection) BY <1>2 DEF Inside
<1>4. ASSUME NEW i \in 1 .. n
      PROVE  /\ b.cursors[i] \in Selection /\ b.cursors[i].anchor \in 0 .. m
             /\ b.cursors[i].head \in 0 .. m /\ edge[b.cursors[i].head] \in 0 .. m
  <2>1. b.cursors[i].anchor \in 0 .. m /\ b.cursors[i].head \in 0 .. m BY <1>1, <1>2, InsideFields
  <2>2. b.cursors[i] \in Selection BY <1>3, SeqIs
  <2>3. QED BY <2>1, <2>2 DEF Climbs
<1>5. ASSUME NEW i \in 1 .. n
      PROVE  /\ sels[i] \in Selection
             /\ sels[i].anchor = IF extend THEN b.cursors[i].anchor ELSE edge[b.cursors[i].head]
             /\ sels[i].head = edge[b.cursors[i].head]
  <2> DEFINE s == b.cursors[i]  x == edge[b.cursors[i].head]
  <2>1. sels[i] = IF extend THEN [s EXCEPT !.head = x] ELSE At(x) BY <1>1
  <2>2. s \in Selection /\ x \in Nat BY <1>1, <1>4
  <2> HIDE DEF s, x
  <2>3. [s EXCEPT !.head = x] \in Selection BY <2>2 DEF Selection
  <2>4. [s EXCEPT !.head = x].anchor = s.anchor /\ [s EXCEPT !.head = x].head = x BY <2>2 DEF Selection
  <2>5. At(x) \in Selection /\ At(x).anchor = x /\ At(x).head = x BY <2>2 DEF At, Selection
  <2>6. QED BY <2>1, <2>3, <2>4, <2>5 DEF s, x
<1>6. sels \in [1 .. n -> Selection]
  <2>1. DOMAIN sels = 1 .. n /\ sels = [i \in 1 .. n |-> sels[i]] BY <1>1
  <2>2. QED BY <1>5, <2>1
<1>7. ASSUME NEW i \in 1 .. n PROVE sels[i].anchor <= m /\ sels[i].head <= m
  <2> DEFINE a == b.cursors[i].anchor  x == edge[b.cursors[i].head]
  <2>1. a \in 0 .. m /\ x \in 0 .. m BY <1>4
  <2>2. sels[i].anchor = (IF extend THEN a ELSE x) /\ sels[i].head = x BY <1>5
  <2> HIDE DEF a, x
  <2>3. a <= m /\ x <= m BY <2>1
  <2> HIDE DEF m
  <2>4. CASE extend
    <3>1. sels[i].anchor = a BY <2>2, <2>4, Zenon
    <3>2. QED BY <2>2, <2>3, <3>1, Zenon
  <2>5. CASE ~extend
    <3>1. sels[i].anchor = x BY <2>2, <2>5, Zenon
    <3>2. QED BY <2>2, <2>3, <3>1, Zenon
  <2>6. QED BY <2>4, <2>5
<1>8. ASSUME NEW i \in 1 .. n, NEW j \in 1 .. n, i < j
      PROVE  sels[i].anchor <= sels[j].anchor /\ sels[i].head <= sels[j].head
  <2>1. b.cursors[i].anchor <= b.cursors[j].anchor /\ b.cursors[i].head <= b.cursors[j].head
    BY <1>2, <1>8 DEF Inside
  <2>2. edge[b.cursors[i].head] <= edge[b.cursors[j].head] BY <1>4, <2>1 DEF Climbs
  <2>3. QED BY <1>5, <2>1, <2>2
<1> HIDE DEF m, n
<1>9. Inside(sels, m) BY <1>1, <1>6, <1>7, <1>8, Reselected
<1>10. QED BY <1>9 DEF m

LEMMA SteppedInside ==
    ASSUME NEW b, Fine(b), NEW right,
           NEW of, \A i \in DOMAIN b.cursors :
              of[i] = IF ~IsEmpty(b.cursors[i]) THEN IF right THEN Hi(b.cursors[i]) ELSE Lo(b.cursors[i])
                      ELSE IF right THEN Behind(b.text)[b.cursors[i].head] ELSE Before(b.text)[b.cursors[i].head]
    PROVE  Inside([i \in DOMAIN b.cursors |-> At(of[i])], Len(b.text))
<1> DEFINE m == Len(b.text)
           n == Len(b.cursors)
           c == [i \in 1 .. n |-> of[i]]
<1>1. m \in Nat /\ n \in Nat \ {0} /\ DOMAIN b.cursors = 1 .. n BY FirstSel
<1>2. Inside(b.cursors, m) BY DEF Fine
<1>3. ASSUME NEW i \in 1 .. n
      PROVE  /\ b.cursors[i].anchor \in 0 .. m /\ b.cursors[i].head \in 0 .. m
             /\ b.cursors[i].anchor # b.cursors[i].head =>
                  /\ right => of[i] = IF b.cursors[i].anchor >= b.cursors[i].head
                                      THEN b.cursors[i].anchor ELSE b.cursors[i].head
                  /\ ~right => of[i] = IF b.cursors[i].anchor <= b.cursors[i].head
                                       THEN b.cursors[i].anchor ELSE b.cursors[i].head
             /\ b.cursors[i].anchor = b.cursors[i].head =>
                  /\ right => of[i] = IF b.cursors[i].head = m THEN m ELSE b.cursors[i].head + 1
                  /\ ~right => of[i] = IF b.cursors[i].head = 0 THEN 0 ELSE b.cursors[i].head - 1
  <2> DEFINE s == b.cursors[i]
  <2>1. Ends(s, m) BY <1>1, <1>2, EndsAre
  <2>2. s.head \in 0 .. m BY <2>1 DEF Ends
  <2>3. Behind(b.text)[s.head] = IF s.head = m THEN s.head ELSE s.head + 1 BY <1>1, <2>2, BehindIs
  <2>4. Before(b.text)[s.head] = IF s.head = 0 THEN 0 ELSE s.head - 1 BY <1>1, <2>2, BeforeIs
  <2>5. of[i] = IF ~IsEmpty(s) THEN IF right THEN Hi(s) ELSE Lo(s)
                ELSE IF right THEN Behind(b.text)[s.head] ELSE Before(b.text)[s.head]
    BY <1>1
  <2> HIDE DEF s
  <2>6. QED BY <2>1, <2>2, <2>3, <2>4, <2>5 DEF s, Ends, IsEmpty
<1>4. ASSUME NEW i \in 1 .. n PROVE of[i] \in 0 .. m
  <2> DEFINE a == b.cursors[i].anchor  h == b.cursors[i].head  x == of[i]
  <2>1. /\ a \in 0 .. m /\ h \in 0 .. m
        /\ a # h => /\ right => x = IF a >= h THEN a ELSE h
                    /\ ~right => x = IF a <= h THEN a ELSE h
        /\ a = h => /\ right => x = IF h = m THEN m ELSE h + 1
                    /\ ~right => x = IF h = 0 THEN 0 ELSE h - 1
    BY <1>3
  <2> HIDE DEF a, h, x, m
  <2>2. x \in 0 .. m BY <1>1, <2>1
  <2>3. QED BY <2>2 DEF x
<1>5. ASSUME NEW i \in 1 .. n, NEW j \in 1 .. n, i < j PROVE of[i] <= of[j]
  <2> DEFINE a == b.cursors[i].anchor  h == b.cursors[i].head  x == of[i]
             d == b.cursors[j].anchor  k == b.cursors[j].head  y == of[j]
  <2>1. /\ a \in 0 .. m /\ h \in 0 .. m
        /\ a # h => /\ right => x = IF a >= h THEN a ELSE h
                    /\ ~right => x = IF a <= h THEN a ELSE h
        /\ a = h => /\ right => x = IF h = m THEN m ELSE h + 1
                    /\ ~right => x = IF h = 0 THEN 0 ELSE h - 1
    BY <1>3
  <2>2. /\ d \in 0 .. m /\ k \in 0 .. m
        /\ d # k => /\ right => y = IF d >= k THEN d ELSE k
                    /\ ~right => y = IF d <= k THEN d ELSE k
        /\ d = k => /\ right => y = IF k = m THEN m ELSE k + 1
                    /\ ~right => y = IF k = 0 THEN 0 ELSE k - 1
    BY <1>3
  <2>3. a <= d /\ h <= k BY <1>2, <1>5 DEF Inside
  <2> HIDE DEF a, h, x, d, k, y, m
  <2>4. CASE right BY <1>1, <2>1, <2>2, <2>3, <2>4 DEF x, y
  <2>5. CASE ~right BY <1>1, <2>1, <2>2, <2>3, <2>5 DEF x, y
  <2>6. QED BY <2>4, <2>5
<1>6. c \in [1 .. n -> 0 .. m] BY <1>4
<1>7. \A i \in 1 .. n : c[i] = of[i] OBVIOUS
<1> HIDE DEF c, m, n
<1>8. \A i, j \in 1 .. n : i < j => c[i] <= c[j] BY <1>5, <1>7
<1>9. Inside([i \in 1 .. n |-> At(c[i])], m) BY <1>1, <1>6, <1>8, CaretsInside
<1>10. [i \in 1 .. n |-> At(c[i])] = [i \in DOMAIN b.cursors |-> At(of[i])] BY <1>1, <1>7
<1>11. QED BY <1>9, <1>10 DEF m

-----------------------------------------------------------------------------
(* Every key plans what is sound.                                          *)

Typing(ch) == Replaces(Lo(Sel), Hi(Sel), <<ch>>, TRUE)

\* A closer is typed, and aligned.
Closes(ch) ==
    LET typed == After(buf, Typing(ch))
    IN /\ Ready /\ ch \in Char /\ Aligns(typed)
       /\ buf' = Aligned(typed)
       /\ clangd' = Sent(Sent(clangd, Typing(ch).plans), Alignment(typed).plans)
       /\ UNCHANGED <<disk, strayed, crashed>>

\* A match that was found before a suggestion rewrote the file.
Missed == Misses /\ rewritten

\* Any other edit, and the boundary before a sync.
Bounded(b) == b = buf \/ b = [buf EXCEPT !.boundary = TRUE]
Batched(b, edit) == Bounded(b) /\ Sound(buf.text, edit) /\ Changes(b, edit)

LEMMA CharText ==
    ASSUME NEW ch \in Char
    PROVE  <<ch>> \in Seq(Char)
OBVIOUS

LEMMA TypingSound ==
    ASSUME Fine(buf), NEW ch \in Char
    PROVE  Sound(buf.text, Typing(ch))
<1>1. buf.text \in Seq(Char) /\ Ends(Sel, Len(buf.text)) /\ Len(buf.text) \in Nat BY FirstSel DEF Sel
<1>2. Hi(Sel) \in 0 .. Len(buf.text) /\ Lo(Sel) \in 0 .. Hi(Sel) BY <1>1 DEF Ends
<1>3. QED BY <1>1, <1>2, CharText, ReplacesSound DEF Typing

LEMMA BufChanges ==
    ASSUME NEW edit, Sound(buf.text, edit), Changes(buf, edit)
    PROVE  \E b, e : Batched(b, e)
<1>1. Batched(buf, edit) BY DEF Batched, Bounded
<1>2. QED BY <1>1

LEMMA TypesSound ==
    ASSUME Fine(buf), NEW ch \in Char, Types(ch)
    PROVE  Closes(ch) \/ \E b, e : Batched(b, e)
<1>1. CASE ch = "}" /\ Aligns(After(buf, Typing(ch)))
  <2>1. Closes(ch) BY <1>1 DEF Types, Closes, Typing
  <2>2. QED BY <2>1
<1>2. CASE ~(ch = "}" /\ Aligns(After(buf, Typing(ch))))
  <2>1. Changes(buf, Typing(ch)) BY <1>2 DEF Types, Typing
  <2>2. QED BY <2>1, TypingSound, BufChanges
<1>3. QED BY <1>1, <1>2

LEMMA ComposesSound ==
    ASSUME Fine(buf), NEW n \in 1 .. 2, NEW ch \in Char, Composes(n, ch)
    PROVE  \E b, e : Batched(b, e)
<1>1. buf.text \in Seq(Char) /\ Ends(Sel, Len(buf.text)) /\ Len(buf.text) \in Nat BY FirstSel DEF Sel
<1>2. Sel.head \in 0 .. Len(buf.text) /\ n <= Sel.head BY <1>1 DEF Ends, Composes
<1>3. Sel.head - n \in 0 .. Sel.head BY <1>1, <1>2
<1>4. Sound(buf.text, Replaces(Sel.head - n, Sel.head, <<ch>>, TRUE)) BY <1>1, <1>2, <1>3, CharText, ReplacesSound
<1>5. QED BY <1>4, BufChanges DEF Composes

LEMMA DeletionsSound ==
    ASSUME Fine(buf), Backspace \/ DeleteKey \/ DeleteWord \/ Cut
    PROVE  \E b, e : Batched(b, e)
<1>1. Len(buf.text) \in Nat BY FirstSel
<1>2. /\ Sound(buf.text, Deletes(buf, Before(buf.text))) /\ Sound(buf.text, Deletes(buf, Behind(buf.text)))
      /\ Sound(buf.text, Deletes(buf, WordBefore(buf.text)))
  BY <1>1, EdgeKeys, DeletesSound
<1>3. QED BY <1>2, BufChanges DEF Backspace, DeleteKey, DeleteWord, Cut

LEMMA DeleteLineSound ==
    ASSUME Fine(buf), DeleteLine
    PROVE  \E b, e : Batched(b, e)
<1> DEFINE t == buf.text
           lo == Lo(Sel)
           hi == Hi(Sel)
           s == RowStart(t, lo)
           r == RowStart(t, hi)
           e == NextRow(t, r)
<1>1. t \in Seq(Char) /\ Ends(Sel, Len(t)) /\ Len(t) \in Nat BY FirstSel DEF Sel
<1>2. lo \in 0 .. Len(t) /\ hi \in 0 .. Len(t) /\ lo <= hi BY <1>1 DEF Ends
<1> HIDE DEF t, lo, hi
<1>3. s \in 0 .. lo /\ r \in 0 .. hi /\ s <= r BY <1>1, <1>2, RowStartIs, RowStartOrder
<1> HIDE DEF s, r
<1>4. r \in 0 .. Len(t) BY <1>1, <1>2, <1>3
<1>5. e \in r .. Len(t) BY <1>1, <1>4, NextRowIs
<1> HIDE DEF e
<1>6. e \in 0 .. Len(t) /\ s \in 0 .. e BY <1>1, <1>2, <1>3, <1>4, <1>5
<1> DEFINE none == <<>>
<1>7. none \in Seq(Char) /\ FALSE \in BOOLEAN OBVIOUS
<1> HIDE DEF none
<1>8. Sound(t, Replaces(s, e, none, FALSE)) BY <1>1, <1>6, <1>7, ReplacesSound
<1>9. Changes(buf, Replaces(s, e, none, FALSE)) BY DEF DeleteLine, s, e, r, t, lo, hi, none
<1>10. QED BY <1>8, <1>9, BufChanges DEF t

LEMMA EnterSound ==
    ASSUME Fine(buf), Enter
    PROVE  \E b, e : Batched(b, e)
BY NewlinesSound, BufChanges DEF Enter

LEMMA TabSound ==
    ASSUME Fine(buf), TabKey \/ ShiftTab
    PROVE  \E b, e : Batched(b, e)
<1>1. Tabs(1) \in Seq(Char) BY TabsAre
<1>2. Sound(buf.text, Inserts(buf, Tabs(1), TRUE)) BY <1>1, InsertsSound
<1>3. Sound(buf.text, Indents(buf)) /\ Sound(buf.text, Outdents(buf)) BY IndentsSound, OutdentsSound
<1>4. CASE TabKey
  <2>1. Changes(buf, Indents(buf)) \/ Changes(buf, Inserts(buf, Tabs(1), TRUE)) BY <1>4 DEF TabKey
  <2>2. QED BY <1>2, <1>3, <2>1, BufChanges
<1>5. CASE ShiftTab BY <1>3, <1>5, BufChanges DEF ShiftTab
<1>6. QED BY <1>4, <1>5

LEMMA PasteSound ==
    ASSUME Fine(buf), NEW text \in Seq(Char), Paste(text)
    PROVE  \E b, e : Batched(b, e)
<1>1. Sound(buf.text, Inserts(buf, text, FALSE)) BY InsertsSound
<1>2. QED BY <1>1, BufChanges DEF Paste

LEMMA CompletionSound ==
    ASSUME Fine(buf), NEW text \in Seq(Char), NEW s \in Offsets(buf.text), NEW e \in Offsets(buf.text),
           AcceptCompletion(s, e, text)
    PROVE  \E b, x : Batched(b, x)
<1>1. buf.text \in Seq(Char) /\ Len(buf.text) \in Nat BY FirstSel
<1>2. s <= e /\ Changes(buf, Replaces(s, e, text, FALSE)) BY DEF AcceptCompletion
<1>3. e \in 0 .. Len(buf.text) /\ s \in 0 .. e BY <1>1, <1>2 DEF Offsets
<1>4. FALSE \in BOOLEAN OBVIOUS
<1>5. Sound(buf.text, Replaces(s, e, text, FALSE)) BY <1>1, <1>3, <1>4, ReplacesSound
<1>6. QED BY <1>2, <1>5, BufChanges

\* One character at each of some places.
LEMMA SitesSound ==
    ASSUME NEW t \in Seq(Char), NEW sites, sites \subseteq 0 .. Len(t) - 1, NEW text \in Seq(Char)
    PROVE  Sound(t, Everywhere(sites, 1, text))
<1>1. Len(t) \in Nat /\ 1 \in Nat BY SeqIs
<1>2. \A s \in sites : s \in 0 .. Len(t) - 1 OBVIOUS
<1>3. \A s, q \in sites : s < q => s + 1 <= q BY <1>1, <1>2
<1>4. QED BY <1>1, <1>3, EverywhereSound

LEMMA SyncApplySound ==
    ASSUME Fine(buf), NEW ch, NEW text \in Seq(Char), SyncApply(ch, text)
    PROVE  \E b, e : Batched(b, e)
<1> DEFINE sites == {i \in 0 .. Len(buf.text) - 1 : buf.text[i + 1] = ch}
           b == [buf EXCEPT !.boundary = TRUE]
<1>1. buf.text \in Seq(Char) BY DEF Fine
<1>2. sites \subseteq 0 .. Len(buf.text) - 1 OBVIOUS
<1>3. Changes(b, Everywhere(sites, 1, text)) BY DEF SyncApply
<1> HIDE DEF sites
<1>4. Sound(buf.text, Everywhere(sites, 1, text)) BY <1>1, <1>2, SitesSound
<1>5. Bounded(b) BY DEF Bounded
<1> HIDE DEF b
<1>6. Batched(b, Everywhere(sites, 1, text)) BY <1>3, <1>4, <1>5 DEF Batched
<1>7. QED BY <1>6

LEMMA StubStartIs ==
    ASSUME Fine(buf)
    PROVE  Sel.head \in 0 .. Len(buf.text) /\ StubStart \in 0 .. Sel.head
<1> DEFINE t == buf.text
           head == Sel.head
           row == RowStart(t, head)
           S == {k \in row .. head : \A j \in k + 1 .. head : t[j] = "w"}
           word == Min(S)
           in == Indent(t, row, word)
<1>1. Ends(Sel, Len(t)) /\ Len(t) \in Nat BY FirstSel DEF Sel
<1>2. head \in 0 .. Len(t) BY <1>1 DEF Ends
<1>3. StubStart \in {row + in, word} BY DEF StubStart
<1> HIDE DEF t, head
<1>4. row \in 0 .. head BY <1>1, <1>2, RowStartIs
<1> HIDE DEF row
<1>5. S \subseteq Nat /\ head \in S BY <1>1, <1>2, <1>4
<1>6. word \in S BY <1>5, MinIsLeast
<1>7. word \in row .. head BY <1>6
<1> HIDE DEF word
<1>8. in \in 0 .. word - row
  <2>1. row \in Nat /\ word \in Nat /\ row <= word BY <1>1, <1>2, <1>4, <1>7
  <2>2. QED BY <2>1, IndentIs
<1> HIDE DEF in
<1>9. row + in \in 0 .. head /\ word \in 0 .. head BY <1>1, <1>2, <1>4, <1>7, <1>8
<1>10. StubStart \in 0 .. head BY <1>3, <1>9
<1>11. QED BY <1>2, <1>10 DEF t, head

\* Names are apart: the character before one is not of it.
LEMMA WordsAre ==
    ASSUME NEW t \in Seq(Char), NEW n \in Nat
    PROVE  /\ Words(t, n) \subseteq 0 .. Len(t) - n
           /\ \A s, q \in Words(t, n) : s < q => s + n <= q
<1>1. Words(t, n) \subseteq 0 .. Len(t) - n BY DEF Words
<1>2. ASSUME NEW s \in Words(t, n), NEW q \in Words(t, n), s < q PROVE s + n <= q
  <2>1. s \in Int /\ q \in Int /\ 0 <= s /\ 0 <= q BY <1>1
  <2>2. /\ \A k \in s + 1 .. s + n : t[k] = "w"
        /\ q > 0 => t[q] # "w"
    BY DEF Words
  <2>3. q > 0 BY <1>2, <2>1
  <2>4. q \notin s + 1 .. s + n BY <2>2, <2>3
  <2>5. QED BY <1>2, <2>1, <2>4
<1>3. QED BY <1>1, <1>2

LEMMA WordIs ==
    ASSUME NEW n \in Nat
    PROVE  Word(n) \in Seq(Char)
<1>1. Word(n) \in [1 .. n -> Char] BY DEF Word, Char
<1>2. QED BY <1>1, FunctionIsSeq

-----------------------------------------------------------------------------
(* The line of texts that the undo stacks lead along.                      *)

Buf == [text : Seq(Char), cursors : Seq(Selection), version : Nat, saved : Nat,
        done : Seq(Group), undone : Seq(Group), boundary : BOOLEAN, recent : BOOLEAN,
        kind : {"none", "insert", "delete", "other"}, carets : Seq(Nat)]

Total(b) == Len(b.done) + Len(b.undone)
Grp(b, k) == IF k <= Len(b.done) THEN b.done[k] ELSE b.undone[Total(b) + 1 - k]

\* X[k] is the text when the first k groups have been made.
Line(b, X) ==
    /\ X \in [0 .. Total(b) -> Seq(Char)] /\ X[Len(b.done)] = b.text
    /\ \A k \in 1 .. Total(b) : Makes(X[k - 1], Grp(b, k).ops, X[k])

\* The selections of every group are in its texts.
Within(b, X) ==
    \A k \in 1 .. Total(b) : /\ Inside(Grp(b, k).before, Len(X[k - 1]))
                             /\ Inside(Grp(b, k).after, Len(X[k]))

LEMMA BufIs ==
    ASSUME NEW b \in Buf
    PROVE  /\ b.text \in Seq(Char) /\ b.cursors \in Seq(Selection) /\ b.version \in Nat /\ b.saved \in Nat
           /\ b.done \in Seq(Group) /\ b.undone \in Seq(Group) /\ b.boundary \in BOOLEAN
           /\ b.recent \in BOOLEAN /\ b.kind \in {"none", "insert", "delete", "other"}
           /\ b.carets \in Seq(Nat)
BY DEF Buf

LEMMA StackIs ==
    ASSUME NEW b \in Buf
    PROVE  /\ Len(b.done) \in Nat /\ Len(b.undone) \in Nat /\ Total(b) \in Nat
           /\ Len(b.done) <= Total(b) /\ Len(b.done) \in 0 .. Total(b)
           /\ \A k \in 1 .. Len(b.done) : Grp(b, k) = b.done[k] /\ b.done[k] \in Group
           /\ \A k \in 1 .. Total(b) : Grp(b, k) \in Group
<1>1. b.done \in Seq(Group) /\ b.undone \in Seq(Group) BY BufIs
<1>2. /\ Len(b.done) \in Nat /\ Len(b.undone) \in Nat
      /\ \A k \in 1 .. Len(b.done) : b.done[k] \in Group
      /\ \A k \in 1 .. Len(b.undone) : b.undone[k] \in Group
  BY <1>1, SeqIs
<1>3. ASSUME NEW k \in 1 .. Total(b) PROVE Grp(b, k) \in Group
  <2>1. CASE k <= Len(b.done) BY <1>2, <2>1 DEF Grp, Total
  <2>2. CASE ~(k <= Len(b.done))
    <3>1. Total(b) + 1 - k \in 1 .. Len(b.undone)
      <4> DEFINE d == Len(b.done)  u == Len(b.undone)
      <4>1. d \in Nat /\ u \in Nat /\ Total(b) = d + u BY <1>2 DEF Total
      <4>2. k \in 1 .. d + u /\ ~(k <= d) BY <2>2, <4>1
      <4> HIDE DEF d, u
      <4>3. d + u + 1 - k \in 1 .. u BY <4>1, <4>2
      <4>4. QED BY <4>1, <4>3 DEF u
    <3>2. QED BY <1>2, <2>2, <3>1 DEF Grp
  <2>3. QED BY <2>1, <2>2
<1>4. Total(b) \in Nat /\ Len(b.done) <= Total(b) /\ Len(b.done) \in 0 .. Total(b)
  <2> DEFINE d == Len(b.done)  u == Len(b.undone)
  <2>1. d \in Nat /\ u \in Nat /\ Total(b) = d + u BY <1>2 DEF Total
  <2> HIDE DEF d, u
  <2>2. d + u \in Nat /\ d <= d + u /\ d \in 0 .. d + u BY <2>1
  <2>3. QED BY <2>1, <2>2 DEF d
<1>5. \A k \in 1 .. Len(b.done) : Grp(b, k) = b.done[k] BY DEF Grp
<1>6. QED BY <1>2, <1>3, <1>4, <1>5

\* c has the first groups of b, one more, and nothing to redo.
GrowsTo(b, c, n) ==
    /\ c.undone = <<>> /\ c.done \in Seq(Group) /\ Len(c.done) = n /\ n \in Nat \ {0} /\ n - 1 <= Len(b.done)
    /\ \A k \in 1 .. n - 1 : c.done[k] = b.done[k]

Longer(X, n, u) == [k \in 0 .. n |-> IF k = n THEN u ELSE X[k]]

LEMMA LongerIs ==
    ASSUME NEW X, NEW n \in Nat \ {0}, NEW u
    PROVE  /\ Longer(X, n, u)[n] = u /\ \A k \in 0 .. n - 1 : Longer(X, n, u)[k] = X[k]
           /\ DOMAIN Longer(X, n, u) = 0 .. n
<1>1. Longer(X, n, u)[n] = u BY DEF Longer
<1>2. ASSUME NEW k \in 0 .. n - 1 PROVE Longer(X, n, u)[k] = X[k]
  <2>1. k \in 0 .. n /\ k # n OBVIOUS
  <2>2. QED BY <2>1 DEF Longer
<1>3. QED BY <1>1, <1>2 DEF Longer

LEMMA GrowsIs ==
    ASSUME NEW b \in Buf, NEW c, NEW n, GrowsTo(b, c, n)
    PROVE  /\ Total(c) = n /\ n \in Nat \ {0} /\ n - 1 \in 0 .. Total(b) /\ Len(c.done) = n
           /\ Grp(c, n) = c.done[n]
           /\ \A k \in 1 .. n - 1 : Grp(c, k) = Grp(b, k) /\ k \in 1 .. Total(b)
<1>1. Len(b.done) \in Nat /\ Len(b.undone) \in Nat /\ Total(b) \in Nat /\ Len(b.done) <= Total(b) BY StackIs
<1>2. c.undone = <<>> /\ Len(c.done) = n /\ n \in Nat \ {0} /\ n - 1 <= Len(b.done) BY DEF GrowsTo
<1>3. Len(c.undone) = 0 BY <1>2
<1>4. Total(c) = n BY <1>2, <1>3 DEF Total
<1>5. ASSUME NEW k \in 1 .. n - 1 PROVE Grp(c, k) = Grp(b, k) /\ k \in 1 .. Total(b)
  <2>1. k <= n /\ k <= Len(b.done) /\ k \in 1 .. Total(b) BY <1>1, <1>2
  <2>2. c.done[k] = b.done[k] BY DEF GrowsTo
  <2>3. QED BY <1>2, <2>1, <2>2 DEF Grp
<1>6. QED BY <1>1, <1>2, <1>4, <1>5 DEF Grp

LEMMA LineGrows ==
    ASSUME NEW b \in Buf, NEW X, Line(b, X), NEW c, NEW n, GrowsTo(b, c, n),
           Makes(X[n - 1], c.done[n].ops, c.text)
    PROVE  Line(c, Longer(X, n, c.text))
<1> DEFINE Y == Longer(X, n, c.text)
<1>1. /\ Total(c) = n /\ n \in Nat \ {0} /\ n - 1 \in 0 .. Total(b) /\ Len(c.done) = n
      /\ Grp(c, n) = c.done[n]
      /\ \A k \in 1 .. n - 1 : Grp(c, k) = Grp(b, k) /\ k \in 1 .. Total(b)
  BY GrowsIs
<1>2. Y[n] = c.text /\ (\A k \in 0 .. n - 1 : Y[k] = X[k]) /\ DOMAIN Y = 0 .. n BY <1>1, LongerIs
<1>3. Y = [k \in 0 .. n |-> Y[k]] BY DEF Longer
<1> HIDE DEF Y
<1>4. c.text \in Seq(Char) BY MakesTexts
<1>5. \A k \in 0 .. n : Y[k] \in Seq(Char)
  <2> SUFFICES ASSUME NEW k \in 0 .. n PROVE Y[k] \in Seq(Char) OBVIOUS
  <2>1. CASE k = n BY <1>2, <1>4, <2>1
  <2>2. CASE k # n
    <3>1. k \in 0 .. n - 1 /\ k \in 0 .. Total(b)
      <4>1. Total(b) \in Nat BY StackIs
      <4>2. QED BY <1>1, <2>2, <4>1
    <3>2. Y[k] = X[k] /\ X[k] \in Seq(Char) BY <1>2, <3>1 DEF Line
    <3>3. QED BY <3>2
  <2>3. QED BY <2>1, <2>2
<1>6. ASSUME NEW k \in 1 .. n PROVE Makes(Y[k - 1], Grp(c, k).ops, Y[k])
  <2>1. k - 1 \in 0 .. n - 1 /\ (k # n => k \in 1 .. n - 1 /\ k \in 0 .. n - 1) BY <1>1
  <2>2. Y[k - 1] = X[k - 1] BY <1>2, <2>1
  <2>3. CASE k = n BY <1>1, <1>2, <2>2, <2>3
  <2>4. CASE k # n
    <3>1. Y[k] = X[k] /\ Grp(c, k) = Grp(b, k) /\ k \in 1 .. Total(b) BY <1>1, <1>2, <2>1, <2>4
    <3>2. Makes(X[k - 1], Grp(b, k).ops, X[k]) BY <3>1 DEF Line
    <3>3. QED BY <2>2, <3>1, <3>2
  <2>5. QED BY <2>3, <2>4
<1>7. Y \in [0 .. n -> Seq(Char)] BY <1>3, <1>5
<1>8. Line(c, Y) BY <1>1, <1>2, <1>6, <1>7 DEF Line
<1>9. QED BY <1>8 DEF Y

LEMMA WithinGrows ==
    ASSUME NEW b \in Buf, NEW X, Within(b, X), NEW c, NEW n, GrowsTo(b, c, n),
           Inside(c.done[n].before, Len(X[n - 1])), Inside(c.done[n].after, Len(c.text))
    PROVE  Within(c, Longer(X, n, c.text))
<1> DEFINE Y == Longer(X, n, c.text)
<1>1. /\ Total(c) = n /\ n \in Nat \ {0} /\ Grp(c, n) = c.done[n]
      /\ \A k \in 1 .. n - 1 : Grp(c, k) = Grp(b, k) /\ k \in 1 .. Total(b)
  BY GrowsIs
<1>2. Y[n] = c.text /\ (\A k \in 0 .. n - 1 : Y[k] = X[k]) BY <1>1, LongerIs
<1> HIDE DEF Y
<1>3. ASSUME NEW k \in 1 .. n
      PROVE  Inside(Grp(c, k).before, Len(Y[k - 1])) /\ Inside(Grp(c, k).after, Len(Y[k]))
  <2>1. k - 1 \in 0 .. n - 1 /\ (k # n => k \in 1 .. n - 1 /\ k \in 0 .. n - 1) BY <1>1
  <2>2. Y[k - 1] = X[k - 1] BY <1>2, <2>1
  <2>3. CASE k = n BY <1>1, <1>2, <2>2, <2>3
  <2>4. CASE k # n
    <3>1. Y[k] = X[k] /\ Grp(c, k) = Grp(b, k) /\ k \in 1 .. Total(b) BY <1>1, <1>2, <2>1, <2>4
    <3>2. Inside(Grp(b, k).before, Len(X[k - 1])) /\ Inside(Grp(b, k).after, Len(X[k])) BY <3>1 DEF Within
    <3>3. QED BY <2>2, <3>1, <3>2
  <2>5. QED BY <2>3, <2>4
<1>4. Within(c, Y) BY <1>1, <1>3 DEF Within
<1>5. QED BY <1>4 DEF Y

LEMMA OrStartIs ==
    ASSUME NEW sels \in Seq(Selection)
    PROVE  OrStart(sels) \in Seq(Selection) /\ OrStart(sels) # <<>>
<1>1. CASE sels = <<>>
  <2> DEFINE s == <<At(0)>>
  <2>1. At(0) \in Selection BY DEF At, Selection
  <2>2. s \in Seq(Selection) /\ s # <<>> BY <2>1
  <2>3. OrStart(sels) = s BY <1>1 DEF OrStart
  <2> HIDE DEF s
  <2>4. QED BY <2>2, <2>3
<1>2. CASE sels # <<>> BY <1>2 DEF OrStart
<1>3. QED BY <1>1, <1>2

LEMMA AnchorsAre ==
    ASSUME NEW sels \in Seq(Selection)
    PROVE  Anchors(sels) \in Seq(Nat)
<1> DEFINE s == [i \in DOMAIN sels |-> sels[i].head]
<1>1. Len(sels) \in Nat /\ DOMAIN sels = 1 .. Len(sels) /\ \A i \in 1 .. Len(sels) : sels[i] \in Selection BY SeqIs
<1>2. \A i \in 1 .. Len(sels) : sels[i].head \in Nat BY <1>1 DEF Selection
<1>3. s \in [1 .. Len(sels) -> Nat] BY <1>1, <1>2
<1>4. s \in Seq(Nat) BY <1>1, <1>3, FunctionIsSeq
<1>5. <<>> \in Seq(Nat) OBVIOUS
<1>6. Anchors(sels) = s \/ Anchors(sels) = <<>> BY DEF Anchors
<1> HIDE DEF s
<1>7. QED BY <1>4, <1>5, <1>6

\* An element of a sequence that changes.
LEMMA Updated ==
    ASSUME NEW Y, NEW s \in Seq(Y), NEW n \in 1 .. Len(s), NEW g \in Y,
           NEW r, r = [s EXCEPT ![n] = g]
    PROVE  /\ r \in Seq(Y) /\ Len(r) = Len(s) /\ r[n] = g
           /\ \A k \in 1 .. Len(s) : k # n => r[k] = s[k]
<1>1. Len(s) \in Nat /\ DOMAIN s = 1 .. Len(s) /\ \A k \in 1 .. Len(s) : s[k] \in Y BY SeqIs
<1>2. DOMAIN r = 1 .. Len(s) /\ r[n] = g /\ \A k \in 1 .. Len(s) : k # n => r[k] = s[k] BY <1>1
<1>3. r = [k \in 1 .. Len(s) |-> r[k]] BY <1>1
<1>4. \A k \in 1 .. Len(s) : r[k] \in Y BY <1>1, <1>2
<1>5. r \in [1 .. Len(s) -> Y] BY <1>3, <1>4
<1>6. QED BY <1>1, <1>2, <1>5, FunctionIsSeq

LEMMA GroupIs ==
    ASSUME NEW ops \in Seq(Op), NEW before \in Seq(Selection), NEW after \in Seq(Selection)
    PROVE  /\ [ops |-> ops, before |-> before, after |-> after] \in Group
           /\ [ops |-> ops, before |-> before, after |-> after].ops = ops
           /\ [ops |-> ops, before |-> before, after |-> after].before = before
           /\ [ops |-> ops, before |-> before, after |-> after].after = after
BY DEF Group, Op

LEMMA GroupFields ==
    ASSUME NEW g \in Group
    PROVE  g.ops \in Seq(Op) /\ g.before \in Seq(Selection) /\ g.after \in Seq(Selection)
BY DEF Group, Op

\* What is recorded of an edit: a group of its own, or more in the newest one.
RecordIs(b, done, ops, sels) ==
    LET n == Len(done)
    IN /\ done \in Seq(Group) /\ n \in Nat \ {0} /\ n - 1 <= Len(b.done)
       /\ \A k \in 1 .. n - 1 : done[k] = b.done[k]
       /\ done[n].after = sels
       /\ \/ n = Len(b.done) + 1 /\ done[n].ops = ops /\ done[n].before = b.cursors
          \/ n = Len(b.done) /\ done[n].ops = b.done[n].ops \o ops /\ done[n].before = b.done[n].before

LEMMA RecordedIs ==
    ASSUME NEW b \in Buf, NEW plans, NEW sels \in Seq(Selection), NEW coalesce,
           Applied(b.text, plans).ops \in Seq(Op)
    PROVE  RecordIs(b, Recorded(b, plans, sels, coalesce), Applied(b.text, plans).ops, sels)
<1> DEFINE ops == Applied(b.text, plans).ops
           d == b.done
           n == Len(d)
           r == Recorded(b, plans, sels, coalesce)
<1>1. d \in Seq(Group) /\ n \in Nat /\ b.cursors \in Seq(Selection) BY BufIs, SeqIs
<1>2. CASE Joins(b, plans, coalesce)
  <2> DEFINE g == d[n]
             h == [ops |-> g.ops \o ops, before |-> g.before, after |-> sels]
  <2>1. d # <<>> BY <1>2 DEF Joins
  <2>2. n \in 1 .. n BY <1>1, <2>1, EmptySeq
  <2>3. g \in Group BY <1>1, <2>2, SeqIs
  <2>4. g.ops \in Seq(Op) /\ g.before \in Seq(Selection) BY <2>3, GroupFields
  <2>5. g.ops \o ops \in Seq(Op) BY <2>4, ConcatProperties
  <2>6. h \in Group /\ h.ops = g.ops \o ops /\ h.before = g.before /\ h.after = sels BY <2>4, <2>5, GroupIs
  <2>7. r = [d EXCEPT ![n] = h]
    <3>1. r = [d EXCEPT ![n].ops = @ \o ops, ![n].after = sels] BY <1>2 DEF Recorded
    <3>2. DOMAIN d = 1 .. n BY <1>1, SeqIs
    <3>3. [g EXCEPT !.ops = @ \o ops, !.after = sels] = h
      <4>1. g = [ops |-> g.ops, before |-> g.before, after |-> g.after] BY <2>3 DEF Group
      <4> DEFINE k == [g EXCEPT !.ops = @ \o ops, !.after = sels]
      <4>2. k.ops = g.ops \o ops /\ k.before = g.before /\ k.after = sels BY <4>1
      <4>a. k \in Group BY <1>1, <2>3, <2>5 DEF Group, Op
      <4>3. k = [ops |-> k.ops, before |-> k.before, after |-> k.after]
        <5> HIDE DEF k
        <5>1. QED BY <4>a DEF Group
      <4>4. QED BY <4>2, <4>3
    <3> HIDE DEF ops, g, h
    <3>4. [d EXCEPT ![n].ops = @ \o ops, ![n].after = sels] = [d EXCEPT ![n] = [g EXCEPT !.ops = @ \o ops, !.after = sels]]
      BY <2>2, <3>2 DEF g
    <3>5. QED BY <3>1, <3>3, <3>4
  <2> HIDE DEF g, h, r, n, d
  <2>8. /\ r \in Seq(Group) /\ Len(r) = Len(d) /\ r[n] = h
        /\ \A k \in 1 .. Len(d) : k # n => r[k] = d[k]
    BY <1>1, <2>2, <2>6, <2>7, Updated DEF n
  <2>9. Len(r) = n /\ n \in Nat \ {0} /\ n - 1 <= n BY <2>2, <2>8 DEF n
  <2>10. \A k \in 1 .. n - 1 : r[k] = d[k]
    <3> SUFFICES ASSUME NEW k \in 1 .. n - 1 PROVE r[k] = d[k] OBVIOUS
    <3>1. k \in 1 .. Len(d) /\ k # n BY <2>9 DEF n
    <3>2. QED BY <2>8, <3>1
  <2>11. RecordIs(b, r, ops, sels) BY <2>6, <2>8, <2>9, <2>10 DEF RecordIs, n, d, g
  <2>12. QED BY <2>11 DEF r
<1>3. CASE ~Joins(b, plans, coalesce)
  <2> DEFINE h == [ops |-> ops, before |-> b.cursors, after |-> sels]
  <2>1. r = Append(d, h) BY <1>3 DEF Recorded
  <2> HIDE DEF ops
  <2>2. ops \in Seq(Op) BY DEF ops
  <2>3. h \in Group /\ h.ops = ops /\ h.before = b.cursors /\ h.after = sels BY <1>1, <2>2, GroupIs
  <2> HIDE DEF h, r, d
  <2>4. /\ r \in Seq(Group) /\ Len(r) = n + 1 /\ r[n + 1] = h
        /\ \A k \in 1 .. n : r[k] = d[k]
    BY <1>1, <2>1, <2>3, AppendProperties
  <2>5. n + 1 \in Nat \ {0} /\ (n + 1) - 1 = n /\ n <= n BY <1>1
  <2> HIDE DEF n
  <2>6. RecordIs(b, r, ops, sels) BY <2>3, <2>4, <2>5 DEF RecordIs, n, d
  <2>7. QED BY <2>6 DEF r, ops
<1>4. QED BY <1>2, <1>3

\* After an edit.
Onward(X, plans, c) == IF plans = <<>> THEN X ELSE Longer(X, Len(c.done), c.text)

\* Its fields.
Fields(b, plans, sels, coalesce, c) ==
    /\ c.text = Applied(b.text, plans).text /\ c.cursors = OrStart(sels)
    /\ c.version = b.version + 1 /\ c.saved = b.saved
    /\ c.done = Recorded(b, plans, sels, coalesce) /\ c.undone = <<>>
    /\ c.kind = KindOf(plans) /\ c.carets = Anchors(sels)
    /\ c.boundary = ~coalesce /\ c.recent = TRUE
    /\ c = [text |-> c.text, cursors |-> c.cursors, version |-> c.version, saved |-> c.saved,
            done |-> c.done, undone |-> c.undone, boundary |-> c.boundary, recent |-> c.recent,
            kind |-> c.kind, carets |-> c.carets]

LEMMA TransactedFields ==
    ASSUME NEW b, NEW plans, plans # <<>>, NEW sels, NEW coalesce,
           NEW c, c = Transacted(b, plans, sels, coalesce)
    PROVE  Fields(b, plans, sels, coalesce, c)
BY DEF Transacted, Fields

LEMMA SameStacks ==
    ASSUME NEW b \in Buf, NEW X, NEW c, c.done = b.done, c.undone = b.undone, c.text = b.text
    PROVE  (Line(b, X) => Line(c, X)) /\ (Within(b, X) => Within(c, X))
BY DEF Line, Within, Grp, Total

LEMMA CursorsOnly ==
    ASSUME NEW b \in Buf, NEW sels \in Seq(Selection), NEW c, c = [b EXCEPT !.cursors = sels]
    PROVE  /\ c \in Buf /\ c.text = b.text /\ c.cursors = sels /\ c.version = b.version /\ c.saved = b.saved
           /\ c.done = b.done /\ c.undone = b.undone /\ c.boundary = b.boundary /\ c.recent = b.recent
           /\ c.kind = b.kind /\ c.carets = b.carets
<1>1. c \in Buf BY DEF Buf
<1>2. /\ c.text = b.text /\ c.cursors = sels /\ c.version = b.version /\ c.saved = b.saved
      /\ c.done = b.done /\ c.undone = b.undone /\ c.boundary = b.boundary /\ c.recent = b.recent
      /\ c.kind = b.kind /\ c.carets = b.carets
  BY DEF Buf
<1>3. QED BY <1>1, <1>2

\* What an edit leaves, whether or not its ranges overlap.
LEMMA TransactedIs ==
    ASSUME NEW b \in Buf, NEW X, Line(b, X), NEW edit, Sound(b.text, edit), Applied(b.text, edit.plans).ok,
           NEW c, c = Transacted(b, edit.plans, edit.sels, edit.coalesce)
    PROVE  /\ c \in Buf /\ c.cursors # <<>> /\ c.cursors = OrStart(edit.sels)
           /\ c.version \in {b.version, b.version + 1} /\ c.saved = b.saved
           /\ Line(c, Onward(X, edit.plans, c))
<1> DEFINE plans == edit.plans
           sels == edit.sels
           coalesce == edit.coalesce
<1>1. plans \in Seq(PlanSet) /\ sels \in Seq(Selection) /\ coalesce \in BOOLEAN /\ (plans # <<>> => sels # <<>>)
  BY DEF Sound
<1>2. b.text \in Seq(Char) /\ b.version \in Nat /\ b.saved \in Nat /\ b.done \in Seq(Group) BY BufIs
<1>3. OrStart(sels) \in Seq(Selection) /\ OrStart(sels) # <<>> BY <1>1, OrStartIs
<1>0. c = Transacted(b, plans, sels, coalesce) OBVIOUS
<1> HIDE DEF plans, sels, coalesce
<1>4. CASE plans = <<>>
  <2>1. c = [b EXCEPT !.cursors = OrStart(sels)] BY <1>4 DEF Transacted, plans, sels
  <2>2. /\ c \in Buf /\ c.text = b.text /\ c.cursors = OrStart(sels) /\ c.version = b.version
        /\ c.saved = b.saved /\ c.done = b.done /\ c.undone = b.undone
    BY <1>3, <2>1, CursorsOnly
  <2>3. Line(c, X) BY <2>2, SameStacks
  <2>4. Onward(X, plans, c) = X BY <1>4 DEF Onward
  <2>5. QED BY <1>3, <2>2, <2>3, <2>4 DEF plans, sels
<1>5. CASE plans # <<>>
  <2> DEFINE ops == Applied(b.text, plans).ops
             n == Len(c.done)
  <2>0. Fields(b, plans, sels, coalesce, c) BY <1>0, <1>5, TransactedFields
  <2>1. /\ c.text = Applied(b.text, plans).text /\ c.cursors = OrStart(sels)
        /\ c.version = b.version + 1 /\ c.saved = b.saved
        /\ c.done = Recorded(b, plans, sels, coalesce) /\ c.undone = <<>>
        /\ c.kind = KindOf(plans) /\ c.carets = Anchors(sels)
        /\ c = [text |-> c.text, cursors |-> c.cursors, version |-> c.version, saved |-> c.saved,
                done |-> c.done, undone |-> c.undone, boundary |-> c.boundary, recent |-> c.recent,
                kind |-> c.kind, carets |-> c.carets]
    BY <2>0 DEF Fields
  <2>2. Makes(b.text, ops, c.text) BY <1>1, <1>2, <2>1, AppliedMakes DEF plans
  <2>3. ops \in Seq(Op) /\ c.text \in Seq(Char) BY <2>2, MakesTexts
  <2>4. RecordIs(b, c.done, ops, sels) BY <1>1, <2>1, <2>3, RecordedIs
  <2>5. c.done \in Seq(Group) BY <2>4 DEF RecordIs
  <2>6. c \in Buf
    <3>1. c.undone \in Seq(Group) BY <2>1
    <3>2. c.carets \in Seq(Nat) BY <1>1, <2>1, AnchorsAre
    <3>3. c.kind \in {"none", "insert", "delete", "other"} BY <2>1 DEF KindOf
    <3>4. c.version \in Nat BY <1>2, <2>1
    <3>5. c.boundary \in BOOLEAN /\ c.recent \in BOOLEAN BY <1>1, <2>0 DEF Fields
    <3>6. c.cursors \in Seq(Selection) /\ c.saved \in Nat BY <1>2, <1>3, <2>1
    <3>7. QED BY <2>1, <2>3, <2>5, <3>1, <3>2, <3>3, <3>4, <3>5, <3>6 DEF Buf
  <2>7. GrowsTo(b, c, n) BY <2>1, <2>4 DEF GrowsTo, RecordIs
  <2>8. Makes(X[n - 1], c.done[n].ops, c.text)
    <3>1. X[Len(b.done)] = b.text BY DEF Line
    <3>2. CASE n = Len(b.done) + 1 /\ c.done[n].ops = ops
      <4>1. Len(b.done) \in Nat BY StackIs
      <4>2. n - 1 = Len(b.done) BY <3>2, <4>1
      <4>3. QED BY <2>2, <3>1, <3>2, <4>2
    <3>3. CASE n = Len(b.done) /\ c.done[n].ops = b.done[n].ops \o ops
      <4>1. n \in 1 .. Len(b.done)
        <5>1. n \in Nat \ {0} BY <2>7 DEF GrowsTo
        <5>2. n \in 1 .. n BY <5>1
        <5>3. QED BY <3>3, <5>2, Zenon
      <4>2. Grp(b, n) = b.done[n] /\ Len(b.done) <= Total(b) /\ Total(b) \in Nat BY <4>1, StackIs
      <4>3. n \in 1 .. Total(b) BY <4>1, <4>2
      <4>4. Makes(X[n - 1], b.done[n].ops, X[n]) BY <4>2, <4>3 DEF Line
      <4>5. Makes(X[n], ops, c.text) BY <2>2, <3>1, <3>3
      <4>6. QED BY <3>3, <4>4, <4>5, MakesBoth
    <3>4. QED BY <2>4, <3>2, <3>3 DEF RecordIs
  <2>9. Line(c, Longer(X, n, c.text)) BY <2>7, <2>8, LineGrows
  <2>10. QED BY <1>3, <1>5, <2>1, <2>6, <2>9 DEF Onward, plans, sels
<1>6. QED BY <1>4, <1>5

\* And what it leaves if they do not.
LEMMA TransactedFine ==
    ASSUME NEW b \in Buf, Fine(b), NEW X, Line(b, X), Within(b, X),
           NEW edit, Sound(b.text, edit), ~Overlap(edit.plans),
           NEW c, c = Transacted(b, edit.plans, edit.sels, edit.coalesce)
    PROVE  /\ Applied(b.text, edit.plans).ok
           /\ Fine(c) /\ Within(c, Onward(X, edit.plans, c))
           /\ Sent(b.text, edit.plans) = c.text
<1> DEFINE plans == edit.plans
           sels == edit.sels
           coalesce == edit.coalesce
           m == Len(b.text)
           z == m + Delta(plans, Len(plans) + 1)
<1>1. plans \in Seq(PlanSet) /\ (\A i \in 1 .. Len(plans) : plans[i].end <= m) /\ Inside(OrStart(sels), z)
      /\ (plans # <<>> => sels # <<>>)
  BY DEF Sound
<1>2. b.text \in Seq(Char) /\ m \in Nat BY BufIs, SeqIs
<1>3. Placed(plans, m) BY <1>1 DEF Placed
<1>4. /\ Applied(b.text, plans).ok /\ Applied(b.text, plans).text \in Seq(Char)
      /\ Len(Applied(b.text, plans).text) = z /\ Sent(b.text, plans) = Applied(b.text, plans).text
  BY <1>2, <1>3, BatchIs
<1>5. sels \in Seq(Selection) BY <1>4 DEF Sound
<1>6. OrStart(sels) \in Seq(Selection) BY <1>5, OrStartIs
<1>7. CASE plans = <<>>
  <2>1. c = [b EXCEPT !.cursors = OrStart(sels)] BY <1>7 DEF Transacted
  <2>2. c.text = b.text /\ c.cursors = OrStart(sels) /\ c.done = b.done /\ c.undone = b.undone
    BY <1>6, <2>1, CursorsOnly
  <2>3. z = m
    <3>1. Delta(plans, Len(plans) + 1) = 0 BY <1>7, NoPlans
    <3>2. QED BY <1>2, <3>1
  <2>4. Applied(b.text, plans).text = b.text
    <3> DEFINE ops == Applied(b.text, plans).ops  u == Applied(b.text, plans).text
    <3>1. Makes(b.text, ops, u) /\ Len(ops) = Len(plans) BY <1>1, <1>2, <1>4, AppliedMakes
    <3>2. Len(ops) = 0 BY <1>7, <3>1
    <3> HIDE DEF ops, u
    <3>3. u = b.text BY <3>1, <3>2 DEF Makes, By
    <3>4. QED BY <3>3 DEF u
  <2>5. Fine(c) BY <1>1, <1>2, <2>2, <2>3 DEF Fine
  <2>6. Within(c, X) BY <2>2, SameStacks
  <2>7. Onward(X, plans, c) = X BY <1>7 DEF Onward
  <2>8. QED BY <1>4, <2>2, <2>4, <2>5, <2>6, <2>7
<1>8. CASE plans # <<>>
  <2> DEFINE ops == Applied(b.text, plans).ops
             n == Len(c.done)
  <2>1. /\ c.text = Applied(b.text, plans).text /\ c.cursors = OrStart(sels)
        /\ c.done = Recorded(b, plans, sels, coalesce) /\ c.undone = <<>>
    <3>1. c = Transacted(b, plans, sels, coalesce) OBVIOUS
    <3> HIDE DEF plans, sels, coalesce
    <3>2. Fields(b, plans, sels, coalesce, c) BY <1>8, <3>1, TransactedFields
    <3>3. QED BY <3>2 DEF Fields
  <2>2. OrStart(sels) = sels BY <1>1, <1>8 DEF OrStart
  <2>3. Len(c.text) = z /\ c.text \in Seq(Char) BY <1>4, <2>1
  <2>4. Fine(c) /\ Inside(sels, Len(c.text)) BY <1>1, <2>1, <2>2, <2>3 DEF Fine
  <2>5. ops \in Seq(Op)
    <3>1. Makes(b.text, ops, c.text) BY <1>1, <1>2, <1>4, <2>1, AppliedMakes
    <3>2. QED BY <3>1, MakesTexts
  <2>6. RecordIs(b, c.done, ops, sels) BY <1>5, <2>1, <2>5, RecordedIs
  <2>7. GrowsTo(b, c, n) BY <2>1, <2>6 DEF GrowsTo, RecordIs
  <2>8. Inside(c.done[n].after, Len(c.text)) BY <2>4, <2>6 DEF RecordIs
  <2>9. Inside(c.done[n].before, Len(X[n - 1]))
    <3>1. CASE n = Len(b.done) + 1 /\ c.done[n].before = b.cursors
      <4>1. Len(b.done) \in Nat BY StackIs
      <4>2. n - 1 = Len(b.done) BY <3>1, <4>1
      <4>3. X[n - 1] = b.text BY <4>2 DEF Line
      <4>4. QED BY <3>1, <4>3 DEF Fine
    <3>2. CASE n = Len(b.done) /\ c.done[n].before = b.done[n].before
      <4>1. n \in 1 .. Len(b.done) BY <2>7, <3>2 DEF GrowsTo
      <4>2. Grp(b, n) = b.done[n] /\ Len(b.done) <= Total(b) /\ Total(b) \in Nat BY <4>1, StackIs
      <4>3. n \in 1 .. Total(b) BY <4>1, <4>2
      <4>4. Inside(b.done[n].before, Len(X[n - 1])) BY <4>2, <4>3 DEF Within
      <4>5. QED BY <3>2, <4>4
    <3>3. QED BY <2>6, <3>1, <3>2 DEF RecordIs
  <2>10. Within(c, Longer(X, n, c.text)) BY <2>7, <2>8, <2>9, WithinGrows
  <2>11. QED BY <1>4, <1>8, <2>1, <2>4, <2>10 DEF Onward
<1>9. QED BY <1>7, <1>8

-----------------------------------------------------------------------------
(* The alignment of a closer.                                              *)

Shifted(b) == Transacted(b, Alignment(b).plans, Alignment(b).sels, TRUE)
Folds(b) ==
    /\ Alignment(b).plans # <<>> /\ ~b.boundary /\ b.kind = "insert" /\ b.done # <<>>
    /\ Len(Shifted(b).done) >= 2

\* Two groups made one.
Both(g, h) == [ops |-> g.ops \o h.ops, before |-> g.before, after |-> h.after]
Folded(c) ==
    Append(SubSeq(c.done, 1, Len(c.done) - 2), Both(c.done[Len(c.done) - 1], c.done[Len(c.done)]))

LEMMA AlignedFolds ==
    ASSUME NEW b
    PROVE  Aligned(b) = IF ~Folds(b) THEN Shifted(b)
                        ELSE [Shifted(b) EXCEPT !.done = Folded(Shifted(b)), !.kind = b.kind,
                                                !.carets = <<Alignment(b).sels[1].head>>]
BY DEF Aligned, Folds, Folded, Both, Shifted

LEMMA BothIs ==
    ASSUME NEW g \in Group, NEW h \in Group
    PROVE  /\ Both(g, h) \in Group /\ Both(g, h).ops = g.ops \o h.ops
           /\ Both(g, h).before = g.before /\ Both(g, h).after = h.after
<1>1. /\ g.ops \in Seq(Op) /\ g.before \in Seq(Selection) /\ h.ops \in Seq(Op) /\ h.after \in Seq(Selection)
  BY GroupFields
<1>2. g.ops \o h.ops \in Seq(Op) BY <1>1, ConcatProperties
<1>3. QED BY <1>1, <1>2, GroupIs DEF Both

LEMMA OneLess ==
    ASSUME NEW n \in Nat, n >= 2
    PROVE  (n - 2) + 1 = n - 1 /\ n - 1 \in Nat \ {0}
OBVIOUS

LEMMA FoldedIs ==
    ASSUME NEW c \in Buf, NEW n, n = Len(c.done), n >= 2
    PROVE  /\ Folded(c) \in Seq(Group) /\ Len(Folded(c)) = n - 1 /\ n - 1 \in Nat \ {0}
           /\ \A k \in 1 .. n - 2 : Folded(c)[k] = c.done[k]
           /\ Folded(c)[n - 1] = Both(c.done[n - 1], c.done[n])
           /\ c.done[n - 1] \in Group /\ c.done[n] \in Group
<1> DEFINE d == c.done
           s == SubSeq(d, 1, n - 2)
           g == Both(d[n - 1], d[n])
<1>1. d \in Seq(Group) /\ n \in Nat BY BufIs, SeqIs
<1>2. n - 1 \in 1 .. Len(d) /\ n \in 1 .. Len(d) BY <1>1
<1>3. d[n - 1] \in Group /\ d[n] \in Group BY <1>1, <1>2, SeqIs
<1>4. g \in Group BY <1>3, BothIs
<1>5. s \in Seq(Group) /\ Len(s) = n - 2 /\ \A k \in 1 .. n - 2 : s[k] = d[k]
  <2> HIDE DEF d
  <2>1. n - 2 \in 0 .. Len(d) /\ 1 \in 1 .. Len(d) + 1 BY <1>1 DEF d
  <2> DEFINE m == n - 2
  <2>a. m \in 1 - 1 .. Len(d) BY <2>1
  <2>b. /\ SubSeq(d, 1, m) \in Seq(Group)
        /\ Len(SubSeq(d, 1, m)) = IF 1 <= m THEN m - 1 + 1 ELSE 0
        /\ \A i \in 1 .. m - 1 + 1 : SubSeq(d, 1, m)[i] = d[1 + i - 1]
    <3> HIDE DEF m
    <3>1. QED BY <1>1, <2>1, <2>a, SubSeqProperties
  <2>c. m \in Nat BY <2>1
  <2> HIDE DEF m
  <2>2. s \in Seq(Group) BY <2>b DEF m
  <2>3. Len(s) = m BY <2>b, <2>c DEF m
  <2>4. \A k \in 1 .. m : s[k] = d[k]
    <3> SUFFICES ASSUME NEW k \in 1 .. m PROVE SubSeq(d, 1, m)[k] = d[k] BY DEF m
    <3>1. k \in 1 .. m - 1 + 1 /\ 1 + k - 1 = k BY <2>c
    <3>2. QED BY <2>b, <3>1
  <2>5. QED BY <2>2, <2>3, <2>4 DEF m
<1>6. Folded(c) = Append(s, g) BY DEF Folded
<1> HIDE DEF s, g
<1>7. /\ Append(s, g) \in Seq(Group) /\ Len(Append(s, g)) = (n - 2) + 1
      /\ (\A k \in 1 .. n - 2 : Append(s, g)[k] = s[k]) /\ Append(s, g)[(n - 2) + 1] = g
  BY <1>4, <1>5, AppendProperties
<1>8. (n - 2) + 1 = n - 1 /\ n - 1 \in Nat \ {0} BY <1>1, OneLess
<1>9. QED BY <1>3, <1>5, <1>6, <1>7, <1>8 DEF g

\* The line after the alignment.
AlignedLine(b, X) ==
    LET Y == Onward(X, Alignment(b).plans, Shifted(b))
    IN IF Folds(b) THEN Longer(Y, Len(Shifted(b).done) - 1, Shifted(b).text) ELSE Y

LEMMA FoldKeeps ==
    ASSUME NEW c \in Buf, NEW Y, Line(c, Y), Within(c, Y), NEW n, n = Len(c.done), n >= 2, c.undone = <<>>,
           NEW r, r.done = Folded(c), r.undone = <<>>, r.text = c.text
    PROVE  Line(r, Longer(Y, n - 1, c.text)) /\ Within(r, Longer(Y, n - 1, c.text))
<1> DEFINE m == n - 1
           a == c.done[n - 1]
           z == c.done[n]
<1>1. /\ Folded(c) \in Seq(Group) /\ Len(Folded(c)) = m /\ m \in Nat \ {0}
      /\ (\A k \in 1 .. n - 2 : Folded(c)[k] = c.done[k]) /\ Folded(c)[m] = Both(a, z)
      /\ a \in Group /\ z \in Group
  BY FoldedIs
<1>2. n \in Nat /\ m - 1 = n - 2 /\ m - 1 <= n /\ m \in 1 .. n /\ n \in 1 .. n BY <1>1, StackIs
<1>3. GrowsTo(c, r, m) BY <1>1, <1>2 DEF GrowsTo
<1>4. Total(c) \in Nat /\ n <= Total(c) /\ Grp(c, m) = a /\ Grp(c, n) = z BY <1>2, StackIs
<1>5. Both(a, z).ops = a.ops \o z.ops /\ Both(a, z).before = a.before /\ Both(a, z).after = z.after BY <1>1, BothIs
<1> HIDE DEF a, z
<1>6. m \in 1 .. Total(c) /\ n \in 1 .. Total(c) BY <1>2, <1>4
<1>7. Makes(Y[m - 1], a.ops, Y[m]) /\ Makes(Y[n - 1], z.ops, Y[n]) /\ Y[n] = c.text BY <1>4, <1>6 DEF Line
<1>8. Makes(Y[m - 1], a.ops \o z.ops, c.text) BY <1>7, MakesBoth
<1>9. Inside(a.before, Len(Y[m - 1])) /\ Inside(z.after, Len(Y[n])) BY <1>4, <1>6 DEF Within
<1>10. Line(r, Longer(Y, m, c.text)) BY <1>1, <1>3, <1>5, <1>8, LineGrows
<1>11. Within(r, Longer(Y, m, c.text)) BY <1>1, <1>3, <1>5, <1>7, <1>9, WithinGrows
<1>12. QED BY <1>10, <1>11

LEMMA OneIsApart ==
    ASSUME NEW plans \in Seq(PlanSet), Len(plans) \in {0, 1}
    PROVE  ~Overlap(plans)
<1>1. DOMAIN plans = 1 .. Len(plans) BY SeqIs
<1>2. \A i, j \in 1 .. Len(plans) : ~(i < j)
  <2>1. CASE Len(plans) = 0 BY <2>1
  <2>2. CASE Len(plans) = 1 BY <2>2
  <2>3. QED BY <2>1, <2>2
<1>3. QED BY <1>1, <1>2 DEF Overlap

LEMMA AlignedIs ==
    ASSUME NEW b \in Buf, Fine(b), NEW X, Line(b, X), Within(b, X), Aligns(b), NEW r, r = Aligned(b)
    PROVE  /\ r \in Buf /\ Fine(r) /\ Line(r, AlignedLine(b, X)) /\ Within(r, AlignedLine(b, X))
           /\ r.version \in {b.version, b.version + 1} /\ r.saved = b.saved
           /\ Sent(b.text, Alignment(b).plans) = r.text
<1> DEFINE shift == Alignment(b)
           c == Shifted(b)
           Y == Onward(X, shift.plans, c)
<1>1. Sound(b.text, shift) /\ Len(shift.plans) \in {0, 1} BY AlignmentSound
<1>2. shift.plans \in Seq(PlanSet) BY <1>1 DEF Sound
<1>3. ~Overlap(shift.plans) BY <1>1, <1>2, OneIsApart
<1>4. c = Transacted(b, shift.plans, shift.sels, shift.coalesce) BY DEF Shifted, Alignment, Edit
<1> HIDE DEF shift, c
<1>5. /\ Applied(b.text, shift.plans).ok /\ Fine(c) /\ Within(c, Y) /\ Sent(b.text, shift.plans) = c.text
  BY <1>1, <1>3, <1>4, TransactedFine
<1>6. /\ c \in Buf /\ c.cursors # <<>> /\ c.version \in {b.version, b.version + 1} /\ c.saved = b.saved
      /\ Line(c, Y)
  BY <1>1, <1>4, <1>5, TransactedIs
<1>7. CASE ~Folds(b)
  <2>1. r = c /\ AlignedLine(b, X) = Y BY <1>7, AlignedFolds DEF AlignedLine, c, shift
  <2>2. QED BY <1>5, <1>6, <2>1 DEF shift
<1>8. CASE Folds(b)
  <2> DEFINE n == Len(c.done)
             caret == shift.sels[1].head
  <2>1. shift.plans # <<>> /\ n >= 2 BY <1>8 DEF Folds, c, shift
  <2>2. c.undone = <<>>
    <3>1. Fields(b, shift.plans, shift.sels, shift.coalesce, c) BY <1>4, <2>1, TransactedFields
    <3>2. QED BY <3>1 DEF Fields
  <2>3. r = [c EXCEPT !.done = Folded(c), !.kind = b.kind, !.carets = <<caret>>]
    BY <1>8, AlignedFolds DEF c, shift
  <2>4. caret \in Nat
    <3>1. shift.sels \in Seq(Selection) /\ shift.sels # <<>> BY <1>1, <1>5, <2>1 DEF Sound
    <3>2. Len(shift.sels) \in Nat \ {0} BY <3>1, EmptySeq
    <3>3. 1 \in 1 .. Len(shift.sels) BY <3>2
    <3>4. shift.sels[1] \in Selection BY <3>1, <3>3, SeqIs
    <3>5. QED BY <3>4 DEF Selection
  <2>5. Folded(c) \in Seq(Group) BY <1>6, <2>1, FoldedIs
  <2> HIDE DEF caret, n
  <2>6. b.kind \in {"none", "insert", "delete", "other"} /\ <<caret>> \in Seq(Nat) BY <2>4, BufIs
  <2>7. r \in Buf BY <1>6, <2>3, <2>5, <2>6 DEF Buf
  <2>8. /\ r.text = c.text /\ r.cursors = c.cursors /\ r.version = c.version /\ r.saved = c.saved
        /\ r.done = Folded(c) /\ r.undone = <<>>
    BY <1>6, <2>2, <2>3 DEF Buf
  <2>9. Fine(r) BY <1>5, <2>8 DEF Fine
  <2>10. Line(r, Longer(Y, n - 1, c.text)) /\ Within(r, Longer(Y, n - 1, c.text))
    BY <1>5, <1>6, <2>1, <2>2, <2>8, FoldKeeps DEF n
  <2>11. AlignedLine(b, X) = Longer(Y, n - 1, c.text) BY <1>8 DEF AlignedLine, n, c, shift
  <2>12. QED BY <1>5, <1>6, <2>7, <2>8, <2>9, <2>10, <2>11 DEF shift
<1>9. QED BY <1>7, <1>8

-----------------------------------------------------------------------------
(* Undo and redo.                                                          *)

LEMMA ClosedType ==
    ASSUME NEW b \in Buf, NEW text \in Seq(Char), NEW sels \in Seq(Selection), NEW done \in Seq(Group),
           NEW undone \in Seq(Group), NEW c, c = Closed(b, text, sels, done, undone)
    PROVE  c \in Buf
<1>1. OrStart(sels) \in Seq(Selection) BY OrStartIs
<1>2. b.version + 1 \in Nat /\ b.saved \in Nat /\ b.kind \in {"none", "insert", "delete", "other"} BY BufIs
<1>3. <<>> \in Seq(Nat) OBVIOUS
<1>4. QED BY <1>1, <1>2, <1>3 DEF Closed, Buf

\* Ends of a sequence.
LEMMA LastAndFront ==
    ASSUME NEW Y, NEW s \in Seq(Y), s # <<>>
    PROVE  /\ Len(s) \in Nat \ {0} /\ Last(s) = s[Len(s)] /\ Last(s) \in Y
           /\ Front(s) \in Seq(Y) /\ Len(Front(s)) = Len(s) - 1
           /\ \A k \in 1 .. Len(s) - 1 : Front(s)[k] = s[k]
<1>1. Len(s) \in Nat \ {0} BY EmptySeq
<1>2. Last(s) = s[Len(s)] /\ Last(s) \in Y
  <2>1. Len(s) \in 1 .. Len(s) BY <1>1
  <2>2. Last(s) = s[Len(s)] BY DEF Last
  <2>3. QED BY <2>1, <2>2, SeqIs
<1>3. Front(s) = SubSeq(s, 1, Len(s) - 1) BY DEF Front
<1> DEFINE m == Len(s) - 1
<1>a. m \in Nat /\ m \in 1 - 1 .. Len(s) /\ 1 \in 1 .. Len(s) + 1 BY <1>1
<1> HIDE DEF m
<1>b. /\ SubSeq(s, 1, m) \in Seq(Y)
      /\ Len(SubSeq(s, 1, m)) = IF 1 <= m THEN m - 1 + 1 ELSE 0
      /\ \A i \in 1 .. m - 1 + 1 : SubSeq(s, 1, m)[i] = s[1 + i - 1]
  BY <1>a, SubSeqProperties
<1>4. Front(s) \in Seq(Y) BY <1>3, <1>b DEF m
<1>c. Len(SubSeq(s, 1, m)) = m BY <1>a, <1>b
<1>5. Len(Front(s)) = Len(s) - 1 BY <1>3, <1>c DEF m
<1>6. \A k \in 1 .. Len(s) - 1 : Front(s)[k] = s[k]
  <2> SUFFICES ASSUME NEW k \in 1 .. m PROVE SubSeq(s, 1, m)[k] = s[k] BY <1>3 DEF m
  <2>1. k \in 1 .. m - 1 + 1 /\ 1 + k - 1 = k BY <1>a
  <2>2. QED BY <1>b, <2>1
<1>7. QED BY <1>1, <1>2, <1>4, <1>5, <1>6

\* A group goes from one stack to the other: the line stays.
LEMMA SameGroups ==
    ASSUME NEW b \in Buf, NEW c,
           \/ /\ b.done # <<>>
              /\ c.done = Front(b.done) /\ c.undone = Append(b.undone, Last(b.done))
           \/ /\ b.undone # <<>>
              /\ c.undone = Front(b.undone) /\ c.done = Append(b.done, Last(b.undone))
    PROVE  Total(c) = Total(b) /\ \A k \in 1 .. Total(b) : Grp(c, k) = Grp(b, k)
<1> DEFINE d == b.done
           u == b.undone
           n == Len(d)
           m == Len(u)
<1>1. d \in Seq(Group) /\ u \in Seq(Group) /\ n \in Nat /\ m \in Nat BY BufIs, SeqIs
<1>2. Total(b) = n + m BY DEF Total
<1>3. CASE d # <<>> /\ c.done = Front(d) /\ c.undone = Append(u, Last(d))
  <2>1. /\ n \in Nat \ {0} /\ Last(d) = d[n] /\ Last(d) \in Group /\ Len(Front(d)) = n - 1
        /\ \A k \in 1 .. n - 1 : Front(d)[k] = d[k]
    BY <1>1, <1>3, LastAndFront
  <2>2. /\ Len(c.undone) = m + 1 /\ c.undone[m + 1] = d[n]
        /\ \A k \in 1 .. m : c.undone[k] = u[k]
    BY <1>1, <1>3, <2>1, AppendProperties
  <2> HIDE DEF n, m
  <2>3. Len(c.done) = n - 1 BY <1>3, <2>1
  <2>4. Total(c) = n + m BY <1>1, <2>1, <2>2, <2>3 DEF Total
  <2>7. n \in Nat \ {0} /\ m \in Nat BY <1>1, <2>1
  <2>5. ASSUME NEW k \in 1 .. n + m PROVE Grp(c, k) = Grp(b, k)
    <3>1. Grp(b, k) = IF k <= n THEN d[k] ELSE u[n + m + 1 - k] BY <1>2 DEF Grp, n
    <3>2. Grp(c, k) = IF k <= n - 1 THEN c.done[k] ELSE c.undone[n + m + 1 - k] BY <2>3, <2>4 DEF Grp
    <3>3. CASE k <= n - 1
      <4>1. k \in 1 .. n - 1 /\ k <= n BY <1>1, <3>3
      <4>2. c.done[k] = d[k] BY <1>3, <2>1, <4>1
      <4>3. QED BY <3>1, <3>2, <3>3, <4>1, <4>2
    <3>4. CASE k = n
      <4>1. ~(k <= n - 1) /\ k <= n /\ n + m + 1 - k = m + 1 BY <2>7, <3>4
      <4>2. QED BY <2>2, <3>1, <3>2, <3>4, <4>1
    <3>5. CASE k > n
      <4>1. ~(k <= n - 1) /\ ~(k <= n) /\ n + m + 1 - k \in 1 .. m BY <2>7, <3>5
      <4>2. QED BY <2>2, <3>1, <3>2, <4>1
    <3>6. QED BY <1>1, <3>3, <3>4, <3>5
  <2>6. QED BY <1>2, <2>4, <2>5
<1>4. CASE u # <<>> /\ c.undone = Front(u) /\ c.done = Append(d, Last(u))
  <2>1. /\ m \in Nat \ {0} /\ Last(u) = u[m] /\ Last(u) \in Group /\ Len(Front(u)) = m - 1
        /\ \A k \in 1 .. m - 1 : Front(u)[k] = u[k]
    BY <1>1, <1>4, LastAndFront
  <2>2. /\ Len(c.done) = n + 1 /\ c.done[n + 1] = u[m]
        /\ \A k \in 1 .. n : c.done[k] = d[k]
    BY <1>1, <1>4, <2>1, AppendProperties
  <2> HIDE DEF n, m
  <2>3. Len(c.undone) = m - 1 BY <1>4, <2>1
  <2>4. Total(c) = n + m BY <1>1, <2>1, <2>2, <2>3 DEF Total
  <2>5. ASSUME NEW k \in 1 .. n + m PROVE Grp(c, k) = Grp(b, k)
    <3>1. Grp(b, k) = IF k <= n THEN d[k] ELSE u[n + m + 1 - k] BY <1>2 DEF Grp, n
    <3>2. Grp(c, k) = IF k <= n + 1 THEN c.done[k] ELSE c.undone[n + m + 1 - k] BY <2>2, <2>4 DEF Grp
    <3>3. CASE k <= n
      <4>1. k \in 1 .. n /\ k <= n + 1 BY <1>1, <3>3
      <4>2. QED BY <2>2, <3>1, <3>2, <3>3, <4>1
    <3>4. CASE k = n + 1
      <4>0. n \in Nat /\ m \in Nat BY <1>1, <2>1
      <4>1. ~(k <= n) /\ k <= n + 1 /\ n + m + 1 - k = m BY <3>4, <4>0
      <4>2. QED BY <2>2, <3>1, <3>2, <3>4, <4>1
    <3>5. CASE k > n + 1
      <4>1. ~(k <= n + 1) /\ ~(k <= n) /\ n + m + 1 - k \in 1 .. m - 1 BY <1>1, <2>1, <3>5
      <4>2. c.undone[n + m + 1 - k] = u[n + m + 1 - k] BY <1>4, <2>1, <4>1
      <4>3. QED BY <3>1, <3>2, <4>1, <4>2
    <3>6. QED BY <1>1, <3>3, <3>4, <3>5
  <2>6. QED BY <1>2, <2>4, <2>5
<1>5. QED BY <1>3, <1>4

LEMMA LineShifts ==
    ASSUME NEW b \in Buf, NEW X, Line(b, X), NEW c, Total(c) = Total(b),
           \A k \in 1 .. Total(b) : Grp(c, k) = Grp(b, k), X[Len(c.done)] = c.text
    PROVE  Line(c, X) /\ (Within(b, X) => Within(c, X))
BY DEF Line, Within

LEMMA UndoneIs ==
    ASSUME NEW b \in Buf, b.done # <<>>, NEW X, Line(b, X), NEW c, c = Undone(b)
    PROVE  /\ c \in Buf /\ c.version = b.version + 1 /\ c.saved = b.saved
           /\ c.text = X[Len(b.done) - 1] /\ c.cursors = OrStart(b.done[Len(b.done)].before)
           /\ Line(c, X) /\ (Within(b, X) => Fine(c) /\ Within(c, X))
           /\ Total(c) = Total(b) /\ Len(c.done) = Len(b.done) - 1
           /\ \A k \in 1 .. Total(b) : Grp(c, k) = Grp(b, k)
<1> DEFINE n == Len(b.done)
           g == Last(b.done)
           text == Reverted(b.text, g.ops)
<1>1. b.done \in Seq(Group) /\ b.undone \in Seq(Group) BY BufIs
<1>2. /\ n \in Nat \ {0} /\ g = b.done[n] /\ g \in Group
      /\ Front(b.done) \in Seq(Group) /\ Len(Front(b.done)) = n - 1
  BY <1>1, LastAndFront
<1>3. n \in 1 .. n /\ n \in 1 .. Total(b) /\ Grp(b, n) = g
  <2>1. Total(b) \in Nat /\ n <= Total(b) BY StackIs
  <2>2. n \in 1 .. n /\ n \in 1 .. Total(b) BY <1>2, <2>1
  <2>3. QED BY <1>2, <2>2, StackIs
<1>4. Makes(X[n - 1], g.ops, X[n]) /\ X[n] = b.text BY <1>3 DEF Line
<1>5. text = X[n - 1] /\ X[n - 1] \in Seq(Char) BY <1>4, MakesReverted, MakesTexts
<1>6. Append(b.undone, g) \in Seq(Group) BY <1>1, <1>2, AppendProperties
<1>7. g.before \in Seq(Selection) BY <1>2, GroupFields
<1>8. c = Closed(b, text, g.before, Front(b.done), Append(b.undone, g)) BY DEF Undone
<1> HIDE DEF text, g
<1>9. c \in Buf BY <1>1, <1>2, <1>5, <1>6, <1>7, <1>8, ClosedType
<1>10. /\ c.text = text /\ c.cursors = OrStart(g.before) /\ c.version = b.version + 1 /\ c.saved = b.saved
       /\ c.done = Front(b.done) /\ c.undone = Append(b.undone, g)
  BY <1>8 DEF Closed
<1>11. Total(c) = Total(b) /\ \A k \in 1 .. Total(b) : Grp(c, k) = Grp(b, k) BY <1>10, SameGroups DEF g
<1>12. Line(c, X) /\ (Within(b, X) => Within(c, X)) BY <1>2, <1>5, <1>10, <1>11, LineShifts
<1>13. ASSUME Within(b, X) PROVE Fine(c)
  <2>1. Inside(g.before, Len(X[n - 1])) BY <1>3, <1>13 DEF Within
  <2>2. OrStart(g.before) = g.before BY <2>1 DEF Inside, OrStart
  <2>3. QED BY <1>5, <1>10, <2>1, <2>2 DEF Fine
<1>14. QED BY <1>2, <1>5, <1>9, <1>10, <1>11, <1>12, <1>13

LEMMA RedoneIs ==
    ASSUME NEW b \in Buf, b.undone # <<>>, NEW X, Line(b, X), NEW c, c = Redone(b)
    PROVE  /\ c \in Buf /\ c.version = b.version + 1 /\ c.saved = b.saved
           /\ c.text = X[Len(b.done) + 1] /\ c.cursors = OrStart(Grp(b, Len(b.done) + 1).after)
           /\ Line(c, X) /\ (Within(b, X) => Fine(c) /\ Within(c, X))
           /\ Total(c) = Total(b) /\ Len(c.done) = Len(b.done) + 1 /\ Len(b.done) + 1 \in 1 .. Total(b)
           /\ \A k \in 1 .. Total(b) : Grp(c, k) = Grp(b, k)
<1> DEFINE n == Len(b.done) + 1
           g == Last(b.undone)
           text == Repeated(b.text, g.ops)
<1>1. b.done \in Seq(Group) /\ b.undone \in Seq(Group) /\ Len(b.done) \in Nat BY BufIs, SeqIs
<1>2. /\ Len(b.undone) \in Nat \ {0} /\ g = b.undone[Len(b.undone)] /\ g \in Group
      /\ Front(b.undone) \in Seq(Group)
  BY <1>1, LastAndFront
<1>3. n \in 1 .. Total(b) /\ Grp(b, n) = g
  <2> DEFINE d == Len(b.done)  u == Len(b.undone)
  <2>1. Total(b) = d + u /\ d \in Nat /\ u \in Nat \ {0} /\ n = d + 1 BY <1>1, <1>2 DEF Total
  <2>2. Grp(b, n) = IF n <= d THEN b.done[n] ELSE b.undone[Total(b) + 1 - n] BY DEF Grp
  <2> HIDE DEF d, u, n
  <2>3. n \in 1 .. Total(b) /\ ~(n <= d) /\ Total(b) + 1 - n = u BY <2>1
  <2>4. QED BY <1>2, <2>2, <2>3 DEF u
<1>4. n - 1 = Len(b.done) BY <1>1
<1>5. Makes(X[n - 1], g.ops, X[n]) /\ X[n - 1] = b.text BY <1>3, <1>4 DEF Line
<1>6. text = X[n] /\ X[n] \in Seq(Char) BY <1>5, MakesRepeated, MakesTexts
<1>7. Append(b.done, g) \in Seq(Group) /\ Len(Append(b.done, g)) = n BY <1>1, <1>2, AppendProperties
<1>8. g.after \in Seq(Selection) BY <1>2, GroupFields
<1>9. c = Closed(b, text, g.after, Append(b.done, g), Front(b.undone)) BY DEF Redone
<1> HIDE DEF text, g, n
<1>10. c \in Buf BY <1>2, <1>6, <1>7, <1>8, <1>9, ClosedType
<1>11. /\ c.text = text /\ c.cursors = OrStart(g.after) /\ c.version = b.version + 1 /\ c.saved = b.saved
       /\ c.done = Append(b.done, g) /\ c.undone = Front(b.undone)
  BY <1>9 DEF Closed
<1>12. Total(c) = Total(b) /\ \A k \in 1 .. Total(b) : Grp(c, k) = Grp(b, k) BY <1>11, SameGroups DEF g
<1>13. Line(c, X) /\ (Within(b, X) => Within(c, X)) BY <1>6, <1>7, <1>11, <1>12, LineShifts
<1>14. ASSUME Within(b, X) PROVE Fine(c)
  <2>1. Inside(g.after, Len(X[n])) BY <1>3, <1>14 DEF Within
  <2>2. OrStart(g.after) = g.after BY <2>1 DEF Inside, OrStart
  <2>3. QED BY <1>6, <1>11, <2>1, <2>2 DEF Fine
<1>15. QED BY <1>3, <1>6, <1>7, <1>10, <1>11, <1>12, <1>13, <1>14 DEF n

-----------------------------------------------------------------------------
(* The invariant.                                                          *)

Shape(b) == b \in Buf /\ b.cursors # <<>> /\ {b.version, b.saved} \subseteq 0 .. MaxVersion + 2

\* X is the line of texts that the stacks of b lead along; the carets are in the text
\* and clangd, which was told t, has it, unless the ranges of a batch overlapped.
Good(b, t, X, astray) ==
    /\ Shape(b) /\ t \in Seq(Char) /\ Line(b, X)
    /\ astray \/ (Within(b, X) /\ Fine(b) /\ t = b.text)

\* What the find bar holds.
Bar ==
    /\ matches \in SUBSET Nat /\ rewritten \in BOOLEAN
    /\ rewritten \/ matches = Matches(buf.text)

Inv ==
    /\ disk \in Seq(Char) /\ strayed \in BOOLEAN /\ crashed \in BOOLEAN
    /\ Bar
    /\ crashed => rewritten \/ strayed
    /\ \E X : Good(buf, clangd, X, strayed)

\* Before an edit.
LEMMA Reached ==
    ASSUME NEW X, Good(buf, clangd, X, strayed), Intact
    PROVE  /\ Shape(buf) /\ buf \in Buf /\ Line(buf, X) /\ Within(buf, X) /\ Fine(buf) /\ clangd = buf.text
           /\ buf.version \in Nat /\ buf.saved \in 0 .. MaxVersion + 2
BY BufIs DEF Good, Intact, Shape

LEMMA ReadyIs ==
    ASSUME Ready, buf.version \in Nat
    PROVE  Intact /\ {buf.version, buf.version + 1, buf.version + 2} \subseteq 0 .. MaxVersion + 2
<1>1. MaxEdits \in Nat /\ MaxVersion \in Nat /\ MaxEdits <= MaxVersion BY BoundsAreNat
<1>2. buf.version < MaxEdits /\ Intact BY DEF Ready
<1>3. QED BY <1>1, <1>2

LEMMA BoundedIs ==
    ASSUME buf \in Buf, NEW b, Bounded(b), NEW X, Line(buf, X), Within(buf, X), Fine(buf)
    PROVE  /\ b \in Buf /\ Line(b, X) /\ Within(b, X) /\ Fine(b) /\ b.text = buf.text /\ b.cursors = buf.cursors
           /\ b.version = buf.version /\ b.saved = buf.saved /\ b.done = buf.done /\ b.undone = buf.undone
<1>1. CASE b = buf BY <1>1
<1>2. CASE b = [buf EXCEPT !.boundary = TRUE]
  <2>1. b \in Buf BY <1>2 DEF Buf
  <2>2. /\ b.text = buf.text /\ b.cursors = buf.cursors /\ b.done = buf.done /\ b.undone = buf.undone
        /\ b.version = buf.version /\ b.saved = buf.saved
    BY <1>2 DEF Buf
  <2>3. Line(b, X) /\ Within(b, X) BY <2>2, SameStacks
  <2>4. Fine(b) BY <2>2 DEF Fine
  <2>5. QED BY <2>1, <2>2, <2>3, <2>4
<1>3. QED BY <1>1, <1>2 DEF Bounded

LEMMA BatchedKeeps ==
    ASSUME NEW X, Good(buf, clangd, X, strayed), NEW b, NEW e, Batched(b, e)
    PROVE  /\ disk' = disk /\ strayed' = Overlap(e.plans) /\ strayed' \in BOOLEAN
           /\ \/ /\ buf' = After(b, e) /\ Good(buf', clangd', Onward(X, e.plans, buf'), strayed')
                 /\ crashed' = crashed /\ Applied(b.text, e.plans).ok
              \/ buf' = buf /\ clangd' = clangd /\ Good(buf, clangd, X, strayed') /\ crashed' = TRUE /\ strayed'
<1>1. Changes(b, e) /\ Bounded(b) /\ Sound(buf.text, e) /\ Ready BY DEF Batched, Changes
<1>2. Intact BY <1>1 DEF Ready
<1>3. /\ Shape(buf) /\ buf \in Buf /\ Line(buf, X) /\ Within(buf, X) /\ Fine(buf) /\ clangd = buf.text
      /\ buf.version \in Nat /\ buf.saved \in 0 .. MaxVersion + 2
  BY <1>2, Reached
<1>4. {buf.version, buf.version + 1} \subseteq 0 .. MaxVersion + 2 BY <1>1, <1>3, ReadyIs
<1>5. /\ b \in Buf /\ Line(b, X) /\ Within(b, X) /\ Fine(b) /\ b.text = buf.text
      /\ b.version = buf.version /\ b.saved = buf.saved
  BY <1>1, <1>3, BoundedIs
<1>6. Overlap(e.plans) \in BOOLEAN BY DEF Overlap
<1>7. Sound(b.text, e) BY <1>1, <1>5
<1>8. CASE Applied(b.text, e.plans).ok
  <2> DEFINE c == After(b, e)
             Y == Onward(X, e.plans, c)
  <2>1. /\ buf' = c /\ strayed' = Overlap(e.plans) /\ disk' = disk /\ crashed' = crashed
        /\ clangd' = IF strayed' THEN clangd ELSE Sent(clangd, e.plans)
    BY <1>1, <1>8 DEF Changes, Leaves, Tells
  <2>2. c = Transacted(b, e.plans, e.sels, e.coalesce) BY DEF After
  <2> HIDE DEF c
  <2>3. /\ c \in Buf /\ c.cursors # <<>> /\ c.version \in {b.version, b.version + 1} /\ c.saved = b.saved
        /\ Line(c, Y)
    BY <1>5, <1>7, <1>8, <2>2, TransactedIs
  <2>4. Shape(c) BY <1>3, <1>4, <1>5, <2>3 DEF Shape
  <2>5. c.text \in Seq(Char) BY <2>3, BufIs
  <2>6. CASE Overlap(e.plans)
    <3>1. clangd' = clangd /\ strayed' BY <2>1, <2>6
    <3>2. clangd' \in Seq(Char) BY <1>3, <3>1 DEF Fine
    <3>3. Good(c, clangd', Y, strayed') BY <2>3, <2>4, <3>1, <3>2 DEF Good
    <3>4. QED BY <1>6, <1>8, <2>1, <3>3 DEF c
  <2>7. CASE ~Overlap(e.plans)
    <3>1. clangd' = Sent(b.text, e.plans) /\ ~strayed' BY <1>3, <1>5, <2>1, <2>7
    <3>2. Fine(c) /\ Within(c, Y) /\ Sent(b.text, e.plans) = c.text BY <1>5, <1>7, <2>2, <2>7, TransactedFine
    <3>3. Good(c, clangd', Y, strayed') BY <2>3, <2>4, <2>5, <3>1, <3>2 DEF Good
    <3>4. QED BY <1>6, <1>8, <2>1, <3>3 DEF c
  <2>8. QED BY <2>6, <2>7
<1>9. CASE ~Applied(b.text, e.plans).ok
  <2>1. crashed' = TRUE /\ strayed' = Overlap(e.plans) /\ buf' = buf /\ disk' = disk /\ clangd' = clangd
    BY <1>1, <1>9 DEF Changes, Panics
  <2>2. Overlap(e.plans)
    <3>1. SUFFICES ASSUME ~Overlap(e.plans) PROVE FALSE BY <1>6
    <3> DEFINE c == Transacted(b, e.plans, e.sels, e.coalesce)
    <3>2. c = Transacted(b, e.plans, e.sels, e.coalesce) OBVIOUS
    <3> HIDE DEF c
    <3>3. Applied(b.text, e.plans).ok BY <1>5, <1>7, <3>1, <3>2, TransactedFine
    <3>4. QED BY <1>9, <3>3
  <2>3. buf.text \in Seq(Char) BY <1>3 DEF Fine
  <2>4. Good(buf, clangd, X, strayed') BY <1>3, <2>3 DEF Good
  <2>5. QED BY <1>6, <2>1, <2>2, <2>4
<1>10. QED BY <1>8, <1>9

LEMMA TypingAlone ==
    ASSUME NEW s, NEW e, NEW text, NEW coalesce, Replaces(s, e, text, coalesce).plans \in Seq(PlanSet)
    PROVE  ~Overlap(Replaces(s, e, text, coalesce).plans) /\ Len(Replaces(s, e, text, coalesce).plans) = 1
<1>1. Replaces(s, e, text, coalesce).plans = <<Plan(s, e, text)>> BY DEF Replaces, Edit
<1>2. Len(Replaces(s, e, text, coalesce).plans) = 1 BY <1>1
<1>3. QED BY <1>2, OneIsApart

\* A closer is typed and aligned.
LEMMA ClosesKeeps ==
    ASSUME NEW X, Good(buf, clangd, X, strayed), NEW ch \in Char, Closes(ch),
           NEW b, b = After(buf, Typing(ch))
    PROVE  /\ buf' = Aligned(b) /\ Aligns(b) /\ disk' = disk /\ strayed' = strayed /\ crashed' = crashed
           /\ Good(b, b.text, Onward(X, Typing(ch).plans, b), FALSE)
           /\ Good(buf', clangd', AlignedLine(b, Onward(X, Typing(ch).plans, b)), FALSE)
<1> DEFINE e == Typing(ch)
           Y == Onward(X, e.plans, b)
           r == Aligned(b)
<1>1. /\ Ready /\ Aligns(b) /\ buf' = r /\ UNCHANGED <<disk, strayed, crashed>>
      /\ clangd' = Sent(Sent(clangd, e.plans), Alignment(b).plans)
  BY DEF Closes
<1>2. Intact BY <1>1 DEF Ready
<1>3. /\ buf \in Buf /\ Line(buf, X) /\ Within(buf, X) /\ Fine(buf) /\ clangd = buf.text
      /\ buf.version \in Nat /\ buf.saved \in 0 .. MaxVersion + 2
  BY <1>2, Reached
<1>4. {buf.version, buf.version + 1, buf.version + 2} \subseteq 0 .. MaxVersion + 2 BY <1>1, <1>3, ReadyIs
<1>5. Sound(buf.text, e) BY <1>3, TypingSound
<1>6. ~Overlap(e.plans) BY <1>5, TypingAlone DEF Sound, Typing
<1>7. b = Transacted(buf, e.plans, e.sels, e.coalesce) BY DEF After
<1> HIDE DEF e
<1>8. Applied(buf.text, e.plans).ok /\ Fine(b) /\ Within(b, Y) /\ Sent(buf.text, e.plans) = b.text
  BY <1>3, <1>5, <1>6, <1>7, TransactedFine
<1>9. /\ b \in Buf /\ b.cursors # <<>> /\ b.version \in {buf.version, buf.version + 1} /\ b.saved = buf.saved
      /\ Line(b, Y)
  BY <1>3, <1>5, <1>7, <1>8, TransactedIs
<1> HIDE DEF Y, r
<1>10. r = Aligned(b) BY DEF r
<1>11. /\ r \in Buf /\ Fine(r) /\ Line(r, AlignedLine(b, Y)) /\ Within(r, AlignedLine(b, Y))
       /\ r.version \in {b.version, b.version + 1} /\ r.saved = b.saved
       /\ Sent(b.text, Alignment(b).plans) = r.text
  BY <1>1, <1>8, <1>9, <1>10, AlignedIs
<1>12. Shape(b) BY <1>3, <1>4, <1>9 DEF Shape
<1>13. r.version \in {buf.version, buf.version + 1, buf.version + 2}
  <2>1. buf.version + 1 + 1 = buf.version + 2 BY <1>3
  <2>2. QED BY <1>9, <1>11, <2>1
<1>14. r.cursors # <<>> BY <1>11 DEF Fine, Inside
<1>15. Shape(r) BY <1>3, <1>4, <1>9, <1>11, <1>13, <1>14 DEF Shape
<1>16. b.text \in Seq(Char) /\ r.text \in Seq(Char) BY <1>9, <1>11, BufIs
<1>17. Good(b, b.text, Y, FALSE) BY <1>8, <1>9, <1>12, <1>16 DEF Good
<1>18. clangd' = r.text BY <1>1, <1>3, <1>8, <1>11
<1>19. Good(r, clangd', AlignedLine(b, Y), FALSE) BY <1>11, <1>15, <1>16, <1>18 DEF Good
<1>20. QED BY <1>1, <1>10, <1>17, <1>19 DEF Y, e

LEMMA OneInside ==
    ASSUME NEW m \in Nat, NEW a \in 0 .. m, NEW h \in 0 .. m
    PROVE  Inside(<<[anchor |-> a, head |-> h]>>, m)
<1> DEFINE sel == [anchor |-> a, head |-> h]
           s == <<sel>>
<1>1. sel \in Selection /\ sel.anchor <= m /\ sel.head <= m BY DEF Selection
<1> HIDE DEF sel
<1>2. s \in Seq(Selection) /\ Len(s) = 1 /\ s[1] = sel BY <1>1
<1>3. s # <<>> BY <1>2, EmptySeq
<1> HIDE DEF s
<1>4. \A i \in 1 .. Len(s) : i = 1 BY <1>2
<1>5. \A i, j \in 1 .. Len(s) : ~(i < j) BY <1>2
<1>6. Inside(s, m) BY <1>1, <1>2, <1>3, <1>4, <1>5 DEF Inside
<1>7. QED BY <1>6 DEF s, sel

\* The carets move, and nothing else.
Turned(b, c) ==
    /\ c.text = b.text /\ c.done = b.done /\ c.undone = b.undone
    /\ c.version = b.version /\ c.saved = b.saved

LEMMA CaretsKeep ==
    ASSUME NEW b, NEW t, NEW X, Good(b, t, X, FALSE), NEW sels, Inside(sels, Len(b.text)),
           NEW c, c = [b EXCEPT !.cursors = sels]
    PROVE  Good(c, t, X, FALSE) /\ Turned(b, c) /\ c.cursors = sels
<1>1. b \in Buf /\ Line(b, X) /\ Within(b, X) /\ Fine(b) /\ t = b.text /\ t \in Seq(Char) /\ Shape(b)
  BY DEF Good, Shape
<1>2. sels \in Seq(Selection) /\ sels # <<>> BY DEF Inside
<1>3. /\ c \in Buf /\ c.text = b.text /\ c.cursors = sels /\ c.version = b.version /\ c.saved = b.saved
      /\ c.done = b.done /\ c.undone = b.undone
  BY <1>1, <1>2, CursorsOnly
<1>4. Line(c, X) /\ Within(c, X) BY <1>1, <1>3, SameStacks
<1>5. Fine(c) BY <1>1, <1>3 DEF Fine
<1>6. Shape(c) BY <1>1, <1>2, <1>3 DEF Shape
<1>7. QED BY <1>1, <1>3, <1>4, <1>5, <1>6 DEF Good, Turned

\* The buffer after the keys that only move carets, and when time passes.
LEMMA MovesKeep ==
    ASSUME NEW X, Good(buf, clangd, X, strayed), Carets \/ TimePasses
    PROVE  /\ Good(buf', clangd', X, FALSE) /\ Turned(buf, buf')
           /\ strayed' = strayed /\ ~strayed /\ UNCHANGED <<disk, crashed, clangd>>
<1>1. Ready /\ UNCHANGED <<disk, clangd, strayed, crashed>>
  BY DEF Carets, Selects, ArrowKeys, TimePasses, OnlyTheBuffer
<1>2. Intact /\ ~strayed BY <1>1 DEF Ready, Intact
<1>3. Shape(buf) /\ buf \in Buf /\ Line(buf, X) /\ Within(buf, X) /\ Fine(buf) /\ clangd = buf.text
  BY <1>2, Reached
<1>4. buf.text \in Seq(Char) /\ Len(buf.text) \in Nat BY <1>3, FirstSel
<1>5. Good(buf, clangd, X, FALSE) BY <1>3, <1>4 DEF Good
<1>6. CASE Carets
  <2>1. PICK sels : Inside(sels, Len(buf.text)) /\ buf' = [buf EXCEPT !.cursors = sels]
    <3>1. ASSUME NEW anchor \in Offsets(buf.text), NEW head \in Offsets(buf.text), Selects(anchor, head)
          PROVE  \E sels : Inside(sels, Len(buf.text)) /\ buf' = [buf EXCEPT !.cursors = sels]
      <4>1. anchor \in 0 .. Len(buf.text) /\ head \in 0 .. Len(buf.text) BY DEF Offsets
      <4>2. Inside(<<[anchor |-> anchor, head |-> head]>>, Len(buf.text)) BY <1>4, <4>1, OneInside
      <4>3. buf' = [buf EXCEPT !.cursors = <<[anchor |-> anchor, head |-> head]>>] BY <3>1 DEF Selects
      <4>4. QED BY <4>2, <4>3
    <3>2. ASSUME NEW right \in BOOLEAN, buf' = Stepped(buf, right)
          PROVE  \E sels : Inside(sels, Len(buf.text)) /\ buf' = [buf EXCEPT !.cursors = sels]
      <4> DEFINE of == [i \in DOMAIN buf.cursors |->
                 IF ~IsEmpty(buf.cursors[i]) THEN IF right THEN Hi(buf.cursors[i]) ELSE Lo(buf.cursors[i])
                 ELSE IF right THEN Behind(buf.text)[buf.cursors[i].head]
                 ELSE Before(buf.text)[buf.cursors[i].head]]
                 sels == [i \in DOMAIN buf.cursors |-> At(of[i])]
      <4>1. \A i \in DOMAIN buf.cursors :
               of[i] = IF ~IsEmpty(buf.cursors[i]) THEN IF right THEN Hi(buf.cursors[i]) ELSE Lo(buf.cursors[i])
                       ELSE IF right THEN Behind(buf.text)[buf.cursors[i].head]
                       ELSE Before(buf.text)[buf.cursors[i].head]
        OBVIOUS
      <4>2. buf' = [buf EXCEPT !.cursors = sels] BY <3>2 DEF Stepped
      <4> HIDE DEF of
      <4>3. Inside(sels, Len(buf.text)) BY <1>3, <4>1, SteppedInside
      <4>4. QED BY <4>2, <4>3
    <3>3. ASSUME NEW extend \in Shifts, NEW edge \in Edges(extend), buf' = Moved(buf, edge, extend)
          PROVE  \E sels : Inside(sels, Len(buf.text)) /\ buf' = [buf EXCEPT !.cursors = sels]
      <4>1. Climbs(edge, Len(buf.text)) BY <1>4, EdgesClimb
      <4> DEFINE sels == [i \in DOMAIN buf.cursors |->
                             IF extend THEN [buf.cursors[i] EXCEPT !.head = edge[buf.cursors[i].head]]
                             ELSE At(edge[buf.cursors[i].head])]
      <4>2. Inside(sels, Len(buf.text)) BY <1>3, <4>1, MovedInside
      <4>3. buf' = [buf EXCEPT !.cursors = sels] BY <3>3 DEF Moved
      <4>4. QED BY <4>2, <4>3
    <3>4. QED BY <1>6, <3>1, <3>2, <3>3 DEF Carets, ArrowKeys
  <2>2. Good(buf', clangd, X, FALSE) /\ Turned(buf, buf') BY <1>5, <2>1, CaretsKeep
  <2>3. QED BY <1>1, <1>2, <2>2
<1>7. CASE TimePasses
  <2> DEFINE c == [buf EXCEPT !.recent = FALSE]
  <2>1. buf' = c BY <1>7 DEF TimePasses
  <2>2. c \in Buf BY <1>3 DEF Buf
  <2>3. Turned(buf, c) /\ c.cursors = buf.cursors BY <1>3 DEF Turned, Buf
  <2> HIDE DEF c
  <2>4. Line(c, X) /\ Within(c, X) BY <1>3, <2>3, SameStacks DEF Turned
  <2>5. Fine(c) /\ Shape(c) /\ c.text = buf.text BY <1>3, <2>2, <2>3 DEF Fine, Shape, Turned
  <2>6. Good(c, clangd, X, FALSE) BY <1>5, <2>4, <2>5 DEF Good
  <2>7. QED BY <1>1, <1>2, <2>1, <2>3, <2>6
<1>8. QED BY <1>1, <1>2, <1>6, <1>7

LEMMA SaveKeeps ==
    ASSUME NEW X, Good(buf, clangd, X, strayed), Save
    PROVE  /\ Good(buf', clangd', X, FALSE) /\ ~strayed /\ strayed' = strayed /\ crashed' = crashed
           /\ disk' \in Seq(Char)
           /\ buf'.text = buf.text /\ buf'.done = buf.done /\ buf'.undone = buf.undone
<1>1. Intact /\ disk' = buf.text /\ buf' = [buf EXCEPT !.saved = buf.version]
      /\ UNCHANGED <<clangd, strayed, crashed>>
  BY DEF Save
<1>2. Shape(buf) /\ buf \in Buf /\ Line(buf, X) /\ Within(buf, X) /\ Fine(buf) /\ clangd = buf.text
  BY <1>1, Reached
<1>3. buf.text \in Seq(Char) BY <1>2, BufIs
<1> DEFINE c == [buf EXCEPT !.saved = buf.version]
<1>4. c \in Buf BY <1>2 DEF Buf
<1>5. /\ c.text = buf.text /\ c.done = buf.done /\ c.undone = buf.undone /\ c.cursors = buf.cursors
      /\ c.version = buf.version /\ c.saved = buf.version
  BY <1>2 DEF Buf
<1>6. buf' = c BY <1>1
<1> HIDE DEF c
<1>7. Line(c, X) /\ Within(c, X) BY <1>2, <1>5, SameStacks
<1>8. Fine(c) /\ Shape(c) BY <1>2, <1>4, <1>5 DEF Fine, Shape
<1>9. Good(c, clangd, X, FALSE) BY <1>2, <1>3, <1>5, <1>7, <1>8 DEF Good
<1>10. QED BY <1>1, <1>3, <1>5, <1>6, <1>9 DEF Intact

LEMMA HistoryKeeps ==
    ASSUME NEW X, Good(buf, clangd, X, strayed), Undo \/ Redo
    PROVE  /\ Good(buf', clangd', X, FALSE) /\ ~strayed /\ UNCHANGED <<disk, strayed, crashed>>
           /\ (Undo /\ buf.done # <<>> /\ buf' = Undone(buf))
              \/ (Redo /\ buf.undone # <<>> /\ buf' = Redone(buf))
<1>1. /\ Intact /\ buf.version < MaxVersion /\ clangd' = buf'.text /\ UNCHANGED <<disk, strayed, crashed>>
      /\ (Undo /\ buf.done # <<>> /\ buf' = Undone(buf)) \/ (Redo /\ buf.undone # <<>> /\ buf' = Redone(buf))
  BY DEF Undo, Redo, History
<1>2. /\ buf \in Buf /\ Line(buf, X) /\ Within(buf, X) /\ buf.version \in Nat
      /\ buf.saved \in 0 .. MaxVersion + 2
  BY <1>1, Reached
<1>3. /\ buf' \in Buf /\ buf'.version = buf.version + 1 /\ buf'.saved = buf.saved
      /\ Line(buf', X) /\ Within(buf', X) /\ Fine(buf')
  BY <1>1, <1>2, UndoneIs, RedoneIs
<1>4. buf.version + 1 \in 0 .. MaxVersion + 2 BY <1>1, <1>2, BoundsAreNat
<1>5. buf'.cursors # <<>> BY <1>3 DEF Fine, Inside
<1>6. Shape(buf') BY <1>2, <1>3, <1>4, <1>5 DEF Shape
<1>7. clangd' \in Seq(Char) BY <1>1, <1>3 DEF Fine
<1>8. Good(buf', clangd', X, FALSE) BY <1>1, <1>3, <1>6, <1>7 DEF Good
<1>9. QED BY <1>1, <1>8 DEF Intact

\* An edit whose ranges are apart.
LEMMA ApartKeeps ==
    ASSUME NEW X, Good(buf, clangd, X, strayed), Ready, NEW a, Bounded(a),
           NEW e, Sound(buf.text, e), ~Overlap(e.plans), NEW b, b = After(a, e)
    PROVE  /\ Good(b, b.text, Onward(X, e.plans, b), FALSE) /\ ~strayed
           /\ Applied(buf.text, e.plans).ok /\ Sent(clangd, e.plans) = b.text
<1> DEFINE Y == Onward(X, e.plans, b)
<1>1. Intact BY DEF Ready
<1>2. /\ buf \in Buf /\ Line(buf, X) /\ Within(buf, X) /\ Fine(buf) /\ clangd = buf.text
      /\ buf.version \in Nat /\ buf.saved \in 0 .. MaxVersion + 2
  BY <1>1, Reached
<1>3. {buf.version, buf.version + 1} \subseteq 0 .. MaxVersion + 2 BY <1>2, ReadyIs
<1>4. /\ a \in Buf /\ Line(a, X) /\ Within(a, X) /\ Fine(a) /\ a.text = buf.text
      /\ a.version = buf.version /\ a.saved = buf.saved
  BY <1>2, BoundedIs
<1>5. b = Transacted(a, e.plans, e.sels, e.coalesce) /\ Sound(a.text, e) BY <1>4 DEF After
<1>6. Applied(a.text, e.plans).ok /\ Fine(b) /\ Within(b, Y) /\ Sent(a.text, e.plans) = b.text
  BY <1>4, <1>5, TransactedFine
<1>7. /\ b \in Buf /\ b.cursors # <<>> /\ b.version \in {a.version, a.version + 1} /\ b.saved = a.saved
      /\ Line(b, Y)
  BY <1>4, <1>5, <1>6, TransactedIs
<1>8. Shape(b) BY <1>2, <1>3, <1>4, <1>7 DEF Shape
<1>9. b.text \in Seq(Char) BY <1>7, BufIs
<1>10. Good(b, b.text, Y, FALSE) BY <1>6, <1>7, <1>8, <1>9 DEF Good
<1>11. QED BY <1>1, <1>2, <1>4, <1>6, <1>10 DEF Intact

\* Such an edit of a is made, and the carets are set somewhere.
Lands(X, a, e) ==
    /\ Bounded(a) /\ Sound(buf.text, e) /\ Applied(buf.text, e.plans).ok /\ e.plans # <<>>
    /\ Good(buf', clangd', Onward(X, e.plans, After(a, e)), FALSE) /\ Turned(After(a, e), buf')
    /\ strayed' = FALSE /\ ~strayed /\ UNCHANGED <<disk, crashed>>

LEMMA LandsIs ==
    ASSUME NEW X, Good(buf, clangd, X, strayed), Ready, NEW a, Bounded(a),
           NEW e, Sound(buf.text, e), ~Overlap(e.plans), e.plans # <<>>, NEW b, b = After(a, e),
           Good(buf', b.text, Onward(X, e.plans, b), FALSE), Turned(b, buf'),
           Tells(e), UNCHANGED <<disk, crashed>>
    PROVE  Lands(X, a, e)
<1>1. ~strayed /\ Applied(buf.text, e.plans).ok /\ Sent(clangd, e.plans) = b.text BY ApartKeeps
<1>2. Overlap(e.plans) \in BOOLEAN BY DEF Overlap
<1>3. strayed' = FALSE /\ clangd' = b.text BY <1>1, <1>2 DEF Tells
<1>4. QED BY <1>1, <1>3 DEF Lands

\* One range is replaced.
LEMMA ReplaceApart ==
    ASSUME NEW t \in Seq(Char), NEW e \in 0 .. Len(t), NEW s \in 0 .. e, NEW text \in Seq(Char),
           NEW r, r = Replaces(s, e, text, FALSE)
    PROVE  Sound(t, r) /\ ~Overlap(r.plans) /\ r.plans # <<>>
<1>1. FALSE \in BOOLEAN OBVIOUS
<1>2. Sound(t, r) BY <1>1, ReplacesSound
<1>3. r.plans \in Seq(PlanSet) BY <1>2 DEF Sound
<1>4. ~Overlap(r.plans) /\ Len(r.plans) = 1 BY <1>3, TypingAlone
<1>5. r.plans # <<>> BY DEF Replaces, Edit
<1>6. QED BY <1>2, <1>4, <1>5

\* The match that is selected.
LEMMA NextInside ==
    ASSUME NEW t \in Seq(Char), NEW M, M = Matches(t), M # {}, NEW p \in SUBSET M,
           NEW next, next = IF p = {} THEN Min(M) ELSE Min(p)
    PROVE  Inside(<<[anchor |-> next, head |-> next + 1]>>, Len(t))
<1>1. Len(t) \in Nat BY SeqIs
<1>2. \A x \in M : x \in 0 .. Len(t) - 1 BY DEF Matches
<1>3. M \subseteq Nat /\ p \subseteq Nat BY <1>1, <1>2
<1>4. Min(M) \in M BY <1>3, MinIsLeast
<1>5. p # {} => Min(p) \in p BY <1>3, MinIsLeast
<1>6. next \in M BY <1>4, <1>5
<1>7. next \in 0 .. Len(t) - 1 BY <1>2, <1>6
<1>8. next \in 0 .. Len(t) /\ next + 1 \in 0 .. Len(t) BY <1>1, <1>7
<1>9. QED BY <1>1, <1>8, OneInside

LEMMA FoundIs ==
    ASSUME NEW b, NEW t, NEW X, Good(b, t, X, FALSE), NEW from, NEW c, c = Found(b, from)
    PROVE  Good(c, t, X, FALSE) /\ Turned(b, c)
<1> DEFINE M == Matches(b.text)
           past == {m \in M : m >= from}
           next == IF past = {} THEN Min(M) ELSE Min(past)
           sels == <<[anchor |-> next, head |-> next + 1]>>
<1>1. c = IF M = {} THEN b ELSE [b EXCEPT !.cursors = sels] BY DEF Found
<1>2. b.text \in Seq(Char) BY DEF Good, Fine
<1>3. CASE M = {}
  <2>1. c = b BY <1>1, <1>3
  <2>2. QED BY <2>1 DEF Turned
<1>4. CASE M # {}
  <2>1. past \in SUBSET M OBVIOUS
  <2>2. M = Matches(b.text) /\ next = IF past = {} THEN Min(M) ELSE Min(past) OBVIOUS
  <2>3. c = [b EXCEPT !.cursors = sels] BY <1>1, <1>4
  <2> HIDE DEF M, past, next
  <2>4. Inside(sels, Len(b.text)) BY <1>2, <1>4, <2>1, <2>2, NextInside
  <2> HIDE DEF sels
  <2>5. QED BY <2>3, <2>4, CaretsKeep
<1>5. QED BY <1>3, <1>4

LEMMA StoredMatch ==
    ASSUME Bar, Fine(buf), NEW i \in matches
    PROVE  /\ InText(i) => i \in 0 .. Len(buf.text) /\ i + 1 \in 0 .. Len(buf.text)
           /\ ~InText(i) => rewritten
<1>1. Len(buf.text) \in Nat /\ i \in Nat BY FirstSel DEF Bar
<1>2. ASSUME ~rewritten PROVE InText(i)
  <2>1. i \in Matches(buf.text) BY <1>2 DEF Bar
  <2>2. i \in 0 .. Len(buf.text) - 1 BY <2>1 DEF Matches
  <2>3. QED BY <1>1, <2>2 DEF InText
<1>3. QED BY <1>1, <1>2 DEF InText

LEMMA ReplaceCurrentLands ==
    ASSUME NEW X, Good(buf, clangd, X, strayed), Bar, NEW i \in matches, NEW text \in Seq(Char),
           FindReplaceCurrent(i, text)
    PROVE  Missed \/ \E a, e : Lands(X, a, e)
<1>1. Ready BY DEF FindReplaceCurrent
<1>2. Fine(buf) /\ buf.text \in Seq(Char) BY <1>1, Reached DEF Ready, Fine
<1>3. CASE ~InText(i) BY <1>2, <1>3, StoredMatch DEF FindReplaceCurrent, Missed
<1>4. CASE InText(i)
  <2> DEFINE e == Replaces(i, i + 1, text, FALSE)
             b == After(buf, e)
             c == Found(b, i + Len(text))
  <2>1. buf' = c /\ Tells(e) /\ UNCHANGED <<disk, crashed>> BY <1>4 DEF FindReplaceCurrent, Leaves
  <2>2. i + 1 \in 0 .. Len(buf.text) /\ i \in 0 .. i + 1 BY <1>2, <1>4, StoredMatch
  <2>3. Sound(buf.text, e) /\ ~Overlap(e.plans) /\ e.plans # <<>> BY <1>2, <2>2, ReplaceApart
  <2>4. Bounded(buf) BY DEF Bounded
  <2>5. b = After(buf, e) OBVIOUS
  <2> HIDE DEF e, b
  <2>6. Good(b, b.text, Onward(X, e.plans, b), FALSE) BY <1>1, <2>3, <2>4, <2>5, ApartKeeps
  <2>7. Good(c, b.text, Onward(X, e.plans, b), FALSE) /\ Turned(b, c) BY <2>6, FoundIs
  <2> HIDE DEF c
  <2>8. Good(buf', b.text, Onward(X, e.plans, b), FALSE) /\ Turned(b, buf') BY <2>1, <2>7
  <2>9. Lands(X, buf, e) BY <1>1, <2>1, <2>3, <2>4, <2>5, <2>8, LandsIs
  <2>10. QED BY <2>9
<1>5. QED BY <1>3, <1>4

LEMMA StubLands ==
    ASSUME NEW X, Good(buf, clangd, X, strayed), NEW text \in Seq(Char), NEW n \in 0 .. Len(text),
           AcceptStub(n, text)
    PROVE  \E a, e : Lands(X, a, e)
<1> DEFINE s == StubStart
           h == Sel.head
           e == Replaces(s, h, text, FALSE)
           b == After(buf, e)
           sels == <<At(s + n)>>
           m == Len(b.text)
<1>1. Ready /\ buf' = [b EXCEPT !.cursors = sels] /\ Tells(e) /\ UNCHANGED <<disk, crashed>>
  BY DEF AcceptStub, Leaves
<1>2. Fine(buf) /\ buf.text \in Seq(Char) BY <1>1, Reached DEF Ready, Fine
<1>3. h \in 0 .. Len(buf.text) /\ s \in 0 .. h BY <1>2, StubStartIs
<1>4. Len(buf.text) \in Nat /\ Len(text) \in Nat BY <1>2, SeqIs
<1>5. Bounded(buf) BY DEF Bounded
<1>6. e = Replaces(s, h, text, FALSE) /\ b = After(buf, e) OBVIOUS
<1> HIDE DEF s, h, e, b
<1>7. Sound(buf.text, e) /\ ~Overlap(e.plans) /\ e.plans # <<>> BY <1>2, <1>3, <1>6, ReplaceApart
<1>8. Good(b, b.text, Onward(X, e.plans, b), FALSE) BY <1>1, <1>5, <1>6, <1>7, ApartKeeps
<1>9. Inside(b.cursors, m) /\ m \in Nat BY <1>8, FirstSel DEF Good, Fine
<1>10. s + Len(text) \in 0 .. m
  <2>1. b.cursors = <<At(s + Len(text))>>
    <3>1. e.sels = <<At(s + Len(text))>> /\ e.plans # <<>> BY <1>6, <1>7 DEF Replaces, Edit
    <3>2. OrStart(e.sels) = e.sels BY <3>1 DEF OrStart
    <3>3. b = Transacted(buf, e.plans, e.sels, e.coalesce) BY <1>6 DEF After
    <3>4. b.cursors = OrStart(e.sels) BY <3>1, <3>3 DEF Transacted
    <3>5. QED BY <3>1, <3>2, <3>4
  <2>2. Len(b.cursors) = 1 /\ b.cursors[1] = At(s + Len(text)) BY <2>1
  <2>3. 1 \in 1 .. Len(b.cursors) BY <2>2
  <2>4. b.cursors[1].head \in 0 .. m BY <1>9, <2>3, InsideFields
  <2>5. QED BY <2>2, <2>4 DEF At
<1> HIDE DEF m
<1>11. s + n \in 0 .. m BY <1>3, <1>4, <1>9, <1>10
<1>12. Inside(sels, m)
  <2>1. At(s + n) = [anchor |-> s + n, head |-> s + n] BY DEF At
  <2>2. QED BY <1>9, <1>11, <2>1, OneInside
<1> HIDE DEF sels
<1>13. Good(buf', b.text, Onward(X, e.plans, b), FALSE) /\ Turned(b, buf')
  BY <1>1, <1>8, <1>12, CaretsKeep DEF m
<1>14. Lands(X, buf, e) BY <1>1, <1>5, <1>6, <1>7, <1>13, LandsIs
<1>15. QED BY <1>14

LEMMA RewriteLands ==
    ASSUME NEW X, Good(buf, clangd, X, strayed), NEW n \in 1 .. 2, NEW m \in 1 .. 2, SyncRewrite(n, m)
    PROVE  \E a, e : Lands(X, a, e)
<1> DEFINE sites == Words(buf.text, n)
           e == Everywhere(sites, n, Word(m))
           a == [buf EXCEPT !.boundary = TRUE]
           b == After(a, e)
<1>1. Ready /\ sites # {} /\ buf' = b /\ Tells(e) /\ UNCHANGED <<disk, crashed>> BY DEF SyncRewrite
<1>2. Fine(buf) /\ buf.text \in Seq(Char) BY <1>1, Reached DEF Ready, Fine
<1>3. n \in Nat /\ Word(m) \in Seq(Char) BY WordIs
<1>4. sites \subseteq 0 .. Len(buf.text) - n /\ \A s, q \in sites : s < q => s + n <= q
  BY <1>2, <1>3, WordsAre
<1> HIDE DEF sites
<1>5. Sound(buf.text, e) /\ Placed(e.plans, Len(buf.text)) BY <1>2, <1>3, <1>4, EverywhereSound
<1>6. ~Overlap(e.plans) BY <1>5 DEF Placed
<1>7. Bounded(a) BY DEF Bounded
<1>8. e.plans # <<>>
  <2> DEFINE at == Sorted(sites)
             plans == [k \in DOMAIN at |-> Plan(at[k], at[k] + n, Word(m))]
  <2>1. e.plans = plans BY DEF Everywhere, Batch, Edit
  <2>2. Len(buf.text) \in Nat BY <1>2, SeqIs
  <2>3. sites \in SUBSET (0 .. Len(buf.text))
    <3>1. \A s \in sites : s \in 0 .. Len(buf.text) - n BY <1>4
    <3>2. QED BY <1>3, <2>2, <3>1
  <2>4. Lists(at, sites) BY <2>2, <2>3, SortedLists
  <2> HIDE DEF at
  <2>5. DOMAIN at # {} BY <1>1, <2>4 DEF Lists
  <2>6. DOMAIN plans # {} BY <2>5
  <2>7. QED BY <2>1, <2>6
<1>9. b = After(a, e) OBVIOUS
<1> HIDE DEF e, a, b
<1>10. Good(b, b.text, Onward(X, e.plans, b), FALSE) BY <1>1, <1>5, <1>6, <1>7, <1>9, ApartKeeps
<1>11. Good(buf', b.text, Onward(X, e.plans, b), FALSE) /\ Turned(b, buf') BY <1>1, <1>10 DEF Turned
<1>12. Lands(X, a, e) BY <1>1, <1>5, <1>6, <1>7, <1>8, <1>9, <1>11, LandsIs
<1>13. QED BY <1>12

LEMMA ReplaceAllIs ==
    ASSUME Bar, Fine(buf), NEW text \in Seq(Char), FindReplaceAll(text)
    PROVE  Missed \/ \E b, e : Batched(b, e)
<1>1. Len(buf.text) \in Nat /\ buf.text \in Seq(Char) /\ matches \subseteq Nat BY FirstSel DEF Bar
<1>2. CASE \A m \in matches : InText(m)
  <2>1. \A m \in matches : m \in 0 .. Len(buf.text) - 1
    <3> SUFFICES ASSUME NEW m \in matches PROVE m \in 0 .. Len(buf.text) - 1 OBVIOUS
    <3>1. m \in Nat /\ m < Len(buf.text) BY <1>1, <1>2 DEF InText
    <3>2. QED BY <1>1, <3>1
  <2>2. matches \subseteq 0 .. Len(buf.text) - 1 BY <2>1
  <2>3. Sound(buf.text, Everywhere(matches, 1, text)) BY <1>1, <2>2, SitesSound
  <2>4. QED BY <1>2, <2>3, BufChanges DEF FindReplaceAll
<1>3. CASE ~ \A m \in matches : InText(m)
  <2>1. PICK m \in matches : ~InText(m) BY <1>3
  <2>2. rewritten BY <2>1, StoredMatch
  <2>3. QED BY <1>3, <2>2 DEF FindReplaceAll, Missed
<1>4. QED BY <1>2, <1>3

\* The edits, one by one.
LEMMA EditsAre ==
    ASSUME NEW X, Good(buf, clangd, X, strayed), Bar, Fine(buf), Edits
    PROVE  \/ \E b, e : Batched(b, e)
           \/ \E ch \in Char : Closes(ch)
           \/ \E a, e : Lands(X, a, e)
           \/ Missed
<1>1. Typed \subseteq Char /\ Pasted \subseteq Seq(Char) BY TextsAreTexts
<1>2. ASSUME NEW ch \in Typed, Types(ch) \/ \E n \in 1 .. 2 : Composes(n, ch)
      PROVE  (\E b, e : Batched(b, e)) \/ (\E c \in Char : Closes(c))
  <2>1. ch \in Char BY <1>1
  <2>2. QED BY <1>2, <2>1, TypesSound, ComposesSound
<1>3. ASSUME Backspace \/ DeleteKey \/ DeleteWord \/ Cut \/ DeleteLine \/ Enter \/ TabKey \/ ShiftTab
      PROVE  \E b, e : Batched(b, e)
  BY <1>3, DeletionsSound, DeleteLineSound, EnterSound, TabSound
<1>4. ASSUME NEW text \in Pasted,
             Paste(text) \/ \E s, e \in Offsets(buf.text) : AcceptCompletion(s, e, text)
      PROVE  \E b, e : Batched(b, e)
  <2>1. text \in Seq(Char) BY <1>1
  <2>2. QED BY <1>4, <2>1, PasteSound, CompletionSound
<1>5. ASSUME NEW text \in Pasted, NEW n \in 0 .. Len(text), AcceptStub(n, text)
      PROVE  \E a, e : Lands(X, a, e)
  <2>1. text \in Seq(Char) BY <1>1
  <2>2. QED BY <1>5, <2>1, StubLands
<1>6. ASSUME NEW text \in Pasted, FindReplaceAll(text) PROVE Missed \/ \E b, e : Batched(b, e)
  <2>1. text \in Seq(Char) BY <1>1
  <2>2. QED BY <1>6, <2>1, ReplaceAllIs
<1>7. ASSUME NEW i \in matches, NEW text \in Pasted \cup {<<>>}, FindReplaceCurrent(i, text)
      PROVE  Missed \/ \E a, e : Lands(X, a, e)
  <2>1. text \in Seq(Char)
    <3>1. CASE text \in Pasted BY <1>1, <3>1
    <3>2. CASE text = <<>> BY <3>2
    <3>3. QED BY <3>1, <3>2
  <2>2. QED BY <1>7, <2>1, ReplaceCurrentLands
<1>8. ASSUME NEW ch \in Typed, NEW text \in Pasted, SyncApply(ch, text) PROVE \E b, e : Batched(b, e)
  <2>1. text \in Seq(Char) BY <1>1
  <2>2. QED BY <1>8, <2>1, SyncApplySound
<1>9. ASSUME NEW n \in 1 .. 2, NEW m \in 1 .. 2, SyncRewrite(n, m) PROVE \E a, e : Lands(X, a, e)
  BY <1>9, RewriteLands
<1>10. QED BY <1>2, <1>3, <1>4, <1>5, <1>6, <1>7, <1>8, <1>9 DEF Edits

LEMMA EditsReady ==
    ASSUME Edits
    PROVE  Ready
<1>1. ASSUME NEW b, NEW e, Changes(b, e) PROVE Ready BY <1>1 DEF Changes
<1>2. ASSUME NEW ch, Types(ch) PROVE Ready BY <1>2 DEF Types
<1>3. ASSUME NEW n, NEW ch, Composes(n, ch) PROVE Ready BY <1>1, <1>3 DEF Composes
<1>4. CASE Backspace \/ DeleteKey \/ DeleteWord \/ Cut \/ DeleteLine
  BY <1>1, <1>4 DEF Backspace, DeleteKey, DeleteWord, Cut, DeleteLine
<1>5. CASE Enter \/ TabKey \/ ShiftTab BY <1>1, <1>5 DEF Enter, TabKey, ShiftTab
<1>6. ASSUME NEW text, Paste(text) \/ FindReplaceAll(text) PROVE Ready
  BY <1>1, <1>6 DEF Paste, FindReplaceAll
<1>7. ASSUME NEW text, NEW s, NEW e, AcceptCompletion(s, e, text) PROVE Ready BY <1>1, <1>7 DEF AcceptCompletion
<1>8. ASSUME NEW text, NEW n, AcceptStub(n, text) PROVE Ready BY <1>8 DEF AcceptStub
<1>9. ASSUME NEW text, NEW i, FindReplaceCurrent(i, text) PROVE Ready BY <1>9 DEF FindReplaceCurrent
<1>10. ASSUME NEW text, NEW ch, SyncApply(ch, text) PROVE Ready BY <1>1, <1>10 DEF SyncApply
<1>11. ASSUME NEW n, NEW m, SyncRewrite(n, m) PROVE Ready BY <1>11 DEF SyncRewrite
<1>12. QED BY <1>2, <1>3, <1>4, <1>5, <1>6, <1>7, <1>8, <1>9, <1>10, <1>11 DEF Edits

\* A match is selected.
LEMMA FindsKeep ==
    ASSUME NEW X, Good(buf, clangd, X, strayed), Bar, Finds
    PROVE  \/ Missed /\ Ready
           \/ /\ Good(buf', clangd', X, FALSE) /\ Turned(buf, buf')
              /\ strayed' = strayed /\ ~strayed /\ UNCHANGED <<disk, crashed, clangd>>
<1>1. Ready BY DEF Finds, FindOpens, FindNext
<1>2. Fine(buf) /\ ~strayed /\ Good(buf, clangd, X, FALSE)
  <2>1. Intact /\ ~strayed BY <1>1 DEF Ready, Intact
  <2>2. Fine(buf) /\ clangd = buf.text /\ Within(buf, X) BY <2>1, Reached
  <2>3. QED BY <2>1, <2>2 DEF Good
<1>3. CASE FindOpens
  <2>1. buf' = Found(buf, Sel.head) /\ UNCHANGED <<disk, clangd, strayed, crashed>> BY <1>3 DEF FindOpens
  <2> DEFINE c == Found(buf, Sel.head)
  <2>2. Good(c, clangd, X, FALSE) /\ Turned(buf, c) BY <1>2, FoundIs
  <2> HIDE DEF c
  <2>3. buf' = c BY <2>1 DEF c
  <2>4. QED BY <1>2, <2>1, <2>2, <2>3
<1>4. ASSUME NEW i \in matches, FindNext(i), ~InText(i) PROVE Missed
  BY <1>2, <1>4, StoredMatch DEF FindNext, Missed
<1>5. ASSUME NEW i \in matches, FindNext(i), InText(i)
      PROVE  /\ Good(buf', clangd', X, FALSE) /\ Turned(buf, buf')
             /\ strayed' = strayed /\ ~strayed /\ UNCHANGED <<disk, crashed, clangd>>
  <2> DEFINE sels == <<[anchor |-> i, head |-> i + 1]>>
  <2>1. buf' = [buf EXCEPT !.cursors = sels] /\ UNCHANGED <<disk, clangd, strayed, crashed>>
    BY <1>5 DEF FindNext
  <2>2. i \in 0 .. Len(buf.text) /\ i + 1 \in 0 .. Len(buf.text) BY <1>2, <1>5, StoredMatch
  <2>3. Len(buf.text) \in Nat BY <1>2, FirstSel
  <2>4. Inside(sels, Len(buf.text)) BY <2>2, <2>3, OneInside
  <2> HIDE DEF sels
  <2>5. Good(buf', clangd, X, FALSE) /\ Turned(buf, buf') BY <1>2, <2>1, <2>4, CaretsKeep
  <2>6. QED BY <1>2, <2>1, <2>5
<1>6. QED BY <1>1, <1>3, <1>4, <1>5 DEF Finds

-----------------------------------------------------------------------------
(* What the find bar holds.                                                *)

\* Found anew, or out of date, or of a text that stays.
Looks == Scans \/ (rewritten' = TRUE /\ matches' = matches)
Rests == UNCHANGED <<matches, rewritten>>

LEMMA ChangesLooks ==
    ASSUME NEW b, NEW e, Changes(b, e)
    PROVE  Looks \/ (Rests /\ buf' = buf)
BY DEF Changes, Leaves, Panics, Looks, Rests

LEMMA EditsLook ==
    ASSUME Edits
    PROVE  Looks \/ (Rests /\ buf' = buf)
<1> DEFINE Q == Looks \/ (Rests /\ buf' = buf)
<1> SUFFICES Q OBVIOUS
<1>1. ASSUME NEW b, NEW e, Changes(b, e) PROVE Q BY <1>1, ChangesLooks
<1>2. ASSUME NEW ch, Types(ch) PROVE Q
  <2>1. Scans \/ \E e : Changes(buf, e) BY <1>2 DEF Types
  <2>2. QED BY <1>1, <2>1 DEF Looks
<1>3. ASSUME NEW n, NEW ch, Composes(n, ch) PROVE Q BY <1>1, <1>3 DEF Composes
<1>4. CASE Backspace \/ DeleteKey \/ DeleteWord \/ Cut \/ DeleteLine
  BY <1>1, <1>4 DEF Backspace, DeleteKey, DeleteWord, Cut, DeleteLine
<1>5. CASE Enter \/ TabKey \/ ShiftTab BY <1>1, <1>5 DEF Enter, TabKey, ShiftTab
<1>6. ASSUME NEW text, Paste(text) PROVE Q BY <1>1, <1>6 DEF Paste
<1>7. ASSUME Misses PROVE Q BY <1>7 DEF Misses, Panics, Rests
<1>8. ASSUME NEW c, NEW e, Leaves(c, e) PROVE Q BY <1>8 DEF Leaves, Looks
<1> HIDE DEF Q
<1>9. ASSUME NEW text, FindReplaceAll(text) PROVE Q BY <1>1, <1>7, <1>9 DEF FindReplaceAll
<1>10. ASSUME NEW text, NEW s, NEW e, AcceptCompletion(s, e, text) PROVE Q BY <1>1, <1>10 DEF AcceptCompletion
<1>11. ASSUME NEW text, NEW n, AcceptStub(n, text) PROVE Q BY <1>8, <1>11 DEF AcceptStub
<1>12. ASSUME NEW text, NEW i, FindReplaceCurrent(i, text) PROVE Q BY <1>7, <1>8, <1>12 DEF FindReplaceCurrent
<1>13. ASSUME NEW text, NEW ch, SyncApply(ch, text) PROVE Q BY <1>1, <1>13 DEF SyncApply
<1>14. ASSUME NEW n, NEW m, SyncRewrite(n, m) PROVE Q BY <1>14 DEF SyncRewrite, Looks, Q
<1>15. QED BY <1>2, <1>3, <1>4, <1>5, <1>6, <1>9, <1>10, <1>11, <1>12, <1>13, <1>14 DEF Edits

\* What the bar holds is of the text, or a suggestion rewrote it.
LEMMA BarStep ==
    ASSUME Bar, NEW X, Good(buf, clangd, X, strayed), [Next]_vars
    PROVE  Bar'
<1>1. ASSUME Looks PROVE Bar'
  <2>1. CASE Scans
    <3>1. Matches(buf'.text) \subseteq Nat BY DEF Matches
    <3>2. QED BY <2>1, <3>1 DEF Scans, Bar, Matches
  <2>2. CASE rewritten' = TRUE /\ matches' = matches BY <2>2 DEF Bar
  <2>3. QED BY <1>1, <2>1, <2>2 DEF Looks
<1>2. ASSUME Rests, buf'.text = buf.text PROVE Bar' BY <1>2 DEF Rests, Bar, Matches
<1>3. CASE Edits BY <1>1, <1>2, <1>3, EditsLook
<1>4. CASE Undo \/ Redo BY <1>1, <1>4 DEF Undo, Redo, History, Looks
<1>5. CASE Save
  <2>1. Rests BY <1>5 DEF Save, Rests
  <2>2. QED BY <1>2, <1>5, <2>1, SaveKeeps
<1>6. CASE Carets \/ TimePasses
  <2>1. Rests BY <1>6 DEF Carets, Selects, ArrowKeys, TimePasses, OnlyTheBuffer, Rests
  <2>2. buf'.text = buf.text BY <1>6, MovesKeep DEF Turned
  <2>3. QED BY <1>2, <2>1, <2>2
<1>7. CASE Finds
  <2>1. CASE FindOpens BY <1>1, <2>1 DEF FindOpens, Looks
  <2>2. CASE ~FindOpens
    <3>1. Rests BY <1>7, <2>2 DEF Finds, FindNext, Misses, Panics, Rests
    <3>2. buf'.text = buf.text BY <1>7, FindsKeep DEF Missed, Misses, Panics, Turned
    <3>3. QED BY <1>2, <3>1, <3>2
  <2>3. QED BY <2>1, <2>2
<1>8. CASE UNCHANGED vars BY <1>2, <1>8 DEF vars, Rests
<1>9. QED BY <1>3, <1>4, <1>5, <1>6, <1>7, <1>8 DEF Next

-----------------------------------------------------------------------------
LEMMA EmptyStacks ==
    ASSUME NEW b, b.done = <<>>, b.undone = <<>>, b.text \in Seq(Char)
    PROVE  /\ Len(b.done) = 0 /\ Total(b) = 0
           /\ Line(b, [k \in 0 .. 0 |-> b.text]) /\ Within(b, [k \in 0 .. 0 |-> b.text])
<1> DEFINE X == [k \in 0 .. 0 |-> b.text]
<1>1. Len(b.done) = 0 /\ Len(b.undone) = 0 OBVIOUS
<1>2. Total(b) = 0 BY <1>1 DEF Total
<1>3. 1 .. 0 = {} OBVIOUS
<1>4. X \in [0 .. 0 -> Seq(Char)] /\ X[0] = b.text OBVIOUS
<1> HIDE DEF X
<1>5. Line(b, X) BY <1>1, <1>2, <1>3, <1>4 DEF Line
<1>6. Within(b, X) BY <1>2, <1>3 DEF Within
<1>7. QED BY <1>1, <1>2, <1>5, <1>6 DEF X

LEMMA NewBufferIs ==
    ASSUME NEW text \in Seq(Char), NEW b, b = NewBuffer(text)
    PROVE  /\ b.text = text /\ b.done = <<>> /\ b.undone = <<>>
           /\ Good(b, text, [k \in 0 .. 0 |-> text], FALSE)
<1>1. At(0) = [anchor |-> 0, head |-> 0] BY DEF At
<1>2. Len(text) \in Nat BY SeqIs
<1> DEFINE sels == <<At(0)>>
<1>3. Inside(sels, Len(text))
  <2>1. 0 \in 0 .. Len(text) BY <1>2
  <2>2. QED BY <1>1, <1>2, <2>1, OneInside
<1>4. sels \in Seq(Selection) /\ sels # <<>> BY <1>3 DEF Inside
<1> DEFINE none == <<>>
<1>5. none \in Seq(Group) /\ none \in Seq(Nat) /\ 0 \in Nat OBVIOUS
<1>6. b = [text |-> text, cursors |-> sels, version |-> 0, saved |-> 0, done |-> none, undone |-> none,
           boundary |-> FALSE, recent |-> FALSE, kind |-> "none", carets |-> none]
  BY DEF NewBuffer
<1> HIDE DEF sels, none
<1>7. b \in Buf BY <1>4, <1>5, <1>6 DEF Buf
<1>8. /\ b.text = text /\ b.cursors = sels /\ b.version = 0 /\ b.saved = 0 /\ b.done = none /\ b.undone = none
  BY <1>6
<1>9. b.done = <<>> /\ b.undone = <<>> BY <1>8 DEF none
<1>10. Line(b, [k \in 0 .. 0 |-> b.text]) /\ Within(b, [k \in 0 .. 0 |-> b.text]) BY <1>8, <1>9, EmptyStacks
<1>11. Fine(b) BY <1>3, <1>8 DEF Fine
<1>12. 0 \in 0 .. MaxVersion + 2 BY BoundsAreNat
<1>13. Shape(b) BY <1>4, <1>7, <1>8, <1>12 DEF Shape
<1>14. QED BY <1>8, <1>9, <1>10, <1>11, <1>13 DEF Good

LEMMA InvInit == Init => Inv
<1> SUFFICES ASSUME Init PROVE Inv OBVIOUS
<1>1. PICK text \in Texts : buf = NewBuffer(text) /\ disk = text /\ clangd = text BY DEF Init
<1>2. text \in Seq(Char) BY TextsAreTexts
<1>3. Good(buf, text, [k \in 0 .. 0 |-> text], FALSE) BY <1>1, <1>2, NewBufferIs
<1>4. strayed = FALSE /\ crashed = FALSE /\ rewritten = FALSE /\ matches = Matches(buf.text) BY DEF Init
<1>5. Bar
  <2>1. Matches(buf.text) \subseteq Nat BY DEF Matches
  <2>2. QED BY <1>4, <2>1 DEF Bar
<1>6. QED BY <1>1, <1>2, <1>3, <1>4, <1>5 DEF Inv

LEMMA InvStep == Inv /\ [Next]_vars => Inv'
<1> SUFFICES ASSUME Inv, [Next]_vars PROVE Inv' OBVIOUS
<1>1. /\ disk \in Seq(Char) /\ strayed \in BOOLEAN /\ crashed \in BOOLEAN /\ Bar
      /\ (crashed => rewritten \/ strayed)
  BY DEF Inv
<1>2. PICK X : Good(buf, clangd, X, strayed) BY DEF Inv
<1>0. Bar' BY <1>1, <1>2, BarStep
<1>9. ASSUME Missed PROVE Inv'
  <2>1. /\ crashed' = TRUE /\ rewritten' /\ strayed' = strayed
        /\ UNCHANGED <<buf, disk, clangd, matches, rewritten>>
    BY <1>9 DEF Missed, Misses, Panics
  <2>2. Good(buf', clangd', X, strayed') BY <1>2, <2>1
  <2>3. QED BY <1>0, <1>1, <2>1, <2>2 DEF Inv
<1>3. CASE Edits
  <2>1. Ready BY <1>3, EditsReady
  <2>2. Fine(buf) BY <1>2, <2>1, Reached DEF Ready
  <2>3. ASSUME NEW b, NEW e, Batched(b, e) PROVE Inv'
    <3>1. CASE /\ buf' = After(b, e) /\ Good(buf', clangd', Onward(X, e.plans, buf'), strayed')
               /\ crashed' = crashed
      <4>1. ~crashed BY <2>1 DEF Ready, Intact
      <4>2. PICK Z : Good(buf', clangd', Z, strayed') BY <3>1
      <4>3. disk' = disk /\ strayed' \in BOOLEAN BY <1>2, <2>3, BatchedKeeps
      <4>4. QED BY <1>0, <1>1, <3>1, <4>1, <4>2, <4>3 DEF Inv
    <3>2. CASE buf' = buf /\ clangd' = clangd /\ Good(buf, clangd, X, strayed') /\ crashed' = TRUE /\ strayed'
      <4>1. Good(buf', clangd', X, strayed') BY <3>2
      <4>2. disk' = disk /\ strayed' \in BOOLEAN BY <1>2, <2>3, BatchedKeeps
      <4>3. QED BY <1>0, <1>1, <3>2, <4>1, <4>2 DEF Inv
    <3>3. QED BY <1>2, <2>3, <3>1, <3>2, BatchedKeeps
  <2>4. ASSUME NEW ch \in Char, Closes(ch) PROVE Inv'
    <3> DEFINE b == After(buf, Typing(ch))
    <3>1. b = After(buf, Typing(ch)) OBVIOUS
    <3> HIDE DEF b
    <3>2. /\ disk' = disk /\ strayed' = strayed /\ crashed' = crashed
          /\ Good(buf', clangd', AlignedLine(b, Onward(X, Typing(ch).plans, b)), FALSE)
      BY <1>2, <2>4, <3>1, ClosesKeeps
    <3>3. ~strayed BY <2>1 DEF Ready, Intact
    <3>4. PICK Z : Good(buf', clangd', Z, FALSE) BY <3>2
    <3>5. Good(buf', clangd', Z, strayed') BY <1>1, <3>2, <3>3, <3>4
    <3>6. ~crashed BY <2>1 DEF Ready, Intact
    <3>7. QED BY <1>0, <1>1, <3>2, <3>5, <3>6 DEF Inv
  <2>5. ASSUME NEW a, NEW e, Lands(X, a, e) PROVE Inv'
    <3>1. PICK Z : Good(buf', clangd', Z, FALSE) BY <2>5 DEF Lands
    <3>2. strayed' = FALSE /\ UNCHANGED <<disk, crashed>> BY <2>5 DEF Lands
    <3>3. ~crashed BY <2>1 DEF Ready, Intact
    <3>4. Good(buf', clangd', Z, strayed') BY <3>1, <3>2
    <3>5. QED BY <1>0, <1>1, <3>2, <3>3, <3>4 DEF Inv
  <2>6. QED BY <1>1, <1>2, <1>3, <1>9, <2>2, <2>3, <2>4, <2>5, EditsAre
<1>4. CASE Undo \/ Redo
  <2>1. Good(buf', clangd', X, FALSE) /\ ~strayed /\ UNCHANGED <<disk, strayed, crashed>>
    BY <1>2, <1>4, HistoryKeeps
  <2>2. Good(buf', clangd', X, strayed') BY <1>1, <2>1
  <2>3. ~crashed BY <1>4 DEF Undo, Redo, Intact
  <2>4. QED BY <1>0, <1>1, <2>1, <2>2, <2>3 DEF Inv
<1>5. CASE Save
  <2>1. Good(buf', clangd', X, FALSE) /\ ~strayed /\ strayed' = strayed /\ crashed' = crashed /\ disk' \in Seq(Char)
    BY <1>2, <1>5, SaveKeeps
  <2>2. Good(buf', clangd', X, strayed') BY <1>1, <2>1
  <2>3. ~crashed BY <1>5 DEF Save, Intact
  <2>4. QED BY <1>0, <1>1, <2>1, <2>2, <2>3 DEF Inv
<1>6. ASSUME Ready, Good(buf', clangd', X, FALSE), strayed' = strayed, ~strayed, UNCHANGED <<disk, crashed>>
      PROVE  Inv'
  <2>1. Good(buf', clangd', X, strayed') BY <1>1, <1>6
  <2>2. ~crashed BY <1>6 DEF Ready, Intact
  <2>3. QED BY <1>0, <1>1, <1>6, <2>1, <2>2 DEF Inv
<1>7. CASE Carets \/ TimePasses
  <2>1. Ready BY <1>7 DEF Carets, Selects, ArrowKeys, TimePasses
  <2>2. QED BY <1>2, <1>6, <1>7, <2>1, MovesKeep
<1>8. CASE Finds
  <2>1. Ready BY <1>8 DEF Finds, FindOpens, FindNext
  <2>2. QED BY <1>1, <1>2, <1>6, <1>8, <1>9, <2>1, FindsKeep
<1>10. CASE UNCHANGED vars
  <2>1. Good(buf', clangd', X, strayed') BY <1>2, <1>10 DEF vars
  <2>2. QED BY <1>0, <1>1, <1>10, <2>1 DEF vars, Inv
<1>11. QED BY <1>3, <1>4, <1>5, <1>7, <1>8, <1>10 DEF Next

LEMMA InvIsStaysInside == Inv => StaysInside
<1> SUFFICES ASSUME Inv PROVE StaysInside OBVIOUS
<1>1. /\ disk \in Seq(Char) /\ strayed \in BOOLEAN /\ crashed \in BOOLEAN
      /\ (crashed => rewritten \/ strayed)
      /\ matches \in SUBSET Nat /\ rewritten \in BOOLEAN /\ (rewritten \/ matches = Matches(buf.text))
  BY DEF Inv, Bar
<1>2. PICK X : Good(buf, clangd, X, strayed) BY DEF Inv
<1>3. Shape(buf) /\ clangd \in Seq(Char) BY <1>2 DEF Good
<1>4. TypeOK
  <2>1. buf \in Buf /\ buf.version \in 0 .. MaxVersion + 2 /\ buf.saved \in 0 .. MaxVersion + 2
    BY <1>3 DEF Shape
  <2>2. buf \in [text : Seq(Char), cursors : Seq(Selection), version : 0 .. MaxVersion + 2,
                 saved : 0 .. MaxVersion + 2, done : Seq(Group), undone : Seq(Group),
                 boundary : BOOLEAN, recent : BOOLEAN,
                 kind : {"none", "insert", "delete", "other"}, carets : Seq(Nat)]
    BY <2>1 DEF Buf
  <2>3. buf.cursors # <<>> BY <1>3 DEF Shape
  <2>4. QED BY <1>1, <1>3, <2>2, <2>3 DEF TypeOK
<1>5. ASSUME ~strayed, NEW i \in DOMAIN buf.cursors
      PROVE  {buf.cursors[i].anchor, buf.cursors[i].head} \subseteq Offsets(buf.text)
  <2>1. Fine(buf) BY <1>2, <1>5 DEF Good
  <2>2. Len(buf.text) \in Nat BY <2>1, FirstSel
  <2>3. buf.cursors[i].anchor \in 0 .. Len(buf.text) /\ buf.cursors[i].head \in 0 .. Len(buf.text)
    BY <1>5, <2>1, <2>2, InsideFields DEF Fine
  <2>4. QED BY <2>3 DEF Offsets
<1>6. QED BY <1>1, <1>4, <1>5 DEF StaysInside

LEMMA InvIsFollows == Inv => ClangdFollowsText
BY DEF Inv, Good, ClangdFollowsText

\* The buffer keeps its shape; every caret that a key, a batch, an undo or a redo leaves
\* is in the text, unless the ranges of a batch overlapped (transact, map_offset, undo,
\* redo); the find bar holds the matches of the text, unless a suggestion rewrote the
\* file after they were found (find_resync, sync_rewrite_file); and no key edits or
\* selects outside the text, where the rope panics, but after one of the two.
THEOREM CaretsStayInside == Spec => []StaysInside
<1>1. QED BY InvInit, InvStep, InvIsStaysInside, PTL DEF Spec

\* The changes of every record, sent in the order of the record, lead clangd to the text
\* of the buffer, and undo and redo send the whole text (with_edit, after_edit,
\* editor_history).
THEOREM ClangdHasTheText == Spec => []ClangdFollowsText
<1>1. QED BY InvInit, InvStep, InvIsFollows, PTL DEF Spec

-----------------------------------------------------------------------------
(* The stacks as a line of documents.                                      *)

Document == [text : Seq(Char), sels : Seq(Selection)]
Step == [from : Document, to : Document]

StepAt(b, X, k) == [from |-> [text |-> X[k - 1], sels |-> Grp(b, k).before],
                    to |-> [text |-> X[k], sels |-> Grp(b, k).after]]
Path(b, X) == [k \in 1 .. Total(b) |-> StepAt(b, X, k)]

LEMMA GroupsAre ==
    ASSUME NEW b \in Buf
    PROVE  /\ Len(Groups(b)) = Total(b) /\ DOMAIN Groups(b) = 1 .. Total(b)
           /\ \A k \in 1 .. Total(b) : Groups(b)[k] = Grp(b, k)
<1> DEFINE d == b.done
           u == b.undone
           r == Reverse(u)
           n == Len(d)
           m == Len(u)
<1>1. d \in Seq(Group) /\ u \in Seq(Group) /\ n \in Nat /\ m \in Nat BY BufIs, SeqIs
<1>2. Total(b) = n + m BY DEF Total
<1>3. r = [i \in 1 .. m |-> u[(m - i) + 1]] BY DEF Reverse
<1>4. \A i \in 1 .. m : (m - i) + 1 \in 1 .. m BY <1>1
<1>5. \A i \in 1 .. m : u[(m - i) + 1] \in Group BY <1>1, <1>4, SeqIs
<1>6. r \in [1 .. m -> Group] /\ \A i \in 1 .. m : r[i] = u[(m - i) + 1] BY <1>3, <1>5
<1> HIDE DEF r, m
<1>7. r \in Seq(Group) /\ Len(r) = m BY <1>1, <1>6, FunctionIsSeq
<1>8. Groups(b) = d \o r BY DEF Groups, r
<1> HIDE DEF d, u
<1>9. /\ d \o r \in Seq(Group) /\ Len(d \o r) = n + m
      /\ \A k \in 1 .. n + m : (d \o r)[k] = IF k <= n THEN d[k] ELSE r[k - n]
  BY <1>1, <1>7, ConcatProperties
<1>10. DOMAIN (d \o r) = 1 .. n + m BY <1>9, SeqIs
<1>11. ASSUME NEW k \in 1 .. n + m PROVE Groups(b)[k] = Grp(b, k)
  <2>1. Grp(b, k) = IF k <= n THEN d[k] ELSE u[n + m + 1 - k] BY <1>2 DEF Grp, n, d, u
  <2> HIDE DEF n
  <2>2. CASE k <= n BY <1>8, <1>9, <2>1, <2>2
  <2>3. CASE ~(k <= n)
    <3>1. k - n \in 1 .. m /\ (m - (k - n)) + 1 = n + m + 1 - k BY <1>1, <2>3
    <3>2. r[k - n] = u[(m - (k - n)) + 1] BY <1>6, <3>1
    <3>3. QED BY <1>8, <1>9, <2>1, <2>3, <3>1, <3>2
  <2>4. QED BY <2>2, <2>3
<1>12. QED BY <1>2, <1>8, <1>9, <1>10, <1>11

LEMMA TextAfterIs ==
    ASSUME NEW b \in Buf, NEW X, Line(b, X)
    PROVE  \A k \in 0 .. Total(b) : TextAfter(b)[k] = X[k]
<1> DEFINE groups == Groups(b)
           here == Len(b.done)
           n == Len(groups)
           undo(t, k) == Reverted(t, groups[k].ops)
           redo(t, k) == Repeated(t, groups[k].ops)
           IsBack(f) == f = [k \in 0 .. here |-> IF k = here THEN b.text ELSE undo(f[k + 1], k + 1)]
           IsForth(f) == f = [k \in here .. Len(groups) |-> IF k = here THEN b.text ELSE redo(f[k - 1], k)]
           back == CHOOSE f : IsBack(f)
           forth == CHOOSE f : IsForth(f)
<1>1. TextAfter(b) = [k \in 0 .. n |-> IF k <= here THEN back[k] ELSE forth[k]] BY DEF TextAfter
<1>2. n = Total(b) /\ \A k \in 1 .. n : groups[k] = Grp(b, k) BY GroupsAre
<1>3. n \in Nat /\ here \in Nat /\ here <= n BY <1>2, StackIs
<1>4. X[here] = b.text /\ \A k \in 1 .. n : Makes(X[k - 1], groups[k].ops, X[k]) BY <1>2 DEF Line
<1>5. \A k \in 1 .. n : undo(X[k], k) = X[k - 1] /\ redo(X[k - 1], k) = X[k]
  BY <1>4, MakesReverted, MakesRepeated
<1> HIDE DEF groups, here, n, undo, redo
<1>6. ASSUME NEW k \in 0 .. here PROVE back[k] = X[k]
  <2> DEFINE g == [i \in 0 .. here |-> X[i]]
  <2>1. IsBack(g)
    <3>1. ASSUME NEW i \in 0 .. here PROVE g[i] = IF i = here THEN b.text ELSE undo(g[i + 1], i + 1)
      <4>1. CASE i = here BY <1>4, <4>1
      <4>2. CASE i # here
        <5>1. i + 1 \in 1 .. n /\ i + 1 \in 0 .. here /\ (i + 1) - 1 = i BY <1>3, <4>2
        <5>2. undo(X[i + 1], i + 1) = X[i] BY <1>5, <5>1
        <5>3. g[i] = X[i] /\ g[i + 1] = X[i + 1] BY <5>1
        <5>4. QED BY <4>2, <5>2, <5>3
      <4>3. QED BY <4>1, <4>2
    <3>2. QED BY <3>1
  <2>2. IsBack(back) BY <2>1
  <2> HIDE DEF back
  <2>3. \A i \in 0 .. here : back[i] = IF i = here THEN b.text ELSE undo(back[i + 1], i + 1) BY <2>2
  <2> DEFINE S == {i \in 0 .. here : back[i] = X[i]}
  <2>4. here \in S BY <1>3, <1>4, <2>3
  <2>5. ASSUME NEW i \in 1 .. here, i \in S PROVE i - 1 \in S
    <3>1. i - 1 \in 0 .. here /\ i - 1 # here /\ (i - 1) + 1 = i /\ i \in 1 .. n BY <1>3
    <3>2. back[i - 1] = undo(back[i], i) BY <2>3, <3>1
    <3>3. undo(X[i], i) = X[i - 1] BY <1>5, <3>1
    <3>4. QED BY <2>5, <3>1, <3>2, <3>3
  <2>6. 0 .. here \subseteq S
    <3> HIDE DEF S
    <3>1. QED BY <1>3, <2>4, <2>5, InductionDown
  <2>7. QED BY <2>6
<1>7. ASSUME NEW k \in here .. n PROVE forth[k] = X[k]
  <2> DEFINE g == [i \in here .. n |-> X[i]]
  <2>1. IsForth(g)
    <3>1. ASSUME NEW i \in here .. n PROVE g[i] = IF i = here THEN b.text ELSE redo(g[i - 1], i)
      <4>1. CASE i = here BY <1>4, <4>1
      <4>2. CASE i # here
        <5>1. i \in 1 .. n /\ i - 1 \in here .. n BY <1>3, <4>2
        <5>2. redo(X[i - 1], i) = X[i] BY <1>5, <5>1
        <5>3. g[i] = X[i] /\ g[i - 1] = X[i - 1] BY <5>1
        <5>4. QED BY <4>2, <5>2, <5>3
      <4>3. QED BY <4>1, <4>2
    <3>2. QED BY <3>1 DEF n
  <2>2. IsForth(forth) BY <2>1
  <2> HIDE DEF forth
  <2>3. \A i \in here .. n : forth[i] = IF i = here THEN b.text ELSE redo(forth[i - 1], i) BY <2>2 DEF n
  <2> DEFINE m == n - here
             S == {i \in 0 .. m : forth[here + i] = X[here + i]}
  <2>4. m \in Nat BY <1>3
  <2>5. 0 \in S
    <3>1. here \in here .. n /\ here + 0 = here BY <1>3
    <3>2. forth[here] = X[here] BY <1>4, <2>3, <3>1
    <3>3. QED BY <2>4, <3>1, <3>2
  <2>6. ASSUME NEW i \in 0 .. m - 1, i \in S PROVE i + 1 \in S
    <3> DEFINE j == here + (i + 1)
    <3>1. j \in here .. n /\ j # here /\ j - 1 = here + i /\ j \in 1 .. n /\ i + 1 \in 0 .. m BY <1>3, <2>4
    <3> HIDE DEF j
    <3>2. forth[j] = redo(forth[here + i], j) BY <2>3, <3>1
    <3>3. redo(X[here + i], j) = X[j] BY <1>5, <3>1
    <3>4. forth[j] = X[j] BY <2>6, <3>2, <3>3
    <3>5. QED BY <3>1, <3>4 DEF j
  <2>7. 0 .. m \subseteq S
    <3> HIDE DEF S, m
    <3>1. QED BY <2>4, <2>5, <2>6, InductionTo
  <2>8. k - here \in 0 .. m /\ here + (k - here) = k BY <1>3
  <2>9. QED BY <2>7, <2>8
<1> HIDE DEF back, forth
<1>8. ASSUME NEW k \in 0 .. n PROVE TextAfter(b)[k] = X[k]
  <2>1. TextAfter(b)[k] = IF k <= here THEN back[k] ELSE forth[k] BY <1>1
  <2>2. CASE k <= here
    <3>1. k \in 0 .. here BY <1>3, <2>2
    <3>2. QED BY <1>6, <2>1, <2>2, <3>1
  <2>3. CASE ~(k <= here)
    <3>1. k \in here .. n BY <1>3, <2>3
    <3>2. QED BY <1>7, <2>1, <2>3, <3>1
  <2>4. QED BY <2>2, <2>3
<1>9. QED BY <1>2, <1>8

LEMMA PathIs ==
    ASSUME NEW b \in Buf, NEW X, Line(b, X)
    PROVE  StepsOf(b) = Path(b, X)
<1>1. Total(b) \in Nat BY StackIs
<1>2. DOMAIN Groups(b) = 1 .. Total(b) /\ \A k \in 1 .. Total(b) : Groups(b)[k] = Grp(b, k) BY GroupsAre
<1>3. \A k \in 0 .. Total(b) : TextAfter(b)[k] = X[k] BY TextAfterIs
<1> DEFINE at(k) == [from |-> [text |-> TextAfter(b)[k - 1], sels |-> Groups(b)[k].before],
                     to |-> [text |-> TextAfter(b)[k], sels |-> Groups(b)[k].after]]
<1>4. StepsOf(b) = [k \in DOMAIN Groups(b) |-> at(k)] BY DEF StepsOf
<1>5. ASSUME NEW k \in 1 .. Total(b) PROVE at(k) = StepAt(b, X, k)
  <2>1. k - 1 \in 0 .. Total(b) /\ k \in 0 .. Total(b) BY <1>1
  <2>2. TextAfter(b)[k - 1] = X[k - 1] /\ TextAfter(b)[k] = X[k] /\ Groups(b)[k] = Grp(b, k) BY <1>2, <1>3, <2>1
  <2>3. QED BY <2>2 DEF StepAt
<1> HIDE DEF at
<1>6. QED BY <1>2, <1>4, <1>5 DEF Path

LEMMA PathFields ==
    ASSUME NEW b \in Buf, NEW X, Line(b, X)
    PROVE  /\ Path(b, X) \in Seq(Step) /\ Len(Path(b, X)) = Total(b)
           /\ \A k \in 1 .. Total(b) : Path(b, X)[k] = StepAt(b, X, k)
<1>1. Total(b) \in Nat /\ \A k \in 1 .. Total(b) : Grp(b, k) \in Group BY StackIs
<1>2. X \in [0 .. Total(b) -> Seq(Char)] BY DEF Line
<1>3. ASSUME NEW k \in 1 .. Total(b) PROVE StepAt(b, X, k) \in Step
  <2>1. k - 1 \in 0 .. Total(b) /\ k \in 0 .. Total(b) BY <1>1
  <2>2. X[k - 1] \in Seq(Char) /\ X[k] \in Seq(Char) BY <1>2, <2>1
  <2>3. Grp(b, k).before \in Seq(Selection) /\ Grp(b, k).after \in Seq(Selection) BY <1>1, GroupFields
  <2>4. QED BY <2>2, <2>3 DEF StepAt, Step, Document
<1>4. Path(b, X) \in [1 .. Total(b) -> Step] BY <1>3 DEF Path
<1>5. QED BY <1>1, <1>4, FunctionIsSeq DEF Path

-----------------------------------------------------------------------------
(* What an edit does to the line.                                          *)

\* c has one group more than b has behind it, made from b; X and Z are their lines.
Adds(b, X, c, Z) ==
    /\ Len(c.done) = Len(b.done) + 1 /\ c.undone = <<>>
    /\ \A k \in 1 .. Len(b.done) : c.done[k] = b.done[k]
    /\ c.done[Len(b.done) + 1].before = b.cursors
    /\ \A k \in 0 .. Len(b.done) : Z[k] = X[k]

\* Or the newest group of b leads somewhere else.
Widens(b, X, c, Z) ==
    /\ Len(b.done) # 0 /\ Len(c.done) = Len(b.done) /\ c.undone = <<>>
    /\ \A k \in 1 .. Len(b.done) - 1 : c.done[k] = b.done[k]
    /\ c.done[Len(b.done)].before = b.done[Len(b.done)].before
    /\ \A k \in 0 .. Len(b.done) - 1 : Z[k] = X[k]

\* Or nothing is recorded.
Stays(b, X, c, Z) == c.text = b.text /\ c.done = b.done /\ c.undone = b.undone /\ Z = X

LEMMA AddsThenWidens ==
    ASSUME NEW a \in Buf, NEW X, NEW b, NEW Y, NEW c, NEW Z, Adds(a, X, b, Y), Widens(b, Y, c, Z)
    PROVE  Adds(a, X, c, Z)
<1> DEFINE n == Len(a.done)
<1>1. n \in Nat BY StackIs
<1>2. /\ Len(b.done) = n + 1 /\ (\A k \in 1 .. n : b.done[k] = a.done[k])
      /\ b.done[n + 1].before = a.cursors /\ \A k \in 0 .. n : Y[k] = X[k]
  BY DEF Adds
<1>3. /\ Len(c.done) = n + 1 /\ c.undone = <<>> /\ (\A k \in 1 .. (n + 1) - 1 : c.done[k] = b.done[k])
      /\ c.done[n + 1].before = b.done[n + 1].before /\ \A k \in 0 .. (n + 1) - 1 : Z[k] = Y[k]
  BY <1>2 DEF Widens
<1>4. (n + 1) - 1 = n BY <1>1
<1> HIDE DEF n
<1>5. (\A k \in 1 .. n : c.done[k] = a.done[k]) /\ \A k \in 0 .. n : Z[k] = X[k] BY <1>2, <1>3, <1>4
<1>6. QED BY <1>2, <1>3, <1>5 DEF Adds, n

LEMMA WidensTwice ==
    ASSUME NEW a, NEW X, NEW b, NEW Y, NEW c, NEW Z, Widens(a, X, b, Y), Widens(b, Y, c, Z)
    PROVE  Widens(a, X, c, Z)
<1> DEFINE n == Len(a.done)
<1>1. /\ n # 0 /\ Len(b.done) = n /\ (\A k \in 1 .. n - 1 : b.done[k] = a.done[k])
      /\ b.done[n].before = a.done[n].before /\ \A k \in 0 .. n - 1 : Y[k] = X[k]
  BY DEF Widens
<1>2. /\ Len(c.done) = n /\ c.undone = <<>> /\ (\A k \in 1 .. n - 1 : c.done[k] = b.done[k])
      /\ c.done[n].before = b.done[n].before /\ \A k \in 0 .. n - 1 : Z[k] = Y[k]
  BY <1>1 DEF Widens
<1> HIDE DEF n
<1>3. (\A k \in 1 .. n - 1 : c.done[k] = a.done[k]) /\ \A k \in 0 .. n - 1 : Z[k] = X[k] BY <1>1, <1>2
<1>4. QED BY <1>1, <1>2, <1>3 DEF Widens, n

\* Sequences that begin alike.
LEMMA SameBeginning ==
    ASSUME NEW S, NEW p \in Seq(S), NEW q \in Seq(S), NEW n \in Nat, n <= Len(p), n <= Len(q),
           \A k \in 1 .. n : p[k] = q[k]
    PROVE  /\ SubSeq(p, 1, n) = SubSeq(q, 1, n) /\ SubSeq(p, 1, n) \in Seq(S) /\ Len(SubSeq(p, 1, n)) = n
           /\ \A k \in 1 .. n : SubSeq(p, 1, n)[k] = p[k]
<1>1. Len(p) \in Nat /\ Len(q) \in Nat BY SeqIs
<1>2. \A k \in 1 .. n : k \in 1 .. Len(p) /\ k \in 1 .. Len(q) BY <1>1
<1>3. (\A k \in 1 .. n : p[k] \in S) /\ \A k \in 1 .. n : q[k] \in S BY <1>2, SeqIs
<1>4. n \in Int /\ 1 \in Int OBVIOUS
<1>5. /\ SubSeq(p, 1, n) \in Seq(S) /\ Len(SubSeq(p, 1, n)) = (IF 1 <= n THEN n - 1 + 1 ELSE 0)
      /\ \A k \in 1 .. n - 1 + 1 : SubSeq(p, 1, n)[k] = p[1 + k - 1]
  BY <1>3, <1>4, SubSeqProperties
<1>6. /\ SubSeq(q, 1, n) \in Seq(S) /\ Len(SubSeq(q, 1, n)) = (IF 1 <= n THEN n - 1 + 1 ELSE 0)
      /\ \A k \in 1 .. n - 1 + 1 : SubSeq(q, 1, n)[k] = q[1 + k - 1]
  BY <1>3, <1>4, SubSeqProperties
<1>7. Len(SubSeq(p, 1, n)) = n /\ Len(SubSeq(q, 1, n)) = n
  <2>1. (IF 1 <= n THEN n - 1 + 1 ELSE 0) = n OBVIOUS
  <2>2. QED BY <1>5, <1>6, <2>1
<1>8. \A k \in 1 .. n : SubSeq(p, 1, n)[k] = p[k] /\ SubSeq(q, 1, n)[k] = q[k]
  <2>1. \A k \in 1 .. n : k \in 1 .. n - 1 + 1 /\ 1 + k - 1 = k OBVIOUS
  <2>2. QED BY <1>5, <1>6, <2>1
<1>9. \A k \in 1 .. n : SubSeq(p, 1, n)[k] = SubSeq(q, 1, n)[k] BY <1>8
<1> DEFINE sp == SubSeq(p, 1, n)
           sq == SubSeq(q, 1, n)
<1>10. sp \in Seq(S) /\ sq \in Seq(S) /\ Len(sp) = n /\ Len(sq) = n /\ \A k \in 1 .. n : sp[k] = sq[k]
  BY <1>5, <1>6, <1>7, <1>9
<1> HIDE DEF sp, sq
<1>11. sp = sq BY <1>10, SeqEqual
<1>12. QED BY <1>5, <1>7, <1>8, <1>11 DEF sp, sq

\* One step more.
LongerPath(b, c, p, q, n) ==
    /\ Len(c.done) = n + 1 /\ Len(q) = n + 1 /\ SubSeq(q, 1, n) = SubSeq(p, 1, n)
    /\ q[n + 1].from = [text |-> b.text, sels |-> b.cursors]
    /\ q[n + 1].to.text = c.text /\ q[n + 1].to.sels = c.done[n + 1].after
    /\ n <= Len(p) /\ \A k \in 1 .. n : q[k] = p[k]

LEMMA AddsPath ==
    ASSUME NEW b \in Buf, NEW X, Line(b, X), NEW c \in Buf, NEW Z, Line(c, Z), Adds(b, X, c, Z),
           NEW p, p = Path(b, X), NEW q, q = Path(c, Z), NEW n, n = Len(b.done)
    PROVE  LongerPath(b, c, p, q, n)
<1>1. n \in Nat /\ Len(b.done) <= Total(b) /\ Total(b) \in Nat /\ Total(c) \in Nat BY StackIs
<1>2. /\ Len(c.done) = n + 1 /\ c.undone = <<>> /\ (\A k \in 1 .. n : c.done[k] = b.done[k])
      /\ c.done[n + 1].before = b.cursors /\ \A k \in 0 .. n : Z[k] = X[k]
  BY DEF Adds
<1>3. Total(c) = n + 1
  <2>1. Len(c.undone) = 0 BY <1>2
  <2>2. QED BY <1>1, <1>2, <2>1 DEF Total
<1>4. p \in Seq(Step) /\ Len(p) = Total(b) /\ \A k \in 1 .. Total(b) : p[k] = StepAt(b, X, k) BY PathFields
<1>5. q \in Seq(Step) /\ Len(q) = n + 1 /\ \A k \in 1 .. n + 1 : q[k] = StepAt(c, Z, k) BY <1>3, PathFields
<1>6. \A k \in 1 .. n : Grp(b, k) = b.done[k] BY StackIs
<1>7. \A k \in 1 .. n + 1 : Grp(c, k) = c.done[k] BY <1>2, StackIs
<1>8. ASSUME NEW k \in 1 .. n PROVE q[k] = p[k]
  <2>1. k \in 1 .. Total(b) /\ k \in 1 .. n + 1 /\ k - 1 \in 0 .. n /\ k \in 0 .. n BY <1>1
  <2>2. Grp(c, k) = Grp(b, k) /\ Z[k - 1] = X[k - 1] /\ Z[k] = X[k] BY <1>2, <1>6, <1>7, <2>1
  <2>3. StepAt(c, Z, k) = StepAt(b, X, k) BY <2>2 DEF StepAt
  <2>4. QED BY <1>4, <1>5, <2>1, <2>3
<1>9. SubSeq(q, 1, n) = SubSeq(p, 1, n)
  <2>1. n <= Len(p) /\ n <= Len(q) BY <1>1, <1>4, <1>5
  <2>2. QED BY <1>1, <1>4, <1>5, <1>8, <2>1, SameBeginning
<1>10. q[n + 1] = StepAt(c, Z, n + 1) /\ Grp(c, n + 1) = c.done[n + 1] /\ (n + 1) - 1 = n
  <2>1. n + 1 \in 1 .. n + 1 /\ (n + 1) - 1 = n BY <1>1
  <2>2. QED BY <1>5, <1>7, <2>1
<1>11. Z[n] = b.text /\ Z[n + 1] = c.text
  <2>1. n \in 0 .. n BY <1>1
  <2>2. X[n] = b.text /\ Z[n + 1] = c.text BY <1>2 DEF Line
  <2>3. QED BY <1>2, <2>1, <2>2
<1>12. /\ q[n + 1].from = [text |-> b.text, sels |-> b.cursors]
       /\ q[n + 1].to.text = c.text /\ q[n + 1].to.sels = c.done[n + 1].after
  BY <1>2, <1>10, <1>11 DEF StepAt
<1>13. n <= Len(p) BY <1>1, <1>4
<1>14. QED BY <1>2, <1>5, <1>8, <1>9, <1>12, <1>13 DEF LongerPath

\* The newest step leads somewhere else.
WiderPath(c, p, q, n) ==
    /\ n > 0 /\ Len(c.done) = n /\ Len(q) = n /\ q[n].to.text = c.text
    /\ q = [SubSeq(p, 1, n) EXCEPT ![n].to = q[n].to]

LEMMA WidensPath ==
    ASSUME NEW b \in Buf, NEW X, Line(b, X), NEW c \in Buf, NEW Z, Line(c, Z), Widens(b, X, c, Z),
           NEW p, p = Path(b, X), NEW q, q = Path(c, Z), NEW n, n = Len(b.done)
    PROVE  WiderPath(c, p, q, n)
<1> SUFFICES /\ n > 0 /\ Len(c.done) = n /\ Len(q) = n /\ q[n].to.text = c.text
             /\ q = [SubSeq(p, 1, n) EXCEPT ![n].to = q[n].to]
  BY DEF WiderPath
<1>1. n \in Nat /\ Len(b.done) <= Total(b) /\ Total(b) \in Nat /\ Total(c) \in Nat BY StackIs
<1>2. /\ n # 0 /\ Len(c.done) = n /\ c.undone = <<>> /\ (\A k \in 1 .. n - 1 : c.done[k] = b.done[k])
      /\ c.done[n].before = b.done[n].before /\ \A k \in 0 .. n - 1 : Z[k] = X[k]
  BY DEF Widens
<1>3. Total(c) = n
  <2>1. Len(c.undone) = 0 BY <1>2
  <2>2. QED BY <1>1, <1>2, <2>1 DEF Total
<1>4. p \in Seq(Step) /\ Len(p) = Total(b) /\ \A k \in 1 .. Total(b) : p[k] = StepAt(b, X, k) BY PathFields
<1>5. q \in Seq(Step) /\ Len(q) = n /\ \A k \in 1 .. n : q[k] = StepAt(c, Z, k) BY <1>3, PathFields
<1>6. \A k \in 1 .. n : Grp(b, k) = b.done[k] BY StackIs
<1>7. \A k \in 1 .. n : Grp(c, k) = c.done[k] BY <1>2, StackIs
<1> DEFINE s == SubSeq(p, 1, n)
<1>8. s \in Seq(Step) /\ Len(s) = n /\ \A k \in 1 .. n : s[k] = p[k]
  <2>1. n <= Len(p) BY <1>1, <1>4
  <2>2. QED BY <1>1, <1>4, <2>1, SameBeginning
<1> HIDE DEF s
<1>9. ASSUME NEW k \in 1 .. n - 1 PROVE q[k] = s[k]
  <2>1. k \in 1 .. Total(b) /\ k \in 1 .. n /\ k - 1 \in 0 .. n - 1 /\ k \in 0 .. n - 1 BY <1>1
  <2>2. Grp(c, k) = Grp(b, k) /\ Z[k - 1] = X[k - 1] /\ Z[k] = X[k] BY <1>2, <1>6, <1>7, <2>1
  <2>3. StepAt(c, Z, k) = StepAt(b, X, k) BY <2>2 DEF StepAt
  <2>4. QED BY <1>4, <1>5, <1>8, <2>1, <2>3
<1>10. n \in 1 .. n /\ n \in 1 .. Total(b) /\ n - 1 \in 0 .. n - 1 BY <1>1, <1>2
<1>11. q[n] = StepAt(c, Z, n) /\ s[n] = StepAt(b, X, n) BY <1>4, <1>5, <1>8, <1>10
<1>12. q[n].from = s[n].from
  <2>1. Grp(c, n).before = Grp(b, n).before /\ Z[n - 1] = X[n - 1] BY <1>2, <1>6, <1>7, <1>10
  <2>2. QED BY <1>11, <2>1 DEF StepAt
<1>13. q[n].to.text = c.text
  <2>1. Z[n] = c.text BY <1>2 DEF Line
  <2>2. QED BY <1>11, <2>1 DEF StepAt
<1>14. [s[n] EXCEPT !.to = q[n].to] = q[n]
  <2>1. s[n] \in Step /\ q[n] \in Step BY <1>5, <1>8, <1>10, SeqIs
  <2> DEFINE x == s[n]  y == q[n]
  <2>2. x \in Step /\ y \in Step /\ y.from = x.from BY <1>12, <2>1
  <2> HIDE DEF x, y
  <2>3. [x EXCEPT !.to = y.to] = y BY <2>2 DEF Step
  <2>4. QED BY <2>3 DEF x, y
<1> DEFINE r == [s EXCEPT ![n] = q[n]]
<1>15. [s EXCEPT ![n].to = q[n].to] = r BY <1>14
<1>16. q[n] \in Step BY <1>5, <1>10, SeqIs
<1>17. r = [s EXCEPT ![n] = q[n]] OBVIOUS
<1> HIDE DEF r
<1>18. r \in Seq(Step) /\ Len(r) = n /\ r[n] = q[n] /\ \A k \in 1 .. n : k # n => r[k] = s[k]
  BY <1>8, <1>10, <1>16, <1>17, Updated
<1>19. \A k \in 1 .. n : q[k] = r[k]
  <2>1. \A k \in 1 .. n : k = n \/ k \in 1 .. n - 1 BY <1>1
  <2>2. QED BY <1>9, <1>18, <2>1
<1>20. q = r BY <1>5, <1>18, <1>19, SeqEqual
<1>21. n > 0 BY <1>1, <1>2
<1>22. QED BY <1>2, <1>5, <1>13, <1>15, <1>20, <1>21 DEF s

LEMMA TransactedLeads ==
    ASSUME NEW b \in Buf, NEW X, NEW edit, Sound(b.text, edit), Applied(b.text, edit.plans).ok,
           edit.plans # <<>>, NEW c, c = Transacted(b, edit.plans, edit.sels, edit.coalesce)
    PROVE  /\ \/ Adds(b, X, c, Onward(X, edit.plans, c))
              \/ /\ Joins(b, edit.plans, edit.coalesce) /\ Widens(b, X, c, Onward(X, edit.plans, c))
           /\ c.done[Len(c.done)].after = edit.sels
<1> DEFINE plans == edit.plans
           sels == edit.sels
           coalesce == edit.coalesce
           ops == Applied(b.text, plans).ops
           n == Len(c.done)
           m == Len(b.done)
           Y == Onward(X, plans, c)
<1>1. plans \in Seq(PlanSet) /\ sels \in Seq(Selection) /\ plans # <<>> BY DEF Sound
<1>2. b.text \in Seq(Char) /\ m \in Nat BY BufIs, StackIs
<1>3. Applied(b.text, plans).ok OBVIOUS
<1>4. c = Transacted(b, plans, sels, coalesce) OBVIOUS
<1> HIDE DEF plans, sels, coalesce
<1>5. Fields(b, plans, sels, coalesce, c) BY <1>1, <1>4, TransactedFields
<1>6. /\ c.text = Applied(b.text, plans).text /\ c.done = Recorded(b, plans, sels, coalesce) /\ c.undone = <<>>
  BY <1>5 DEF Fields
<1>7. Makes(b.text, ops, c.text) BY <1>1, <1>2, <1>3, <1>6, AppliedMakes
<1>8. ops \in Seq(Op) BY <1>7, MakesTexts
<1>9. RecordIs(b, c.done, ops, sels) BY <1>1, <1>6, <1>8, RecordedIs
<1>10. /\ n \in Nat \ {0} /\ (\A k \in 1 .. n - 1 : c.done[k] = b.done[k]) /\ c.done[n].after = sels
       /\ \/ n = m + 1 /\ c.done[n].before = b.cursors
          \/ n = m /\ c.done[n].before = b.done[n].before
  BY <1>9 DEF RecordIs
<1>11. Y = Longer(X, n, c.text) BY <1>1 DEF Onward
<1> HIDE DEF Y, n
<1>12. \A k \in 0 .. n - 1 : Y[k] = X[k] BY <1>10, <1>11, LongerIs
<1>13. CASE n = m + 1 /\ c.done[n].before = b.cursors
  <2>1. n - 1 = m BY <1>2, <1>13
  <2> HIDE DEF m
  <2>2. (\A k \in 1 .. m : c.done[k] = b.done[k]) /\ \A k \in 0 .. m : Y[k] = X[k] BY <1>10, <1>12, <2>1
  <2>3. Adds(b, X, c, Y) BY <1>6, <1>13, <2>2 DEF Adds, n, m
  <2>4. QED BY <1>10, <2>3 DEF Y, n, plans, sels
<1>14. CASE n = m /\ c.done[n].before = b.done[n].before
  <2>1. Joins(b, plans, coalesce)
    <3>1. SUFFICES ASSUME ~Joins(b, plans, coalesce) PROVE FALSE OBVIOUS
    <3> DEFINE g == [ops |-> ops, before |-> b.cursors, after |-> sels]
    <3>2. c.done = Append(b.done, g) BY <1>6, <3>1 DEF Recorded
    <3>3. b.done \in Seq(Group) /\ b.cursors \in Seq(Selection) BY BufIs
    <3>4. g \in Group BY <1>1, <1>8, <3>3, GroupIs
    <3> HIDE DEF g
    <3>5. Len(c.done) = m + 1 BY <3>2, <3>3, <3>4, AppendProperties
    <3>6. QED BY <1>2, <1>14, <3>5 DEF n
  <2> HIDE DEF m
  <2>2. m # 0 /\ (\A k \in 1 .. m - 1 : c.done[k] = b.done[k]) /\ \A k \in 0 .. m - 1 : Y[k] = X[k]
    BY <1>10, <1>12, <1>14
  <2>3. Widens(b, X, c, Y) BY <1>6, <1>14, <2>2 DEF Widens, n, m
  <2>4. QED BY <1>10, <2>1, <2>3 DEF Y, n, plans, sels, coalesce
<1>15. QED BY <1>10, <1>13, <1>14

LEMMA NothingLeads ==
    ASSUME NEW b \in Buf, NEW X, NEW plans, plans = <<>>, NEW sels \in Seq(Selection), NEW coalesce,
           NEW c, c = Transacted(b, plans, sels, coalesce)
    PROVE  Stays(b, X, c, Onward(X, plans, c))
<1>1. OrStart(sels) \in Seq(Selection) BY OrStartIs
<1>2. c = [b EXCEPT !.cursors = OrStart(sels)] BY DEF Transacted
<1>3. c.text = b.text /\ c.done = b.done /\ c.undone = b.undone BY <1>1, <1>2, CursorsOnly
<1>4. QED BY <1>3 DEF Stays, Onward

\* One range that joins a run of typing or deleting.
LEMMA JoinsIs ==
    ASSUME NEW b, NEW plans, DOMAIN plans = {1}, NEW coalesce, Joins(b, plans, coalesce)
    PROVE  /\ KindOf(plans) \in {"insert", "delete"} /\ b.kind = KindOf(plans)
           /\ KindOf(plans) = "insert" => plans[1].start = b.carets[1]
BY DEF Joins, Continues

LEMMA TypingIs ==
    ASSUME Fine(buf), NEW ch \in Char, NEW e, e = Typing(ch)
    PROVE  /\ DOMAIN e.plans = {1} /\ e.plans # <<>> /\ e.sels = <<At(Lo(Sel) + 1)>> /\ e.coalesce = TRUE
           /\ KindOf(e.plans) \in {"insert", "other"} /\ (KindOf(e.plans) = "other" => ~IsEmpty(Sel))
<1> DEFINE p == Plan(Lo(Sel), Hi(Sel), <<ch>>)
           plans == <<p>>
<1>1. e.plans = plans /\ e.sels = <<At(Lo(Sel) + Len(<<ch>>))>> /\ e.coalesce = TRUE
  BY DEF Typing, Replaces, Edit
<1>2. Len(<<ch>>) = 1 /\ <<ch>> # <<>> OBVIOUS
<1>3. DOMAIN plans = {1} /\ plans # <<>> /\ plans[1] = p OBVIOUS
<1>4. p.start = Lo(Sel) /\ p.end = Hi(Sel) /\ p.text = <<ch>> BY DEF Plan
<1>5. Ends(Sel, Len(buf.text)) BY FirstSel DEF Sel
<1> HIDE DEF p, plans
<1>6. IsEmpty(Sel) => Lo(Sel) = Hi(Sel) BY <1>5 DEF Ends, IsEmpty
<1>7. KindOf(plans) = IF p.start = p.end /\ p.text # <<>> THEN "insert"
                      ELSE IF p.start < p.end /\ p.text = <<>> THEN "delete" ELSE "other"
  BY <1>3 DEF KindOf
<1>8. KindOf(plans) = IF Lo(Sel) = Hi(Sel) THEN "insert" ELSE "other" BY <1>2, <1>4, <1>7
<1>9. QED BY <1>1, <1>2, <1>3, <1>6, <1>8

\* The buffer when the closer is typed and not aligned yet.
LEMMA TypedIs ==
    ASSUME Fine(buf), buf \in Buf, NEW ch \in Char, NEW e, e = Typing(ch), NEW b, b = After(buf, e)
    PROVE  /\ b.cursors = e.sels /\ b.cursors = <<At(Lo(Sel) + 1)>> /\ b.carets = <<Lo(Sel) + 1>>
           /\ b.boundary = FALSE /\ b.kind = KindOf(e.plans) /\ b.undone = <<>>
           /\ b.cursors[1].head = b.carets[1]
<1> DEFINE caret == Lo(Sel) + 1
           sel == At(caret)
           sels == <<sel>>
<1>1. e.plans # <<>> /\ e.sels = sels /\ e.coalesce = TRUE BY TypingIs
<1>2. b = Transacted(buf, e.plans, e.sels, e.coalesce) BY DEF After
<1>3. Fields(buf, e.plans, e.sels, e.coalesce, b) BY <1>1, <1>2, TransactedFields
<1>4. /\ b.cursors = OrStart(e.sels) /\ b.carets = Anchors(e.sels) /\ b.boundary = ~e.coalesce
      /\ b.kind = KindOf(e.plans) /\ b.undone = <<>>
  BY <1>3 DEF Fields
<1>5. b.boundary = FALSE BY <1>1, <1>4
<1>6. sel.anchor = caret /\ sel.head = caret BY DEF At
<1> HIDE DEF sel, caret
<1>7. DOMAIN sels = {1} /\ sels[1] = sel /\ sels # <<>> OBVIOUS
<1>8. OrStart(sels) = sels BY <1>7 DEF OrStart
<1> HIDE DEF sels
<1>9. Anchors(sels) = <<caret>>
  <2>1. \A i \in DOMAIN sels : IsEmpty(sels[i]) BY <1>6, <1>7 DEF IsEmpty
  <2>2. Anchors(sels) = [i \in {1} |-> sels[i].head] BY <1>7, <2>1 DEF Anchors
  <2>3. [i \in {1} |-> sels[i].head] = [i \in {1} |-> caret]
    <3>1. \A i \in {1} : sels[i].head = caret BY <1>6, <1>7
    <3>2. QED BY <3>1
  <2>4. <<caret>> = [i \in {1} |-> caret]
    <3>1. 1 .. 1 = {1} OBVIOUS
    <3>2. QED BY <3>1
  <2>5. QED BY <2>2, <2>3, <2>4
<1>10. b.cursors = sels /\ b.carets = <<caret>> BY <1>1, <1>4, <1>8, <1>9
<1>11. b.cursors[1].head = b.carets[1] BY <1>6, <1>7, <1>10
<1>12. QED BY <1>1, <1>4, <1>5, <1>10, <1>11 DEF sels, sel, caret

\* The alignment starts before the caret, so that it joins nothing.
LEMMA AlignmentApart ==
    ASSUME NEW b, Fine(b), Aligns(b), NEW shift, shift = Alignment(b)
    PROVE  /\ shift.coalesce = TRUE /\ shift.sels # <<>> /\ shift.sels \in Seq(Selection)
           /\ shift.plans # <<>> => DOMAIN shift.plans = {1} /\ shift.plans[1].start # b.cursors[1].head
<1> DEFINE t == b.text
           caret == b.cursors[1].head
           row == RowStart(t, caret)
           old == Indent(t, row, caret)
           from == RowStart(t, Max(Opener(t, row)))
           new == Indent(t, from, RowEnd(t, from))
           plans == IF new = old THEN <<>> ELSE <<Plan(row, row + old, Tabs(new))>>
           sel == At(caret + new - old)
<1>1. shift.plans = plans /\ shift.sels = <<sel>> /\ shift.coalesce = TRUE BY DEF Alignment, Edit
<1>2. t \in Seq(Char) /\ Len(t) \in Nat /\ caret \in 0 .. Len(t) BY FirstSel DEF Ends
<1>3. row + old + 1 = caret BY DEF Aligns
<1>4. <<sel>> # <<>> OBVIOUS
<1> HIDE DEF t, caret
<1>5. row \in 0 .. caret BY <1>2, RowStartIs
<1>6. old \in Nat
  <2> HIDE DEF row
  <2>1. old \in 0 .. caret - row BY <1>2, <1>5, IndentIs
  <2>2. QED BY <1>2, <1>5, <2>1
<1> HIDE DEF row, old, new
<1>7. row # caret BY <1>3, <1>5, <1>6
<1>8. plans # <<>> => DOMAIN plans = {1} /\ plans[1].start = row BY DEF Plan
<1>9. shift.sels \in Seq(Selection)
  <2>1. Sound(b.text, shift) /\ Len(shift.plans) \in {0, 1} BY AlignmentSound
  <2>2. shift.plans \in Seq(PlanSet) BY <2>1 DEF Sound
  <2>3. ~Overlap(shift.plans) BY <2>1, <2>2, OneIsApart
  <2>4. Placed(shift.plans, Len(b.text)) BY <2>1, <2>3 DEF Placed, Sound
  <2>5. Applied(b.text, shift.plans).ok BY <1>2, <2>4, BatchIs DEF t
  <2>6. QED BY <2>1, <2>5 DEF Sound
<1>10. QED BY <1>1, <1>4, <1>7, <1>8, <1>9 DEF caret

\* The alignment folds into the group of the closer, is empty, or is a group of its
\* own when the closer was typed over a selection.
\* Where an alignment leads.
AlignmentLeads(b, Y, r, Z) ==
    \/ Stays(b, Y, r, Z)
    \/ Widens(b, Y, r, Z)
    \/ b.kind = "other" /\ Adds(b, Y, r, Z) /\ r.done[Len(r.done)].after = r.cursors

LEMMA AlignedLeads ==
    ASSUME NEW b \in Buf, Fine(b), NEW Y, Line(b, Y), Aligns(b),
           b.boundary = FALSE, b.kind \in {"insert", "other"}, b.done # <<>>, b.undone = <<>>,
           b.cursors[1].head = b.carets[1], NEW r, r = Aligned(b), NEW Z, Z = AlignedLine(b, Y)
    PROVE  AlignmentLeads(b, Y, r, Z)
<1> SUFFICES \/ Stays(b, Y, r, Z)
             \/ Widens(b, Y, r, Z)
             \/ b.kind = "other" /\ Adds(b, Y, r, Z) /\ r.done[Len(r.done)].after = r.cursors
  BY DEF AlignmentLeads
<1> DEFINE shift == Alignment(b)
           c == Shifted(b)
           W == Onward(Y, shift.plans, c)
<1>1. /\ shift.coalesce = TRUE /\ shift.sels # <<>> /\ shift.sels \in Seq(Selection)
      /\ shift.plans # <<>> => DOMAIN shift.plans = {1} /\ shift.plans[1].start # b.cursors[1].head
  BY AlignmentApart
<1>2. Sound(b.text, shift) /\ Len(shift.plans) \in {0, 1} BY AlignmentSound
<1>3. shift.plans \in Seq(PlanSet) BY <1>2 DEF Sound
<1>4. ~Overlap(shift.plans) BY <1>2, <1>3, OneIsApart
<1>5. b.text \in Seq(Char) BY BufIs
<1>6. Placed(shift.plans, Len(b.text)) BY <1>2, <1>4 DEF Placed, Sound
<1>7. Applied(b.text, shift.plans).ok BY <1>5, <1>6, BatchIs
<1>8. r = IF ~Folds(b) THEN c ELSE [c EXCEPT !.done = Folded(c), !.kind = b.kind,
                                             !.carets = <<shift.sels[1].head>>]
  BY AlignedFolds
<1>9. Z = IF Folds(b) THEN Longer(W, Len(c.done) - 1, c.text) ELSE W BY DEF AlignedLine
<1>10. c = Transacted(b, shift.plans, shift.sels, shift.coalesce) BY <1>1 DEF Shifted
<1>11. Folds(b) <=> /\ shift.plans # <<>> /\ ~b.boundary /\ b.kind = "insert" /\ b.done # <<>>
                    /\ Len(c.done) >= 2
  BY DEF Folds
<1> HIDE DEF shift, c, W
<1>12. CASE shift.plans = <<>>
  <2>1. r = c /\ Z = W BY <1>8, <1>9, <1>11, <1>12
  <2>2. Stays(b, Y, c, W) BY <1>1, <1>10, <1>12, NothingLeads DEF W
  <2>3. QED BY <2>1, <2>2
<1>13. CASE shift.plans # <<>>
  <2>1. ~Joins(b, shift.plans, shift.coalesce) BY <1>1, <1>13, JoinsIs
  <2>2. Adds(b, Y, c, W) /\ c.done[Len(c.done)].after = shift.sels
    BY <1>2, <1>7, <1>10, <1>13, <2>1, TransactedLeads DEF W
  <2>3. Fields(b, shift.plans, shift.sels, shift.coalesce, c) BY <1>10, <1>13, TransactedFields
  <2>4. c.cursors = shift.sels BY <1>1, <2>3 DEF Fields, OrStart
  <2> DEFINE m == Len(b.done)
  <2>5. /\ Len(c.done) = m + 1 /\ c.undone = <<>> /\ (\A k \in 1 .. m : c.done[k] = b.done[k])
        /\ \A k \in 0 .. m : W[k] = Y[k]
    BY <2>2 DEF Adds
  <2>6. m \in Nat \ {0}
    <3>1. b.done \in Seq(Group) BY BufIs
    <3>2. QED BY <3>1, EmptySeq
  <2>7. CASE b.kind = "other"
    <3>1. r = c /\ Z = W BY <1>8, <1>9, <1>11, <2>7
    <3>2. QED BY <2>2, <2>4, <2>7, <3>1
  <2>8. CASE b.kind = "insert"
    <3>1. Len(c.done) >= 2 BY <2>5, <2>6
    <3>2. Folds(b) BY <1>11, <1>13, <2>8, <3>1
    <3>3. c \in Buf BY <1>2, <1>7, <1>10, TransactedIs
    <3> DEFINE n == Len(c.done)
    <3>4. n = Len(c.done) /\ n >= 2 BY <3>1
    <3> HIDE DEF n
    <3>5. /\ Folded(c) \in Seq(Group) /\ Len(Folded(c)) = n - 1 /\ n - 1 \in Nat \ {0}
          /\ (\A k \in 1 .. n - 2 : Folded(c)[k] = c.done[k])
          /\ Folded(c)[n - 1] = Both(c.done[n - 1], c.done[n])
          /\ c.done[n - 1] \in Group /\ c.done[n] \in Group
      BY <3>3, <3>4, FoldedIs
    <3>6. Both(c.done[n - 1], c.done[n]).before = c.done[n - 1].before BY <3>5, BothIs
    <3>7. n - 1 = m /\ n - 2 = m - 1 BY <2>5, <2>6, <3>4
    <3>8. r.done = Folded(c) /\ r.undone = <<>>
      <4>1. r = [c EXCEPT !.done = Folded(c), !.kind = b.kind, !.carets = <<shift.sels[1].head>>]
        BY <1>8, <3>2
      <4>2. r.done = Folded(c) /\ r.undone = c.undone BY <3>3, <4>1 DEF Buf
      <4>3. QED BY <2>5, <4>2
    <3>9. Z = Longer(W, m, c.text) BY <1>9, <3>2, <3>4, <3>7
    <3> HIDE DEF m
    <3>10. \A k \in 0 .. m - 1 : Z[k] = W[k]
      <4>1. \A k \in 0 .. m - 1 : Longer(W, m, c.text)[k] = W[k] BY <2>6, LongerIs
      <4>2. QED BY <3>9, <4>1
    <3>11. \A k \in 0 .. m - 1 : Z[k] = Y[k] BY <2>5, <2>6, <3>10
    <3>12. /\ m # 0 /\ Len(r.done) = m /\ (\A k \in 1 .. m - 1 : r.done[k] = b.done[k])
           /\ r.done[m].before = b.done[m].before
      <4>1. m # 0 /\ m \in 1 .. m BY <2>6
      <4>2. Len(r.done) = m BY <3>5, <3>7, <3>8
      <4>3. ASSUME NEW k \in 1 .. m - 1 PROVE r.done[k] = b.done[k]
        <5>1. k \in 1 .. m BY <2>6
        <5>2. r.done[k] = c.done[k] BY <3>5, <3>7, <3>8
        <5>3. c.done[k] = b.done[k] BY <2>5, <5>1
        <5>4. QED BY <5>2, <5>3
      <4>4. r.done[m].before = c.done[m].before BY <3>5, <3>6, <3>7, <3>8
      <4>5. c.done[m] = b.done[m] BY <2>5, <4>1
      <4>6. QED BY <4>1, <4>2, <4>3, <4>4, <4>5
    <3>13. Widens(b, Y, r, Z) BY <3>8, <3>11, <3>12 DEF Widens, m
    <3>14. QED BY <3>13
  <2>9. QED BY <2>7, <2>8
<1>14. QED BY <1>12, <1>13

\* Two steps at once.
Twice(a, X, b, Y, c, Z) ==
    /\ b \in Buf /\ Line(b, Y) /\ Adds(a, X, b, Y) /\ Adds(b, Y, c, Z)
    /\ b.done[Len(b.done)].after = b.cursors /\ c.done[Len(c.done)].after = c.cursors

LEMMA AddsThenStays ==
    ASSUME NEW a, NEW X, NEW b, NEW Y, NEW c, NEW Z, Stays(b, Y, c, Z)
    PROVE  (Adds(a, X, b, Y) => Adds(a, X, c, Z)) /\ (b.undone = <<>> /\ Widens(a, X, b, Y) => Widens(a, X, c, Z))
BY DEF Adds, Widens, Stays

LEMMA ClosesLeads ==
    ASSUME NEW X, Good(buf, clangd, X, strayed), NEW ch \in Char, Closes(ch),
           NEW e, e = Typing(ch), NEW b, b = After(buf, e), NEW Y, Y = Onward(X, e.plans, b),
           NEW Z, Z = AlignedLine(b, Y)
    PROVE  \/ Adds(buf, X, buf', Z)
           \/ Widens(buf, X, buf', Z)
           \/ ~IsEmpty(Sel) /\ Twice(buf, X, b, Y, buf', Z)
<1>1. Ready BY DEF Closes
<1>2. buf \in Buf /\ Fine(buf) /\ Line(buf, X) BY <1>1, Reached DEF Ready
<1>3. /\ buf' = Aligned(b) /\ Aligns(b) /\ Good(b, b.text, Y, FALSE)
      /\ Good(buf', clangd', Z, FALSE)
  BY ClosesKeeps
<1>4. b \in Buf /\ Fine(b) /\ Line(b, Y) BY <1>3 DEF Good, Shape
<1>5. /\ e.plans # <<>> /\ DOMAIN e.plans = {1} /\ e.coalesce = TRUE
      /\ KindOf(e.plans) \in {"insert", "other"} /\ (KindOf(e.plans) = "other" => ~IsEmpty(Sel))
  BY <1>2, TypingIs
<1>6. /\ b.cursors = e.sels /\ b.boundary = FALSE /\ b.kind = KindOf(e.plans) /\ b.undone = <<>>
      /\ b.cursors[1].head = b.carets[1]
  BY <1>2, TypedIs
<1>7. Sound(buf.text, e) BY <1>2, TypingSound
<1>8. ~Overlap(e.plans) BY <1>7, TypingAlone DEF Sound, Typing
<1>9. Applied(buf.text, e.plans).ok
  <2>1. Bounded(buf) BY DEF Bounded
  <2>2. QED BY <1>1, <1>7, <1>8, <2>1, ApartKeeps
<1>10. b = Transacted(buf, e.plans, e.sels, e.coalesce) BY DEF After
<1>11. /\ Adds(buf, X, b, Y) \/ (Joins(buf, e.plans, e.coalesce) /\ Widens(buf, X, b, Y))
       /\ b.done[Len(b.done)].after = e.sels
  BY <1>2, <1>5, <1>7, <1>9, <1>10, TransactedLeads
<1>12. b.done # <<>>
  <2>1. Len(buf.done) \in Nat BY <1>2, StackIs
  <2>2. Len(b.done) # 0 BY <1>11, <2>1 DEF Adds, Widens
  <2>3. QED BY <2>2
<1>13. \/ Stays(b, Y, buf', Z)
       \/ Widens(b, Y, buf', Z)
       \/ b.kind = "other" /\ Adds(b, Y, buf', Z) /\ (buf'.done)[Len(buf'.done)].after = buf'.cursors
  <2>1. AlignmentLeads(b, Y, buf', Z)
    <3>1. b.kind \in {"insert", "other"} BY <1>5, <1>6
    <3>2. QED BY <1>3, <1>4, <1>6, <1>12, <3>1, AlignedLeads
  <2>2. QED BY <2>1 DEF AlignmentLeads
<1>14. CASE Stays(b, Y, buf', Z) BY <1>6, <1>11, <1>14, AddsThenStays
<1>15. CASE Widens(b, Y, buf', Z) BY <1>2, <1>11, <1>15, AddsThenWidens, WidensTwice
<1>16. CASE /\ b.kind = "other" /\ Adds(b, Y, buf', Z)
            /\ (buf'.done)[Len(buf'.done)].after = buf'.cursors
  <2>1. KindOf(e.plans) = "other" /\ ~IsEmpty(Sel) BY <1>5, <1>6, <1>16
  <2>2. ~Joins(buf, e.plans, e.coalesce) BY <1>5, <2>1, JoinsIs
  <2>3. Adds(buf, X, b, Y) BY <1>11, <2>2
  <2>4. Twice(buf, X, b, Y, buf', Z) BY <1>4, <1>6, <1>11, <1>16, <2>3 DEF Twice
  <2>5. QED BY <2>1, <2>4
<1>17. QED BY <1>13, <1>14, <1>15, <1>16

-----------------------------------------------------------------------------
(* The line of documents takes the steps that are promised.                *)

\* buf and buf' have the lines X and Z.
Lines(X, Z) == buf \in Buf /\ Line(buf, X) /\ buf' \in Buf /\ Line(buf', Z)

LEMMA Paths ==
    ASSUME NEW X, NEW Z, Lines(X, Z)
    PROVE  /\ buf \in Buf /\ Line(buf, X) /\ StepsOf(buf) = Path(buf, X)
           /\ buf' \in Buf /\ Line(buf', Z) /\ StepsOf(buf') = Path(buf', Z)
BY PathIs DEF Lines

LEMMA SamePath ==
    ASSUME NEW b, NEW X, NEW c, Total(c) = Total(b), \A k \in 1 .. Total(b) : Grp(c, k) = Grp(b, k)
    PROVE  Path(c, X) = Path(b, X)
<1>1. \A k \in 1 .. Total(b) : StepAt(c, X, k) = StepAt(b, X, k) BY DEF StepAt
<1>2. QED BY <1>1 DEF Path

LEMMA TimelineMoves ==
    ASSUME NEW X, NEW Z, Lines(X, Z), Stays(buf, X, buf', Z)
    PROVE  Timeline!Moves
<1>1. buf'.text = buf.text /\ buf'.done = buf.done /\ buf'.undone = buf.undone /\ Z = X BY DEF Stays
<1>2. Total(buf') = Total(buf) /\ \A k \in 1 .. Total(buf) : Grp(buf', k) = Grp(buf, k) BY <1>1 DEF Total, Grp
<1>3. Path(buf', X) = Path(buf, X) BY <1>2, SamePath
<1>4. StepsOf(buf') = StepsOf(buf) BY <1>1, <1>3, Paths
<1>5. QED BY <1>1, <1>4 DEF Timeline!Moves

LEMMA TimelineSteps ==
    ASSUME NEW X, NEW Z, Lines(X, Z), Adds(buf, X, buf', Z)
    PROVE  Timeline!Steps
<1> DEFINE p == StepsOf(buf)
           q == StepsOf(buf')
           n == Len(buf.done)
<1>1. /\ buf \in Buf /\ Line(buf, X) /\ p = Path(buf, X)
      /\ buf' \in Buf /\ Line(buf', Z) /\ q = Path(buf', Z)
  BY Paths
<1>2. n = Len(buf.done) OBVIOUS
<1> HIDE DEF p, q, n
<1>0. LongerPath(buf, buf', p, q, n) BY <1>1, <1>2, AddsPath
<1>3. /\ Len(buf'.done) = n + 1 /\ Len(q) = n + 1 /\ SubSeq(q, 1, n) = SubSeq(p, 1, n)
      /\ q[n + 1].from = [text |-> buf.text, sels |-> buf.cursors] /\ q[n + 1].to.text = buf'.text
  BY <1>0 DEF LongerPath
<1>4. QED BY <1>3 DEF Timeline!Steps, Timeline!Past, p, q, n

LEMMA TimelineLengthens ==
    ASSUME NEW X, NEW Z, Lines(X, Z), Widens(buf, X, buf', Z)
    PROVE  Timeline!Lengthens
<1> DEFINE p == StepsOf(buf)
           q == StepsOf(buf')
           n == Len(buf.done)
<1>1. /\ buf \in Buf /\ Line(buf, X) /\ p = Path(buf, X)
      /\ buf' \in Buf /\ Line(buf', Z) /\ q = Path(buf', Z)
  BY Paths
<1>2. n = Len(buf.done) OBVIOUS
<1> HIDE DEF p, q, n
<1>0. WiderPath(buf', p, q, n) BY <1>1, <1>2, WidensPath
<1>3. /\ n > 0 /\ Len(buf'.done) = n /\ Len(q) = n /\ q[n].to.text = buf'.text
      /\ q = [SubSeq(p, 1, n) EXCEPT ![n].to = q[n].to]
  BY <1>0 DEF WiderPath
<1>4. QED BY <1>3 DEF Timeline!Lengthens, Timeline!Past, p, q, n

LEMMA TimelineStepsTwice ==
    ASSUME NEW X, NEW Z, Lines(X, Z), NEW b, NEW Y, Twice(buf, X, b, Y, buf', Z), Fine(buf), ~IsEmpty(Sel)
    PROVE  Timeline!StepsTwice
<1> DEFINE p == StepsOf(buf)
           q == StepsOf(buf')
           y == Path(b, Y)
           n == Len(buf.done)
           m == Len(b.done)
<1>1. /\ buf \in Buf /\ Line(buf, X) /\ p = Path(buf, X)
      /\ buf' \in Buf /\ Line(buf', Z) /\ q = Path(buf', Z)
  BY Paths
<1>2. /\ b \in Buf /\ Line(b, Y) /\ Adds(buf, X, b, Y) /\ Adds(b, Y, buf', Z)
      /\ b.done[m].after = b.cursors /\ (buf'.done)[Len(buf'.done)].after = buf'.cursors
  BY DEF Twice
<1>3. n = Len(buf.done) /\ m = Len(b.done) /\ y = Path(b, Y) OBVIOUS
<1>a. n \in Nat /\ p \in Seq(Step) /\ q \in Seq(Step) /\ y \in Seq(Step) BY <1>1, <1>2, StackIs, PathFields
<1> HIDE DEF p, q, y, n, m
<1>b. LongerPath(buf, b, p, y, n) BY <1>1, <1>2, <1>3, AddsPath
<1>c. LongerPath(b, buf', y, q, m) BY <1>1, <1>2, <1>3, AddsPath
<1>4. /\ m = n + 1 /\ Len(y) = n + 1 /\ y[n + 1].from = [text |-> buf.text, sels |-> buf.cursors]
      /\ y[n + 1].to.text = b.text /\ y[n + 1].to.sels = b.done[n + 1].after
      /\ n <= Len(p) /\ \A k \in 1 .. n : y[k] = p[k]
  BY <1>3, <1>b DEF LongerPath
<1>5. /\ Len(buf'.done) = m + 1 /\ Len(q) = m + 1 /\ q[m + 1].from = [text |-> b.text, sels |-> b.cursors]
      /\ q[m + 1].to.text = buf'.text /\ q[m + 1].to.sels = (buf'.done)[m + 1].after
      /\ \A k \in 1 .. m : q[k] = y[k]
  BY <1>c DEF LongerPath
<1>6. m + 1 = n + 2 /\ n + 1 \in 1 .. m /\ n + 2 \in 1 .. n + 2 /\ n <= n + 2 BY <1>4, <1>a
<1>7. \A k \in 1 .. n : q[k] = p[k]
  <2>1. \A k \in 1 .. n : k \in 1 .. m BY <1>4, <1>a
  <2>2. QED BY <1>4, <1>5, <2>1
<1>8. SubSeq(q, 1, n) = SubSeq(p, 1, n)
  <2>1. n <= Len(q) /\ n <= Len(p) BY <1>4, <1>5, <1>6
  <2>2. QED BY <1>a, <1>7, <2>1, SameBeginning
<1>9. q[n + 1] = y[n + 1] BY <1>5, <1>6
<1>10. q[n + 1].to = [text |-> b.text, sels |-> b.cursors]
  <2>1. n + 1 \in 1 .. Len(y) BY <1>4, <1>a
  <2>2. y[n + 1] \in Step BY <1>a, <2>1, SeqIs
  <2>3. y[n + 1].to.text = b.text /\ y[n + 1].to.sels = b.cursors BY <1>2, <1>4
  <2> DEFINE x == y[n + 1].to
  <2>4. x \in Document BY <2>2 DEF Step
  <2>5. x.text = b.text /\ x.sels = b.cursors BY <2>3
  <2> HIDE DEF x
  <2>6. x = [text |-> b.text, sels |-> b.cursors] BY <2>4, <2>5 DEF Document
  <2>7. QED BY <1>9, <2>6 DEF x
<1>11. q[n + 2] = [from |-> q[n + 1].to, to |-> [text |-> buf'.text, sels |-> buf'.cursors]]
  <2>1. q[n + 2] \in Step BY <1>5, <1>6, <1>a, SeqIs
  <2> DEFINE z == q[n + 2]
  <2>2. z \in Step BY <2>1
  <2>3. z.from = q[n + 1].to BY <1>5, <1>6, <1>10
  <2>4. z.to.text = buf'.text /\ z.to.sels = buf'.cursors BY <1>2, <1>5, <1>6
  <2> HIDE DEF z
  <2>5. z.to = [text |-> buf'.text, sels |-> buf'.cursors] BY <2>2, <2>4 DEF Step, Document
  <2>6. z = [from |-> q[n + 1].to, to |-> [text |-> buf'.text, sels |-> buf'.cursors]]
    BY <2>2, <2>3, <2>5 DEF Step
  <2>7. QED BY <2>6 DEF z
<1>12. \E i \in DOMAIN buf.cursors : buf.cursors[i].anchor # buf.cursors[i].head
  <2>1. 1 \in DOMAIN buf.cursors BY FirstSel
  <2>2. QED BY <2>1 DEF IsEmpty, Sel
<1>13. Len(q) = n + 2 /\ Len(buf'.done) = n + 2 BY <1>5, <1>6
<1>14. q[n + 1].from = [text |-> buf.text, sels |-> buf.cursors] BY <1>4, <1>9
<1>15. QED BY <1>8, <1>11, <1>12, <1>13, <1>14 DEF Timeline!StepsTwice, Timeline!Past, p, q, n

LEMMA TimelineUndoes ==
    ASSUME NEW X, Lines(X, X), Within(buf, X), buf.done # <<>>, buf' = Undone(buf)
    PROVE  Timeline!Undoes
<1> DEFINE p == StepsOf(buf)
           q == StepsOf(buf')
           n == Len(buf.done)
<1>1. buf \in Buf /\ Line(buf, X) /\ p = Path(buf, X) /\ q = Path(buf', X) BY Paths
<1>2. /\ buf'.text = X[n - 1] /\ buf'.cursors = OrStart(buf.done[n].before)
      /\ Total(buf') = Total(buf) /\ Len(buf'.done) = n - 1
      /\ \A k \in 1 .. Total(buf) : Grp(buf', k) = Grp(buf, k)
  BY <1>1, UndoneIs
<1>3. q = p BY <1>1, <1>2, SamePath
<1>4. n \in Nat \ {0} /\ n <= Total(buf) /\ Total(buf) \in Nat
  <2>1. buf.done \in Seq(Group) BY <1>1, BufIs
  <2>2. QED BY <1>1, <2>1, EmptySeq, StackIs
<1>5. n \in 1 .. Total(buf) /\ n \in 1 .. n BY <1>4
<1>6. Grp(buf, n) = buf.done[n] BY <1>1, <1>5, StackIs
<1> HIDE DEF q, n
<1>7. p[n] = StepAt(buf, X, n) BY <1>1, <1>5, PathFields
<1>8. OrStart(buf.done[n].before) = buf.done[n].before
  <2>1. Inside(buf.done[n].before, Len(X[n - 1])) BY <1>5, <1>6 DEF Within
  <2>2. QED BY <2>1 DEF Inside, OrStart
<1>9. p[n].from = [text |-> buf'.text, sels |-> buf'.cursors] BY <1>2, <1>6, <1>7, <1>8 DEF StepAt
<1> HIDE DEF p
<1>10. n > 0 BY <1>4
<1>11. QED BY <1>2, <1>3, <1>9, <1>10 DEF Timeline!Undoes, p, q, n

LEMMA TimelineRedoes ==
    ASSUME NEW X, Lines(X, X), Within(buf, X), buf.undone # <<>>, buf' = Redone(buf)
    PROVE  Timeline!Redoes
<1> DEFINE p == StepsOf(buf)
           q == StepsOf(buf')
           n == Len(buf.done)
           g == Grp(buf, n + 1)
<1>1. buf \in Buf /\ Line(buf, X) /\ p = Path(buf, X) /\ q = Path(buf', X) BY Paths
<1>2. /\ buf'.text = X[n + 1] /\ buf'.cursors = OrStart(g.after)
      /\ Total(buf') = Total(buf) /\ Len(buf'.done) = n + 1 /\ n + 1 \in 1 .. Total(buf)
      /\ \A k \in 1 .. Total(buf) : Grp(buf', k) = Grp(buf, k)
  BY <1>1, RedoneIs
<1>3. q = p BY <1>1, <1>2, SamePath
<1>4. n \in Nat /\ Total(buf) \in Nat BY <1>1, StackIs
<1> HIDE DEF q, n
<1>5. p[n + 1] = StepAt(buf, X, n + 1) /\ Len(p) = Total(buf) BY <1>1, <1>2, PathFields
<1>6. OrStart(g.after) = g.after
  <2>1. Inside(g.after, Len(X[n + 1])) BY <1>2 DEF Within
  <2>2. QED BY <2>1 DEF Inside, OrStart
<1>7. p[n + 1].to = [text |-> buf'.text, sels |-> buf'.cursors] BY <1>2, <1>5, <1>6 DEF StepAt
<1> HIDE DEF p
<1>8. n < Len(p) BY <1>2, <1>4, <1>5
<1>9. QED BY <1>2, <1>3, <1>7, <1>8 DEF Timeline!Redoes, p, q, n

LEMMA GoodLines ==
    ASSUME NEW X, NEW t, NEW s, Good(buf, t, X, s), NEW Z, NEW u, NEW r, Good(buf', u, Z, r)
    PROVE  Lines(X, Z)
BY DEF Good, Shape, Lines

\* A batch, whether or not its ranges overlap.
LEMMA TimelineBatch ==
    ASSUME NEW X, Good(buf, clangd, X, strayed), NEW b, NEW e, Batched(b, e)
    PROVE  Timeline!Next \/ buf' = buf
<1>1. Ready /\ Bounded(b) /\ Sound(buf.text, e) BY DEF Batched, Changes
<1>2. /\ buf \in Buf /\ Line(buf, X) /\ Within(buf, X) /\ Fine(buf) BY <1>1, Reached DEF Ready
<1>3. /\ b \in Buf /\ b.text = buf.text /\ b.cursors = buf.cursors /\ b.done = buf.done /\ b.undone = buf.undone
  BY <1>1, <1>2, BoundedIs
<1>4. CASE buf' = buf BY <1>4
<1>5. CASE /\ buf' = After(b, e) /\ Good(buf', clangd', Onward(X, e.plans, buf'), strayed')
           /\ crashed' = crashed /\ Applied(b.text, e.plans).ok
  <2> DEFINE c == After(b, e)
             Z == Onward(X, e.plans, c)
  <2>1. buf' = c /\ Good(buf', clangd', Z, strayed') BY <1>5
  <2>2. c = Transacted(b, e.plans, e.sels, e.coalesce) BY DEF After
  <2> HIDE DEF c
  <2>3. Lines(X, Z) BY <2>1, GoodLines
  <2>4. Sound(b.text, e) /\ Applied(b.text, e.plans).ok BY <1>1, <1>3, <1>5
  <2>5. e.sels \in Seq(Selection) BY <2>4 DEF Sound
  <2>6. Stays(b, X, c, Z) \/ Adds(b, X, c, Z) \/ Widens(b, X, c, Z)
    <3>1. CASE e.plans = <<>> BY <1>3, <2>2, <2>5, <3>1, NothingLeads
    <3>2. CASE e.plans # <<>> BY <1>3, <2>2, <2>4, <3>2, TransactedLeads
    <3>3. QED BY <3>1, <3>2
  <2>7. Stays(buf, X, buf', Z) \/ Adds(buf, X, buf', Z) \/ Widens(buf, X, buf', Z)
    BY <1>3, <2>1, <2>6 DEF Stays, Adds, Widens
  <2> HIDE DEF Z
  <2>8. QED BY <2>3, <2>7, TimelineMoves, TimelineSteps, TimelineLengthens DEF Timeline!Next
<1>6. QED BY <1>4, <1>5, BatchedKeeps

LEMMA TimelineCloses ==
    ASSUME NEW X, Good(buf, clangd, X, strayed), NEW ch \in Char, Closes(ch)
    PROVE  Timeline!Next
<1> DEFINE e == Typing(ch)
           b == After(buf, e)
           Y == Onward(X, e.plans, b)
           Z == AlignedLine(b, Y)
<1>1. e = Typing(ch) /\ b = After(buf, e) /\ Y = Onward(X, e.plans, b) /\ Z = AlignedLine(b, Y) OBVIOUS
<1> HIDE DEF e, b, Y, Z
<1>2. Good(buf', clangd', Z, FALSE)
  <2>1. b = After(buf, Typing(ch)) BY <1>1
  <2>2. Good(buf', clangd', AlignedLine(b, Onward(X, Typing(ch).plans, b)), FALSE) BY <2>1, ClosesKeeps
  <2>3. QED BY <1>1, <2>2
<1>3. Lines(X, Z) BY <1>2, GoodLines
<1>4. \/ Adds(buf, X, buf', Z) \/ Widens(buf, X, buf', Z)
      \/ ~IsEmpty(Sel) /\ Twice(buf, X, b, Y, buf', Z)
  BY <1>1, ClosesLeads
<1>5. Ready BY DEF Closes
<1>6. Fine(buf) BY <1>5, Reached DEF Ready
<1>7. CASE Adds(buf, X, buf', Z) BY <1>3, <1>7, TimelineSteps DEF Timeline!Next
<1>8. CASE Widens(buf, X, buf', Z) BY <1>3, <1>8, TimelineLengthens DEF Timeline!Next
<1>9. CASE ~IsEmpty(Sel) /\ Twice(buf, X, b, Y, buf', Z)
  BY <1>3, <1>6, <1>9, TimelineStepsTwice DEF Timeline!Next
<1>10. QED BY <1>4, <1>7, <1>8, <1>9

LEMMA TimelineLands ==
    ASSUME NEW X, Good(buf, clangd, X, strayed), NEW a, NEW e, Lands(X, a, e)
    PROVE  Timeline!Next
<1> DEFINE b == After(a, e)
           Z == Onward(X, e.plans, b)
<1>1. /\ Good(buf', clangd', Z, FALSE) /\ Turned(b, buf') /\ ~strayed /\ Bounded(a)
      /\ Sound(buf.text, e) /\ Applied(buf.text, e.plans).ok /\ e.plans # <<>>
  BY DEF Lands
<1>2. buf \in Buf /\ Line(buf, X) /\ Within(buf, X) /\ Fine(buf) BY <1>1 DEF Good, Shape
<1>3. /\ a \in Buf /\ a.text = buf.text /\ a.cursors = buf.cursors /\ a.done = buf.done /\ a.undone = buf.undone
  BY <1>1, <1>2, BoundedIs
<1>4. b = Transacted(a, e.plans, e.sels, e.coalesce) BY DEF After
<1> HIDE DEF b
<1>5. Sound(a.text, e) /\ Applied(a.text, e.plans).ok BY <1>1, <1>3
<1>6. Adds(a, X, b, Z) \/ Widens(a, X, b, Z) BY <1>1, <1>3, <1>4, <1>5, TransactedLeads
<1> HIDE DEF Z
<1>7. Adds(buf, X, buf', Z) \/ Widens(buf, X, buf', Z) BY <1>1, <1>3, <1>6 DEF Turned, Adds, Widens
<1>8. Lines(X, Z) BY <1>1, GoodLines
<1>9. QED BY <1>7, <1>8, TimelineSteps, TimelineLengthens DEF Timeline!Next

LEMMA TimelineInit == Init => Timeline!Init
<1> SUFFICES ASSUME Init PROVE Timeline!Init OBVIOUS
<1>1. PICK text \in Texts : buf = NewBuffer(text) BY DEF Init
<1>2. text \in Seq(Char) BY TextsAreTexts
<1> DEFINE X == [k \in 0 .. 0 |-> text]
           p == Path(buf, X)
<1>3. buf.done = <<>> /\ buf.undone = <<>> /\ Good(buf, text, X, FALSE) BY <1>1, <1>2, NewBufferIs
<1> HIDE DEF X
<1>4. buf \in Buf /\ Line(buf, X) BY <1>3 DEF Good, Shape
<1>5. StepsOf(buf) = p BY <1>4, PathIs
<1>6. Total(buf) = 0 /\ Len(buf.done) = 0 BY <1>3 DEF Total
<1>7. p \in Seq(Step) /\ Len(p) = 0 BY <1>4, <1>6, PathFields
<1> HIDE DEF p
<1>8. p = <<>> BY <1>7, EmptySeq
<1>9. QED BY <1>5, <1>6, <1>8 DEF Timeline!Init

LEMMA TimelineStep == Inv /\ [Next]_vars => [Timeline!Next]_(Timeline!timeline)
<1> SUFFICES ASSUME Inv, [Next]_vars PROVE [Timeline!Next]_(Timeline!timeline) OBVIOUS
<1>1. PICK X : Good(buf, clangd, X, strayed) BY DEF Inv
<1>0. Bar BY DEF Inv
<1>2. ASSUME buf' = buf PROVE UNCHANGED Timeline!timeline BY <1>2 DEF Timeline!timeline
<1>3. CASE Edits
  <2>1. Fine(buf) BY <1>1, <1>3, EditsReady, Reached DEF Ready
  <2>2. Missed => buf' = buf BY DEF Missed, Misses, Panics
  <2>3. Timeline!Next \/ buf' = buf
    BY <1>0, <1>1, <1>3, <2>1, <2>2, EditsAre, TimelineBatch, TimelineCloses, TimelineLands
  <2>4. QED BY <1>2, <2>3
<1>4. CASE Undo \/ Redo
  <2>1. /\ Good(buf', clangd', X, FALSE) /\ ~strayed
        /\ (Undo /\ buf.done # <<>> /\ buf' = Undone(buf)) \/ (Redo /\ buf.undone # <<>> /\ buf' = Redone(buf))
    BY <1>1, <1>4, HistoryKeeps
  <2>2. Lines(X, X) /\ Within(buf, X)
    <3>1. Lines(X, X) BY <1>1, <2>1, GoodLines
    <3>2. QED BY <1>1, <2>1, <3>1 DEF Good
  <2>3. QED BY <2>1, <2>2, TimelineUndoes, TimelineRedoes DEF Timeline!Next
<1>5. ASSUME Good(buf', clangd', X, FALSE), Stays(buf, X, buf', X) PROVE Timeline!Next
  <2>1. Lines(X, X) BY <1>1, <1>5, GoodLines
  <2>2. QED BY <1>5, <2>1, TimelineMoves DEF Timeline!Next
<1>6. CASE Save \/ Carets \/ TimePasses
  <2>1. Good(buf', clangd', X, FALSE) /\ Stays(buf, X, buf', X)
    BY <1>1, <1>6, SaveKeeps, MovesKeep DEF Turned, Stays
  <2>2. QED BY <1>5, <2>1
<1>7. CASE Finds
  <2>1. Missed => buf' = buf BY DEF Missed, Misses, Panics
  <2>2. buf' = buf \/ (Good(buf', clangd', X, FALSE) /\ Stays(buf, X, buf', X))
    BY <1>0, <1>1, <1>7, <2>1, FindsKeep DEF Turned, Stays
  <2>3. QED BY <1>2, <1>5, <2>2
<1>8. CASE UNCHANGED vars BY <1>2, <1>8 DEF vars
<1>9. QED BY <1>3, <1>4, <1>6, <1>7, <1>8 DEF Next

\* The stacks of operations implement UndoTimeline: undo and redo lead to the very texts
\* and selections that were there, an edit after an undo forgets what could be redone,
\* and a group that grows keeps where it started (transact, Recorded, undo, redo).
THEOREM StacksKeepTheTimeline == Spec => KeepsTimeline
<1>1. Init => Timeline!Init BY TimelineInit
<1>2. Inv /\ [Next]_vars => [Timeline!Next]_(Timeline!timeline) BY TimelineStep
<1>3. QED BY <1>1, <1>2, InvInit, InvStep, PTL DEF Spec, KeepsTimeline, Timeline!Spec

-----------------------------------------------------------------------------
(* Versions.                                                               *)

\* b is a record with the fields of a buffer, and counts its versions.
IsBuffer(b) ==
    /\ b = [text |-> b.text, cursors |-> b.cursors, version |-> b.version,
            saved |-> b.saved, done |-> b.done, undone |-> b.undone,
            boundary |-> b.boundary, recent |-> b.recent, kind |-> b.kind,
            carets |-> b.carets]
    /\ b.version \in Nat

\* c comes after b: it is newer, or has the same text.
Follows(b, c) ==
    /\ IsBuffer(b) /\ IsBuffer(c)
    /\ c.saved = b.saved
    /\ \/ c.version = b.version /\ c.text = b.text
       \/ c.version > b.version

\* The version on disk is not newer than the buffer's.
SavedInv ==
    /\ IsBuffer(buf)
    /\ buf.saved \in Nat /\ buf.saved <= buf.version
    /\ CleanIsSaved

-----------------------------------------------------------------------------
(* The operations of the buffer.                                           *)

LEMMA FollowsTransitive ==
    ASSUME NEW a, NEW b, NEW c, Follows(a, b), Follows(b, c)
    PROVE Follows(a, c)
BY DEF Follows, IsBuffer

LEMMA RecordFollows ==
    ASSUME NEW b, IsBuffer(b), NEW text, NEW cursors, NEW done, NEW undone,
           NEW boundary, NEW recent, NEW kind, NEW carets
    PROVE Follows(b, [text |-> text, cursors |-> cursors, version |-> b.version + 1,
                      saved |-> b.saved, done |-> done, undone |-> undone,
                      boundary |-> boundary, recent |-> recent, kind |-> kind,
                      carets |-> carets])
BY DEF Follows, IsBuffer

LEMMA BoundaryFollows ==
    ASSUME NEW b, IsBuffer(b), NEW boundary
    PROVE Follows(b, [b EXCEPT !.boundary = boundary])
<1> DEFINE c == [b EXCEPT !.boundary = boundary]
<1>1. IsBuffer(c) BY DEF IsBuffer
<1>2. c.saved = b.saved BY DEF IsBuffer
<1>3. c.version = b.version BY DEF IsBuffer
<1>4. c.text = b.text BY DEF IsBuffer
<1> HIDE DEF c
<1>5. QED BY <1>1, <1>2, <1>3, <1>4 DEF Follows, IsBuffer

LEMMA TransactedFollows ==
    ASSUME NEW b, NEW plans, NEW sels, NEW coalesce, IsBuffer(b)
    PROVE Follows(b, Transacted(b, plans, sels, coalesce))
<1> DEFINE c == Transacted(b, plans, sels, coalesce)
<1>1. CASE plans = <<>>
  <2>1. c = [b EXCEPT !.cursors = OrStart(sels)] BY <1>1 DEF Transacted
  <2>2. QED BY <2>1 DEF Follows, IsBuffer
<1>2. CASE plans # <<>>
  BY <1>2, RecordFollows DEF Transacted
<1>3. QED BY <1>1, <1>2

LEMMA AlignedFollows ==
    ASSUME NEW b, IsBuffer(b)
    PROVE Follows(b, Aligned(b))
<1> DEFINE shift == Alignment(b)
           c == Transacted(b, shift.plans, shift.sels, TRUE)
<1>1. Follows(b, c) BY TransactedFollows
<1>2. QED BY <1>1 DEF Aligned, Follows, IsBuffer

\* Undo and redo make a version of their own.
LEMMA UndoneFollows ==
    ASSUME NEW b, IsBuffer(b)
    PROVE Follows(b, Undone(b)) /\ Follows(b, Redone(b))
BY RecordFollows DEF Undone, Redone, Closed

-----------------------------------------------------------------------------
(* The actions.                                                            *)

LEMMA ChangesFollows ==
    ASSUME NEW b, NEW edit, Follows(buf, b), Changes(b, edit)
    PROVE Follows(buf, buf') /\ disk' = disk
<1>1. CASE Applied(b.text, edit.plans).ok
  <2>1. buf' = Transacted(b, edit.plans, edit.sels, edit.coalesce) /\ disk' = disk
    BY <1>1 DEF Changes, Leaves, After
  <2>2. Follows(b, buf') BY <2>1, TransactedFollows DEF Follows
  <2>3. QED BY <2>1, <2>2, FollowsTransitive
<1>2. CASE ~Applied(b.text, edit.plans).ok
  BY <1>2 DEF Changes, Panics, Follows
<1>3. QED BY <1>1, <1>2

LEMMA TypesFollows ==
    ASSUME IsBuffer(buf), NEW ch, Types(ch)
    PROVE Follows(buf, buf') /\ disk' = disk
<1> DEFINE edit == Replaces(Lo(Sel), Hi(Sel), <<ch>>, TRUE)
           typed == After(buf, edit)
<1>1. CASE ch = "}" /\ Aligns(typed)
  <2>1. buf' = Aligned(typed) /\ disk' = disk BY <1>1 DEF Types
  <2>2. Follows(buf, typed) BY TransactedFollows DEF After
  <2>3. Follows(typed, Aligned(typed)) BY <2>2, AlignedFollows DEF Follows
  <2>4. QED BY <2>1, <2>2, <2>3, FollowsTransitive
<1>2. CASE ~(ch = "}" /\ Aligns(typed))
  <2>1. Changes(buf, edit) BY <1>2 DEF Types
  <2>2. QED BY <2>1, ChangesFollows DEF Follows
<1>3. QED BY <1>1, <1>2

LEMMA FoundFollows ==
    ASSUME NEW b, IsBuffer(b), NEW from
    PROVE Follows(b, Found(b, from))
<1>1. ASSUME NEW sels PROVE Follows(b, [b EXCEPT !.cursors = sels]) BY DEF Follows, IsBuffer
<1>2. Follows(b, b) BY DEF Follows
<1>3. QED BY <1>1, <1>2 DEF Found

LEMMA MissesFollow ==
    ASSUME IsBuffer(buf), Misses
    PROVE Follows(buf, buf') /\ disk' = disk
BY DEF Misses, Panics, Follows

LEMMA FindReplaceCurrentFollows ==
    ASSUME IsBuffer(buf), NEW i, NEW text, FindReplaceCurrent(i, text)
    PROVE Follows(buf, buf') /\ disk' = disk
<1> DEFINE b == After(buf, Replaces(i, i + 1, text, FALSE))
<1>1. Follows(buf, b) BY TransactedFollows DEF After
<1>2. CASE Misses BY <1>2, MissesFollow
<1>3. CASE ~Misses
  <2>1. buf' = Found(b, i + Len(text)) /\ disk' = disk BY <1>3 DEF FindReplaceCurrent, Leaves
  <2>2. IsBuffer(b) BY <1>1 DEF Follows
  <2> HIDE DEF b
  <2>3. Follows(b, Found(b, i + Len(text))) BY <2>2, FoundFollows
  <2>4. QED BY <1>1, <2>1, <2>3, FollowsTransitive
<1>4. QED BY <1>2, <1>3

LEMMA AcceptStubFollows ==
    ASSUME IsBuffer(buf), NEW n, NEW text, AcceptStub(n, text)
    PROVE Follows(buf, buf') /\ disk' = disk
<1> DEFINE b == After(buf, Replaces(StubStart, Sel.head, text, FALSE))
<1>1. Follows(buf, b) BY TransactedFollows DEF After
<1>2. disk' = disk /\ buf' = [b EXCEPT !.cursors = <<At(StubStart + n)>>] BY DEF AcceptStub, Leaves
<1> HIDE DEF b
<1>3. QED BY <1>1, <1>2 DEF Follows, IsBuffer

LEMMA SyncApplyFollows ==
    ASSUME IsBuffer(buf), NEW ch, NEW text, SyncApply(ch, text)
    PROVE Follows(buf, buf') /\ disk' = disk
<1> DEFINE b == [buf EXCEPT !.boundary = TRUE]
           edit == Everywhere({i \in 0 .. Len(buf.text) - 1 : buf.text[i + 1] = ch}, 1, text)
<1>1. Follows(buf, b) BY BoundaryFollows
<1>2. Changes(b, edit) BY DEF SyncApply
<1> HIDE DEF b, edit
<1>3. QED BY <1>1, <1>2, ChangesFollows

LEMMA SyncRewriteFollows ==
    ASSUME IsBuffer(buf), NEW n, NEW m, SyncRewrite(n, m)
    PROVE Follows(buf, buf') /\ disk' = disk
<1> DEFINE b == [buf EXCEPT !.boundary = TRUE]
           edit == Everywhere(Words(buf.text, n), n, Word(m))
<1>1. Follows(buf, b) BY BoundaryFollows
<1>2. buf' = Transacted(b, edit.plans, edit.sels, edit.coalesce) /\ disk' = disk BY DEF SyncRewrite, After
<1> HIDE DEF b, edit
<1>3. Follows(b, buf') BY <1>1, <1>2, TransactedFollows DEF Follows
<1>4. QED BY <1>1, <1>2, <1>3, FollowsTransitive

LEMMA EditsFollow ==
    ASSUME IsBuffer(buf), Edits
    PROVE Follows(buf, buf') /\ disk' = disk
<1>1. ASSUME NEW edit, Changes(buf, edit) PROVE Follows(buf, buf') /\ disk' = disk
  BY <1>1, ChangesFollows DEF Follows
<1>2. ASSUME NEW ch, Types(ch) PROVE Follows(buf, buf') /\ disk' = disk
  BY <1>2, TypesFollows
<1>3. ASSUME NEW n, NEW ch, Composes(n, ch) PROVE Follows(buf, buf') /\ disk' = disk
  BY <1>3, <1>1 DEF Composes
<1>4. CASE Backspace \/ DeleteKey \/ DeleteWord \/ Cut \/ DeleteLine
  BY <1>4, <1>1 DEF Backspace, DeleteKey, DeleteWord, Cut, DeleteLine
<1>5. CASE Enter \/ TabKey \/ ShiftTab
  BY <1>5, <1>1 DEF Enter, TabKey, ShiftTab
<1>6. ASSUME NEW text, Paste(text) \/ \E s, e : AcceptCompletion(s, e, text)
      PROVE Follows(buf, buf') /\ disk' = disk
  BY <1>6, <1>1 DEF Paste, AcceptCompletion
<1>7. ASSUME NEW text, FindReplaceAll(text) PROVE Follows(buf, buf') /\ disk' = disk
  BY <1>7, <1>1, MissesFollow DEF FindReplaceAll
<1>8. QED
  BY <1>2, <1>3, <1>4, <1>5, <1>6, <1>7, FindReplaceCurrentFollows, AcceptStubFollows, SyncApplyFollows,
     SyncRewriteFollows DEF Edits

LEMMA FindsFollow ==
    ASSUME IsBuffer(buf), Finds
    PROVE Follows(buf, buf') /\ disk' = disk
<1>1. CASE FindOpens BY <1>1, FoundFollows DEF FindOpens
<1>2. ASSUME NEW i, FindNext(i) PROVE Follows(buf, buf') /\ disk' = disk
  <2>1. CASE Misses BY <2>1, MissesFollow
  <2>2. CASE ~Misses
    <3>1. buf' = [buf EXCEPT !.cursors = <<[anchor |-> i, head |-> i + 1]>>] /\ disk' = disk
      BY <1>2, <2>2 DEF FindNext
    <3>2. QED BY <3>1 DEF Follows, IsBuffer
  <2>3. QED BY <2>1, <2>2
<1>3. QED BY <1>1, <1>2 DEF Finds

LEMMA CaretsFollow ==
    ASSUME IsBuffer(buf), Carets \/ TimePasses
    PROVE Follows(buf, buf') /\ disk' = disk
<1>1. disk' = disk
  BY DEF Carets, Selects, ArrowKeys, TimePasses, OnlyTheBuffer
<1>2. PICK cursors, recent : buf' = [[buf EXCEPT !.cursors = cursors] EXCEPT !.recent = recent]
  <2>1. ASSUME NEW sels, buf' = [buf EXCEPT !.cursors = sels]
        PROVE buf' = [[buf EXCEPT !.cursors = sels] EXCEPT !.recent = buf.recent]
    BY <2>1 DEF IsBuffer
  <2>2. CASE TimePasses
    <3>1. buf' = [[buf EXCEPT !.cursors = buf.cursors] EXCEPT !.recent = FALSE]
      BY <2>2 DEF TimePasses, IsBuffer
    <3>2. QED BY <3>1
  <2>3. ASSUME NEW anchor, NEW head, Selects(anchor, head)
        PROVE \E sels : buf' = [buf EXCEPT !.cursors = sels]
    BY <2>3 DEF Selects
  <2>4. CASE ArrowKeys
    <3>1. \E sels : buf' = [buf EXCEPT !.cursors = sels]
      BY <2>4 DEF ArrowKeys, Stepped, Moved
    <3>2. QED BY <3>1, <2>1
  <2>5. QED BY <2>1, <2>2, <2>3, <2>4 DEF Carets
<1>3. QED BY <1>1, <1>2 DEF Follows, IsBuffer

\* An operation that follows the buffer keeps the version on disk what it was.
LEMMA FollowsKeeps ==
    ASSUME SavedInv, Follows(buf, buf'), disk' = disk
    PROVE SavedInv'
BY DEF SavedInv, Follows, IsBuffer, CleanIsSaved

LEMMA SavedInit == Init => SavedInv
BY DEF Init, NewBuffer, SavedInv, IsBuffer, CleanIsSaved

LEMMA SavedStep == SavedInv /\ [Next]_vars => SavedInv'
<1> SUFFICES ASSUME SavedInv, [Next]_vars PROVE SavedInv' OBVIOUS
<1>0. IsBuffer(buf) BY DEF SavedInv
<1>1. CASE Edits BY <1>0, <1>1, EditsFollow, FollowsKeeps
<1>2. CASE Undo \/ Redo
  <2>1. (buf' = Undone(buf) \/ buf' = Redone(buf)) /\ disk' = disk
    BY <1>2 DEF Undo, Redo, History
  <2>2. QED BY <1>0, <2>1, UndoneFollows, FollowsKeeps
<1>3. CASE Save
  BY <1>3 DEF Save, SavedInv, IsBuffer, CleanIsSaved
<1>4. CASE Carets \/ TimePasses BY <1>0, <1>4, CaretsFollow, FollowsKeeps
<1>5. CASE Finds BY <1>0, <1>5, FindsFollow, FollowsKeeps
<1>6. CASE UNCHANGED vars BY <1>6 DEF vars, SavedInv, IsBuffer, CleanIsSaved
<1>7. QED BY <1>1, <1>2, <1>3, <1>4, <1>5, <1>6 DEF Next

\* A tab without the dirty dot shows what is on disk, whatever was typed, undone and
\* redone since it was saved (is_dirty, mark_saved).
THEOREM CleanTabsAreSaved == Spec => []CleanIsSaved
<1>1. SavedInv => CleanIsSaved BY DEF SavedInv
<1>2. QED BY <1>1, SavedInit, SavedStep, PTL DEF Spec
=============================================================================
