--------------------------- MODULE WorkspaceProofs ---------------------------
(***************************************************************************)
(* Proofs about Workspace: for any files, folders and bounds, one buffer   *)
(* holds a file, clangd holds the text of what is open, and an unsaved     *)
(* text goes only when the user gives it up.                               *)
(*                                                                         *)
(* A layout is the sequence of the editors of its panes, whichever of them *)
(* is the live one, so the operators of EditorPanes are first shown to be  *)
(* operations on that sequence.                                            *)
(***************************************************************************)
EXTENDS Workspace, SequenceTheorems, FiniteSetTheorems, WellFoundedInduction, TLAPS

-----------------------------------------------------------------------------
(* The inductive invariant.                                                *)

\* An editor: the active tab is one of its tabs, no file has two of them, and a
\* preview tab has no edits.
EditorIs(e) ==
    /\ e \in Editor
    /\ e.active \in DOMAIN e.tabs \/ (e.active = 0 /\ e.tabs = <<>>)
    /\ \A i, j \in DOMAIN e.tabs : e.tabs[i].path = e.tabs[j].path => i = j
    /\ \A i \in DOMAIN e.tabs : e.tabs[i].preview => ~Dirty(e.tabs[i])

\* Editors, no two of which hold the same file.
EditorsAre(E) ==
    /\ E \in Seq(Editor)
    /\ \A i \in DOMAIN E : EditorIs(E[i])
    /\ \A i, j \in DOMAIN E : i # j => PathsOf(E[i]) \cap PathsOf(E[j]) = {}

\* One slot is the live editor's.
Shape(l) ==
    /\ l \in [panes : Seq(Editor \cup {Live}), editor : Editor]
    /\ \E f \in Panes(l) : \A i \in Panes(l) : l.panes[i] = Live <=> i = f

EditorsOf(l) == [i \in Panes(l) |-> PaneEditor(l, i)]

LayoutIs(l) == Shape(l) /\ Len(l.panes) <= world.panes /\ EditorsAre(EditorsOf(l))

\* What is saved of an editor, and of a folder.
List == [paths : Seq(Files), active : Nat]
ListIs(b) ==
    /\ b \in List
    /\ b.active \in DOMAIN b.paths \/ (b.active = 0 /\ b.paths = <<>>)
    /\ \A i, j \in DOMAIN b.paths : b.paths[i] = b.paths[j] => i = j

ListsAre(B) ==
    /\ B \in Seq(List)
    /\ \A i \in DOMAIN B : ListIs(B[i])
    /\ \A i, j \in DOMAIN B : i # j => Range(B[i].paths) \cap Range(B[j].paths) = {}

BlobIs(b) ==
    /\ b \in [editor : List, focused : Nat \ {0}, panes : Seq(List)]
    /\ ListIs(b.editor) /\ ListsAre(b.panes) /\ Len(b.panes) <= world.panes

Docs == UNION {[P -> [text : Nat, version : Nat]] : P \in SUBSET Files}
Session == [state : {"starting", "up", "ended"}, docs : Docs]
Event == [name : {"ready", "exited"}, of : Nat]

Types ==
    /\ world \in Worlds
    /\ root \in Roots \cup {Nowhere} /\ projects \in Seq(Roots)
    /\ saved_ui \in [Roots -> [editor : List, focused : Nat \ {0}, panes : Seq(List)]]
    /\ sessions \in Seq(Session) /\ lsp \in 0 .. Len(sessions)
    /\ inbox \in Seq(Event) /\ init_started \in BOOLEAN
    /\ disk \in [Files -> Nat] /\ texts \in Nat /\ opens \in Nat /\ drifted \in BOOLEAN

\* Whatever holds tabs.
Buffers ==
    /\ LayoutIs(layout)
    /\ DOMAIN stash \subseteq Roots \ {root}
    /\ \A dir \in DOMAIN stash : LayoutIs(stash[dir])
    /\ \A dir \in Roots : BlobIs(saved_ui[dir])

\* A session that is not held has no document, a session that is has left
\* "starting", and without a session no tab is marked as opened.
Clangd ==
    /\ lsp # 0 => sessions[lsp].state # "starting"
    /\ \A i \in DOMAIN inbox :
         inbox[i].of \in DOMAIN sessions /\ sessions[inbox[i].of].state # "starting"
    /\ \A s \in DOMAIN sessions : s # lsp => sessions[s].docs = <<>>
    /\ lsp = 0 => \A t \in AllTabs(layout) : ~t.opened
    /\ ClangdFollows

IInv == Types /\ Buffers /\ Clangd

-----------------------------------------------------------------------------
(* Numbers and sequences.                                                  *)

\* A set of natural numbers has a least one.
LEMMA LeastNumber ==
    ASSUME NEW T, T \subseteq Nat, T # {}
    PROVE  \E x \in T : \A y \in T : x <= y
<1>1. IsWellFoundedOn(OpToRel(<, Nat), Nat)
  BY NatLessThanWellFounded
<1>2. PICK x \in T : \A y \in T : ~ (<<y, x>> \in OpToRel(<, Nat))
  BY <1>1, WFMin
<1>3. \A y \in T : ~(y < x)
  BY <1>2 DEF OpToRel
<1> QED
  BY <1>3

\* Induction, for the numbers that are in a set.
LEMMA Induction ==
    ASSUME NEW S, 0 \in S, \A n \in Nat : n \in S => n + 1 \in S
    PROVE  Nat \subseteq S
<1> SUFFICES ASSUME Nat \ S # {} PROVE FALSE
  OBVIOUS
<1>1. PICK x \in Nat \ S : \A y \in Nat \ S : x <= y
  BY LeastNumber
<1>2. x # 0 /\ x - 1 \in Nat /\ ~(x <= x - 1)
  BY <1>1
<1>3. x - 1 \in S
  BY <1>1, <1>2
<1> QED
  BY <1>1, <1>2, <1>3

LEMMA MinIsLeast ==
    ASSUME NEW T, T \subseteq Nat, T # {}
    PROVE  Min(T) \in T /\ \A y \in T : Min(T) <= y
<1>1. \E x \in T : \A y \in T : x =< y
  BY LeastNumber
<1> QED
  BY <1>1 DEF Min

LEMMA MinOfTwo ==
    ASSUME NEW a \in Nat, NEW b \in Nat
    PROVE  Min({a, b}) = IF a <= b THEN a ELSE b
<1>1. Min({a, b}) \in {a, b} /\ Min({a, b}) <= a /\ Min({a, b}) <= b
  BY MinIsLeast
<1> QED
  BY <1>1

\* The n-th smallest number exists.
LEMMA NthIs ==
    ASSUME NEW m \in Nat, NEW S \in SUBSET (1 .. m), NEW n \in 1 .. Cardinality(S)
    PROVE  Nth(S, n) \in S /\ Cardinality({j \in S : j <= Nth(S, n)}) = n
<1> DEFINE Below(R, i) == {j \in R : j <= i}
           Has(R, k) == \E i \in R : Cardinality(Below(R, i)) = k
           T == {k \in Nat : \A R \in SUBSET (1 .. k) :
                    IsFiniteSet(R) /\ \A q \in 1 .. Cardinality(R) : Has(R, q)}
<1>1. 0 \in T
  <2>1. ASSUME NEW R \in SUBSET (1 .. 0) PROVE R = {}
    OBVIOUS
  <2>2. IsFiniteSet({}) /\ Cardinality({}) = 0
    BY FS_EmptySet
  <2> QED
    BY <2>1, <2>2
<1>2. ASSUME NEW k \in Nat, k \in T PROVE k + 1 \in T
  <2> SUFFICES ASSUME NEW R \in SUBSET (1 .. k + 1)
               PROVE  IsFiniteSet(R) /\ \A q \in 1 .. Cardinality(R) : Has(R, q)
    OBVIOUS
  <2>1. CASE R \in SUBSET (1 .. k)
    BY <1>2, <2>1
  <2>2. CASE R \notin SUBSET (1 .. k)
    <3> DEFINE Q == R \ {k + 1}
    <3>1. Q \in SUBSET (1 .. k) /\ k + 1 \in R /\ k + 1 \notin Q /\ R = Q \cup {k + 1}
      BY <2>2
    <3>2. IsFiniteSet(Q) /\ \A q \in 1 .. Cardinality(Q) : Has(Q, q)
      BY <1>2, <3>1
    <3>3. IsFiniteSet(R) /\ Cardinality(R) = Cardinality(Q) + 1 /\ Cardinality(Q) \in Nat
      <4> HIDE DEF Q
      <4>1. /\ IsFiniteSet(Q \cup {k + 1})
            /\ Cardinality(Q \cup {k + 1}) = IF k + 1 \in Q THEN Cardinality(Q) ELSE Cardinality(Q) + 1
        BY <3>2, FS_AddElement
      <4>2. Cardinality(Q) \in Nat
        BY <3>2, FS_CardinalityType
      <4> QED
        BY <3>1, <4>1, <4>2
    <3>4. Below(R, k + 1) = R
      <4>1. \A j \in R : j <= k + 1
        OBVIOUS
      <4> QED
        BY <4>1
    <3>5. ASSUME NEW i \in Q PROVE Below(R, i) = Below(Q, i)
      BY <3>1
    <3> HIDE DEF Q, Below
    <3>6. ASSUME NEW q \in 1 .. Cardinality(R) PROVE Has(R, q)
      <4>1. CASE q = Cardinality(R)
        BY <3>1, <3>4, <4>1
      <4>2. CASE q # Cardinality(R)
        <5>1. q \in 1 .. Cardinality(Q)
          BY <3>3, <4>2
        <5>2. PICK i \in Q : Cardinality(Below(Q, i)) = q
          BY <3>2, <5>1
        <5> QED
          BY <3>1, <3>5, <5>2
      <4> QED
        BY <4>1, <4>2
    <3> QED
      BY <3>3, <3>6
  <2> QED
    BY <2>1, <2>2
<1> HIDE DEF T
<1>3. Nat \subseteq T
  BY <1>1, <1>2, Induction
<1>4. \E i \in S : Cardinality(Below(S, i)) = n
  BY <1>3 DEF T
<1> QED
  BY <1>4 DEF Nth

\* Different places in the order are different numbers.
LEMMA NthDiffers ==
    ASSUME NEW m \in Nat, NEW S \in SUBSET (1 .. m),
           NEW n \in 1 .. Cardinality(S), NEW o \in 1 .. Cardinality(S), Nth(S, n) = Nth(S, o)
    PROVE  n = o
<1>1. Cardinality({j \in S : j <= Nth(S, n)}) = n
  BY NthIs
<1>2. Cardinality({j \in S : j <= Nth(S, o)}) = o
  BY NthIs
<1> QED
  BY <1>1, <1>2

\* A sequence without its i-th element.
IsWithout(u, X, s, i) ==
    /\ u \in Seq(X) /\ DOMAIN u = 1 .. (Len(s) - 1) /\ Len(u) = Len(s) - 1
    /\ \A j \in 1 .. (Len(s) - 1) : u[j] = IF j < i THEN s[j] ELSE s[j + 1]

LEMMA RemovedAt ==
    ASSUME NEW X, NEW s \in Seq(X), NEW i \in DOMAIN s
    PROVE  IsWithout(RemoveAt(s, i), X, s, i)
<1>1. Len(s) \in Nat /\ DOMAIN s = 1 .. Len(s) /\ i \in 1 .. Len(s)
      /\ \A j \in 1 .. Len(s) : s[j] \in X
  BY LenProperties, ElementOfSeq
<1> DEFINE u == SubSeq(s, 1, i - 1)
           v == SubSeq(s, i + 1, Len(s))
<1>2. u \in Seq(X) /\ Len(u) = i - 1 /\ \A j \in 1 .. (i - 1) : u[j] = s[j]
  <2>1. \A j \in 1 .. (i - 1) : s[j] \in X
    BY <1>1
  <2>2. 1 \in Int /\ i - 1 \in Int
    BY <1>1
  <2>3. u \in Seq(X) /\ Len(u) = (IF 1 <= i - 1 THEN (i - 1) - 1 + 1 ELSE 0)
        /\ \A j \in 1 .. ((i - 1) - 1 + 1) : u[j] = s[1 + j - 1]
    BY <2>1, <2>2, SubSeqProperties
  <2> QED
    BY <1>1, <2>3
<1>3. v \in Seq(X) /\ Len(v) = Len(s) - i /\ \A j \in 1 .. (Len(s) - i) : v[j] = s[i + j]
  <2>1. \A j \in (i + 1) .. Len(s) : s[j] \in X
    BY <1>1
  <2>2. i + 1 \in Int /\ Len(s) \in Int
    BY <1>1
  <2>3. v \in Seq(X) /\ Len(v) = (IF i + 1 <= Len(s) THEN Len(s) - (i + 1) + 1 ELSE 0)
        /\ \A j \in 1 .. (Len(s) - (i + 1) + 1) : v[j] = s[(i + 1) + j - 1]
    BY <2>1, <2>2, SubSeqProperties
  <2> HIDE DEF v
  <2>4. /\ (IF i + 1 <= Len(s) THEN Len(s) - (i + 1) + 1 ELSE 0) = Len(s) - i
        /\ Len(s) - (i + 1) + 1 = Len(s) - i
        /\ \A j \in 1 .. (Len(s) - i) : (i + 1) + j - 1 = i + j
    BY <1>1
  <2> QED
    BY <2>3, <2>4
<1> HIDE DEF u, v
<1>4. /\ u \o v \in Seq(X) /\ Len(u \o v) = Len(u) + Len(v)
      /\ \A j \in 1 .. Len(u) + Len(v) :
           (u \o v)[j] = IF j <= Len(u) THEN u[j] ELSE v[j - Len(u)]
  BY <1>2, <1>3, ConcatProperties
<1>5. RemoveAt(s, i) = u \o v
  BY DEF RemoveAt, u, v
<1>6. Len(u \o v) = Len(s) - 1 /\ DOMAIN (u \o v) = 1 .. (Len(s) - 1)
  <2>1. DOMAIN (u \o v) = 1 .. Len(u \o v)
    BY <1>4, LenProperties
  <2> QED
    BY <1>1, <1>2, <1>3, <1>4, <2>1
<1>7. ASSUME NEW j \in 1 .. (Len(s) - 1)
      PROVE  (u \o v)[j] = IF j < i THEN s[j] ELSE s[j + 1]
  <2>1. j \in 1 .. Len(u) + Len(v)
    BY <1>1, <1>2, <1>3
  <2>2. CASE j < i
    BY <1>1, <1>2, <1>4, <2>1, <2>2
  <2>3. CASE ~(j < i)
    <3>1. (u \o v)[j] = v[j - (i - 1)]
      BY <1>1, <1>2, <1>4, <2>1, <2>3
    <3>2. j - (i - 1) \in 1 .. (Len(s) - i) /\ i + (j - (i - 1)) = j + 1
      BY <1>1, <2>3
    <3> QED
      BY <1>3, <2>3, <3>1, <3>2
  <2> QED
    BY <2>2, <2>3
<1> QED
  BY <1>4, <1>5, <1>6, <1>7 DEF IsWithout

\* A sequence with one more element, at i.
IsWith(u, X, s, i, x) ==
    /\ u \in Seq(X) /\ DOMAIN u = 1 .. (Len(s) + 1) /\ Len(u) = Len(s) + 1
    /\ \A j \in 1 .. (Len(s) + 1) :
         u[j] = IF j < i THEN s[j] ELSE IF j = i THEN x ELSE s[j - 1]

LEMMA InsertedAt ==
    ASSUME NEW X, NEW s \in Seq(X), NEW i \in 1 .. (Len(s) + 1), NEW x \in X
    PROVE  IsWith(InsertAt(s, i, x), X, s, i, x)
<1>1. Len(s) \in Nat /\ DOMAIN s = 1 .. Len(s) /\ i \in Nat \ {0} /\ i - 1 <= Len(s)
      /\ \A j \in 1 .. Len(s) : s[j] \in X
  BY LenProperties, ElementOfSeq
<1> DEFINE u == SubSeq(s, 1, i - 1)
           v == SubSeq(s, i, Len(s))
           w == <<x>>
<1>2. u \in Seq(X) /\ Len(u) = i - 1 /\ \A j \in 1 .. (i - 1) : u[j] = s[j]
  <2>1. \A j \in 1 .. (i - 1) : s[j] \in X
    BY <1>1
  <2>2. 1 \in Int /\ i - 1 \in Int
    BY <1>1
  <2>3. u \in Seq(X) /\ Len(u) = (IF 1 <= i - 1 THEN (i - 1) - 1 + 1 ELSE 0)
        /\ \A j \in 1 .. ((i - 1) - 1 + 1) : u[j] = s[1 + j - 1]
    BY <2>1, <2>2, SubSeqProperties
  <2> QED
    BY <1>1, <2>3
<1>3. v \in Seq(X) /\ Len(v) = Len(s) - i + 1 /\ \A j \in 1 .. (Len(s) - i + 1) : v[j] = s[i + j - 1]
  <2>1. \A j \in i .. Len(s) : s[j] \in X
    BY <1>1
  <2>2. i \in Int /\ Len(s) \in Int
    BY <1>1
  <2>3. v \in Seq(X) /\ Len(v) = (IF i <= Len(s) THEN Len(s) - i + 1 ELSE 0)
        /\ \A j \in 1 .. (Len(s) - i + 1) : v[j] = s[i + j - 1]
    BY <2>1, <2>2, SubSeqProperties
  <2> QED
    BY <1>1, <2>3
<1>4. w \in Seq(X) /\ Len(w) = 1 /\ w[1] = x
  OBVIOUS
<1> HIDE DEF u, v, w
<1>5. /\ u \o w \in Seq(X) /\ Len(u \o w) = Len(u) + Len(w)
      /\ \A j \in 1 .. Len(u) + Len(w) :
           (u \o w)[j] = IF j <= Len(u) THEN u[j] ELSE w[j - Len(u)]
  BY <1>2, <1>4, ConcatProperties
<1>6. u \o w \in Seq(X) /\ Len(u \o w) = i
      /\ \A j \in 1 .. i : (u \o w)[j] = IF j < i THEN s[j] ELSE x
  BY <1>1, <1>2, <1>4, <1>5
<1> DEFINE a == u \o w
<1> HIDE DEF a
<1>7. a \in Seq(X) /\ Len(a) = i /\ \A j \in 1 .. i : a[j] = IF j < i THEN s[j] ELSE x
  BY <1>6 DEF a
<1>8. /\ a \o v \in Seq(X) /\ Len(a \o v) = Len(a) + Len(v)
      /\ \A j \in 1 .. Len(a) + Len(v) :
           (a \o v)[j] = IF j <= Len(a) THEN a[j] ELSE v[j - Len(a)]
  BY <1>3, <1>7, ConcatProperties
<1>9. InsertAt(s, i, x) = a \o v
  BY DEF InsertAt, u, v, w, a
<1>10. Len(a \o v) = Len(s) + 1 /\ DOMAIN (a \o v) = 1 .. (Len(s) + 1)
  BY <1>1, <1>3, <1>7, <1>8, LenProperties
<1>11. ASSUME NEW j \in 1 .. (Len(s) + 1)
       PROVE  (a \o v)[j] = IF j < i THEN s[j] ELSE IF j = i THEN x ELSE s[j - 1]
  <2>1. j \in 1 .. Len(a) + Len(v)
    BY <1>1, <1>3, <1>7
  <2>2. CASE j <= i
    BY <1>1, <1>7, <1>8, <2>1, <2>2
  <2>3. CASE ~(j <= i)
    <3>1. (a \o v)[j] = v[j - i]
      BY <1>1, <1>7, <1>8, <2>1, <2>3
    <3>2. j - i \in 1 .. (Len(s) - i + 1) /\ i + (j - i) - 1 = j - 1
      BY <1>1, <2>3
    <3> QED
      BY <1>1, <1>3, <2>3, <3>1, <3>2
  <2> QED
    BY <2>2, <2>3
<1> QED
  BY <1>8, <1>9, <1>10, <1>11 DEF IsWith

\* What is left of a sequence without its i-th element, element by element.
PlacesWithout(u, s, i) ==
    /\ \A j \in DOMAIN u : \E k \in DOMAIN s :
         k # i /\ u[j] = s[k] /\ k = IF j < i THEN j ELSE j + 1
    /\ \A k \in DOMAIN s : k # i =>
         \E j \in DOMAIN u : u[j] = s[k] /\ k = IF j < i THEN j ELSE j + 1

LEMMA RemovedPlaces ==
    ASSUME NEW X, NEW s \in Seq(X), NEW i \in DOMAIN s
    PROVE  PlacesWithout(RemoveAt(s, i), s, i)
<1> DEFINE u == RemoveAt(s, i)
           n == Len(s)
<1>1. n \in Nat /\ DOMAIN s = 1 .. n /\ i \in 1 .. n
  BY LenProperties
<1> HIDE DEF u
<1>0. IsWithout(u, X, s, i)
  BY RemovedAt DEF u
<1> HIDE DEF n
<1>2. /\ u \in Seq(X) /\ DOMAIN u = 1 .. (n - 1)
      /\ Len(u) = n - 1
      /\ \A j \in 1 .. (n - 1) : u[j] = IF j < i THEN s[j] ELSE s[j + 1]
  BY <1>0 DEF IsWithout, n
<1>3. ASSUME NEW j \in DOMAIN u
      PROVE  \E k \in DOMAIN s : k # i /\ u[j] = s[k] /\ k = IF j < i THEN j ELSE j + 1
  <2>1. CASE j < i
    <3>1. j \in DOMAIN s /\ j # i /\ u[j] = s[j]
      BY <1>1, <1>2, <2>1
    <3> QED
      BY <2>1, <3>1
  <2>2. CASE ~(j < i)
    <3>1. j + 1 \in DOMAIN s /\ j + 1 # i /\ u[j] = s[j + 1]
      BY <1>1, <1>2, <2>2
    <3> QED
      BY <2>2, <3>1
  <2> QED
    BY <2>1, <2>2
<1>4. ASSUME NEW k \in DOMAIN s, k # i
      PROVE  \E j \in DOMAIN u : u[j] = s[k] /\ k = IF j < i THEN j ELSE j + 1
  <2>1. CASE k < i
    <3>1. k \in DOMAIN u /\ u[k] = s[k]
      BY <1>1, <1>2, <2>1
    <3> QED
      BY <2>1, <3>1
  <2>2. CASE ~(k < i)
    <3>1. k - 1 \in DOMAIN u /\ ~(k - 1 < i) /\ (k - 1) + 1 = k
      BY <1>1, <1>2, <1>4, <2>2
    <3>2. u[k - 1] = s[k]
      BY <1>2, <3>1
    <3> QED
      BY <3>1, <3>2
  <2> QED
    BY <2>1, <2>2
<1> QED
  BY <1>3, <1>4 DEF u, PlacesWithout

\* The same for a sequence with one more element.
PlacesWith(u, s, i, x) ==
    /\ i \in DOMAIN u /\ u[i] = x
    /\ \A j \in DOMAIN u : j # i =>
         \E k \in DOMAIN s : u[j] = s[k] /\ k = IF j < i THEN j ELSE j - 1
    /\ \A k \in DOMAIN s : \E j \in DOMAIN u : j # i /\ u[j] = s[k]

LEMMA InsertedPlaces ==
    ASSUME NEW X, NEW s \in Seq(X), NEW i \in 1 .. (Len(s) + 1), NEW x \in X
    PROVE  PlacesWith(InsertAt(s, i, x), s, i, x)
<1> DEFINE u == InsertAt(s, i, x)
           n == Len(s)
<1>1. n \in Nat /\ DOMAIN s = 1 .. n /\ i \in 1 .. (n + 1)
  BY LenProperties
<1> HIDE DEF u
<1>0. IsWith(u, X, s, i, x)
  BY InsertedAt DEF u
<1> HIDE DEF n
<1>2. /\ u \in Seq(X) /\ DOMAIN u = 1 .. (n + 1)
      /\ Len(u) = n + 1
      /\ \A j \in 1 .. (n + 1) : u[j] = IF j < i THEN s[j] ELSE IF j = i THEN x ELSE s[j - 1]
  BY <1>0 DEF IsWith, n
<1>3. i \in DOMAIN u /\ u[i] = x
  BY <1>1, <1>2
<1>4. ASSUME NEW j \in DOMAIN u, j # i
      PROVE  \E k \in DOMAIN s : u[j] = s[k] /\ k = IF j < i THEN j ELSE j - 1
  <2>1. CASE j < i
    <3>1. j \in DOMAIN s /\ u[j] = s[j]
      BY <1>1, <1>2, <2>1
    <3> QED
      BY <2>1, <3>1
  <2>2. CASE ~(j < i)
    <3>1. j - 1 \in DOMAIN s /\ u[j] = s[j - 1]
      BY <1>1, <1>2, <1>4, <2>2
    <3> QED
      BY <2>2, <3>1
  <2> QED
    BY <2>1, <2>2
<1>5. ASSUME NEW k \in DOMAIN s
      PROVE  \E j \in DOMAIN u : j # i /\ u[j] = s[k]
  <2>1. CASE k < i
    <3>1. k \in DOMAIN u /\ k # i /\ u[k] = s[k]
      BY <1>1, <1>2, <2>1
    <3> QED
      BY <3>1
  <2>2. CASE ~(k < i)
    <3>1. k + 1 \in DOMAIN u /\ ~(k + 1 < i) /\ k + 1 # i /\ (k + 1) - 1 = k
      BY <1>1, <1>2, <2>2
    <3>2. u[k + 1] = s[k]
      BY <1>2, <3>1
    <3> QED
      BY <3>1, <3>2
  <2> QED
    BY <2>1, <2>2
<1> QED
  BY <1>3, <1>4, <1>5 DEF u, PlacesWith

-----------------------------------------------------------------------------
(* One editor.                                                             *)

LEMMA EditorFields ==
    ASSUME NEW e \in Editor
    PROVE  /\ e.tabs \in Seq(Tab) /\ e.active \in Nat /\ Len(e.tabs) \in Nat
           /\ DOMAIN e.tabs = 1 .. Len(e.tabs)
           /\ \A i \in DOMAIN e.tabs : e.tabs[i] \in Tab /\ e.tabs[i].path \in Files
<1>1. e.tabs \in Seq(Tab) /\ e.active \in Nat
  BY DEF Editor
<1>2. Len(e.tabs) \in Nat /\ DOMAIN e.tabs = 1 .. Len(e.tabs)
  BY <1>1, LenProperties
<1>3. \A i \in 1 .. Len(e.tabs) : e.tabs[i] \in Tab
  BY <1>1, ElementOfSeq
<1>4. \A t \in Tab : t.path \in Files
  BY DEF Tab
<1> QED
  BY <1>1, <1>2, <1>3, <1>4

LEMMA PathsOfTabs == \A e : PathsOf(e) = {t.path : t \in TabsOf(e)}
BY DEF PathsOf, TabsOf

LEMMA IndexIs ==
    ASSUME NEW e \in Editor, NEW path
    PROVE  /\ IndexOf(e, path) # 0 <=> path \in PathsOf(e)
           /\ path \in PathsOf(e) =>
                IndexOf(e, path) \in DOMAIN e.tabs /\ e.tabs[IndexOf(e, path)].path = path
<1>1. 0 \notin DOMAIN e.tabs
  BY EditorFields
<1>2. CASE path \in PathsOf(e)
  <2>1. \E i \in DOMAIN e.tabs : e.tabs[i].path = path
    BY <1>2 DEF PathsOf
  <2>2. IndexOf(e, path) = CHOOSE i \in DOMAIN e.tabs : e.tabs[i].path = path
    BY <1>2 DEF IndexOf
  <2>3. IndexOf(e, path) \in DOMAIN e.tabs /\ e.tabs[IndexOf(e, path)].path = path
    BY <2>1, <2>2
  <2> QED
    BY <1>1, <1>2, <2>3
<1>3. CASE path \notin PathsOf(e)
  BY <1>3 DEF IndexOf
<1> QED
  BY <1>2, <1>3

LEMMA SwitchedIs ==
    ASSUME NEW e, EditorIs(e), NEW i
    PROVE  /\ EditorIs(Switched(e, i)) /\ Switched(e, i).tabs = e.tabs
           /\ TabsOf(Switched(e, i)) = TabsOf(e)
<1>1. e \in Editor
  BY DEF EditorIs
<1>2. CASE i \notin DOMAIN e.tabs
  BY <1>2 DEF Switched
<1>3. CASE i \in DOMAIN e.tabs
  <2>1. i \in Nat
    BY <1>1, <1>3, EditorFields
  <2> DEFINE r == [e EXCEPT !.active = i]
  <2>2. r \in Editor /\ r.tabs = e.tabs /\ r.active = i
    BY <1>1, <2>1 DEF Editor
  <2>3. Switched(e, i) = r
    BY <1>3 DEF Switched
  <2> HIDE DEF r
  <2> QED
    BY <1>3, <2>2, <2>3 DEF EditorIs, TabsOf
<1> QED
  BY <1>2, <1>3

\* An editor with one more tab at i, of a file it does not hold.
LEMMA MoreTabs ==
    ASSUME NEW e, EditorIs(e), NEW i \in 1 .. (Len(e.tabs) + 1), NEW tab \in Tab,
           tab.preview => ~Dirty(tab), tab.path \notin PathsOf(e), NEW active \in 1 .. (Len(e.tabs) + 1)
    PROVE  LET r == [tabs |-> InsertAt(e.tabs, i, tab), active |-> active]
           IN  EditorIs(r) /\ TabsOf(r) = TabsOf(e) \cup {tab} /\ r.tabs # <<>>
<1> DEFINE s == InsertAt(e.tabs, i, tab)
           r == [tabs |-> s, active |-> active]
           n == Len(e.tabs)
<1>1. e \in Editor /\ e.tabs \in Seq(Tab) /\ n \in Nat /\ DOMAIN e.tabs = 1 .. n
  BY EditorFields DEF EditorIs
<1>2. /\ s \in Seq(Tab) /\ DOMAIN s = 1 .. (n + 1)
      /\ Len(s) = n + 1
      /\ \A j \in 1 .. (n + 1) :
           s[j] = IF j < i THEN e.tabs[j] ELSE IF j = i THEN tab ELSE e.tabs[j - 1]
  <2>1. IsWith(InsertAt(e.tabs, i, tab), Tab, e.tabs, i, tab)
    BY <1>1, InsertedAt
  <2> QED
    BY <2>1 DEF IsWith
<1> HIDE DEF s
<1>3. r \in Editor /\ r.tabs = s /\ r.active = active
  BY <1>1, <1>2 DEF Editor
<1> HIDE DEF r
<1>4. \A j, k \in 1 .. n : e.tabs[j].path = e.tabs[k].path => j = k
  BY <1>1 DEF EditorIs
<1>5. \A j \in 1 .. n : e.tabs[j].path # tab.path
  BY <1>1 DEF PathsOf
<1>6. ASSUME NEW j \in 1 .. (n + 1), NEW k \in 1 .. (n + 1), s[j].path = s[k].path
      PROVE  j = k
  <2> DEFINE at(x) == IF x < i THEN x ELSE x - 1
  <2>1. \A x \in 1 .. (n + 1) : x # i => at(x) \in 1 .. n /\ s[x] = e.tabs[at(x)]
    BY <1>1, <1>2
  <2>2. s[i] = tab
    BY <1>2
  <2>3. CASE j # i /\ k # i
    <3>1. at(j) = at(k)
      BY <1>4, <1>6, <2>1, <2>3
    <3> QED
      BY <1>1, <2>3, <3>1
  <2>4. CASE j = i \/ k = i
    <3> HIDE DEF at
    <3> QED
      BY <1>5, <1>6, <2>1, <2>2, <2>4
  <2> QED
    BY <2>3, <2>4
<1>7. TabsOf(r) = TabsOf(e) \cup {tab}
  <2>1. \A j \in 1 .. (n + 1) : s[j] = tab \/ \E k \in 1 .. n : s[j] = e.tabs[k]
    <3> TAKE j \in 1 .. (n + 1)
    <3>1. CASE j < i
      <4>1. j \in 1 .. n
        BY <1>1, <3>1
      <4> QED
        BY <1>2, <3>1, <4>1
    <3>2. CASE j = i
      BY <1>2, <3>2
    <3>3. CASE j > i
      <4>1. j - 1 \in 1 .. n
        BY <1>1, <3>3
      <4> QED
        BY <1>2, <3>3, <4>1
    <3> QED
      BY <1>1, <3>1, <3>2, <3>3
  <2>2. \A k \in 1 .. n : \E j \in 1 .. (n + 1) : s[j] = e.tabs[k]
    <3> TAKE k \in 1 .. n
    <3>1. CASE k < i
      <4>1. k \in 1 .. (n + 1) /\ s[k] = e.tabs[k]
        BY <1>1, <1>2, <3>1
      <4> QED
        BY <4>1
    <3>2. CASE ~(k < i)
      <4>1. k + 1 \in 1 .. (n + 1) /\ ~(k + 1 < i) /\ k + 1 # i /\ (k + 1) - 1 = k
        BY <1>1, <3>2
      <4>2. s[k + 1] = e.tabs[k]
        BY <1>2, <4>1
      <4> QED
        BY <4>1, <4>2
    <3> QED
      BY <3>1, <3>2
  <2>3. i \in 1 .. (n + 1) /\ s[i] = tab
    BY <1>2
  <2>4. TabsOf(r) = {s[j] : j \in 1 .. (n + 1)} /\ TabsOf(e) = {e.tabs[k] : k \in 1 .. n}
    BY <1>1, <1>2, <1>3 DEF TabsOf
  <2> HIDE DEF n
  <2> QED
    BY <2>1, <2>2, <2>3, <2>4
<1>8. \A j \in DOMAIN r.tabs : r.tabs[j].preview => ~Dirty(r.tabs[j])
  <2>1. \A t \in TabsOf(e) : t.preview => ~Dirty(t)
    BY DEF EditorIs, TabsOf
  <2> QED
    BY <1>7, <2>1 DEF TabsOf
<1>9. r.tabs # <<>>
  BY <1>1, <1>2, <1>3
<1>10. EditorIs(r)
  BY <1>2, <1>3, <1>6, <1>8 DEF EditorIs
<1> QED
  BY <1>7, <1>9, <1>10 DEF r, s

LEMMA InsertedIs ==
    ASSUME NEW e, EditorIs(e), NEW tab \in Tab, tab.preview => ~Dirty(tab),
           tab.path \notin PathsOf(e), NEW before \in Nat
    PROVE  LET r == Inserted(e, tab, before)
           IN  EditorIs(r) /\ TabsOf(r) = TabsOf(e) \cup {tab} /\ r.tabs # <<>>
<1> DEFINE n == Len(e.tabs)
           at == IF before = 0 THEN n + 1 ELSE Min({before, n + 1})
<1>1. e \in Editor /\ n \in Nat
  BY EditorFields DEF EditorIs
<1>2. at \in 1 .. (n + 1)
  <2>1. CASE before = 0
    BY <1>1, <2>1
  <2>2. CASE before # 0
    <3>1. Min({before, n + 1}) = IF before <= n + 1 THEN before ELSE n + 1
      BY <1>1, MinOfTwo
    <3> QED
      BY <1>1, <2>2, <3>1
  <2> QED
    BY <2>1, <2>2
<1>3. IndexOf(e, tab.path) = 0
  BY <1>1, IndexIs
<1>4. Inserted(e, tab, before) = [tabs |-> InsertAt(e.tabs, at, tab), active |-> at]
  BY <1>3 DEF Inserted
<1> HIDE DEF at
<1> QED
  BY <1>2, <1>4, MoreTabs

\* Append, as an insertion at the end.
LEMMA PushedAtEnd ==
    ASSUME NEW X, NEW s \in Seq(X), NEW x \in X
    PROVE  Append(s, x) = InsertAt(s, Len(s) + 1, x)
<1>1. Len(s) \in Nat
  BY LenProperties
<1>2. Len(s) + 1 \in 1 .. (Len(s) + 1)
  BY <1>1
<1> DEFINE u == InsertAt(s, Len(s) + 1, x)
           v == Append(s, x)
<1>3. /\ u \in Seq(X) /\ DOMAIN u = 1 .. (Len(s) + 1)
      /\ Len(u) = Len(s) + 1
      /\ \A j \in 1 .. (Len(s) + 1) :
           u[j] = IF j < Len(s) + 1 THEN s[j] ELSE IF j = Len(s) + 1 THEN x ELSE s[j - 1]
  BY <1>2, InsertedAt DEF IsWith
<1>4. /\ v \in Seq(X) /\ Len(v) = Len(s) + 1
      /\ \A j \in 1 .. Len(s) : v[j] = s[j]
      /\ v[Len(s) + 1] = x
  BY AppendProperties
<1> HIDE DEF u, v
<1>5. \A j \in 1 .. (Len(s) + 1) : u[j] = v[j]
  <2> TAKE j \in 1 .. (Len(s) + 1)
  <2>1. CASE j = Len(s) + 1
    BY <1>1, <1>3, <1>4, <2>1
  <2>2. CASE j # Len(s) + 1
    <3>1. j \in 1 .. Len(s) /\ j < Len(s) + 1
      BY <1>1, <2>2
    <3> QED
      BY <1>3, <1>4, <3>1
  <2> QED
    BY <2>1, <2>2
<1>6. u = v
  BY <1>3, <1>4, <1>5, SeqEqual
<1> QED
  BY <1>6 DEF u, v

LEMMA PushedIs ==
    ASSUME NEW e, EditorIs(e), NEW tab \in Tab, tab.preview => ~Dirty(tab)
    PROVE  LET r == Pushed(e, tab)
           IN  /\ EditorIs(r)
               /\ TabsOf(r) = IF tab.path \in PathsOf(e) THEN TabsOf(e) ELSE TabsOf(e) \cup {tab}
<1> DEFINE n == Len(e.tabs)
<1>1. e \in Editor /\ n \in Nat /\ e.tabs \in Seq(Tab)
  BY EditorFields DEF EditorIs
<1>2. CASE tab.path \in PathsOf(e)
  <2>1. Pushed(e, tab) = Switched(e, IndexOf(e, tab.path))
    BY <1>1, <1>2, IndexIs DEF Pushed
  <2> QED
    BY <1>2, <2>1, SwitchedIs
<1>3. CASE tab.path \notin PathsOf(e)
  <2>1. IndexOf(e, tab.path) = 0
    BY <1>1, <1>3, IndexIs
  <2>2. Pushed(e, tab) = [tabs |-> Append(e.tabs, tab), active |-> n + 1]
    BY <2>1 DEF Pushed
  <2>3. Pushed(e, tab) = [tabs |-> InsertAt(e.tabs, n + 1, tab), active |-> n + 1]
    BY <1>1, <2>2, PushedAtEnd
  <2>4. n + 1 \in 1 .. (n + 1)
    BY <1>1
  <2> QED
    BY <1>3, <2>3, <2>4, MoreTabs
<1> QED
  BY <1>2, <1>3

\* The tab that a preview of a file closes in an editor.
Closing(e, path) ==
    IF path \in PathsOf(e) THEN {}
    ELSE {e.tabs[i] : i \in {j \in Previews(e) : j = Min(Previews(e))}}

LEMMA PreviewedIs ==
    ASSUME NEW e, EditorIs(e), NEW tab \in Tab, tab.preview => ~Dirty(tab)
    PROVE  LET r == Previewed(e, tab)
           IN  /\ EditorIs(r)
               /\ TabsOf(r) = IF tab.path \in PathsOf(e) THEN TabsOf(e)
                              ELSE (TabsOf(e) \ Closing(e, tab.path)) \cup {tab}
<1> DEFINE n == Len(e.tabs)
           path == tab.path
           P == Previews(e)
           i == Min(P)
<1>1. e \in Editor /\ n \in Nat /\ e.tabs \in Seq(Tab) /\ DOMAIN e.tabs = 1 .. n
  BY EditorFields DEF EditorIs
<1>2. CASE path \in PathsOf(e)
  <2>1. Previewed(e, tab) = Pushed(e, tab)
    BY <1>1, <1>2, IndexIs DEF Previewed
  <2> QED
    BY <1>2, <2>1, PushedIs
<1>3. CASE path \notin PathsOf(e) /\ P = {}
  <2>1. Previewed(e, tab) = Pushed(e, tab)
    BY <1>3 DEF Previewed
  <2>2. Closing(e, path) = {}
    BY <1>3 DEF Closing
  <2> QED
    BY <1>3, <2>1, <2>2, PushedIs
<1>4. CASE path \notin PathsOf(e) /\ P # {}
  <2>1. P \subseteq Nat /\ P \subseteq DOMAIN e.tabs
    BY <1>1 DEF Previews
  <2>2. i \in P /\ i \in 1 .. n
    BY <1>1, <1>4, <2>1, MinIsLeast
  <2> DEFINE s == [e.tabs EXCEPT ![i] = tab]
             r == [tabs |-> s, active |-> i]
  <2>3. Previewed(e, tab) = r
    <3>1. IndexOf(e, path) = 0
      BY <1>1, <1>4, IndexIs
    <3> QED
      BY <1>4, <3>1 DEF Previewed
  <2>4. Closing(e, path) = {e.tabs[i]}
    <3>1. {j \in P : j = i} = {i}
      BY <2>2
    <3> HIDE DEF i
    <3> QED
      BY <1>4, <3>1 DEF Closing, i
  <2> HIDE DEF i, P
  <2>5. /\ s \in Seq(Tab) /\ Len(s) = n /\ DOMAIN s = 1 .. n
        /\ \A j \in 1 .. n : s[j] = IF j = i THEN tab ELSE e.tabs[j]
    <3>1. /\ s \in Seq(Tab) /\ Len(s) = n
          /\ \A j \in 1 .. n : s[j] = IF j = i THEN tab ELSE e.tabs[j]
      BY <1>1, <2>2, ExceptSeq
    <3> QED
      BY <3>1, LenProperties
  <2> HIDE DEF s
  <2>6. r \in Editor /\ r.tabs = s /\ r.active = i
    BY <2>2, <2>5 DEF Editor
  <2> HIDE DEF r
  <2>7. \A j, k \in 1 .. n : e.tabs[j].path = e.tabs[k].path => j = k
    BY <1>1 DEF EditorIs
  <2>8. \A j \in 1 .. n : e.tabs[j].path # path
    BY <1>1, <1>4 DEF PathsOf
  <2>9. \A j, k \in 1 .. n : s[j].path = s[k].path => j = k
    BY <2>5, <2>7, <2>8
  <2>10. TabsOf(r) = (TabsOf(e) \ {e.tabs[i]}) \cup {tab}
    <3>1. \A j \in 1 .. n : j # i => e.tabs[j] # e.tabs[i]
      BY <2>2, <2>7
    <3>2. TabsOf(e) = {e.tabs[j] : j \in 1 .. n}
      BY <1>1 DEF TabsOf
    <3>3. TabsOf(r) = {s[j] : j \in 1 .. n}
      BY <2>5, <2>6 DEF TabsOf
    <3> QED
      BY <2>2, <2>5, <3>1, <3>2, <3>3
  <2>11. \A j \in DOMAIN r.tabs : r.tabs[j].preview => ~Dirty(r.tabs[j])
    <3>1. \A t \in TabsOf(e) : t.preview => ~Dirty(t)
      BY DEF EditorIs, TabsOf
    <3> QED
      BY <2>10, <3>1 DEF TabsOf
  <2>12. EditorIs(r)
    BY <2>2, <2>5, <2>6, <2>9, <2>11 DEF EditorIs
  <2> QED
    BY <1>4, <2>3, <2>4, <2>10, <2>12
<1> QED
  BY <1>2, <1>3, <1>4

\* The tab that is removed is the only one that goes.
LEMMA RemovedIs ==
    ASSUME NEW e, EditorIs(e), NEW i \in DOMAIN e.tabs
    PROVE  LET r == Removed(e, i)
           IN  /\ EditorIs(r) /\ TabsOf(r) = TabsOf(e) \ {e.tabs[i]}
               /\ e.tabs[i].path \notin PathsOf(r)
<1> DEFINE n == Len(e.tabs)
           s == RemoveAt(e.tabs, i)
           active == ActiveAfterRemoval(e, i)
           r == [tabs |-> s, active |-> active]
<1>1. e \in Editor /\ e.tabs \in Seq(Tab) /\ n \in Nat /\ DOMAIN e.tabs = 1 .. n /\ i \in 1 .. n
  BY EditorFields DEF EditorIs
<1>2. /\ s \in Seq(Tab) /\ DOMAIN s = 1 .. (n - 1)
      /\ Len(s) = n - 1
      /\ \A j \in 1 .. (n - 1) : s[j] = IF j < i THEN e.tabs[j] ELSE e.tabs[j + 1]
  BY <1>1, RemovedAt DEF IsWithout
<1>3. /\ \A j \in DOMAIN s : \E k \in DOMAIN e.tabs :
            k # i /\ s[j] = e.tabs[k] /\ k = IF j < i THEN j ELSE j + 1
      /\ \A k \in DOMAIN e.tabs : k # i => \E j \in DOMAIN s :
            s[j] = e.tabs[k] /\ k = IF j < i THEN j ELSE j + 1
  <2>1. PlacesWithout(RemoveAt(e.tabs, i), e.tabs, i)
    BY <1>1, RemovedPlaces
  <2> QED
    BY <2>1 DEF PlacesWithout
<1> HIDE DEF s
<1>4. e.active \in 1 .. n
  <2>1. e.tabs # <<>>
    BY <1>1
  <2> QED
    BY <1>1, <2>1 DEF EditorIs
<1>5. active \in Nat /\ IF n = 1 THEN active = 0 ELSE active \in 1 .. (n - 1)
  <2>1. CASE n = 1
    BY <2>1 DEF ActiveAfterRemoval
  <2>2. CASE n # 1 /\ e.active = i
    <3>1. active = Min({i, n - 1})
      BY <2>2 DEF ActiveAfterRemoval
    <3>2. i \in Nat /\ n - 1 \in Nat
      BY <1>1
    <3>3. active = IF i <= n - 1 THEN i ELSE n - 1
      BY <3>1, <3>2, MinOfTwo
    <3> HIDE DEF active, n
    <3> QED
      BY <1>1, <2>2, <3>2, <3>3
  <2>3. CASE n # 1 /\ e.active # i
    <3>1. active = IF i < e.active THEN e.active - 1 ELSE e.active
      BY <2>3 DEF ActiveAfterRemoval
    <3> HIDE DEF active
    <3> QED
      BY <1>1, <1>4, <2>3, <3>1
  <2> QED
    BY <2>1, <2>2, <2>3
<1> HIDE DEF active
<1>6. r \in Editor /\ r.tabs = s /\ r.active = active
  BY <1>2, <1>5 DEF Editor
<1>7. Removed(e, i) = r
  BY DEF Removed, s, active
<1> HIDE DEF r
<1>8. r.active \in DOMAIN r.tabs \/ (r.active = 0 /\ r.tabs = <<>>)
  <2>1. CASE n = 1
    <3>1. s = <<>>
      BY <1>2, <2>1, EmptySeq
    <3> QED
      BY <1>5, <1>6, <2>1, <3>1
  <2>2. CASE n # 1
    BY <1>2, <1>5, <1>6, <2>2
  <2> QED
    BY <2>1, <2>2
<1>9. \A j, k \in 1 .. n : e.tabs[j].path = e.tabs[k].path => j = k
  BY <1>1 DEF EditorIs
<1>10. ASSUME NEW j \in DOMAIN s, NEW k \in DOMAIN s, s[j].path = s[k].path PROVE j = k
  <2>1. PICK x \in 1 .. n : s[j] = e.tabs[x] /\ x = IF j < i THEN j ELSE j + 1
    BY <1>1, <1>3
  <2>2. PICK y \in 1 .. n : s[k] = e.tabs[y] /\ y = IF k < i THEN k ELSE k + 1
    BY <1>1, <1>3
  <2>3. x = y
    BY <1>9, <1>10, <2>1, <2>2
  <2> QED
    BY <1>1, <1>2, <2>1, <2>2, <2>3
<1>11. TabsOf(r) = TabsOf(e) \ {e.tabs[i]}
  <2>1. TabsOf(r) = {s[j] : j \in DOMAIN s} /\ TabsOf(e) = {e.tabs[k] : k \in DOMAIN e.tabs}
    BY <1>6 DEF TabsOf
  <2>2. \A k \in DOMAIN e.tabs : k # i => e.tabs[k] # e.tabs[i]
    BY <1>1, <1>9
  <2> QED
    BY <1>3, <2>1, <2>2
<1>12. e.tabs[i].path \notin PathsOf(r)
  <2>1. PathsOf(r) = {s[j].path : j \in DOMAIN s}
    BY <1>6 DEF PathsOf
  <2>2. ASSUME NEW j \in DOMAIN s PROVE s[j].path # e.tabs[i].path
    <3>1. PICK k \in DOMAIN e.tabs : k # i /\ s[j] = e.tabs[k]
      BY <1>3
    <3> QED
      BY <1>1, <1>9, <3>1
  <2> QED
    BY <2>1, <2>2
<1>13. \A j \in DOMAIN r.tabs : r.tabs[j].preview => ~Dirty(r.tabs[j])
  <2>1. \A t \in TabsOf(e) : t.preview => ~Dirty(t)
    BY DEF EditorIs, TabsOf
  <2> QED
    BY <1>11, <2>1 DEF TabsOf
<1>14. EditorIs(r)
  BY <1>6, <1>8, <1>10, <1>13 DEF EditorIs
<1> QED
  BY <1>7, <1>11, <1>12, <1>14

\* An editor's tabs and their files are known by the tabs alone.
LEMMA FileOfOneTab ==
    ASSUME NEW e, EditorIs(e), NEW t \in TabsOf(e), NEW u \in TabsOf(e), t.path = u.path
    PROVE  t = u
BY DEF EditorIs, TabsOf

\* A tab changes its place, and the active tab stays the same tab.
LEMMA ReorderedIs ==
    ASSUME NEW e, EditorIs(e), NEW from \in DOMAIN e.tabs, NEW to \in Nat \ {0}
    PROVE  LET r == Reordered(e, from, to) IN EditorIs(r) /\ TabsOf(r) = TabsOf(e)
<1> DEFINE n == Len(e.tabs)
           rest == RemoveAt(e.tabs, from)
           tab == e.tabs[from]
           target == Min({to, n + 1})
           dest == IF target > from THEN target - 1 ELSE target
           moved == [e EXCEPT !.tabs = InsertAt(rest, dest, tab)]
           active == IF e.active = 0 THEN 0 ELSE IndexOf(moved, e.tabs[e.active].path)
           r == [moved EXCEPT !.active = active]
<1>1. e \in Editor /\ e.tabs \in Seq(Tab) /\ n \in Nat /\ DOMAIN e.tabs = 1 .. n /\ from \in 1 .. n
      /\ tab \in Tab
  BY EditorFields DEF EditorIs
<1>2. /\ EditorIs(Removed(e, from)) /\ TabsOf(Removed(e, from)) = TabsOf(e) \ {tab}
      /\ tab.path \notin PathsOf(Removed(e, from)) /\ Removed(e, from).tabs = rest
  BY RemovedIs DEF Removed
<1> DEFINE d == Removed(e, from)
<1>3. Len(rest) = n - 1
  BY <1>1, RemovedAt DEF IsWithout
<1>4. dest \in 1 .. n
  <2>1. target = IF to <= n + 1 THEN to ELSE n + 1
    BY <1>1, MinOfTwo
  <2> HIDE DEF target, n
  <2> QED
    BY <1>1, <2>1
<1> HIDE DEF dest, rest, d
<1>5. d.tabs = rest /\ Len(d.tabs) + 1 = n /\ EditorIs(d) /\ tab.path \notin PathsOf(d)
      /\ TabsOf(d) = TabsOf(e) \ {tab}
  BY <1>1, <1>2, <1>3 DEF d
<1>6. tab.preview => ~Dirty(tab)
  BY DEF EditorIs
<1> DEFINE all == InsertAt(rest, dest, tab)
           full == [tabs |-> all, active |-> dest]
<1>7. EditorIs(full) /\ TabsOf(full) = TabsOf(d) \cup {tab} /\ full.tabs = all
  <2> HIDE DEF tab, n
  <2>1. dest \in 1 .. (Len(d.tabs) + 1)
    BY <1>4, <1>5
  <2>2. LET x == [tabs |-> InsertAt(d.tabs, dest, tab), active |-> dest]
        IN  EditorIs(x) /\ TabsOf(x) = TabsOf(d) \cup {tab} /\ x.tabs # <<>>
    BY <1>1, <1>5, <1>6, <2>1, MoreTabs
  <2> QED
    BY <1>5, <2>2
<1>8. TabsOf(full) = TabsOf(e)
  <2>1. tab \in TabsOf(e)
    BY DEF TabsOf
  <2> QED
    BY <1>5, <1>7, <2>1
<1>9. all \in Seq(Tab)
  BY <1>7 DEF EditorIs, Editor
<1> HIDE DEF full, all
<1>10. moved \in Editor /\ moved.tabs = all /\ moved.active = e.active
  BY <1>1, <1>9 DEF Editor, all
<1> HIDE DEF moved
<1>11. PathsOf(moved) = PathsOf(e)
  <2>1. TabsOf(moved) = TabsOf(e)
    BY <1>7, <1>8, <1>10 DEF TabsOf
  <2> QED
    BY <2>1, PathsOfTabs
<1>12. active \in DOMAIN all \/ (active = 0 /\ all = <<>>)
  <2>1. e.active \in DOMAIN e.tabs
    <3>1. e.tabs # <<>>
      BY <1>1
    <3> QED
      BY <3>1 DEF EditorIs
  <2>3. e.active # 0 /\ e.tabs[e.active].path \in PathsOf(e)
    BY <1>1, <2>1 DEF PathsOf
  <2>2. e.active # 0 /\ e.tabs[e.active].path \in PathsOf(moved)
    BY <1>11, <2>3
  <2> QED
    BY <1>10, <2>2, IndexIs
<1>13. active \in Nat
  <2>1. DOMAIN all \subseteq Nat
    BY <1>9, LenProperties
  <2> QED
    BY <1>12, <2>1
<1> HIDE DEF active
<1>14. r \in Editor /\ r.tabs = all /\ r.active = active
  BY <1>10, <1>13 DEF Editor
<1>15. Reordered(e, from, to) = r
  BY DEF Reordered, r, active, moved, dest, rest, all
<1> HIDE DEF r
<1>16. EditorIs(r) /\ TabsOf(r) = TabsOf(full)
  BY <1>7, <1>12, <1>14 DEF EditorIs, TabsOf
<1> QED
  BY <1>8, <1>15, <1>16

-----------------------------------------------------------------------------
(* A layout is a sequence of editors, and which of them is live.           *)

LayoutOf(E, f) ==
    [panes |-> [i \in DOMAIN E |-> IF i = f THEN Live ELSE E[i]], editor |-> E[f]]

LEMMA SeqFields ==
    ASSUME NEW X, NEW s \in Seq(X)
    PROVE  Len(s) \in Nat /\ DOMAIN s = 1 .. Len(s) /\ \A i \in DOMAIN s : s[i] \in X
BY LenProperties, ElementOfSeq

\* A function on 1 .. n is a sequence.
LEMMA FunctionIsSeq ==
    ASSUME NEW X, NEW n \in Nat, NEW s, s \in [1 .. n -> X]
    PROVE  s \in Seq(X) /\ Len(s) = n /\ DOMAIN s = 1 .. n
<1>1. s \in Seq(X)
  OBVIOUS
<1>2. DOMAIN s = 1 .. Len(s) /\ Len(s) \in Nat
  BY <1>1, LenProperties
<1>3. DOMAIN s = 1 .. n
  OBVIOUS
<1> QED
  BY <1>1, <1>2, <1>3

LEMMA LayoutOfIs ==
    ASSUME NEW E \in Seq(Editor), NEW f \in DOMAIN E
    PROVE  LET l == LayoutOf(E, f)
           IN  /\ Shape(l) /\ EditorsOf(l) = E /\ Focused(l) = f /\ Len(l.panes) = Len(E)
               /\ l.panes \in Seq(Editor \cup {Live}) /\ l.editor = E[f] /\ Panes(l) = DOMAIN E
               /\ \A i \in DOMAIN E : /\ l.panes[i] = IF i = f THEN Live ELSE E[i]
                                      /\ l.panes[i] = Live <=> i = f
                                      /\ PaneEditor(l, i) = E[i]
<1> DEFINE p == [i \in DOMAIN E |-> IF i = f THEN Live ELSE E[i]]
           l == [panes |-> p, editor |-> E[f]]
           n == Len(E)
<1>1. n \in Nat /\ DOMAIN E = 1 .. n /\ \A i \in DOMAIN E : E[i] \in Editor
  BY SeqFields
<1>2. p \in [1 .. n -> Editor \cup {Live}]
  BY <1>1
<1>3. p \in Seq(Editor \cup {Live}) /\ Len(p) = n /\ DOMAIN p = 1 .. n
  <2> HIDE DEF p, n
  <2> QED
    BY <1>1, <1>2, FunctionIsSeq
<1>4. \A i \in DOMAIN E : p[i] = IF i = f THEN Live ELSE E[i]
  OBVIOUS
<1>5. \A i \in DOMAIN E : p[i] = Live <=> i = f
  BY <1>1, <1>4, LiveIsNoEditor
<1> HIDE DEF p
<1>6. l.panes = p /\ l.editor = E[f] /\ l \in [panes : Seq(Editor \cup {Live}), editor : Editor]
  BY <1>1, <1>3
<1>7. LayoutOf(E, f) = l
  BY DEF LayoutOf, p
<1> HIDE DEF l
<1>8. Panes(l) = DOMAIN E
  BY <1>1, <1>3, <1>6 DEF Panes
<1>9. \A i \in DOMAIN E : PaneEditor(l, i) = E[i]
  BY <1>4, <1>5, <1>6 DEF PaneEditor
<1>10. EditorsOf(l) = E
  <2>1. E = [i \in DOMAIN E |-> E[i]]
    BY <1>1
  <2> QED
    BY <1>8, <1>9, <2>1 DEF EditorsOf
<1>11. Shape(l)
  BY <1>5, <1>6, <1>8 DEF Shape
<1>12. Focused(l) = f
  <2>1. \A i \in Panes(l) : l.panes[i] = Live <=> i = f
    BY <1>5, <1>6, <1>8
  <2> QED
    BY <1>8, <2>1 DEF Focused
<1> QED
  BY <1>3, <1>4, <1>5, <1>6, <1>7, <1>8, <1>9, <1>10, <1>11, <1>12

\* Every layout with one live slot is one of these.
LEMMA LayoutIsOf ==
    ASSUME NEW l, Shape(l)
    PROVE  /\ EditorsOf(l) \in Seq(Editor) /\ Focused(l) \in DOMAIN EditorsOf(l)
           /\ l = LayoutOf(EditorsOf(l), Focused(l))
           /\ Len(EditorsOf(l)) = Len(l.panes) /\ Panes(l) = DOMAIN EditorsOf(l)
<1> DEFINE p == l.panes
           n == Len(p)
           E == EditorsOf(l)
           f == Focused(l)
<1>1. p \in Seq(Editor \cup {Live}) /\ l.editor \in Editor
      /\ l = [panes |-> p, editor |-> l.editor]
  BY DEF Shape
<1>2. n \in Nat /\ DOMAIN p = 1 .. n /\ \A i \in 1 .. n : p[i] \in Editor \cup {Live}
  BY <1>1, SeqFields
<1>3. f \in DOMAIN p /\ \A i \in DOMAIN p : p[i] = Live <=> i = f
  <2>1. PICK g \in DOMAIN p : \A i \in DOMAIN p : p[i] = Live <=> i = g
    BY DEF Shape, Panes
  <2>2. f = CHOOSE i \in DOMAIN p : p[i] = Live
    BY DEF Focused, Panes
  <2>3. f \in DOMAIN p /\ p[f] = Live
    BY <2>1, <2>2
  <2> QED
    BY <2>1, <2>3
<1> HIDE DEF f
<1>4. E = [i \in 1 .. n |-> IF i = f THEN l.editor ELSE p[i]]
  <2>1. \A i \in 1 .. n : PaneEditor(l, i) = IF i = f THEN l.editor ELSE p[i]
    BY <1>2, <1>3 DEF PaneEditor
  <2> QED
    BY <1>2, <2>1 DEF EditorsOf, Panes
<1>5. E \in [1 .. n -> Editor]
  BY <1>1, <1>2, <1>3, <1>4
<1> HIDE DEF E
<1>6. E \in Seq(Editor) /\ Len(E) = n /\ DOMAIN E = 1 .. n
  <2> HIDE DEF n
  <2> QED
    BY <1>2, <1>5, FunctionIsSeq
<1>7. E[f] = l.editor
  BY <1>2, <1>3, <1>4
<1>8. p = [i \in DOMAIN E |-> IF i = f THEN Live ELSE E[i]]
  <2>1. p = [i \in 1 .. n |-> p[i]]
    BY <1>1, <1>2
  <2>2. \A i \in 1 .. n : p[i] = IF i = f THEN Live ELSE E[i]
    BY <1>2, <1>3, <1>4
  <2> HIDE DEF p
  <2> QED
    BY <1>6, <2>1, <2>2
<1>9. l = LayoutOf(E, f)
  BY <1>1, <1>7, <1>8 DEF LayoutOf
<1> QED
  BY <1>2, <1>3, <1>6, <1>9 DEF E, f, Panes

\* focus_pane: another editor is the live one.
LEMMA FocusedOnIs ==
    ASSUME NEW E \in Seq(Editor), NEW f \in DOMAIN E, NEW i \in DOMAIN E
    PROVE  FocusedOn(LayoutOf(E, f), i) = LayoutOf(E, i)
<1> DEFINE l == LayoutOf(E, f)
           p == l.panes
           q == LayoutOf(E, i).panes
           n == Len(E)
<1>1. n \in Nat /\ DOMAIN E = 1 .. n
  BY SeqFields
<1>2. /\ Focused(l) = f /\ Panes(l) = DOMAIN E /\ l.editor = E[f] /\ p \in Seq(Editor \cup {Live})
      /\ \A j \in DOMAIN E : (p[j] = IF j = f THEN Live ELSE E[j]) /\ (p[j] = Live <=> j = f)
  BY LayoutOfIs
<1>3. /\ LayoutOf(E, i).editor = E[i] /\ q = [j \in DOMAIN E |-> IF j = i THEN Live ELSE E[j]]
  BY DEF LayoutOf
<1>4. p = [j \in DOMAIN E |-> IF j = f THEN Live ELSE E[j]]
  BY DEF LayoutOf
<1>5. CASE i = f
  BY <1>2, <1>5 DEF FocusedOn
<1>6. CASE i # f
  <2>1. FocusedOn(l, i) = [panes |-> [p EXCEPT ![f] = E[f], ![i] = Live], editor |-> p[i]]
    BY <1>2, <1>6 DEF FocusedOn
  <2>2. [p EXCEPT ![f] = E[f], ![i] = Live] = [j \in DOMAIN E |-> IF j = i THEN Live ELSE E[j]]
    BY <1>4, <1>6
  <2>3. p[i] = E[i]
    BY <1>2, <1>6
  <2> QED
    BY <2>1, <2>2, <2>3 DEF LayoutOf
<1> QED
  BY <1>5, <1>6

\* An editor takes the place of another.
Put(E, i, e) == [E EXCEPT ![i] = e]

LEMMA WithPaneIs ==
    ASSUME NEW E \in Seq(Editor), NEW f \in DOMAIN E, NEW i \in DOMAIN E, NEW e \in Editor
    PROVE  /\ Put(E, i, e) \in Seq(Editor) /\ DOMAIN Put(E, i, e) = DOMAIN E
           /\ Len(Put(E, i, e)) = Len(E)
           /\ WithPane(LayoutOf(E, f), i, e) = LayoutOf(Put(E, i, e), f)
           /\ [LayoutOf(E, f) EXCEPT !.editor = e] = LayoutOf(Put(E, f, e), f)
<1> USE DEF Put
<1> DEFINE l == LayoutOf(E, f)
           p == l.panes
           F == [E EXCEPT ![i] = e]
<1>1. Len(E) \in Nat /\ DOMAIN E = 1 .. Len(E) /\ E \in [1 .. Len(E) -> Editor]
  BY SeqFields, LenProperties
<1>2. F \in Seq(Editor) /\ DOMAIN F = DOMAIN E /\ Len(F) = Len(E)
  BY <1>1, ExceptSeq
<1>3. /\ l.editor = E[f]
      /\ \A j \in DOMAIN E : p[j] = Live <=> j = f
  BY LayoutOfIs
<1>4. p = [j \in DOMAIN E |-> IF j = f THEN Live ELSE E[j]]
  BY DEF LayoutOf
<1>5. l = [panes |-> p, editor |-> E[f]]
  BY <1>4 DEF LayoutOf
<1> HIDE DEF l
<1>6. ASSUME NEW k \in DOMAIN E
      PROVE  LayoutOf([E EXCEPT ![k] = e], f)
             = [panes |-> [j \in DOMAIN E |-> IF j = f THEN Live ELSE [E EXCEPT ![k] = e][j]],
                editor |-> [E EXCEPT ![k] = e][f]]
  BY DEF LayoutOf
<1>7. ASSUME NEW x \in Editor
      PROVE  [l EXCEPT !.editor = x] = LayoutOf([E EXCEPT ![f] = x], f)
  <2>1. [l EXCEPT !.editor = x] = [panes |-> p, editor |-> x]
    BY <1>5
  <2>2. p = [j \in DOMAIN E |-> IF j = f THEN Live ELSE [E EXCEPT ![f] = x][j]]
    BY <1>4
  <2>3. [E EXCEPT ![f] = x][f] = x
    BY <1>1
  <2>4. DOMAIN [E EXCEPT ![f] = x] = DOMAIN E
    OBVIOUS
  <2> QED
    BY <2>1, <2>2, <2>3, <2>4 DEF LayoutOf
<1>8. CASE i = f
  BY <1>2, <1>3, <1>7, <1>8 DEF WithPane, l
<1>9. CASE i # f
  <2>1. WithPane(l, i, e) = [l EXCEPT !.panes = [p EXCEPT ![i] = e]]
    BY <1>3, <1>9 DEF WithPane
  <2>2. [p EXCEPT ![i] = e] = [j \in DOMAIN E |-> IF j = f THEN Live ELSE F[j]]
    BY <1>1, <1>4, <1>9
  <2>3. F[f] = E[f]
    BY <1>9
  <2>4. WithPane(l, i, e) = [panes |-> [p EXCEPT ![i] = e], editor |-> E[f]]
    BY <1>5, <2>1
  <2> QED
    BY <1>2, <1>6, <1>7, <2>2, <2>3, <2>4 DEF l
<1>10. [l EXCEPT !.editor = e] = LayoutOf([E EXCEPT ![f] = e], f)
  BY <1>7
<1> QED
  BY <1>2, <1>8, <1>9, <1>10 DEF l

LEMMA FocusedAnywhere ==
    ASSUME NEW E \in Seq(Editor), NEW f \in DOMAIN E, NEW i
    PROVE  \E g \in DOMAIN E : FocusedOn(LayoutOf(E, f), i) = LayoutOf(E, g)
<1>1. CASE i \in DOMAIN E
  BY <1>1, FocusedOnIs
<1>2. CASE i \notin DOMAIN E
  <2>1. Panes(LayoutOf(E, f)) = DOMAIN E
    BY LayoutOfIs
  <2> QED
    BY <1>2, <2>1 DEF FocusedOn
<1> QED
  BY <1>1, <1>2

\* close_pane: the editor goes, and what is live is one of the others.
LEMMA PaneClosedIs ==
    ASSUME NEW E \in Seq(Editor), NEW f \in DOMAIN E, NEW i \in DOMAIN E, Len(E) > 1
    PROVE  \E g \in DOMAIN RemoveAt(E, i) :
             PaneClosed(LayoutOf(E, f), i) = LayoutOf(RemoveAt(E, i), g)
<1> DEFINE l == LayoutOf(E, f)
           p == l.panes
           n == Len(E)
           R == RemoveAt(E, i)
           rest == RemoveAt(p, i)
           next == Min({i, Len(rest)})
           X == Editor \cup {Live}
<1>1. n \in Nat /\ DOMAIN E = 1 .. n
  BY SeqFields
<1>2. /\ l.editor = E[f] /\ p \in Seq(X) /\ Len(p) = n
      /\ \A j \in DOMAIN E : (p[j] = IF j = f THEN Live ELSE E[j]) /\ (p[j] = Live <=> j = f)
  BY LayoutOfIs
<1>3. DOMAIN p = 1 .. n
  BY <1>2, SeqFields
<1>4. l = [panes |-> p, editor |-> E[f]]
  BY DEF LayoutOf
<1>5. SplitMode(l)
  BY <1>2 DEF SplitMode
<1> HIDE DEF p
<1>6. IsWithout(R, Editor, E, i)
  BY RemovedAt
<1>7. i \in DOMAIN p
  BY <1>1, <1>3
<1>8. IsWithout(rest, X, p, i)
  BY <1>2, <1>7, RemovedAt
<1> HIDE DEF R, rest, X
<1>9. /\ R \in Seq(Editor) /\ DOMAIN R = 1 .. (n - 1) /\ Len(R) = n - 1
      /\ \A j \in 1 .. (n - 1) : R[j] = IF j < i THEN E[j] ELSE E[j + 1]
  BY <1>6 DEF IsWithout
<1>10. /\ rest \in Seq(X) /\ DOMAIN rest = 1 .. (n - 1) /\ Len(rest) = n - 1
       /\ \A j \in 1 .. (n - 1) : rest[j] = IF j < i THEN p[j] ELSE p[j + 1]
  BY <1>2, <1>8 DEF IsWithout
<1>11. rest = [j \in 1 .. (n - 1) |-> rest[j]]
  <2>1. rest \in [1 .. (n - 1) -> X]
    BY <1>10, LenProperties
  <2> QED
    BY <2>1
<1> HIDE DEF n
<1>12. CASE i # f
  <2> DEFINE g == IF i < f THEN f - 1 ELSE f
  <2>1. g \in 1 .. (n - 1) /\ (IF g < i THEN g ELSE g + 1) = f
    BY <1>1, <1>12
  <2>2. R[g] = E[f]
    BY <1>9, <2>1
  <2>3. \A j \in 1 .. (n - 1) : rest[j] = IF j = g THEN Live ELSE R[j]
    <3> TAKE j \in 1 .. (n - 1)
    <3> DEFINE k == IF j < i THEN j ELSE j + 1
    <3>1. k \in 1 .. n /\ (k = f <=> j = g)
      BY <1>1, <1>12
    <3>2. rest[j] = p[k] /\ R[j] = E[k]
      BY <1>9, <1>10
    <3> HIDE DEF k, g
    <3> QED
      BY <1>1, <1>2, <3>1, <3>2
  <2> HIDE DEF g
  <2>4. PaneClosed(l, i) = [panes |-> rest, editor |-> E[f]]
    <3>1. p[i] # Live
      BY <1>2, <1>12
    <3>2. PaneClosed(l, i) = [l EXCEPT !.panes = rest]
      BY <1>5, <3>1 DEF PaneClosed, rest, p
    <3> HIDE DEF l
    <3> QED
      BY <1>4, <3>2
  <2>5. rest = [j \in DOMAIN R |-> IF j = g THEN Live ELSE R[j]]
    BY <1>9, <1>11, <2>3
  <2>6. PaneClosed(l, i) = LayoutOf(R, g)
    BY <2>2, <2>4, <2>5 DEF LayoutOf
  <2> QED
    BY <1>9, <2>1, <2>6 DEF R
<1>13. CASE i = f
  <2>1. next = IF i <= n - 1 THEN i ELSE n - 1
    BY <1>1, <1>10, MinOfTwo
  <2>2. next \in 1 .. (n - 1)
    <3> HIDE DEF next
    <3> QED
      BY <1>1, <2>1 DEF n
  <2> HIDE DEF next
  <2>3. \A j \in 1 .. (n - 1) : rest[j] = R[j]
    <3> TAKE j \in 1 .. (n - 1)
    <3> DEFINE k == IF j < i THEN j ELSE j + 1
    <3>1. k \in 1 .. n /\ k # f
      BY <1>1, <1>13
    <3>2. rest[j] = p[k] /\ R[j] = E[k]
      BY <1>9, <1>10
    <3> HIDE DEF k
    <3> QED
      BY <1>1, <1>2, <3>1, <3>2
  <2>4. PaneClosed(l, i) = [panes |-> [rest EXCEPT ![next] = Live], editor |-> rest[next]]
    <3>1. p[i] = Live
      BY <1>2, <1>13
    <3> QED
      BY <1>5, <3>1 DEF PaneClosed, rest, p, next
  <2>5. [rest EXCEPT ![next] = Live] = [j \in DOMAIN R |-> IF j = next THEN Live ELSE R[j]]
    BY <1>9, <1>10, <1>11, <2>3
  <2>6. rest[next] = R[next]
    BY <2>2, <2>3
  <2>7. PaneClosed(l, i) = LayoutOf(R, next)
    BY <2>4, <2>5, <2>6 DEF LayoutOf
  <2> QED
    BY <1>9, <2>2, <2>7 DEF R
<1> QED
  BY <1>12, <1>13

\* A pane is added, and the live editor stays the same.
LEMMA PaneAddedIs ==
    ASSUME NEW E \in Seq(Editor), NEW f \in DOMAIN E, NEW i \in 1 .. (Len(E) + 1), NEW e \in Editor
    PROVE  \E g \in DOMAIN InsertAt(E, i, e) :
             PaneAdded(LayoutOf(E, f), i, e) = LayoutOf(InsertAt(E, i, e), g)
<1> DEFINE l == LayoutOf(E, f)
           p == l.panes
           n == Len(E)
           R == InsertAt(E, i, e)
           all == InsertAt(p, i, e)
           X == Editor \cup {Live}
           g == IF i <= f THEN f + 1 ELSE f
<1>1. n \in Nat /\ DOMAIN E = 1 .. n
  BY SeqFields
<1>2. /\ l.editor = E[f] /\ p \in Seq(X) /\ Len(p) = n
      /\ \A j \in DOMAIN E : (p[j] = IF j = f THEN Live ELSE E[j]) /\ (p[j] = Live <=> j = f)
  BY LayoutOfIs
<1>3. l = [panes |-> p, editor |-> E[f]]
  BY DEF LayoutOf
<1> HIDE DEF p
<1>4. IsWith(R, Editor, E, i, e)
  BY InsertedAt
<1>5. i \in 1 .. (Len(p) + 1) /\ e \in X
  BY <1>2
<1>6. IsWith(all, X, p, i, e)
  BY <1>2, <1>5, InsertedAt
<1> HIDE DEF R, all, X
<1>7. /\ R \in Seq(Editor) /\ DOMAIN R = 1 .. (n + 1) /\ Len(R) = n + 1
      /\ \A j \in 1 .. (n + 1) : R[j] = IF j < i THEN E[j] ELSE IF j = i THEN e ELSE E[j - 1]
  BY <1>4 DEF IsWith
<1>8. /\ all \in Seq(X) /\ DOMAIN all = 1 .. (n + 1) /\ Len(all) = n + 1
      /\ \A j \in 1 .. (n + 1) : all[j] = IF j < i THEN p[j] ELSE IF j = i THEN e ELSE p[j - 1]
  BY <1>2, <1>6 DEF IsWith
<1>9. all = [j \in 1 .. (n + 1) |-> all[j]]
  <2>1. all \in [1 .. (n + 1) -> X]
    BY <1>8, LenProperties
  <2> QED
    BY <2>1
<1>10. i \in 1 .. (n + 1)
  OBVIOUS
<1> HIDE DEF n
<1>11. g \in 1 .. (n + 1) /\ g # i /\ (IF g < i THEN g ELSE g - 1) = f
  BY <1>1, <1>10
<1>12. R[g] = E[f]
  BY <1>7, <1>11
<1>13. \A j \in 1 .. (n + 1) : all[j] = IF j = g THEN Live ELSE R[j]
  <2> TAKE j \in 1 .. (n + 1)
  <2>1. CASE j = i
    BY <1>7, <1>8, <1>11, <2>1
  <2>2. CASE j # i
    <3> DEFINE k == IF j < i THEN j ELSE j - 1
    <3>1. k \in 1 .. n /\ (k = f <=> j = g)
      BY <1>1, <1>10, <2>2
    <3>2. all[j] = p[k] /\ R[j] = E[k]
      BY <1>7, <1>8, <2>2
    <3> HIDE DEF k, g
    <3> QED
      BY <1>1, <1>2, <3>1, <3>2
  <2> QED
    BY <2>1, <2>2
<1> HIDE DEF g
<1>14. PaneAdded(l, i, e) = [panes |-> all, editor |-> E[f]]
  <2>1. PaneAdded(l, i, e) = [l EXCEPT !.panes = all]
    BY DEF PaneAdded, all, p
  <2> HIDE DEF l
  <2> QED
    BY <1>3, <2>1
<1>15. all = [j \in DOMAIN R |-> IF j = g THEN Live ELSE R[j]]
  BY <1>7, <1>9, <1>13
<1>16. PaneAdded(l, i, e) = LayoutOf(R, g)
  BY <1>12, <1>14, <1>15 DEF LayoutOf
<1> QED
  BY <1>7, <1>11, <1>16 DEF R

\* A pane without tabs may close.
LEMMA TidiedIs ==
    ASSUME NEW E \in Seq(Editor), NEW f \in DOMAIN E, NEW i \in DOMAIN E
    PROVE  \/ Tidied(LayoutOf(E, f), i) = LayoutOf(E, f)
           \/ /\ E[i].tabs = <<>> /\ Len(E) > 1
              /\ \E g \in DOMAIN RemoveAt(E, i) :
                   Tidied(LayoutOf(E, f), i) = LayoutOf(RemoveAt(E, i), g)
<1> DEFINE l == LayoutOf(E, f)
<1>1. PaneEditor(l, i) = E[i] /\ Len(l.panes) = Len(E)
  BY LayoutOfIs
<1> HIDE DEF l
<1>2. CASE E[i].tabs = <<>> /\ Len(E) > 1
  <2>1. Tidied(l, i) = PaneClosed(l, i)
    BY <1>1, <1>2 DEF Tidied, SplitMode
  <2> QED
    BY <1>2, <2>1, PaneClosedIs DEF l
<1>3. CASE ~(E[i].tabs = <<>> /\ Len(E) > 1)
  BY <1>1, <1>3 DEF Tidied, SplitMode, l
<1> QED
  BY <1>2, <1>3

-----------------------------------------------------------------------------
(* Editors that share no file.                                             *)

Tabs(E) == UNION {TabsOf(E[i]) : i \in DOMAIN E}

LEMMA TabsOfLayout ==
    ASSUME NEW E \in Seq(Editor), NEW f \in DOMAIN E
    PROVE  /\ AllTabs(LayoutOf(E, f)) = Tabs(E)
           /\ Editors(LayoutOf(E, f)) = {E[i] : i \in DOMAIN E}
<1>1. Panes(LayoutOf(E, f)) = DOMAIN E /\ \A i \in DOMAIN E : PaneEditor(LayoutOf(E, f), i) = E[i]
  BY LayoutOfIs
<1>2. Editors(LayoutOf(E, f)) = {E[i] : i \in DOMAIN E}
  BY <1>1 DEF Editors
<1>3. AllTabs(LayoutOf(E, f)) = UNION {TabsOf(e) : e \in {E[i] : i \in DOMAIN E}}
  BY <1>2 DEF AllTabs
<1>4. {TabsOf(e) : e \in {E[i] : i \in DOMAIN E}} = {TabsOf(E[i]) : i \in DOMAIN E}
  OBVIOUS
<1> QED
  BY <1>2, <1>3, <1>4 DEF Tabs

LEMMA TabsAreTabs ==
    ASSUME NEW E \in Seq(Editor)
    PROVE  /\ \A t \in Tabs(E) : t \in Tab /\ \E i \in DOMAIN E : t \in TabsOf(E[i])
           /\ \A i \in DOMAIN E : TabsOf(E[i]) \subseteq Tabs(E)
<1>1. ASSUME NEW i \in DOMAIN E, NEW t \in TabsOf(E[i]) PROVE t \in Tab
  <2>1. E[i] \in Editor
    BY SeqFields
  <2> QED
    BY <2>1, EditorFields DEF TabsOf
<1> QED
  BY <1>1 DEF Tabs

\* A file's tab is the only one in all of them.
LEMMA OneTabPerFile ==
    ASSUME NEW E, EditorsAre(E), NEW t \in Tabs(E), NEW u \in Tabs(E), t.path = u.path
    PROVE  t = u
<1>1. E \in Seq(Editor) /\ \A i \in DOMAIN E : EditorIs(E[i])
  BY DEF EditorsAre
<1>2. PICK i \in DOMAIN E : t \in TabsOf(E[i])
  BY DEF Tabs
<1>3. PICK j \in DOMAIN E : u \in TabsOf(E[j])
  BY DEF Tabs
<1>4. t.path \in PathsOf(E[i]) /\ u.path \in PathsOf(E[j])
  BY <1>2, <1>3, PathsOfTabs
<1>5. i = j
  BY <1>4 DEF EditorsAre
<1> QED
  BY <1>1, <1>2, <1>3, <1>5, FileOfOneTab

\* One editor loses some tabs and gets others, of files that no other editor holds.
Change(E, i, e, gone, new) ==
    /\ i \in DOMAIN E /\ EditorIs(e) /\ gone \subseteq TabsOf(E[i])
    /\ TabsOf(e) = (TabsOf(E[i]) \ gone) \cup new
    /\ \A t \in new : \A j \in DOMAIN E : j # i => t.path \notin PathsOf(E[j])

Changes(E, i, e, gone, new) ==
    /\ EditorsAre(Put(E, i, e)) /\ Tabs(Put(E, i, e)) = (Tabs(E) \ gone) \cup new
    /\ DOMAIN Put(E, i, e) = DOMAIN E /\ Len(Put(E, i, e)) = Len(E)
    /\ \A j \in DOMAIN E : Put(E, i, e)[j] = IF j = i THEN e ELSE E[j]

LEMMA EditorChanges ==
    ASSUME NEW E, EditorsAre(E), NEW i, NEW e, NEW gone, NEW new, Change(E, i, e, gone, new)
    PROVE  Changes(E, i, e, gone, new)
<1> DEFINE F == Put(E, i, e)
<1> USE DEF Change
<1>1. E \in Seq(Editor) /\ e \in Editor /\ i \in 1 .. Len(E) /\ DOMAIN E = 1 .. Len(E)
  BY SeqFields DEF EditorsAre, EditorIs
<1>2. F \in Seq(Editor) /\ DOMAIN F = DOMAIN E /\ Len(F) = Len(E)
  BY <1>1, ExceptSeq DEF Put
<1>3. \A j \in DOMAIN E : F[j] = IF j = i THEN e ELSE E[j]
  BY <1>1 DEF Put
<1> HIDE DEF F
<1>4. \A j \in DOMAIN F : EditorIs(F[j])
  BY <1>2, <1>3 DEF EditorsAre
<1>5. ASSUME NEW j \in DOMAIN E, j # i PROVE PathsOf(e) \cap PathsOf(E[j]) = {}
  <2>1. PathsOf(E[i]) \cap PathsOf(E[j]) = {}
    BY <1>5 DEF EditorsAre
  <2>2. \A p \in PathsOf(e) : p \in PathsOf(E[i]) \/ \E t \in new : p = t.path
    BY PathsOfTabs
  <2> QED
    BY <1>5, <2>1, <2>2
<1>6. \A j, k \in DOMAIN F : j # k => PathsOf(F[j]) \cap PathsOf(F[k]) = {}
  <2> TAKE j, k \in DOMAIN F
  <2> HAVE j # k
  <2>1. CASE j = i
    BY <1>2, <1>3, <1>5, <2>1
  <2>2. CASE k = i
    BY <1>2, <1>3, <1>5, <2>2
  <2>3. CASE j # i /\ k # i
    BY <1>2, <1>3, <2>3 DEF EditorsAre
  <2> QED
    BY <2>1, <2>2, <2>3
<1>7. \A t \in gone : \A j \in DOMAIN E : j # i => t \notin TabsOf(E[j])
  <2> TAKE t \in gone
  <2> TAKE j \in DOMAIN E
  <2> HAVE j # i
  <2>1. t.path \in PathsOf(E[i])
    BY PathsOfTabs
  <2>2. t.path \notin PathsOf(E[j])
    BY <2>1 DEF EditorsAre
  <2> QED
    BY <2>2, PathsOfTabs
<1>8. ASSUME NEW t PROVE t \in Tabs(F) <=> (t \in Tabs(E) /\ t \notin gone) \/ t \in new
  <2>1. t \in Tabs(F) <=> \E j \in DOMAIN E : t \in TabsOf(F[j])
    BY <1>2 DEF Tabs
  <2>2. t \in Tabs(E) <=> \E j \in DOMAIN E : t \in TabsOf(E[j])
    BY DEF Tabs
  <2>3. t \in TabsOf(F[i]) <=> (t \in TabsOf(E[i]) /\ t \notin gone) \/ t \in new
    BY <1>3
  <2>4. \A j \in DOMAIN E : j # i => (t \in TabsOf(F[j]) <=> t \in TabsOf(E[j]))
    BY <1>3
  <2> QED
    BY <1>7, <2>1, <2>2, <2>3, <2>4
<1>9. EditorsAre(F)
  BY <1>2, <1>3, <1>4, <1>6 DEF EditorsAre
<1> QED
  BY <1>2, <1>3, <1>8, <1>9 DEF F, Changes

\* An editor goes, and its tabs with it.
LEMMA EditorGoes ==
    ASSUME NEW E, EditorsAre(E), NEW i \in DOMAIN E
    PROVE  LET R == RemoveAt(E, i)
           IN  EditorsAre(R) /\ Len(R) = Len(E) - 1 /\ Tabs(R) = Tabs(E) \ TabsOf(E[i])
<1> DEFINE R == RemoveAt(E, i)
<1>1. E \in Seq(Editor) /\ Len(E) \in Nat /\ DOMAIN E = 1 .. Len(E)
  BY SeqFields DEF EditorsAre
<1>2. IsWithout(R, Editor, E, i)
  BY <1>1, RemovedAt
<1>3. PlacesWithout(R, E, i)
  BY <1>1, RemovedPlaces
<1> HIDE DEF R
<1>4. /\ R \in Seq(Editor) /\ Len(R) = Len(E) - 1 /\ DOMAIN R \subseteq Int
  BY <1>1, <1>2 DEF IsWithout
<1>5. /\ \A j \in DOMAIN R : \E k \in DOMAIN E :
           k # i /\ R[j] = E[k] /\ k = IF j < i THEN j ELSE j + 1
      /\ \A k \in DOMAIN E : k # i => \E j \in DOMAIN R : R[j] = E[k]
  BY <1>3 DEF PlacesWithout
<1>6. \A j \in DOMAIN R : EditorIs(R[j])
  BY <1>5 DEF EditorsAre
<1>7. ASSUME NEW j \in DOMAIN R, NEW k \in DOMAIN R, j # k
      PROVE  PathsOf(R[j]) \cap PathsOf(R[k]) = {}
  <2>1. PICK x \in DOMAIN E : R[j] = E[x] /\ x = IF j < i THEN j ELSE j + 1
    BY <1>5
  <2>2. PICK y \in DOMAIN E : R[k] = E[y] /\ y = IF k < i THEN k ELSE k + 1
    BY <1>5
  <2>3. x # y
    BY <1>1, <1>4, <1>7, <2>1, <2>2
  <2> QED
    BY <2>1, <2>2, <2>3 DEF EditorsAre
<1>8. ASSUME NEW t PROVE t \in Tabs(R) <=> t \in Tabs(E) /\ t \notin TabsOf(E[i])
  <2>1. t \in Tabs(R) <=> \E j \in DOMAIN R : t \in TabsOf(R[j])
    BY DEF Tabs
  <2>2. t \in Tabs(E) <=> \E j \in DOMAIN E : t \in TabsOf(E[j])
    BY DEF Tabs
  <2>3. \A k \in DOMAIN E : k # i /\ t \in TabsOf(E[k]) => t \notin TabsOf(E[i])
    <3> SUFFICES ASSUME NEW k \in DOMAIN E, k # i, t \in TabsOf(E[k]), t \in TabsOf(E[i])
                 PROVE  FALSE
      OBVIOUS
    <3>1. t.path \in PathsOf(E[k]) /\ t.path \in PathsOf(E[i])
      BY PathsOfTabs
    <3> QED
      BY <3>1 DEF EditorsAre
  <2> QED
    BY <1>5, <2>1, <2>2, <2>3
<1>9. EditorsAre(R)
  BY <1>4, <1>6, <1>7 DEF EditorsAre
<1> QED
  BY <1>4, <1>8, <1>9 DEF R

\* An editor comes, with files that no other holds.
LEMMA EditorComes ==
    ASSUME NEW E, EditorsAre(E), NEW i \in 1 .. (Len(E) + 1), NEW e, EditorIs(e),
           \A j \in DOMAIN E : PathsOf(e) \cap PathsOf(E[j]) = {}
    PROVE  LET R == InsertAt(E, i, e)
           IN  /\ EditorsAre(R) /\ Len(R) = Len(E) + 1 /\ Tabs(R) = Tabs(E) \cup TabsOf(e)
               /\ i \in DOMAIN R /\ R[i] = e
<1> DEFINE R == InsertAt(E, i, e)
<1>1. E \in Seq(Editor) /\ Len(E) \in Nat /\ DOMAIN E = 1 .. Len(E) /\ e \in Editor
  BY SeqFields DEF EditorsAre, EditorIs
<1>2. IsWith(R, Editor, E, i, e)
  BY <1>1, InsertedAt
<1>3. PlacesWith(R, E, i, e)
  BY <1>1, InsertedPlaces
<1> HIDE DEF R
<1>4. /\ R \in Seq(Editor) /\ Len(R) = Len(E) + 1 /\ DOMAIN R \subseteq Int
  BY <1>1, <1>2 DEF IsWith
<1>5. /\ i \in DOMAIN R /\ R[i] = e
      /\ \A j \in DOMAIN R : j # i =>
           \E k \in DOMAIN E : R[j] = E[k] /\ k = IF j < i THEN j ELSE j - 1
      /\ \A k \in DOMAIN E : \E j \in DOMAIN R : j # i /\ R[j] = E[k]
  BY <1>3 DEF PlacesWith
<1>6. \A j \in DOMAIN R : EditorIs(R[j])
  <2> TAKE j \in DOMAIN R
  <2>1. CASE j = i
    BY <1>5, <2>1
  <2>2. CASE j # i
    BY <1>5, <2>2 DEF EditorsAre
  <2> QED
    BY <2>1, <2>2
<1>7. ASSUME NEW j \in DOMAIN R, NEW k \in DOMAIN R, j # k
      PROVE  PathsOf(R[j]) \cap PathsOf(R[k]) = {}
  <2>1. CASE j = i
    <3>1. PICK y \in DOMAIN E : R[k] = E[y]
      BY <1>5, <1>7, <2>1
    <3> QED
      BY <1>5, <2>1, <3>1
  <2>2. CASE k = i
    <3>1. PICK x \in DOMAIN E : R[j] = E[x]
      BY <1>5, <1>7, <2>2
    <3> QED
      BY <1>5, <2>2, <3>1
  <2>3. CASE j # i /\ k # i
    <3>1. PICK x \in DOMAIN E : R[j] = E[x] /\ x = IF j < i THEN j ELSE j - 1
      BY <1>5, <2>3
    <3>2. PICK y \in DOMAIN E : R[k] = E[y] /\ y = IF k < i THEN k ELSE k - 1
      BY <1>5, <2>3
    <3>3. x # y
      BY <1>1, <1>4, <1>7, <2>3, <3>1, <3>2
    <3> QED
      BY <3>1, <3>2, <3>3 DEF EditorsAre
  <2> QED
    BY <2>1, <2>2, <2>3
<1>8. ASSUME NEW t PROVE t \in Tabs(R) <=> t \in Tabs(E) \/ t \in TabsOf(e)
  <2>1. t \in Tabs(R) <=> \E j \in DOMAIN R : t \in TabsOf(R[j])
    BY DEF Tabs
  <2>2. t \in Tabs(E) <=> \E j \in DOMAIN E : t \in TabsOf(E[j])
    BY DEF Tabs
  <2> QED
    BY <1>5, <2>1, <2>2
<1>9. EditorsAre(R)
  BY <1>4, <1>6, <1>7 DEF EditorsAre
<1> QED
  BY <1>4, <1>5, <1>8, <1>9 DEF R

LEMMA NoTabsIs == EditorIs(NoTabs) /\ TabsOf(NoTabs) = {} /\ PathsOf(NoTabs) = {} /\ NoTabs.tabs = <<>>
<1>1. <<>> \in Seq(Tab) /\ DOMAIN <<>> = {}
  OBVIOUS
<1>2. NoTabs \in Editor /\ NoTabs.tabs = <<>> /\ NoTabs.active = 0
  BY <1>1 DEF NoTabs, Editor
<1> QED
  BY <1>1, <1>2 DEF EditorIs, TabsOf, PathsOf

\* What is left when the pane i has been tidied and a pane got the keyboard.
LEMMA TidiedAndFocused ==
    ASSUME NEW E, EditorsAre(E), NEW f \in DOMAIN E, NEW i \in DOMAIN E, NEW j
    PROVE  \E R : \E g \in DOMAIN R :
             /\ FocusedOn(Tidied(LayoutOf(E, f), i), j) = LayoutOf(R, g)
             /\ EditorsAre(R) /\ Len(R) <= Len(E) /\ Tabs(R) = Tabs(E)
<1>1. E \in Seq(Editor) /\ Len(E) \in Nat
  BY SeqFields DEF EditorsAre
<1>2. CASE Tidied(LayoutOf(E, f), i) = LayoutOf(E, f)
  <2>1. PICK g \in DOMAIN E : FocusedOn(LayoutOf(E, f), j) = LayoutOf(E, g)
    BY <1>1, FocusedAnywhere
  <2> QED
    BY <1>1, <1>2, <2>1
<1>3. CASE Tidied(LayoutOf(E, f), i) # LayoutOf(E, f)
  <2> DEFINE R == RemoveAt(E, i)
  <2>1. E[i].tabs = <<>> /\ \E g \in DOMAIN R : Tidied(LayoutOf(E, f), i) = LayoutOf(R, g)
    BY <1>1, <1>3, TidiedIs
  <2>2. PICK h \in DOMAIN R : Tidied(LayoutOf(E, f), i) = LayoutOf(R, h)
    BY <2>1
  <2>3. EditorsAre(R) /\ Len(R) = Len(E) - 1 /\ Tabs(R) = Tabs(E) \ TabsOf(E[i])
    BY EditorGoes
  <2>4. TabsOf(E[i]) = {}
    BY <2>1 DEF TabsOf
  <2> HIDE DEF R
  <2>5. PICK g \in DOMAIN R : FocusedOn(LayoutOf(R, h), j) = LayoutOf(R, g)
    <3>1. R \in Seq(Editor)
      BY <2>3 DEF EditorsAre
    <3> QED
      BY <3>1, FocusedAnywhere
  <2>6. Len(R) <= Len(E) /\ Tabs(R) = Tabs(E)
    BY <1>1, <2>3, <2>4
  <2> QED
    BY <2>2, <2>3, <2>5, <2>6
<1> QED
  BY <1>2, <1>3

\* A tab has been taken out of its editor: no editor holds its file.
WithoutTab(F, E, i, k) ==
    /\ EditorsAre(F) /\ DOMAIN F = DOMAIN E /\ Len(F) = Len(E)
    /\ Tabs(F) = Tabs(E) \ {E[i].tabs[k]}
    /\ \A j \in DOMAIN E : E[i].tabs[k].path \notin PathsOf(F[j])

LEMMA TabTaken ==
    ASSUME NEW E, EditorsAre(E), NEW i \in DOMAIN E, NEW k \in DOMAIN E[i].tabs
    PROVE  /\ Removed(E[i], k) \in Editor
           /\ WithoutTab(Put(E, i, Removed(E[i], k)), E, i, k)
           /\ E[i].tabs[k] \in Tab /\ E[i].tabs[k] \in Tabs(E)
           /\ E[i].tabs[k].preview => ~Dirty(E[i].tabs[k])
<1> DEFINE e == Removed(E[i], k)
           tab == E[i].tabs[k]
           F == Put(E, i, e)
<1>1. E \in Seq(Editor) /\ EditorIs(E[i]) /\ E[i] \in Editor
  BY SeqFields DEF EditorsAre
<1>2. EditorIs(e) /\ TabsOf(e) = TabsOf(E[i]) \ {tab} /\ tab.path \notin PathsOf(e)
  BY <1>1, RemovedIs
<1>3. tab \in TabsOf(E[i])
  BY DEF TabsOf
<1>4. tab.preview => ~Dirty(tab)
  BY <1>1 DEF EditorIs
<1>5. tab \in Tab /\ tab \in Tabs(E)
  <2>1. E[i].tabs[k] \in Tab
    BY <1>1, EditorFields
  <2> QED
    BY <1>1, <1>3, <2>1, TabsAreTabs DEF tab
<1> HIDE DEF e, tab
<1>6. /\ EditorsAre(F) /\ Tabs(F) = (Tabs(E) \ {tab}) \cup {} /\ DOMAIN F = DOMAIN E /\ Len(F) = Len(E)
      /\ \A j \in DOMAIN E : F[j] = IF j = i THEN e ELSE E[j]
  <2>1. Change(E, i, e, {tab}, {})
    BY <1>2, <1>3 DEF Change
  <2>2. Changes(E, i, e, {tab}, {})
    BY <2>1, EditorChanges
  <2> QED
    BY <2>2 DEF Changes
<1> HIDE DEF F
<1>7. \A j \in DOMAIN E : tab.path \notin PathsOf(F[j])
  <2> TAKE j \in DOMAIN E
  <2>1. CASE j = i
    BY <1>2, <1>6, <2>1
  <2>2. CASE j # i
    <3>1. tab.path \in PathsOf(E[i])
      BY <1>3, PathsOfTabs
    <3> QED
      BY <1>6, <2>2, <3>1 DEF EditorsAre
  <2> QED
    BY <2>1, <2>2
<1>8. WithoutTab(F, E, i, k)
  BY <1>6, <1>7 DEF WithoutTab, tab
<1> QED
  BY <1>2, <1>4, <1>5, <1>8 DEF e, tab, F, EditorIs

\* The layout l has the tabs of E in at most n panes.
KeepsTabs(l, E, n) ==
    \E R : \E g \in DOMAIN R :
        l = LayoutOf(R, g) /\ EditorsAre(R) /\ Len(R) <= n /\ Tabs(R) = Tabs(E)

\* move_tab: no tab is lost on the way from one pane to another.
LEMMA MovedIs ==
    ASSUME NEW E, EditorsAre(E), NEW f \in DOMAIN E, NEW from \in DOMAIN E, NEW to \in DOMAIN E,
           from # to, NEW k \in DOMAIN E[from].tabs, NEW before \in Nat
    PROVE  KeepsTabs(Moved(LayoutOf(E, f), from, k, to, before).layout, E, Len(E))
<1> DEFINE tab == E[from].tabs[k]
           F == Put(E, from, Removed(E[from], k))
           e == Inserted(F[to], tab, before)
           G == Put(F, to, e)
           l == LayoutOf(E, f)
<1>1. /\ EditorsAre(F) /\ Tabs(F) = Tabs(E) \ {tab} /\ DOMAIN F = DOMAIN E /\ Len(F) = Len(E)
      /\ \A j \in DOMAIN E : tab.path \notin PathsOf(F[j])
      /\ tab \in Tab /\ tab \in Tabs(E) /\ (tab.preview => ~Dirty(tab))
  <2>1. WithoutTab(F, E, from, k)
    BY TabTaken
  <2>2. tab \in Tab /\ tab \in Tabs(E) /\ (tab.preview => ~Dirty(tab))
    BY TabTaken
  <2> HIDE DEF F
  <2> QED
    BY <2>1, <2>2 DEF WithoutTab
<1>2. E \in Seq(Editor) /\ Removed(E[from], k) \in Editor /\ EditorIs(F[to])
  BY <1>1, TabTaken DEF EditorsAre
<1>3. WithPane(l, from, Removed(E[from], k)) = LayoutOf(F, f)
  BY <1>2, WithPaneIs
<1>4. PaneEditor(l, from) = E[from]
  BY <1>2, LayoutOfIs
<1>5. PaneEditor(LayoutOf(F, f), to) = F[to]
  <2> HIDE DEF F
  <2>1. F \in Seq(Editor) /\ f \in DOMAIN F /\ to \in DOMAIN F
    BY <1>1 DEF EditorsAre
  <2> QED
    BY <2>1, LayoutOfIs
<1> HIDE DEF F, tab, l
<1>6. EditorIs(e) /\ TabsOf(e) = TabsOf(F[to]) \cup {tab}
  BY <1>1, <1>2, InsertedIs
<1> HIDE DEF e
<1>7. /\ EditorsAre(G) /\ DOMAIN G = DOMAIN F /\ Tabs(G) = (Tabs(F) \ {}) \cup {tab}
      /\ F \in Seq(Editor) /\ Len(G) = Len(F)
  <2>1. Change(F, to, e, {}, {tab})
    BY <1>1, <1>6 DEF Change
  <2>2. Changes(F, to, e, {}, {tab})
    BY <1>1, <2>1, EditorChanges
  <2> QED
    BY <1>1, <2>2 DEF Changes, EditorsAre
<1>8. WithPane(LayoutOf(F, f), to, e) = LayoutOf(G, f)
  <2>1. F \in Seq(Editor) /\ f \in DOMAIN F /\ to \in DOMAIN F /\ e \in Editor
    BY <1>1, <1>6, <1>7 DEF EditorIs
  <2> QED
    BY <2>1, WithPaneIs
<1> HIDE DEF G
<1>9. Moved(l, from, k, to, before).layout
      = FocusedOn(Tidied(LayoutOf(G, f), from), After(LayoutOf(G, f), from, to))
  BY <1>3, <1>4, <1>5, <1>8 DEF Moved, tab, e
<1>10. f \in DOMAIN G /\ from \in DOMAIN G
  BY <1>1, <1>7
<1>11. PICK R : \E g \in DOMAIN R :
          /\ FocusedOn(Tidied(LayoutOf(G, f), from), After(LayoutOf(G, f), from, to)) = LayoutOf(R, g)
          /\ EditorsAre(R) /\ Len(R) <= Len(G) /\ Tabs(R) = Tabs(G)
  BY <1>7, <1>10, TidiedAndFocused
<1>12. Tabs(G) = Tabs(E) /\ Len(G) = Len(E)
  BY <1>1, <1>7
<1> QED
  BY <1>9, <1>11, <1>12 DEF l, KeepsTabs

\* split_with_tab: nor is it on the way to a pane of its own.
LEMMA SplitOffIs ==
    ASSUME NEW E, EditorsAre(E), NEW f \in DOMAIN E, NEW from \in DOMAIN E, NEW after \in DOMAIN E,
           NEW k \in DOMAIN E[from].tabs
    PROVE  KeepsTabs(SplitOff(LayoutOf(E, f), from, k, after).layout, E, Len(E) + 1)
<1> DEFINE tab == E[from].tabs[k]
           F == Put(E, from, Removed(E[from], k))
           e == Inserted(NoTabs, tab, 0)
           G == InsertAt(F, after + 1, e)
           l == LayoutOf(E, f)
           source == IF from > after THEN from + 1 ELSE from
<1>1. /\ EditorsAre(F) /\ Tabs(F) = Tabs(E) \ {tab} /\ DOMAIN F = DOMAIN E /\ Len(F) = Len(E)
      /\ \A j \in DOMAIN E : tab.path \notin PathsOf(F[j])
      /\ tab \in Tab /\ tab \in Tabs(E) /\ (tab.preview => ~Dirty(tab))
  <2>1. WithoutTab(F, E, from, k)
    BY TabTaken
  <2>2. tab \in Tab /\ tab \in Tabs(E) /\ (tab.preview => ~Dirty(tab))
    BY TabTaken
  <2> HIDE DEF F
  <2> QED
    BY <2>1, <2>2 DEF WithoutTab
<1>2. E \in Seq(Editor) /\ Removed(E[from], k) \in Editor
  BY TabTaken DEF EditorsAre
<1>3. WithPane(l, from, Removed(E[from], k)) = LayoutOf(F, f)
  BY <1>2, WithPaneIs
<1>4. PaneEditor(l, from) = E[from]
  BY <1>2, LayoutOfIs
<1> HIDE DEF F, tab, l
<1>5. EditorIs(e) /\ TabsOf(e) = {tab}
  <2>1. tab.path \notin PathsOf(NoTabs) /\ EditorIs(NoTabs) /\ 0 \in Nat
    BY NoTabsIs
  <2>2. EditorIs(e) /\ TabsOf(e) = TabsOf(NoTabs) \cup {tab}
    BY <1>1, <2>1, InsertedIs
  <2> QED
    BY <2>2, NoTabsIs
<1> HIDE DEF e
<1>6. after + 1 \in 1 .. (Len(F) + 1) /\ Len(E) \in Nat /\ DOMAIN E = 1 .. Len(E)
  <2>1. Len(E) \in Nat /\ DOMAIN E = 1 .. Len(E)
    BY <1>2, SeqFields
  <2> QED
    BY <1>1, <2>1
<1>7. EditorsAre(G) /\ Len(G) = Len(F) + 1 /\ Tabs(G) = Tabs(F) \cup TabsOf(e)
  <2>1. \A j \in DOMAIN F : PathsOf(e) \cap PathsOf(F[j]) = {}
    BY <1>1, <1>5, PathsOfTabs
  <2> QED
    BY <1>1, <1>5, <1>6, <2>1, EditorComes
<1>8. PICK h \in DOMAIN G : PaneAdded(LayoutOf(F, f), after + 1, e) = LayoutOf(G, h)
  <2>1. F \in Seq(Editor) /\ f \in DOMAIN F /\ e \in Editor
    BY <1>1, <1>5 DEF EditorsAre, EditorIs
  <2> QED
    BY <1>6, <2>1, PaneAddedIs
<1> HIDE DEF G
<1>9. source \in DOMAIN G
  <2>1. G \in Seq(Editor)
    BY <1>7 DEF EditorsAre
  <2>2. DOMAIN G = 1 .. (Len(E) + 1)
    BY <1>1, <1>7, <2>1, SeqFields
  <2> QED
    BY <1>6, <2>2
<1> DEFINE to == After(LayoutOf(G, h), source, after + 1)
<1>10. SplitOff(l, from, k, after).layout = FocusedOn(Tidied(LayoutOf(G, h), source), to)
  BY <1>3, <1>4, <1>8 DEF SplitOff, tab, e
<1> HIDE DEF source, to
<1>11. PICK R : \E g \in DOMAIN R :
          /\ FocusedOn(Tidied(LayoutOf(G, h), source), to) = LayoutOf(R, g)
          /\ EditorsAre(R) /\ Len(R) <= Len(G) /\ Tabs(R) = Tabs(G)
  BY <1>7, <1>9, TidiedAndFocused
<1>12. Tabs(G) = Tabs(E) /\ Len(G) = Len(E) + 1
  BY <1>1, <1>5, <1>7
<1> QED
  BY <1>10, <1>11, <1>12 DEF l, KeepsTabs

-----------------------------------------------------------------------------
(* The flags of the tabs.                                                  *)

\* The tabs of O are marked as opened, and the others are not.
Flag(t, O) == [t EXCEPT !.opened = (t \in O)]
FlagEditor(e, O) == [e EXCEPT !.tabs = [k \in DOMAIN e.tabs |-> Flag(e.tabs[k], O)]]
Flagged(E, O) == [i \in DOMAIN E |-> FlagEditor(E[i], O)]

OpenedOr(P) == {t \in Tab : t.opened \/ t.path \in P}

LEMMA FlagIs ==
    ASSUME NEW t \in Tab, NEW O
    PROVE  LET u == Flag(t, O)
           IN  /\ u \in Tab /\ u.path = t.path /\ u.preview = t.preview /\ u.text = t.text
               /\ u.saved = t.saved /\ u.version = t.version /\ u.opened = (t \in O)
               /\ Dirty(u) <=> Dirty(t)
<1> DEFINE u == [t EXCEPT !.opened = (t \in O)]
<1>1. t = [path |-> t.path, preview |-> t.preview, text |-> t.text, saved |-> t.saved,
           version |-> t.version, opened |-> t.opened]
  BY DEF Tab
<1>2. u = [path |-> t.path, preview |-> t.preview, text |-> t.text, saved |-> t.saved,
           version |-> t.version, opened |-> (t \in O)]
  BY <1>1
<1>3. /\ t.path \in Files /\ t.preview \in BOOLEAN /\ t.text \in Nat /\ t.saved \in Nat
      /\ t.version \in Nat /\ (t \in O) \in BOOLEAN
  BY DEF Tab
<1>4. /\ u.path = t.path /\ u.preview = t.preview /\ u.text = t.text
      /\ u.saved = t.saved /\ u.version = t.version /\ u.opened = (t \in O)
  <2> HIDE DEF u
  <2> QED
    BY <1>2
<1>5. u \in Tab
  <2> HIDE DEF u
  <2> QED
    BY <1>2, <1>3 DEF Tab
<1> QED
  BY <1>4, <1>5 DEF Flag, Dirty

LEMMA FlagEditorIs ==
    ASSUME NEW e, EditorIs(e), NEW O
    PROVE  /\ EditorIs(FlagEditor(e, O)) /\ PathsOf(FlagEditor(e, O)) = PathsOf(e)
           /\ TabsOf(FlagEditor(e, O)) = {Flag(t, O) : t \in TabsOf(e)}
           /\ FlagEditor(e, O).active = e.active
<1> DEFINE n == Len(e.tabs)
           s == [k \in DOMAIN e.tabs |-> Flag(e.tabs[k], O)]
           d == FlagEditor(e, O)
<1>1. /\ e \in Editor /\ n \in Nat /\ DOMAIN e.tabs = 1 .. n
      /\ \A k \in 1 .. n : e.tabs[k] \in Tab
      /\ e = [tabs |-> e.tabs, active |-> e.active] /\ e.active \in Nat
  BY EditorFields DEF EditorIs, Editor
<1>2. \A k \in 1 .. n : /\ s[k] = Flag(e.tabs[k], O) /\ s[k] \in Tab /\ s[k].path = e.tabs[k].path
                        /\ s[k].preview = e.tabs[k].preview /\ (Dirty(s[k]) <=> Dirty(e.tabs[k]))
  BY <1>1, FlagIs
<1>3. s \in [1 .. n -> Tab]
  BY <1>1, <1>2
<1>4. d = [tabs |-> s, active |-> e.active]
  <2>1. d = [e EXCEPT !.tabs = s]
    BY DEF FlagEditor
  <2> HIDE DEF s, d
  <2> QED
    BY <1>1, <2>1
<1> HIDE DEF s, d
<1>5. s \in Seq(Tab) /\ Len(s) = n /\ DOMAIN s = 1 .. n
  <2> HIDE DEF n
  <2> QED
    BY <1>1, <1>3, FunctionIsSeq
<1>6. d \in Editor /\ d.tabs = s /\ d.active = e.active
  BY <1>1, <1>4, <1>5 DEF Editor
<1>7. d.active \in DOMAIN d.tabs \/ (d.active = 0 /\ d.tabs = <<>>)
  <2>1. CASE e.active \in DOMAIN e.tabs
    BY <1>1, <1>5, <1>6, <2>1
  <2>2. CASE e.active = 0 /\ e.tabs = <<>>
    <3>1. n = 0
      BY <2>2
    <3>2. s = <<>>
      BY <1>5, <3>1, EmptySeq
    <3> QED
      BY <1>6, <2>2, <3>2
  <2> QED
    BY <2>1, <2>2 DEF EditorIs
<1>8. EditorIs(d)
  <2>1. \A j, k \in 1 .. n : s[j].path = s[k].path => j = k
    BY <1>1, <1>2 DEF EditorIs
  <2>2. \A k \in 1 .. n : s[k].preview => ~Dirty(s[k])
    BY <1>1, <1>2 DEF EditorIs
  <2> HIDE DEF n
  <2> QED
    BY <1>5, <1>6, <1>7, <2>1, <2>2 DEF EditorIs
<1>9. PathsOf(d) = PathsOf(e)
  BY <1>1, <1>2, <1>5, <1>6 DEF PathsOf
<1>10. TabsOf(d) = {Flag(t, O) : t \in TabsOf(e)}
  <2>1. TabsOf(d) = {s[k] : k \in 1 .. n} /\ TabsOf(e) = {e.tabs[k] : k \in 1 .. n}
    BY <1>1, <1>5, <1>6 DEF TabsOf
  <2> QED
    BY <1>2, <2>1
<1> QED
  BY <1>6, <1>8, <1>9, <1>10 DEF d

LEMMA FlaggedIs ==
    ASSUME NEW E, EditorsAre(E), NEW O
    PROVE  /\ EditorsAre(Flagged(E, O)) /\ Tabs(Flagged(E, O)) = {Flag(t, O) : t \in Tabs(E)}
           /\ DOMAIN Flagged(E, O) = DOMAIN E /\ Len(Flagged(E, O)) = Len(E)
           /\ \A i \in DOMAIN E : Flagged(E, O)[i] = FlagEditor(E[i], O)
<1> DEFINE n == Len(E)
           F == Flagged(E, O)
<1>1. n \in Nat /\ DOMAIN E = 1 .. n /\ \A i \in 1 .. n : EditorIs(E[i])
  BY SeqFields DEF EditorsAre
<1>2. F = [i \in 1 .. n |-> FlagEditor(E[i], O)]
  BY <1>1 DEF Flagged
<1> HIDE DEF F
<1>3. \A i \in 1 .. n : /\ F[i] = FlagEditor(E[i], O) /\ EditorIs(F[i]) /\ PathsOf(F[i]) = PathsOf(E[i])
                        /\ TabsOf(F[i]) = {Flag(t, O) : t \in TabsOf(E[i])}
  BY <1>1, <1>2, FlagEditorIs
<1>4. F \in [1 .. n -> Editor]
  BY <1>2, <1>3 DEF EditorIs
<1>5. F \in Seq(Editor) /\ Len(F) = n /\ DOMAIN F = 1 .. n
  <2> HIDE DEF n
  <2> QED
    BY <1>1, <1>4, FunctionIsSeq
<1>6. EditorsAre(F)
  BY <1>1, <1>3, <1>5 DEF EditorsAre
<1>7. ASSUME NEW u PROVE u \in Tabs(F) <=> u \in {Flag(t, O) : t \in Tabs(E)}
  <2>1. u \in Tabs(F) <=> \E i \in 1 .. n : u \in TabsOf(F[i])
    BY <1>5 DEF Tabs
  <2>2. \A t : t \in Tabs(E) <=> \E i \in 1 .. n : t \in TabsOf(E[i])
    BY <1>1 DEF Tabs
  <2>3. \A i \in 1 .. n : u \in TabsOf(F[i]) <=> \E t \in TabsOf(E[i]) : u = Flag(t, O)
    BY <1>3
  <2>4. u \in {Flag(t, O) : t \in Tabs(E)} <=> \E t \in Tabs(E) : u = Flag(t, O)
    OBVIOUS
  <2> QED
    BY <2>1, <2>2, <2>3, <2>4
<1> QED
  BY <1>1, <1>3, <1>5, <1>6, <1>7 DEF F

\* The layouts of the model that carry new flags.
LEMMA MarkIs ==
    ASSUME NEW E \in Seq(Editor), NEW f \in DOMAIN E, NEW P
    PROVE  /\ Mark(LayoutOf(E, f), P) = LayoutOf(Flagged(E, OpenedOr(P)), f)
           /\ Closed(LayoutOf(E, f)) = LayoutOf(Flagged(E, {}), f)
<1> DEFINE l == LayoutOf(E, f)
           O == OpenedOr(P)
<1>1. /\ Panes(l) = DOMAIN E /\ l.editor = E[f]
      /\ \A i \in DOMAIN E : (l.panes[i] = IF i = f THEN Live ELSE E[i]) /\ (l.panes[i] = Live <=> i = f)
  BY LayoutOfIs
<1>2. \A i \in DOMAIN E : \A k \in DOMAIN E[i].tabs : E[i].tabs[k] \in Tab
  BY SeqFields, EditorFields
<1> HIDE DEF l
<1> DEFINE mark(e) == [e EXCEPT !.tabs = [k \in DOMAIN e.tabs |->
                          [e.tabs[k] EXCEPT !.opened = e.tabs[k].opened \/ e.tabs[k].path \in P]]]
           close(e) == [e EXCEPT !.tabs = [k \in DOMAIN e.tabs |-> [e.tabs[k] EXCEPT !.opened = FALSE]]]
<1>3. ASSUME NEW i \in DOMAIN E PROVE mark(E[i]) = FlagEditor(E[i], O) /\ close(E[i]) = FlagEditor(E[i], {})
  <2>1. \A k \in DOMAIN E[i].tabs : (E[i].tabs[k].opened \/ E[i].tabs[k].path \in P) = (E[i].tabs[k] \in O)
    BY <1>2 DEF OpenedOr
  <2>2. \A k \in DOMAIN E[i].tabs : FALSE = (E[i].tabs[k] \in {})
    OBVIOUS
  <2> HIDE DEF O
  <2>3. [k \in DOMAIN E[i].tabs |->
            [E[i].tabs[k] EXCEPT !.opened = E[i].tabs[k].opened \/ E[i].tabs[k].path \in P]]
        = [k \in DOMAIN E[i].tabs |-> Flag(E[i].tabs[k], O)]
    BY <2>1 DEF Flag
  <2>4. [k \in DOMAIN E[i].tabs |-> [E[i].tabs[k] EXCEPT !.opened = FALSE]]
        = [k \in DOMAIN E[i].tabs |-> Flag(E[i].tabs[k], {})]
    BY <2>2 DEF Flag
  <2> QED
    BY <2>3, <2>4 DEF FlagEditor
<1>4. Mark(l, P) = [panes |-> [i \in Panes(l) |-> IF l.panes[i] = Live THEN Live ELSE mark(l.panes[i])],
                    editor |-> mark(l.editor)]
  BY DEF Mark, OnEveryTab
<1>5. Closed(l) = [panes |-> [i \in Panes(l) |-> IF l.panes[i] = Live THEN Live ELSE close(l.panes[i])],
                   editor |-> close(l.editor)]
  BY DEF Closed, OnEveryTab
<1> HIDE DEF mark, close, O
<1>6. [i \in Panes(l) |-> IF l.panes[i] = Live THEN Live ELSE mark(l.panes[i])]
      = [i \in DOMAIN E |-> IF i = f THEN Live ELSE FlagEditor(E[i], O)]
  BY <1>1, <1>3
<1>7. [i \in Panes(l) |-> IF l.panes[i] = Live THEN Live ELSE close(l.panes[i])]
      = [i \in DOMAIN E |-> IF i = f THEN Live ELSE FlagEditor(E[i], {})]
  BY <1>1, <1>3
<1>8. mark(l.editor) = FlagEditor(E[f], O) /\ close(l.editor) = FlagEditor(E[f], {})
  BY <1>1, <1>3
<1>9. ASSUME NEW Q PROVE LayoutOf(Flagged(E, Q), f)
                         = [panes |-> [i \in DOMAIN E |-> IF i = f THEN Live ELSE FlagEditor(E[i], Q)],
                            editor |-> FlagEditor(E[f], Q)]
  BY DEF LayoutOf, Flagged
<1> QED
  BY <1>4, <1>5, <1>6, <1>7, <1>8, <1>9 DEF l, O

-----------------------------------------------------------------------------
(* What the operations on tabs and panes make of a layout.                 *)

\* The layout l has the tabs of E without some and with others.
Comes(l, E, gone, new) ==
    \E R : \E g \in DOMAIN R :
        /\ l = LayoutOf(R, g) /\ EditorsAre(R) /\ Len(R) <= world.panes
        /\ Tabs(R) = (Tabs(E) \ gone) \cup new

LEMMA EditorPut ==
    ASSUME NEW E, EditorsAre(E), Len(E) <= world.panes, world.panes \in Nat, NEW f \in DOMAIN E,
           NEW i, NEW e, NEW gone, NEW new, Change(E, i, e, gone, new)
    PROVE  Comes(LayoutOf(Put(E, i, e), f), E, gone, new)
<1> DEFINE R == Put(E, i, e)
<1>1. Changes(E, i, e, gone, new)
  BY EditorChanges
<1>2. f \in DOMAIN R /\ EditorsAre(R) /\ Len(R) <= world.panes /\ Tabs(R) = (Tabs(E) \ gone) \cup new
  BY <1>1 DEF Changes
<1> HIDE DEF R
<1>3. Comes(LayoutOf(R, f), E, gone, new)
  BY <1>2 DEF Comes
<1> QED
  BY <1>3 DEF R

\* The active tab is another one.
LEMMA TabSwitched ==
    ASSUME NEW E, EditorsAre(E), Len(E) <= world.panes, world.panes \in Nat, NEW f \in DOMAIN E, NEW k
    PROVE  Comes([LayoutOf(E, f) EXCEPT !.editor = Switched(E[f], k)], E, {}, {})
<1> DEFINE e == Switched(E[f], k)
<1>1. E \in Seq(Editor) /\ EditorIs(E[f])
  BY DEF EditorsAre
<1>2. EditorIs(e) /\ TabsOf(e) = TabsOf(E[f])
  BY <1>1, SwitchedIs
<1> HIDE DEF e
<1>3. Change(E, f, e, {}, {})
  BY <1>2 DEF Change
<1>4. Comes(LayoutOf(Put(E, f, e), f), E, {}, {})
  BY <1>3, EditorPut
<1>5. [LayoutOf(E, f) EXCEPT !.editor = e] = LayoutOf(Put(E, f, e), f)
  BY <1>1, <1>2, WithPaneIs DEF EditorIs
<1> QED
  BY <1>4, <1>5 DEF e

LEMMA TabPreviewed ==
    ASSUME NEW E, EditorsAre(E), Len(E) <= world.panes, world.panes \in Nat, NEW f \in DOMAIN E,
           NEW tab \in Tab, ~Dirty(tab),
           tab.path \in PathsOf(E[f]) \/ \A i \in DOMAIN E : tab.path \notin PathsOf(E[i])
    PROVE  LET l == [LayoutOf(E, f) EXCEPT !.editor = Previewed(E[f], tab)]
           IN  IF tab.path \in PathsOf(E[f]) THEN Comes(l, E, {}, {})
               ELSE Comes(l, E, Closing(E[f], tab.path), {tab})
<1> DEFINE e == Previewed(E[f], tab)
           gone == Closing(E[f], tab.path)
<1>1. E \in Seq(Editor) /\ EditorIs(E[f])
  BY DEF EditorsAre
<1>2. /\ EditorIs(e)
      /\ TabsOf(e) = IF tab.path \in PathsOf(E[f]) THEN TabsOf(E[f])
                     ELSE (TabsOf(E[f]) \ gone) \cup {tab}
  BY <1>1, PreviewedIs
<1>3. gone \subseteq TabsOf(E[f])
  BY DEF Closing, TabsOf, Previews
<1> HIDE DEF e, gone
<1>4. [LayoutOf(E, f) EXCEPT !.editor = e] = LayoutOf(Put(E, f, e), f)
  BY <1>1, <1>2, WithPaneIs DEF EditorIs
<1>5. CASE tab.path \in PathsOf(E[f])
  <2>1. Change(E, f, e, {}, {})
    BY <1>2, <1>5 DEF Change
  <2>2. Comes(LayoutOf(Put(E, f, e), f), E, {}, {})
    BY <2>1, EditorPut
  <2> QED
    BY <1>4, <1>5, <2>2 DEF e
<1>6. CASE tab.path \notin PathsOf(E[f])
  <2>1. Change(E, f, e, gone, {tab})
    BY <1>2, <1>3, <1>6 DEF Change
  <2>2. Comes(LayoutOf(Put(E, f, e), f), E, gone, {tab})
    BY <2>1, EditorPut
  <2> QED
    BY <1>4, <1>6, <2>2 DEF e, gone
<1> QED
  BY <1>5, <1>6

\* The live tab k is closed, and its pane with it when it was the last.
LEMMA TabClosed ==
    ASSUME NEW E, EditorsAre(E), Len(E) <= world.panes, world.panes \in Nat, NEW f \in DOMAIN E, NEW k \in DOMAIN E[f].tabs
    PROVE  LET rest == [LayoutOf(E, f) EXCEPT !.editor = Removed(E[f], k)]
           IN  Comes(Tidied(rest, Focused(rest)), E, {E[f].tabs[k]}, {})
<1> DEFINE e == Removed(E[f], k)
           F == Put(E, f, e)
           rest == [LayoutOf(E, f) EXCEPT !.editor = e]
           gone == {E[f].tabs[k]}
<1>1. E \in Seq(Editor) /\ Len(E) \in Nat
  BY SeqFields DEF EditorsAre
<1>2. e \in Editor /\ WithoutTab(F, E, f, k)
  BY TabTaken
<1>3. rest = LayoutOf(F, f)
  BY <1>1, <1>2, WithPaneIs
<1>4. EditorsAre(F) /\ DOMAIN F = DOMAIN E /\ Len(F) = Len(E) /\ Tabs(F) = Tabs(E) \ gone
  BY <1>2 DEF WithoutTab
<1> HIDE DEF F, rest
<1>5. F \in Seq(Editor) /\ f \in DOMAIN F
  BY <1>4 DEF EditorsAre
<1>6. Focused(rest) = f
  BY <1>3, <1>5, LayoutOfIs
<1>7. CASE Tidied(LayoutOf(F, f), f) = LayoutOf(F, f)
  BY <1>3, <1>4, <1>5, <1>6, <1>7 DEF Comes, rest, e, gone
<1>8. CASE Tidied(LayoutOf(F, f), f) # LayoutOf(F, f)
  <2> DEFINE R == RemoveAt(F, f)
  <2>1. F[f].tabs = <<>> /\ \E g \in DOMAIN R : Tidied(LayoutOf(F, f), f) = LayoutOf(R, g)
    BY <1>5, <1>8, TidiedIs
  <2>2. EditorsAre(R) /\ Len(R) = Len(F) - 1 /\ Tabs(R) = Tabs(F) \ TabsOf(F[f])
    BY <1>4, <1>5, EditorGoes
  <2>3. TabsOf(F[f]) = {}
    BY <2>1 DEF TabsOf
  <2> HIDE DEF R
  <2>4. Len(R) <= world.panes
    <3> DEFINE n == Len(E)
    <3>1. n \in Nat /\ n <= world.panes /\ Len(R) = n - 1
      BY <1>1, <1>4, <2>2
    <3> HIDE DEF n
    <3> QED
      BY <3>1
  <2> QED
    BY <1>3, <1>4, <1>6, <2>1, <2>2, <2>3, <2>4 DEF Comes, rest, e, gone
<1> QED
  BY <1>7, <1>8

LEMMA PaneSplit ==
    ASSUME NEW E, EditorsAre(E), Len(E) < world.panes, world.panes \in Nat, NEW f \in DOMAIN E
    PROVE  Comes(FocusedOn(PaneAdded(LayoutOf(E, f), f + 1, NoTabs), f + 1), E, {}, {})
<1> DEFINE R == InsertAt(E, f + 1, NoTabs)
<1>1. E \in Seq(Editor) /\ Len(E) \in Nat /\ DOMAIN E = 1 .. Len(E)
  BY SeqFields DEF EditorsAre
<1>2. f + 1 \in 1 .. (Len(E) + 1)
  BY <1>1
<1>3. \A j \in DOMAIN E : PathsOf(NoTabs) \cap PathsOf(E[j]) = {}
  BY NoTabsIs
<1>4. EditorsAre(R) /\ Len(R) = Len(E) + 1 /\ Tabs(R) = Tabs(E) \cup TabsOf(NoTabs)
  BY <1>2, <1>3, NoTabsIs, EditorComes
<1>5. PICK h \in DOMAIN R : PaneAdded(LayoutOf(E, f), f + 1, NoTabs) = LayoutOf(R, h)
  <2>1. NoTabs \in Editor
    BY NoTabsIs DEF EditorIs
  <2> QED
    BY <1>1, <1>2, <2>1, PaneAddedIs
<1> HIDE DEF R
<1>6. R \in Seq(Editor)
  BY <1>4 DEF EditorsAre
<1>7. PICK g \in DOMAIN R : FocusedOn(LayoutOf(R, h), f + 1) = LayoutOf(R, g)
  BY <1>6, FocusedAnywhere
<1>8. Len(R) <= world.panes
  <2> DEFINE n == Len(E)
  <2>1. n \in Nat /\ n < world.panes /\ Len(R) = n + 1
    BY <1>1, <1>4
  <2> HIDE DEF n
  <2> QED
    BY <2>1
<1>9. Tabs(R) = (Tabs(E) \ {}) \cup {}
  BY <1>4, NoTabsIs
<1> QED
  BY <1>4, <1>5, <1>7, <1>8, <1>9 DEF Comes

LEMMA PaneTaken ==
    ASSUME NEW E, EditorsAre(E), Len(E) <= world.panes, world.panes \in Nat, NEW f \in DOMAIN E,
           NEW i \in DOMAIN E, Len(E) > 1
    PROVE  Comes(PaneClosed(LayoutOf(E, f), i), E, TabsOf(E[i]), {})
<1> DEFINE R == RemoveAt(E, i)
<1>1. E \in Seq(Editor) /\ Len(E) \in Nat
  BY SeqFields DEF EditorsAre
<1>2. PICK g \in DOMAIN R : PaneClosed(LayoutOf(E, f), i) = LayoutOf(R, g)
  BY <1>1, PaneClosedIs
<1>3. EditorsAre(R) /\ Len(R) = Len(E) - 1 /\ Tabs(R) = Tabs(E) \ TabsOf(E[i])
  BY EditorGoes
<1> HIDE DEF R
<1>4. Len(R) <= world.panes
  <2> DEFINE n == Len(E)
  <2>1. n \in Nat /\ n <= world.panes /\ Len(R) = n - 1
    BY <1>1, <1>3
  <2> HIDE DEF n
  <2> QED
    BY <2>1
<1> QED
  BY <1>2, <1>3, <1>4 DEF Comes

LEMMA TabReordered ==
    ASSUME NEW E, EditorsAre(E), Len(E) <= world.panes, world.panes \in Nat, NEW f \in DOMAIN E,
           NEW i \in DOMAIN E, NEW k \in DOMAIN E[i].tabs, NEW to \in Nat \ {0}
    PROVE  Comes(WithPane(LayoutOf(E, f), i, Reordered(E[i], k, to)), E, {}, {})
<1> DEFINE e == Reordered(E[i], k, to)
<1>1. E \in Seq(Editor) /\ EditorIs(E[i])
  BY DEF EditorsAre
<1>2. EditorIs(e) /\ TabsOf(e) = TabsOf(E[i])
  BY <1>1, ReorderedIs
<1> HIDE DEF e
<1>3. Change(E, i, e, {}, {})
  BY <1>2 DEF Change
<1>4. Comes(LayoutOf(Put(E, i, e), f), E, {}, {})
  BY <1>3, EditorPut
<1>5. WithPane(LayoutOf(E, f), i, e) = LayoutOf(Put(E, i, e), f)
  BY <1>1, <1>2, WithPaneIs DEF EditorIs
<1> QED
  BY <1>4, <1>5 DEF e

LEMMA TabMoved ==
    ASSUME NEW E, EditorsAre(E), Len(E) <= world.panes, world.panes \in Nat, NEW f \in DOMAIN E,
           NEW from \in DOMAIN E, NEW to \in DOMAIN E, from # to, NEW k \in DOMAIN E[from].tabs,
           NEW before \in Nat
    PROVE  Comes(Moved(LayoutOf(E, f), from, k, to, before).layout, E, {}, {})
<1> DEFINE l == Moved(LayoutOf(E, f), from, k, to, before).layout
<1>1. KeepsTabs(l, E, Len(E))
  BY MovedIs
<1> HIDE DEF l
<1>2. PICK R : \E g \in DOMAIN R : l = LayoutOf(R, g) /\ EditorsAre(R) /\ Len(R) <= Len(E) /\ Tabs(R) = Tabs(E)
  BY <1>1 DEF KeepsTabs
<1>3. Len(R) \in Nat /\ Len(E) \in Nat
  BY <1>2, SeqFields DEF EditorsAre
<1>4. Len(R) <= world.panes
  <2> DEFINE n == Len(E)
             m == Len(R)
  <2>1. n \in Nat /\ n <= world.panes /\ m <= n /\ m \in Nat
    BY <1>2, <1>3
  <2> HIDE DEF n, m
  <2>2. m <= world.panes
    BY <2>1
  <2> QED
    BY <2>2 DEF m
<1>5. Comes(l, E, {}, {})
  BY <1>2, <1>4 DEF Comes
<1> QED
  BY <1>5 DEF l

LEMMA TabSplitOff ==
    ASSUME NEW E, EditorsAre(E), Len(E) < world.panes, world.panes \in Nat, NEW f \in DOMAIN E,
           NEW from \in DOMAIN E, NEW after \in DOMAIN E, NEW k \in DOMAIN E[from].tabs
    PROVE  Comes(SplitOff(LayoutOf(E, f), from, k, after).layout, E, {}, {})
<1> DEFINE l == SplitOff(LayoutOf(E, f), from, k, after).layout
<1>1. KeepsTabs(l, E, Len(E) + 1)
  BY SplitOffIs
<1> HIDE DEF l
<1>2. PICK R : \E g \in DOMAIN R :
        l = LayoutOf(R, g) /\ EditorsAre(R) /\ Len(R) <= Len(E) + 1 /\ Tabs(R) = Tabs(E)
  BY <1>1 DEF KeepsTabs
<1>3. Len(R) \in Nat /\ Len(E) \in Nat
  BY <1>2, SeqFields DEF EditorsAre
<1>4. Len(R) <= world.panes
  <2> DEFINE n == Len(E)
             m == Len(R)
  <2>1. n \in Nat /\ n < world.panes /\ m <= n + 1 /\ m \in Nat
    BY <1>2, <1>3
  <2> HIDE DEF n, m
  <2>2. m <= world.panes
    BY <2>1
  <2> QED
    BY <2>2 DEF m
<1>5. Comes(l, E, {}, {})
  BY <1>2, <1>4 DEF Comes
<1> QED
  BY <1>5 DEF l
-----------------------------------------------------------------------------
(* The documents of a session.                                             *)

Unique(T) == T \subseteq Tab /\ \A t, u \in T : t.path = u.path => t = u
PathsIn(T) == {t.path : t \in T}

\* The documents are the texts of the tabs that are marked as opened.
Follows(docs, T) ==
    /\ DOMAIN docs = PathsIn({t \in T : t.opened})
    /\ \A t \in T : t.opened => docs[t.path] = [text |-> t.text, version |-> t.version]

Document == [text : Nat, version : Nat]

LEMMA DocsAre ==
    /\ <<>> \in Docs /\ DOMAIN <<>> = {}
    /\ \A docs \in Docs : DOMAIN docs \subseteq Files /\ \A p \in DOMAIN docs : docs[p] \in Document
    /\ \A P \in SUBSET Files : \A docs \in [P -> Document] : docs \in Docs
<1>1. <<>> \in [{} -> Document] /\ DOMAIN <<>> = {}
  OBVIOUS
<1>2. \A docs \in Docs : \E P \in SUBSET Files : docs \in [P -> Document]
  BY DEF Docs, Document
<1>3. \A P \in SUBSET Files : \A docs \in [P -> Document] : docs \in Docs
  BY DEF Docs, Document
<1>4. ASSUME NEW docs \in Docs
      PROVE  DOMAIN docs \subseteq Files /\ \A p \in DOMAIN docs : docs[p] \in Document
  <2>1. PICK P \in SUBSET Files : docs \in [P -> Document]
    BY <1>2
  <2> QED
    BY <2>1
<1> QED
  BY <1>1, <1>3, <1>4

\* What didClose and didOpen make of the documents.
IsSynced(all, docs, closed, opened) ==
    /\ all \in Docs
    /\ DOMAIN all = (DOMAIN docs \ PathsIn(closed)) \cup PathsIn(opened)
    /\ \A t \in opened : all[t.path] = [text |-> t.text, version |-> t.version]
    /\ \A p \in DOMAIN docs \ PathsIn(closed) : p \notin PathsIn(opened) => all[p] = docs[p]

LEMMA SyncedIs ==
    ASSUME NEW docs \in Docs, NEW closed, NEW opened, Unique(opened)
    PROVE  IsSynced(Synced(docs, closed, opened), docs, closed, opened)
<1> DEFINE keep == DOMAIN docs \ PathsIn(closed)
           new == PathsIn(opened)
           at(p) == CHOOSE u \in opened : u.path = p
           left == [p \in keep |-> docs[p]]
           all == Synced(docs, closed, opened)
           value(p) == IF p \in new THEN [text |-> at(p).text, version |-> at(p).version] ELSE left[p]
<1>1. all = [p \in keep \cup new |-> value(p)]
  <2>1. Restrict(docs, DOMAIN docs \ {t.path : t \in closed}) = left
    BY DEF Restrict, PathsIn
  <2>2. DOMAIN left = keep
    OBVIOUS
  <2> HIDE DEF left
  <2>3. all = [p \in DOMAIN left \cup {t.path : t \in opened} |->
                 IF p \in {t.path : t \in opened}
                 THEN LET t == CHOOSE u \in opened : u.path = p
                      IN [text |-> t.text, version |-> t.version]
                 ELSE left[p]]
    BY <2>1 DEF Synced
  <2> QED
    BY <2>2, <2>3 DEF PathsIn
<1>2. ASSUME NEW t \in opened PROVE at(t.path) = t
  BY DEF Unique
<1>3. \A p \in keep : left[p] = docs[p] /\ docs[p] \in Document /\ p \in Files
  BY DocsAre
<1> HIDE DEF left, at
<1>4. ASSUME NEW t \in opened PROVE value(t.path) = [text |-> t.text, version |-> t.version]
  BY <1>2 DEF PathsIn
<1>5. ASSUME NEW t \in opened
      PROVE  t.path \in Files /\ [text |-> t.text, version |-> t.version] \in Document
  BY DEF Unique, Tab, Document
<1>6. \A p \in keep : p \notin new => value(p) = docs[p]
  BY <1>3
<1>7. \A p \in new : \E t \in opened : p = t.path
  BY DEF PathsIn
<1> HIDE DEF value
<1>8. \A p \in keep \cup new : p \in Files /\ value(p) \in Document
  <2> TAKE p \in keep \cup new
  <2>1. CASE p \in new
    BY <1>4, <1>5, <1>7, <2>1
  <2>2. CASE p \notin new
    BY <1>3, <1>6, <2>2
  <2> QED
    BY <2>1, <2>2
<1> HIDE DEF all
<1>9. all \in [keep \cup new -> Document] /\ keep \cup new \in SUBSET Files
  BY <1>1, <1>8
<1>10. all \in Docs
  BY <1>9, DocsAre
<1>11. \A t \in opened : t.path \in new
  BY DEF PathsIn
<1>12. IsSynced(all, docs, closed, opened)
  BY <1>1, <1>4, <1>6, <1>10, <1>11 DEF IsSynced
<1> QED
  BY <1>12 DEF all

\* The marks that the tabs of U get when those of new are opened.
Marked(U, new) == {Flag(t, OpenedOr(PathsIn(new))) : t \in U}

\* A marked tab is as it was, but for the mark.
LEMMA MarkedTabs ==
    ASSUME NEW U, Unique(U), NEW new, new \subseteq U
    PROVE  /\ \A v \in Marked(U, new) : \E t \in U :
                /\ v.path = t.path /\ v.text = t.text /\ v.version = t.version
                /\ v.opened <=> t.opened \/ t \in new
                /\ Dirty(v) <=> Dirty(t)
           /\ \A t \in U : \E v \in Marked(U, new) :
                /\ v.path = t.path /\ v.text = t.text /\ v.version = t.version
                /\ v.opened <=> t.opened \/ t \in new
                /\ Dirty(v) <=> Dirty(t)
<1> DEFINE O == OpenedOr(PathsIn(new))
           Same(v, t) == /\ v.path = t.path /\ v.text = t.text /\ v.version = t.version
                         /\ v.opened <=> t.opened \/ t \in new
                         /\ Dirty(v) <=> Dirty(t)
<1>1. ASSUME NEW t \in U PROVE t \in O <=> t.opened \/ t \in new
  BY DEF Unique, OpenedOr, PathsIn
<1>2. ASSUME NEW t \in U PROVE t \in Tab
  BY DEF Unique
<1> HIDE DEF O
<1>3. ASSUME NEW t \in U PROVE Same(Flag(t, O), t)
  <2> DEFINE u == Flag(t, O)
  <2>1. /\ u.path = t.path /\ u.text = t.text /\ u.version = t.version
        /\ u.opened = (t \in O) /\ (Dirty(u) <=> Dirty(t))
    BY <1>2, FlagIs
  <2> HIDE DEF u
  <2>2. u.opened <=> t \in O
    BY <2>1
  <2> QED
    BY <1>1, <2>1, <2>2 DEF u
<1> HIDE DEF Same
<1>4. Marked(U, new) = {Flag(t, O) : t \in U}
  BY DEF Marked, O
<1>5. /\ \A v \in Marked(U, new) : \E t \in U : Same(v, t)
      /\ \A t \in U : \E v \in Marked(U, new) : Same(v, t)
  BY <1>3, <1>4
<1> QED
  BY <1>5 DEF Same

LEMMA SyncedFollows ==
    ASSUME NEW docs \in Docs, NEW T, Unique(T), Follows(docs, T), NEW closed, closed \subseteq T,
           NEW U, Unique(U), T \ closed \subseteq U,
           \A t \in U : (t \in T /\ t \notin closed) \/ ~t.opened,
           NEW new, new \subseteq U, \A t \in new : ~t.opened
    PROVE  Follows(Synced(docs, {t \in closed : t.opened}, new), Marked(U, new))
<1> DEFINE gone == {t \in closed : t.opened}
           all == Synced(docs, gone, new)
           M == Marked(U, new)
<1>1. IsSynced(all, docs, gone, new)
  <2>1. Unique(new)
    BY DEF Unique
  <2> QED
    BY <2>1, SyncedIs
<1> HIDE DEF all
<1>2. /\ \A v \in M : \E t \in U :
           /\ v.path = t.path /\ v.text = t.text /\ v.version = t.version
           /\ v.opened <=> t.opened \/ t \in new
      /\ \A t \in U : \E v \in M :
           /\ v.path = t.path /\ v.text = t.text /\ v.version = t.version
           /\ v.opened <=> t.opened \/ t \in new
  BY MarkedTabs
<1> HIDE DEF M
<1>3. ASSUME NEW t \in U, t.opened \/ t \in new
      PROVE  t.path \in DOMAIN all /\ all[t.path] = [text |-> t.text, version |-> t.version]
  <2>1. CASE t \in new
    BY <1>1, <2>1 DEF IsSynced, PathsIn
  <2>2. CASE t \notin new
    <3>1. t \in T /\ t \notin closed /\ t.opened
      BY <1>3, <2>2
    <3>2. t.path \in DOMAIN docs /\ docs[t.path] = [text |-> t.text, version |-> t.version]
      BY <3>1 DEF Follows, PathsIn
    <3>3. t.path \notin PathsIn(gone)
      BY <3>1 DEF Unique, PathsIn
    <3>4. t.path \notin PathsIn(new)
      BY <2>2 DEF Unique, PathsIn
    <3> QED
      BY <1>1, <3>2, <3>3, <3>4 DEF IsSynced
  <2> QED
    BY <2>1, <2>2
<1>4. ASSUME NEW p \in DOMAIN all PROVE \E t \in U : t.path = p /\ (t.opened \/ t \in new)
  <2>1. CASE p \in PathsIn(new)
    BY <2>1 DEF PathsIn
  <2>2. CASE p \notin PathsIn(new)
    <3>1. p \in DOMAIN docs /\ p \notin PathsIn(gone)
      BY <1>1, <2>2 DEF IsSynced
    <3>2. PICK t \in T : t.opened /\ t.path = p
      BY <3>1 DEF Follows, PathsIn
    <3>3. t \notin closed
      BY <3>1, <3>2 DEF PathsIn
    <3> QED
      BY <3>2, <3>3
  <2> QED
    BY <2>1, <2>2
<1>5. DOMAIN all = PathsIn({v \in M : v.opened})
  <2>1. \A p : p \in DOMAIN all => \E v \in M : v.opened /\ v.path = p
    BY <1>2, <1>4
  <2>2. \A v \in M : v.opened => v.path \in DOMAIN all
    BY <1>2, <1>3
  <2> QED
    BY <2>1, <2>2 DEF PathsIn
<1>6. \A v \in M : v.opened => all[v.path] = [text |-> v.text, version |-> v.version]
  BY <1>2, <1>3
<1>7. Follows(all, M)
  BY <1>5, <1>6 DEF Follows
<1> QED
  BY <1>7 DEF all, gone, M
-----------------------------------------------------------------------------
(* The sessions.                                                           *)

\* The sessions, and the documents that s got if it was up.
Retold(all, s, docs) ==
    /\ all \in Seq(Session) /\ Len(all) = Len(sessions) /\ DOMAIN all = DOMAIN sessions
    /\ \A q \in DOMAIN sessions :
         /\ all[q].state = sessions[q].state
         /\ q # s => all[q] = sessions[q]
         /\ q = s /\ sessions[s].state = "up" => all[q].docs = docs
         /\ sessions[q].state # "up" => all[q] = sessions[q]

LEMMA SessionFields ==
    ASSUME NEW x \in Session
    PROVE  /\ x.state \in {"starting", "up", "ended"} /\ x.docs \in Docs
           /\ x = [state |-> x.state, docs |-> x.docs]
BY DEF Session

LEMMA SessionsAre ==
    /\ Starting \in Session /\ Starting.state = "starting" /\ Starting.docs = <<>>
    /\ Ended \in Session /\ Ended.state = "ended" /\ Ended.docs = <<>>
BY DocsAre DEF Starting, Ended, Session

LEMMA ToldIs ==
    ASSUME sessions \in Seq(Session), NEW s \in DOMAIN sessions, NEW docs \in Docs
    PROVE  Retold(Told(s, docs), s, docs)
<1> DEFINE all == Told(s, docs)
<1>1. Len(sessions) \in Nat /\ DOMAIN sessions = 1 .. Len(sessions) /\ \A q \in DOMAIN sessions : sessions[q] \in Session
  BY SeqFields
<1>2. CASE sessions[s].state # "up"
  <2>1. all = sessions
    BY <1>2 DEF Told
  <2> HIDE DEF all
  <2>2. Retold(all, s, docs)
    BY <1>2, <2>1 DEF Retold
  <2> QED
    BY <2>2 DEF all
<1>3. CASE sessions[s].state = "up"
  <2> DEFINE x == [sessions[s] EXCEPT !.docs = docs]
             n == Len(sessions)
  <2>1. all = [sessions EXCEPT ![s] = x]
    BY <1>3 DEF Told
  <2>2. x \in Session /\ x.state = sessions[s].state /\ x.docs = docs
    BY <1>1 DEF Session
  <2> HIDE DEF x, all
  <2>3. sessions \in [1 .. n -> Session] /\ n \in Nat
    BY <1>1, SeqDef
  <2>4. all \in [1 .. n -> Session]
    BY <1>1, <2>1, <2>2, <2>3
  <2>5. all \in Seq(Session) /\ Len(all) = n /\ DOMAIN all = 1 .. n
    <3> HIDE DEF n
    <3> QED
      BY <2>3, <2>4, FunctionIsSeq
  <2>6. \A q \in DOMAIN sessions : all[q] = IF q = s THEN x ELSE sessions[q]
    BY <1>1, <2>1, <2>3
  <2>7. Retold(all, s, docs)
    BY <1>1, <1>3, <2>2, <2>5, <2>6 DEF Retold
  <2> QED
    BY <2>7 DEF all
<1> QED
  BY <1>2, <1>3

\* A session more.
LEMMA SessionAdded ==
    ASSUME NEW all \in Seq(Session)
    PROVE  LET more == Append(all, Starting)
           IN  /\ more \in Seq(Session) /\ Len(more) = Len(all) + 1 /\ Len(all) \in Nat
               /\ DOMAIN all = 1 .. Len(all) /\ DOMAIN more = 1 .. (Len(all) + 1)
               /\ \A q \in DOMAIN all : more[q] = all[q]
               /\ more[Len(all) + 1] = Starting
<1> DEFINE more == Append(all, Starting)
           n == Len(all)
<1>1. n \in Nat /\ DOMAIN all = 1 .. n
  BY SeqFields
<1>2. more \in Seq(Session) /\ Len(more) = n + 1
  BY SessionsAre, AppendProperties
<1>3. \A q \in 1 .. n : more[q] = all[q]
  BY SessionsAre, AppendProperties
<1>4. more[n + 1] = Starting
  BY SessionsAre, AppendProperties
<1>5. DOMAIN more = 1 .. (n + 1)
  BY <1>2, LenProperties
<1> QED
  BY <1>1, <1>2, <1>3, <1>4, <1>5

\* The sessions after the handle of one is dropped.
LEMMA DroppedIs ==
    ASSUME NEW all \in Seq(Session), lsp = 0 \/ lsp \in DOMAIN all
    PROVE  /\ Dropped(all) \in Seq(Session) /\ Len(Dropped(all)) = Len(all)
           /\ DOMAIN Dropped(all) = DOMAIN all
           /\ \A q \in DOMAIN all : Dropped(all)[q] = IF q = lsp THEN Ended ELSE all[q]
<1> DEFINE rest == Dropped(all)
           n == Len(all)
<1>1. n \in Nat /\ DOMAIN all = 1 .. n /\ all \in [1 .. n -> Session]
  BY SeqFields, SeqDef
<1>2. CASE lsp = 0
  <2>1. rest = all
    BY <1>2 DEF Dropped
  <2>2. \A q \in DOMAIN all : q # lsp
    BY <1>1, <1>2
  <2> QED
    BY <2>1, <2>2
<1>3. CASE lsp # 0
  <2>1. rest = [all EXCEPT ![lsp] = Ended]
    BY <1>3 DEF Dropped
  <2> HIDE DEF rest
  <2>2. rest \in [1 .. n -> Session]
    BY <1>1, <1>3, <2>1, SessionsAre
  <2>3. rest \in Seq(Session) /\ Len(rest) = n /\ DOMAIN rest = 1 .. n
    <3> HIDE DEF n
    <3> QED
      BY <1>1, <2>2, FunctionIsSeq
  <2>4. \A q \in DOMAIN all : rest[q] = IF q = lsp THEN Ended ELSE all[q]
    BY <1>1, <2>1
  <2> QED
    BY <1>1, <2>3, <2>4 DEF rest
<1> QED
  BY <1>2, <1>3
-----------------------------------------------------------------------------
(* A step that shows a layout.                                             *)

Is(l, E, f) ==
    f \in DOMAIN E /\ l = LayoutOf(E, f) /\ EditorsAre(E) /\ Len(E) <= world.panes

LEMMA LayoutIsThat ==
    ASSUME NEW l, LayoutIs(l)
    PROVE  Is(l, EditorsOf(l), Focused(l))
BY LayoutIsOf DEF LayoutIs, Is

LEMMA ThatIsLayout ==
    ASSUME NEW E, NEW f, NEW l, Is(l, E, f)
    PROVE  /\ LayoutIs(l) /\ AllTabs(l) = Tabs(E) /\ Editors(l) = {E[i] : i \in DOMAIN E}
           /\ Panes(l) = DOMAIN E /\ Len(l.panes) = Len(E) /\ Focused(l) = f /\ l.editor = E[f]
           /\ \A i \in DOMAIN E : PaneEditor(l, i) = E[i] /\ (l.panes[i] = Live <=> i = f)
<1>1. E \in Seq(Editor) /\ f \in DOMAIN E
  BY DEF Is, EditorsAre
<1>2. l = LayoutOf(E, f)
  BY DEF Is
<1>3. /\ Shape(l) /\ EditorsOf(l) = E /\ Focused(l) = f /\ Len(l.panes) = Len(E)
      /\ l.editor = E[f] /\ Panes(l) = DOMAIN E
      /\ \A i \in DOMAIN E : (l.panes[i] = Live <=> i = f) /\ PaneEditor(l, i) = E[i]
  BY <1>1, <1>2, LayoutOfIs
<1>4. AllTabs(l) = Tabs(E) /\ Editors(l) = {E[i] : i \in DOMAIN E}
  BY <1>1, <1>2, TabsOfLayout
<1>5. LayoutIs(l)
  BY <1>3 DEF LayoutIs, Is
<1> QED
  BY <1>3, <1>4, <1>5

LEMMA LayoutTabs ==
    ASSUME NEW l, LayoutIs(l)
    PROVE  Unique(AllTabs(l))
<1> DEFINE E == EditorsOf(l)
<1>1. Is(l, E, Focused(l))
  BY LayoutIsThat
<1> HIDE DEF E
<1>2. AllTabs(l) = Tabs(E) /\ EditorsAre(E) /\ E \in Seq(Editor)
  BY <1>1, ThatIsLayout DEF Is, EditorsAre
<1>3. \A t \in Tabs(E) : t \in Tab
  BY <1>2, TabsAreTabs
<1>4. \A t, u \in Tabs(E) : t.path = u.path => t = u
  BY <1>2, OneTabPerFile
<1> QED
  BY <1>2, <1>3, <1>4 DEF Unique

LEMMA MarkedLayout ==
    ASSUME NEW l, LayoutIs(l), NEW new
    PROVE  /\ LayoutIs(Mark(l, PathsIn(new))) /\ LayoutIs(Closed(l))
           /\ AllTabs(Mark(l, PathsIn(new))) = Marked(AllTabs(l), new)
           /\ AllTabs(Closed(l)) = {Flag(t, {}) : t \in AllTabs(l)}
<1> DEFINE E == EditorsOf(l)
           f == Focused(l)
           O == OpenedOr(PathsIn(new))
<1>1. Is(l, E, f)
  BY LayoutIsThat
<1> HIDE DEF E, f
<1>2. f \in DOMAIN E /\ l = LayoutOf(E, f) /\ EditorsAre(E) /\ Len(E) <= world.panes /\ E \in Seq(Editor)
  BY <1>1 DEF Is, EditorsAre
<1>3. AllTabs(l) = Tabs(E)
  BY <1>1, ThatIsLayout
<1>4. Mark(l, PathsIn(new)) = LayoutOf(Flagged(E, O), f) /\ Closed(l) = LayoutOf(Flagged(E, {}), f)
  BY <1>2, MarkIs
<1>5. ASSUME NEW Q
      PROVE  /\ EditorsAre(Flagged(E, Q)) /\ Tabs(Flagged(E, Q)) = {Flag(t, Q) : t \in Tabs(E)}
             /\ DOMAIN Flagged(E, Q) = DOMAIN E /\ Len(Flagged(E, Q)) = Len(E)
  BY <1>2, FlaggedIs
<1>6. ASSUME NEW Q, NEW k, k = LayoutOf(Flagged(E, Q), f)
      PROVE  LayoutIs(k) /\ AllTabs(k) = {Flag(t, Q) : t \in Tabs(E)}
  <2>1. Is(k, Flagged(E, Q), f)
    BY <1>2, <1>5, <1>6 DEF Is
  <2> QED
    BY <1>5, <2>1, ThatIsLayout
<1>7. LayoutIs(Mark(l, PathsIn(new))) /\ AllTabs(Mark(l, PathsIn(new))) = {Flag(t, O) : t \in Tabs(E)}
  BY <1>4, <1>6
<1>8. LayoutIs(Closed(l)) /\ AllTabs(Closed(l)) = {Flag(t, {}) : t \in Tabs(E)}
  BY <1>4, <1>6
<1> QED
  BY <1>3, <1>7, <1>8 DEF Marked

\* The layout has no opened tab that was not there.
Leads(l) == LayoutIs(l) /\ \A t \in AllTabs(l) : t \in AllTabs(layout) \/ ~t.opened

\* It has every tab but the closed ones, of which none is opened in it.
Rightly(l, closed) ==
    /\ closed \subseteq AllTabs(layout) /\ AllTabs(layout) \ closed \subseteq AllTabs(l)
    /\ \A t \in AllTabs(l) : t.opened => t \notin closed

LEMMA FollowsIs ==
    ASSUME lsp # 0, ~drifted, sessions[lsp].state = "up", ClangdFollows
    PROVE  Follows(sessions[lsp].docs, AllTabs(layout))
BY DEF ClangdFollows, Follows, PathsIn

\* No unsaved text of T is missing in U.
Texts(T) == {[path |-> t.path, text |-> t.text] : t \in {u \in T : Dirty(u)}}

LEMMA ShowsKeeps ==
    ASSUME IInv, NEW l, NEW closed, NEW front, Leads(l), Shows(l, closed, front),
           UNCHANGED <<workspace, lsp, inbox, disk, texts>>, drifted' \in BOOLEAN,
           drifted' \/ (~drifted /\ Rightly(l, closed))
    PROVE  IInv' /\ Texts(AllTabs(layout')) = Texts(AllTabs(l))
<1> DEFINE U == AllTabs(l)
           new == IF lsp = 0 THEN {} ELSE {t \in U : t.path \in front \cap Eligible /\ ~t.opened}
           gone == {t \in closed : t.opened}
           docs == Synced(sessions[lsp].docs, gone, new)
           told == IF lsp = 0 THEN sessions ELSE Told(lsp, docs)
<1>1. /\ layout' = Mark(l, PathsIn(new))
      /\ sessions' = told \/ sessions' = Append(told, Starting)
      /\ init_started' = TRUE \/ init_started' = init_started
  BY DEF Shows, PathsIn
<1>2. LayoutIs(l) /\ Unique(U) /\ \A t \in U : t \in AllTabs(layout) \/ ~t.opened
  BY LayoutTabs DEF Leads
<1>3. new \subseteq U /\ Unique(new) /\ (\A t \in new : ~t.opened) /\ (lsp = 0 => new = {})
  BY <1>2 DEF Unique
<1>4. Types /\ Buffers /\ Clangd
  BY DEF IInv
<1>5. /\ sessions \in Seq(Session) /\ lsp \in 0 .. Len(sessions) /\ Len(sessions) \in Nat
      /\ DOMAIN sessions = 1 .. Len(sessions) /\ \A s \in DOMAIN sessions : sessions[s] \in Session
  BY <1>4, SeqFields DEF Types
<1>6. lsp # 0 => lsp \in DOMAIN sessions
  <2> DEFINE n == Len(sessions)
  <2>1. n \in Nat /\ lsp \in 0 .. n
    BY <1>5
  <2> HIDE DEF n
  <2>2. lsp # 0 => lsp \in 1 .. n
    BY <2>1
  <2> QED
    BY <1>5, <2>2 DEF n
<1>7. lsp # 0 => docs \in Docs
  <2>1. lsp # 0 => sessions[lsp].docs \in Docs
    BY <1>5, <1>6, SessionFields
  <2>2. ASSUME lsp # 0 PROVE IsSynced(docs, sessions[lsp].docs, gone, new)
    BY <1>3, <2>1, <2>2, SyncedIs
  <2> QED
    BY <2>2 DEF IsSynced
<1>8. lsp # 0 /\ ~drifted' /\ sessions[lsp].state = "up" => Follows(docs, Marked(U, new))
  <2> SUFFICES ASSUME lsp # 0, ~drifted', sessions[lsp].state = "up"
               PROVE  Follows(docs, Marked(U, new))
    OBVIOUS
  <2> DEFINE T == AllTabs(layout)
  <2>1. Rightly(l, closed) /\ ~drifted
    OBVIOUS
  <2>2. Follows(sessions[lsp].docs, T)
    BY <1>4, <2>1, FollowsIs DEF Clangd
  <2>3. Unique(T)
    BY <1>4, LayoutTabs DEF Buffers
  <2>4. closed \subseteq T /\ T \ closed \subseteq U
    BY <2>1 DEF Rightly
  <2>5. \A t \in U : (t \in T /\ t \notin closed) \/ ~t.opened
    BY <1>2, <2>1 DEF Rightly
  <2>6. sessions[lsp].docs \in Docs
    BY <1>5, <1>6, SessionFields
  <2> HIDE DEF new, T, U
  <2> QED
    BY <1>2, <1>3, <2>2, <2>3, <2>4, <2>5, <2>6, SyncedFollows
<1> HIDE DEF new, docs, U
<1>9. /\ told \in Seq(Session) /\ Len(told) = Len(sessions) /\ DOMAIN told = DOMAIN sessions
      /\ \A q \in DOMAIN sessions :
           /\ told[q].state = sessions[q].state
           /\ q # lsp => told[q] = sessions[q]
           /\ q = lsp /\ sessions[q].state = "up" => told[q].docs = docs
  <2>1. CASE lsp = 0
    BY <1>5, <2>1
  <2>2. CASE lsp # 0
    <3>1. Retold(told, lsp, docs)
      BY <1>5, <1>6, <1>7, <2>2, ToldIs
    <3> HIDE DEF told
    <3> QED
      BY <3>1 DEF Retold
  <2> QED
    BY <2>1, <2>2
<1> HIDE DEF told
<1>10. /\ sessions' \in Seq(Session)
       /\ \A q \in DOMAIN sessions : q \in DOMAIN sessions' /\ sessions'[q] = told[q]
       /\ \A q \in DOMAIN sessions' : q \notin DOMAIN sessions => sessions'[q] = Starting
       /\ Len(sessions') = Len(sessions) \/ Len(sessions') = Len(sessions) + 1
  <2>1. CASE sessions' = told
    BY <1>9, <2>1
  <2>2. CASE sessions' = Append(told, Starting)
    <3> DEFINE n == Len(told)
    <3>1. /\ sessions' \in Seq(Session) /\ Len(sessions') = n + 1 /\ n \in Nat
          /\ DOMAIN told = 1 .. n /\ DOMAIN sessions' = 1 .. (n + 1)
          /\ \A q \in DOMAIN told : sessions'[q] = told[q]
          /\ sessions'[n + 1] = Starting
      BY <1>9, <2>2, SessionAdded
    <3> HIDE DEF n
    <3>2. \A q \in 1 .. (n + 1) : q \in 1 .. n \/ q = n + 1
      BY <3>1
    <3>3. \A q \in 1 .. n : q \in 1 .. (n + 1)
      BY <3>1
    <3> QED
      BY <1>9, <3>1, <3>2, <3>3 DEF n
  <2> QED
    BY <1>1, <2>1, <2>2
<1>11. LayoutIs(layout') /\ AllTabs(layout') = Marked(U, new)
  BY <1>1, <1>2, MarkedLayout DEF U
<1>12. Types'
  <2>1. lsp \in 0 .. Len(sessions')
    BY <1>5, <1>10
  <2> QED
    BY <1>1, <1>4, <1>10, <2>1 DEF Types, workspace
<1>13. Buffers'
  BY <1>4, <1>11 DEF Buffers, LayoutIs, BlobIs, workspace
<1>14. \A v \in AllTabs(layout') : \E t \in U : v.opened <=> t.opened \/ t \in new
  BY <1>2, <1>3, <1>11, MarkedTabs
<1>15. Clangd'
  <2>1. lsp' # 0 => sessions'[lsp'].state # "starting"
    BY <1>4, <1>6, <1>9, <1>10 DEF Clangd
  <2>2. \A i \in DOMAIN inbox' :
          inbox'[i].of \in DOMAIN sessions' /\ sessions'[inbox'[i].of].state # "starting"
    BY <1>4, <1>9, <1>10 DEF Clangd
  <2>3. \A s \in DOMAIN sessions' : s # lsp' => sessions'[s].docs = <<>>
    BY <1>4, <1>9, <1>10, SessionsAre DEF Clangd
  <2>4. lsp' = 0 => \A t \in AllTabs(layout') : ~t.opened
    BY <1>2, <1>3, <1>4, <1>14 DEF Clangd
  <2>5. ClangdFollows'
    <3> SUFFICES ASSUME lsp' # 0, ~drifted', sessions'[lsp'].state = "up"
                 PROVE  Follows(sessions'[lsp'].docs, AllTabs(layout'))
      BY DEF ClangdFollows, Follows, PathsIn
    <3>1. lsp # 0 /\ lsp' = lsp /\ lsp \in DOMAIN sessions /\ sessions'[lsp] = told[lsp]
      BY <1>6, <1>10
    <3>2. sessions[lsp].state = "up" /\ told[lsp].docs = docs
      BY <1>9, <3>1
    <3> QED
      BY <1>8, <1>11, <3>1, <3>2
  <2> QED
    BY <2>1, <2>2, <2>3, <2>4, <2>5 DEF Clangd
<1>16. Texts(AllTabs(layout')) = Texts(U)
  <2>1. \A v \in AllTabs(layout') : \E t \in U : v.path = t.path /\ v.text = t.text /\ (Dirty(v) <=> Dirty(t))
    BY <1>2, <1>3, <1>11, MarkedTabs
  <2>2. \A t \in U : \E v \in AllTabs(layout') : v.path = t.path /\ v.text = t.text /\ (Dirty(v) <=> Dirty(t))
    BY <1>2, <1>3, <1>11, MarkedTabs
  <2> QED
    BY <2>1, <2>2 DEF Texts
<1> QED
  BY <1>12, <1>13, <1>15, <1>16 DEF IInv, U
-----------------------------------------------------------------------------
(* The operations on tabs and panes.                                       *)

LEMMA ComesLeads ==
    ASSUME NEW E, NEW f, Is(layout, E, f), NEW l, NEW gone, NEW new, Comes(l, E, gone, new),
           gone \subseteq Tabs(E), \A t \in new : ~t.opened
    PROVE  Leads(l) /\ Rightly(l, gone)
<1>1. AllTabs(layout) = Tabs(E)
  BY ThatIsLayout
<1>2. PICK R : \E g \in DOMAIN R : /\ l = LayoutOf(R, g) /\ EditorsAre(R) /\ Len(R) <= world.panes
                                   /\ Tabs(R) = (Tabs(E) \ gone) \cup new
  BY DEF Comes
<1>3. PICK g \in DOMAIN R : /\ l = LayoutOf(R, g) /\ EditorsAre(R) /\ Len(R) <= world.panes
                            /\ Tabs(R) = (Tabs(E) \ gone) \cup new
  BY <1>2
<1>4. Is(l, R, g)
  BY <1>3 DEF Is
<1>5. LayoutIs(l) /\ AllTabs(l) = (AllTabs(layout) \ gone) \cup new
  BY <1>1, <1>3, <1>4, ThatIsLayout
<1> QED
  BY <1>1, <1>5 DEF Leads, Rightly

\* A step that keeps the invariant, and loses no unsaved text but those of gone.
Step(gone) == IInv' /\ Texts(AllTabs(layout) \ gone) \subseteq Texts(AllTabs(layout'))

LEMMA TabStep ==
    ASSUME IInv, NEW E, NEW f, Is(layout, E, f), NEW l, NEW gone, NEW new, Comes(l, E, gone, new),
           gone \subseteq Tabs(E), \A t \in new : ~t.opened,
           NEW front, Shows(l, gone, front), OnlyTabs
    PROVE  Step(gone)
<1>1. Leads(l) /\ Rightly(l, gone)
  BY ComesLeads
<1>2. drifted' = drifted /\ drifted \in BOOLEAN /\ UNCHANGED <<workspace, lsp, inbox, disk, texts>>
  BY DEF OnlyTabs, IInv, Types
<1>3. IInv' /\ Texts(AllTabs(layout')) = Texts(AllTabs(l))
  BY <1>1, <1>2, ShowsKeeps
<1>4. Texts(AllTabs(layout) \ gone) \subseteq Texts(AllTabs(l))
  BY <1>1 DEF Rightly, Texts
<1> QED
  BY <1>3, <1>4 DEF Step

\* What every operation on the layout starts from.
At(E, f) ==
    /\ Is(layout, E, f) /\ E \in Seq(Editor) /\ EditorsAre(E) /\ Len(E) <= world.panes
    /\ world.panes \in Nat /\ f \in DOMAIN E /\ layout = LayoutOf(E, f)
    /\ Panes(layout) = DOMAIN E /\ Len(layout.panes) = Len(E) /\ layout.editor = E[f]
    /\ AllTabs(layout) = Tabs(E) /\ Focused(layout) = f
    /\ Editors(layout) = {E[i] : i \in DOMAIN E}
    /\ \A i \in DOMAIN E : /\ PaneEditor(layout, i) = E[i] /\ EditorIs(E[i])
                           /\ FocusedOn(layout, i) = LayoutOf(E, i)
                           /\ TabsOf(E[i]) \subseteq Tabs(E)
                           /\ LayoutOf(E, i).editor = E[i]
                           /\ Is(LayoutOf(E, i), E, i)

LEMMA LayoutAt ==
    ASSUME IInv
    PROVE  \E E, f : At(E, f)
<1> DEFINE E == EditorsOf(layout)
           f == Focused(layout)
<1>1. Is(layout, E, f)
  BY LayoutIsThat DEF IInv, Buffers
<1> HIDE DEF E, f
<1>2. /\ f \in DOMAIN E /\ layout = LayoutOf(E, f) /\ EditorsAre(E) /\ Len(E) <= world.panes
      /\ E \in Seq(Editor) /\ \A i \in DOMAIN E : EditorIs(E[i])
  BY <1>1 DEF Is, EditorsAre
<1>3. world.panes \in Nat
  BY WorldsAreBounds DEF IInv, Types
<1>4. /\ AllTabs(layout) = Tabs(E) /\ Editors(layout) = {E[i] : i \in DOMAIN E}
      /\ Panes(layout) = DOMAIN E /\ Len(layout.panes) = Len(E) /\ Focused(layout) = f
      /\ layout.editor = E[f] /\ \A i \in DOMAIN E : PaneEditor(layout, i) = E[i]
  BY <1>1, ThatIsLayout
<1>5. ASSUME NEW i \in DOMAIN E
      PROVE  /\ FocusedOn(layout, i) = LayoutOf(E, i) /\ TabsOf(E[i]) \subseteq Tabs(E)
             /\ LayoutOf(E, i).editor = E[i] /\ Is(LayoutOf(E, i), E, i)
  <2>1. FocusedOn(layout, i) = LayoutOf(E, i)
    BY <1>2, FocusedOnIs
  <2>2. TabsOf(E[i]) \subseteq Tabs(E)
    BY <1>2, TabsAreTabs
  <2>3. Is(LayoutOf(E, i), E, i)
    BY <1>2 DEF Is
  <2>4. LayoutOf(E, i).editor = E[i]
    BY DEF LayoutOf
  <2> QED
    BY <2>1, <2>2, <2>3, <2>4
<1>6. At(E, f)
  BY <1>1, <1>2, <1>3, <1>4, <1>5 DEF At
<1> QED
  BY <1>6

LEMMA OpenElsewhereKeeps ==
    ASSUME IInv, NEW path, OpenElsewhere(path)
    PROVE  Step({})
<1>1. PICK E, f : At(E, f)
  BY LayoutAt
<1>2. PICK i \in Panes(layout) :
        LET l == FocusedOn(layout, i)
        IN Shows([l EXCEPT !.editor = Switched(l.editor, IndexOf(l.editor, path))], {},
                 ActivePaths(l.editor))
  BY DEF OpenElsewhere
<1>3. /\ i \in DOMAIN E /\ FocusedOn(layout, i) = LayoutOf(E, i) /\ LayoutOf(E, i).editor = E[i]
      /\ EditorsAre(E) /\ Len(E) <= world.panes /\ world.panes \in Nat /\ Is(layout, E, f)
  BY <1>1 DEF At
<1> DEFINE l == [LayoutOf(E, i) EXCEPT !.editor = Switched(E[i], IndexOf(E[i], path))]
<1>4. Shows(l, {}, ActivePaths(E[i]))
  BY <1>2, <1>3
<1>5. Comes(l, E, {}, {})
  BY <1>3, TabSwitched
<1>6. OnlyTabs
  BY DEF OpenElsewhere
<1> HIDE DEF l
<1> QED
  BY <1>3, <1>4, <1>5, <1>6, TabStep

LEMMA SwitchTabKeeps ==
    ASSUME IInv, NEW i \in Panes(layout), NEW k, SwitchTab(i, k)
    PROVE  Step({})
<1>1. PICK E, f : At(E, f)
  BY LayoutAt
<1>2. /\ i \in DOMAIN E /\ FocusedOn(layout, i) = LayoutOf(E, i) /\ LayoutOf(E, i).editor = E[i]
      /\ EditorsAre(E) /\ Len(E) <= world.panes /\ world.panes \in Nat /\ Is(layout, E, f)
  BY <1>1 DEF At
<1> DEFINE l == [LayoutOf(E, i) EXCEPT !.editor = Switched(E[i], k)]
           front == IF LayoutOf(E, i) = layout THEN {} ELSE ActivePaths(E[i])
<1>3. Shows(l, {}, front) /\ OnlyTabs
  BY <1>2 DEF SwitchTab
<1>4. Comes(l, E, {}, {})
  BY <1>2, TabSwitched
<1> HIDE DEF l, front
<1> QED
  BY <1>2, <1>3, <1>4, TabStep

LEMMA CloseTabKeeps ==
    ASSUME IInv, NEW i \in Panes(layout), NEW k \in DOMAIN PaneEditor(layout, i).tabs, CloseTab(i, k)
    PROVE  Step({PaneEditor(layout, i).tabs[k]})
<1>1. PICK E, f : At(E, f)
  BY LayoutAt
<1>2. /\ i \in DOMAIN E /\ FocusedOn(layout, i) = LayoutOf(E, i) /\ LayoutOf(E, i).editor = E[i]
      /\ EditorsAre(E) /\ Len(E) <= world.panes /\ world.panes \in Nat /\ Is(layout, E, f)
      /\ PaneEditor(layout, i) = E[i] /\ k \in DOMAIN E[i].tabs /\ TabsOf(E[i]) \subseteq Tabs(E)
  BY <1>1 DEF At
<1> DEFINE rest == [LayoutOf(E, i) EXCEPT !.editor = Removed(E[i], k)]
           l == Tidied(rest, Focused(rest))
           front == (IF l # rest THEN ActivePaths(l.editor) ELSE {})
                    \cup (IF LayoutOf(E, i) = layout THEN {} ELSE ActivePaths(E[i]))
           gone == {E[i].tabs[k]}
<1>3. Shows(l, gone, front) /\ OnlyTabs
  BY <1>2 DEF CloseTab
<1>4. Comes(l, E, gone, {})
  BY <1>2, TabClosed
<1>5. gone \subseteq Tabs(E)
  BY <1>2 DEF TabsOf
<1> HIDE DEF l, front, gone
<1>6. Step(gone)
  BY <1>2, <1>3, <1>4, <1>5, TabStep
<1> QED
  BY <1>2, <1>6 DEF gone

LEMMA SplitPaneKeeps ==
    ASSUME IInv, SplitPane
    PROVE  Step({})
<1>1. PICK E, f : At(E, f)
  BY LayoutAt
<1>2. /\ EditorsAre(E) /\ Len(E) = Len(layout.panes) /\ world.panes \in Nat /\ Is(layout, E, f)
      /\ f \in DOMAIN E /\ layout = LayoutOf(E, f) /\ Focused(layout) = f
  BY <1>1 DEF At
<1> DEFINE l == FocusedOn(PaneAdded(LayoutOf(E, f), f + 1, NoTabs), f + 1)
<1>3. Shows(l, {}, {}) /\ OnlyTabs /\ Len(E) < world.panes
  BY <1>2 DEF SplitPane
<1>4. Comes(l, E, {}, {})
  BY <1>2, <1>3, PaneSplit
<1> HIDE DEF l
<1> QED
  BY <1>2, <1>3, <1>4, TabStep

LEMMA FocusPaneKeeps ==
    ASSUME IInv, NEW i \in Panes(layout), FocusPane(i)
    PROVE  Step({})
<1>1. PICK E, f : At(E, f)
  BY LayoutAt
<1>2. /\ i \in DOMAIN E /\ FocusedOn(layout, i) = LayoutOf(E, i) /\ LayoutOf(E, i).editor = E[i]
      /\ EditorsAre(E) /\ Len(E) <= world.panes /\ Is(layout, E, f)
  BY <1>1 DEF At
<1> DEFINE l == LayoutOf(E, i)
<1>3. Shows(l, {}, ActivePaths(E[i])) /\ OnlyTabs
  BY <1>2 DEF FocusPane
<1>4. Comes(l, E, {}, {})
  BY <1>2 DEF Comes
<1> HIDE DEF l
<1> QED
  BY <1>2, <1>3, <1>4, TabStep

LEMMA ClosePaneKeeps ==
    ASSUME IInv, NEW i \in Panes(layout), ClosePane(i)
    PROVE  Step(TabsOf(PaneEditor(layout, i)))
<1>1. PICK E, f : At(E, f)
  BY LayoutAt
<1>2. /\ i \in DOMAIN E /\ f \in DOMAIN E /\ layout = LayoutOf(E, f) /\ Len(layout.panes) = Len(E)
      /\ EditorsAre(E) /\ Len(E) <= world.panes /\ world.panes \in Nat /\ Is(layout, E, f)
      /\ PaneEditor(layout, i) = E[i] /\ TabsOf(E[i]) \subseteq Tabs(E)
  BY <1>1 DEF At
<1> DEFINE l == PaneClosed(LayoutOf(E, f), i)
           front == IF layout.panes[i] = Live THEN ActivePaths(l.editor) ELSE {}
           gone == TabsOf(E[i])
<1>3. Shows(l, gone, front) /\ OnlyTabs /\ Len(E) > 1
  BY <1>2 DEF ClosePane, SplitMode
<1>4. Comes(l, E, gone, {})
  BY <1>2, <1>3, PaneTaken
<1> HIDE DEF l, front, gone
<1>5. Step(gone)
  BY <1>2, <1>3, <1>4, TabStep DEF gone
<1> QED
  BY <1>2, <1>5 DEF gone

LEMMA DropTabKeeps ==
    ASSUME IInv, NEW from \in Panes(layout), NEW k \in DOMAIN PaneEditor(layout, from).tabs,
           NEW to \in Panes(layout), NEW before \in Nat, DropTab(from, k, to, before)
    PROVE  Step({})
<1>1. PICK E, f : At(E, f)
  BY LayoutAt
<1>2. /\ from \in DOMAIN E /\ to \in DOMAIN E /\ f \in DOMAIN E /\ layout = LayoutOf(E, f)
      /\ EditorsAre(E) /\ Len(E) <= world.panes /\ world.panes \in Nat /\ Is(layout, E, f)
      /\ PaneEditor(layout, from) = E[from] /\ k \in DOMAIN E[from].tabs
  BY <1>1 DEF At
<1>3. OnlyTabs
  BY DEF DropTab
<1>4. CASE from = to
  <2> DEFINE l == WithPane(LayoutOf(E, f), from, Reordered(E[from], k, before))
  <2>1. Shows(l, {}, {}) /\ before \in Nat \ {0}
    BY <1>2, <1>4 DEF DropTab
  <2>2. Comes(l, E, {}, {})
    BY <1>2, <2>1, TabReordered
  <2> HIDE DEF l
  <2> QED
    BY <1>2, <1>3, <2>1, <2>2, TabStep
<1>5. CASE from # to
  <2> DEFINE m == Moved(LayoutOf(E, f), from, k, to, before)
             l == m.layout
             front == m.front \cup ActivePaths(m.layout.editor)
  <2>1. Shows(l, {}, front)
    BY <1>2, <1>5 DEF DropTab
  <2>2. Comes(l, E, {}, {})
    BY <1>2, <1>5, TabMoved
  <2> HIDE DEF l, front
  <2> QED
    BY <1>2, <1>3, <2>1, <2>2, TabStep
<1> QED
  BY <1>4, <1>5

LEMMA DropBesideKeeps ==
    ASSUME IInv, NEW from \in Panes(layout), NEW k \in DOMAIN PaneEditor(layout, from).tabs,
           NEW after \in Panes(layout), DropBeside(from, k, after)
    PROVE  Step({})
<1>1. PICK E, f : At(E, f)
  BY LayoutAt
<1>2. /\ from \in DOMAIN E /\ after \in DOMAIN E /\ f \in DOMAIN E /\ layout = LayoutOf(E, f)
      /\ EditorsAre(E) /\ Len(E) = Len(layout.panes) /\ world.panes \in Nat /\ Is(layout, E, f)
      /\ PaneEditor(layout, from) = E[from] /\ k \in DOMAIN E[from].tabs
  BY <1>1 DEF At
<1> DEFINE m == SplitOff(LayoutOf(E, f), from, k, after)
           l == m.layout
           front == m.front \cup ActivePaths(m.layout.editor)
<1>3. Shows(l, {}, front) /\ OnlyTabs /\ Len(E) < world.panes
  BY <1>2 DEF DropBeside
<1>4. Comes(l, E, {}, {})
  BY <1>2, <1>3, TabSplitOff
<1> HIDE DEF l, front
<1> QED
  BY <1>2, <1>3, <1>4, TabStep

LEMMA FreshTabIs ==
    ASSUME disk \in [Files -> Nat], NEW path \in Files, NEW preview \in BOOLEAN
    PROVE  LET tab == FreshTab(path, preview)
           IN  /\ tab \in Tab /\ tab.path = path /\ tab.preview = preview /\ tab.text = disk[path]
               /\ ~Dirty(tab) /\ ~tab.opened /\ tab.version = 1
<1>1. disk[path] \in Nat
  OBVIOUS
<1>2. FreshTab(path, preview) = [path |-> path, preview |-> preview, text |-> disk[path],
                                 saved |-> disk[path], version |-> 1, opened |-> FALSE]
  BY DEF FreshTab
<1> QED
  BY <1>1, <1>2 DEF Tab, Dirty

\* The preview tab that gives way has no edits.
LEMMA ReplacedIs ==
    ASSUME NEW E, NEW f, At(E, f), NEW path
    PROVE  /\ Replaced(path) = Closing(E[f], path) /\ Replaced(path) \subseteq TabsOf(E[f])
           /\ Replaced(path) \subseteq AllTabs(layout) /\ \A t \in Replaced(path) : ~Dirty(t)
           /\ path \in PathsOf(E[f]) => Replaced(path) = {}
<1>1. /\ layout.editor = E[f] /\ EditorIs(E[f]) /\ E[f] \in Editor /\ TabsOf(E[f]) \subseteq AllTabs(layout)
  BY DEF At, EditorIs
<1>2. IndexOf(E[f], path) # 0 <=> path \in PathsOf(E[f])
  BY <1>1, IndexIs
<1>3. Replaced(path) = Closing(E[f], path)
  BY <1>1, <1>2 DEF Replaced, Closing
<1>4. \A t \in Closing(E[f], path) : \E i \in DOMAIN E[f].tabs : t = E[f].tabs[i] /\ t.preview
  BY DEF Closing, Previews
<1>5. \A t \in Closing(E[f], path) : t \in TabsOf(E[f]) /\ ~Dirty(t)
  BY <1>1, <1>4 DEF EditorIs, TabsOf
<1>6. path \in PathsOf(E[f]) => Closing(E[f], path) = {}
  BY DEF Closing
<1> QED
  BY <1>1, <1>3, <1>5, <1>6

LEMMA OpenFileKeeps ==
    ASSUME IInv, NEW path \in Files, OpenFile(path)
    PROVE  Step({})
<1>1. PICK E, f : At(E, f)
  BY LayoutAt
<1>2. /\ f \in DOMAIN E /\ layout = LayoutOf(E, f) /\ layout.editor = E[f] /\ E[f] \in Editor
      /\ EditorsAre(E) /\ Len(E) <= world.panes /\ world.panes \in Nat /\ Is(layout, E, f)
      /\ Editors(layout) = {E[i] : i \in DOMAIN E} /\ TabsOf(E[f]) \subseteq Tabs(E)
      /\ AllTabs(layout) = Tabs(E)
  BY <1>1 DEF At, EditorIs
<1> DEFINE tab == FreshTab(path, TRUE)
           l == [LayoutOf(E, f) EXCEPT !.editor = Previewed(E[f], tab)]
           gone == Replaced(path)
<1>3. tab \in Tab /\ tab.path = path /\ ~Dirty(tab) /\ ~tab.opened
  BY FreshTabIs DEF IInv, Types
<1>4. OnlyTabs
  BY DEF OpenFile
<1>5. Shows(l, gone, {path})
  BY <1>2 DEF OpenFile
<1>6. path \in PathsOf(E[f]) \/ \A i \in DOMAIN E : path \notin PathsOf(E[i])
  <2>1. CASE IndexOf(layout.editor, path) # 0
    BY <1>2, <2>1, IndexIs
  <2>2. CASE path \notin UNION {PathsOf(e) : e \in Editors(layout)}
    BY <1>2, <2>2
  <2> QED
    BY <2>1, <2>2 DEF OpenFile
<1>7. /\ gone = Closing(E[f], path) /\ gone \subseteq Tabs(E) /\ \A t \in gone : ~Dirty(t)
      /\ path \in PathsOf(E[f]) => gone = {}
  BY <1>1, <1>2, ReplacedIs
<1> HIDE DEF tab, gone
<1>8. IF path \in PathsOf(E[f]) THEN Comes(l, E, {}, {}) ELSE Comes(l, E, Closing(E[f], path), {tab})
  BY <1>2, <1>3, <1>6, TabPreviewed
<1> HIDE DEF l
<1>9. Step(gone)
  <2>1. CASE path \in PathsOf(E[f])
    <3>1. Comes(l, E, gone, {}) /\ gone \subseteq Tabs(E)
      BY <1>7, <1>8, <2>1
    <3> QED
      BY <1>2, <1>4, <1>5, <3>1, TabStep
  <2>2. CASE path \notin PathsOf(E[f])
    <3>1. Comes(l, E, gone, {tab}) /\ gone \subseteq Tabs(E) /\ \A t \in {tab} : ~t.opened
      BY <1>3, <1>7, <1>8, <2>2
    <3> QED
      BY <1>2, <1>4, <1>5, <3>1, TabStep
  <2> QED
    BY <2>1, <2>2
<1>10. Texts(AllTabs(layout) \ {}) = Texts(AllTabs(layout) \ gone)
  BY <1>7 DEF Texts
<1> QED
  BY <1>9, <1>10 DEF Step

LEMMA OpenFailsKeeps ==
    ASSUME IInv, NEW path \in Files, OpenFails(path)
    PROVE  Step({})
<1>1. PICK E, f : At(E, f)
  BY LayoutAt
<1> DEFINE gone == Replaced(path)
<1>2. gone \subseteq AllTabs(layout)
  BY <1>1, ReplacedIs
<1>3. Leads(layout)
  BY DEF Leads, IInv, Buffers
<1>4. /\ Shows(layout, gone, {}) /\ UNCHANGED <<workspace, lsp, inbox, disk, texts>>
      /\ drifted' = (drifted \/ (lsp # 0 /\ \E t \in gone : t.opened))
  BY DEF OpenFails
<1> HIDE DEF gone
<1>5. lsp = 0 => \A t \in AllTabs(layout) : ~t.opened
  BY DEF IInv, Clangd
<1>6. drifted' \/ (~drifted /\ Rightly(layout, gone))
  BY <1>2, <1>4, <1>5 DEF Rightly
<1>7. drifted' \in BOOLEAN
  BY <1>4
<1>8. IInv' /\ Texts(AllTabs(layout')) = Texts(AllTabs(layout))
  BY <1>3, <1>4, <1>6, <1>7, ShowsKeeps
<1> QED
  BY <1>8 DEF Step, Texts

-----------------------------------------------------------------------------
(* The operations on texts.                                                *)

\* A step that leaves the projects and the handle alone.
LEMMA TextStep ==
    ASSUME IInv, UNCHANGED <<workspace, lsp, init_started, inbox>>, LayoutIs(layout'),
           disk' \in [Files -> Nat], texts' \in Nat, drifted' \in BOOLEAN, NEW docs,
           sessions' = sessions \/ (lsp # 0 /\ Retold(sessions', lsp, docs)),
           lsp = 0 => \A t \in AllTabs(layout') : ~t.opened,
           lsp # 0 /\ ~drifted' /\ sessions[lsp].state = "up"
             => Follows(sessions'[lsp].docs, AllTabs(layout'))
    PROVE  IInv'
<1>1. Types /\ Buffers /\ Clangd
  BY DEF IInv
<1>2. /\ sessions' \in Seq(Session) /\ Len(sessions') = Len(sessions) /\ DOMAIN sessions' = DOMAIN sessions
      /\ \A q \in DOMAIN sessions : /\ sessions'[q].state = sessions[q].state
                                    /\ q # lsp => sessions'[q] = sessions[q]
  BY <1>1 DEF Types, Retold
<1>3. lsp # 0 => lsp \in DOMAIN sessions
  <2> DEFINE n == Len(sessions)
  <2>1. n \in Nat /\ lsp \in 0 .. n /\ DOMAIN sessions = 1 .. n
    BY <1>1, SeqFields DEF Types
  <2> HIDE DEF n
  <2>2. lsp # 0 => lsp \in 1 .. n
    BY <2>1
  <2> QED
    BY <2>1, <2>2
<1>4. Types'
  BY <1>1, <1>2 DEF Types, workspace
<1>5. Buffers'
  BY <1>1 DEF Buffers, LayoutIs, BlobIs, workspace
<1>6. ClangdFollows'
  <2> SUFFICES ASSUME lsp' # 0, ~drifted', sessions'[lsp'].state = "up"
               PROVE  Follows(sessions'[lsp'].docs, AllTabs(layout'))
    BY DEF ClangdFollows, Follows, PathsIn
  <2>1. lsp # 0 /\ lsp' = lsp /\ sessions[lsp].state = "up"
    BY <1>2, <1>3
  <2> QED
    BY <2>1
<1>7. Clangd'
  BY <1>1, <1>2, <1>3, <1>6 DEF Clangd
<1> QED
  BY <1>4, <1>5, <1>7 DEF IInv

\* The tabs of the live editor are rewritten as s, each at its place.
RewrittenAs(s, e) ==
    /\ s \in Seq(Tab) /\ DOMAIN s = DOMAIN e.tabs
    /\ \A i \in DOMAIN s : /\ s[i].path = e.tabs[i].path /\ s[i].opened = e.tabs[i].opened
                           /\ s[i].preview => ~Dirty(s[i])

Rewrites(l, s, e) ==
    /\ LayoutIs(l)
    /\ \A v \in AllTabs(l) : (v \in AllTabs(layout) /\ v \notin TabsOf(e)) \/ \E i \in DOMAIN s : v = s[i]
    /\ \A t \in AllTabs(layout) : t \in TabsOf(e) \/ t \in AllTabs(l)
    /\ \A i \in DOMAIN s : s[i] \in AllTabs(l)

LEMMA RewritesIs ==
    ASSUME NEW E, NEW f, At(E, f), NEW s, RewrittenAs(s, E[f])
    PROVE  Rewrites([layout EXCEPT !.editor = [E[f] EXCEPT !.tabs = s]], s, E[f])
<1> DEFINE e == E[f]
           d == [e EXCEPT !.tabs = s]
           R == Put(E, f, d)
           l == [layout EXCEPT !.editor = d]
<1>1. /\ E \in Seq(Editor) /\ EditorsAre(E) /\ Len(E) <= world.panes /\ f \in DOMAIN E
      /\ layout = LayoutOf(E, f) /\ AllTabs(layout) = Tabs(E) /\ EditorIs(e)
  BY DEF At
<1>2. /\ e \in Editor
      /\ e.active \in DOMAIN e.tabs \/ (e.active = 0 /\ e.tabs = <<>>)
      /\ \A i, j \in DOMAIN e.tabs : e.tabs[i].path = e.tabs[j].path => i = j
  BY <1>1 DEF EditorIs
<1>3. e.tabs = <<>> => s = <<>>
  <2> SUFFICES ASSUME e.tabs = <<>> PROVE s = <<>>
    OBVIOUS
  <2>1. DOMAIN s = {} /\ s \in Seq(Tab)
    BY DEF RewrittenAs
  <2>2. DOMAIN s = 1 .. Len(s) /\ Len(s) \in Nat
    BY <2>1, SeqFields
  <2> DEFINE n == Len(s)
  <2>3. n = 0
    <3>1. n \in Nat /\ 1 .. n = {}
      BY <2>1, <2>2
    <3> HIDE DEF n
    <3> QED
      BY <3>1
  <2> QED
    BY <2>1, <2>3, EmptySeq
<1>4. d \in Editor /\ d.tabs = s /\ d.active = e.active
  <2>1. e = [tabs |-> e.tabs, active |-> e.active] /\ e.active \in Nat
    BY <1>2 DEF Editor
  <2> HIDE DEF e
  <2>2. d = [tabs |-> s, active |-> e.active]
    BY <2>1
  <2>3. s \in Seq(Tab)
    BY DEF RewrittenAs
  <2> HIDE DEF d
  <2> QED
    BY <2>1, <2>2, <2>3 DEF Editor
<1> HIDE DEF d, e
<1>5. EditorIs(d)
  BY <1>2, <1>3, <1>4 DEF EditorIs, RewrittenAs, e
<1>6. \A i \in DOMAIN s : s[i].path \in PathsOf(e)
  BY DEF RewrittenAs, PathsOf, e
<1>7. TabsOf(d) = {s[i] : i \in DOMAIN s}
  BY <1>4 DEF TabsOf
<1>8. Change(E, f, d, TabsOf(E[f]), TabsOf(d))
  BY <1>1, <1>5, <1>6, <1>7 DEF Change, EditorsAre, e
<1>9. Changes(E, f, d, TabsOf(E[f]), TabsOf(d))
  BY <1>1, <1>8, EditorChanges
<1>10. l = LayoutOf(R, f)
  BY <1>1, <1>4, WithPaneIs
<1>11. /\ EditorsAre(R) /\ Tabs(R) = (Tabs(E) \ TabsOf(E[f])) \cup TabsOf(d)
       /\ DOMAIN R = DOMAIN E /\ Len(R) = Len(E)
  BY <1>9 DEF Changes
<1> HIDE DEF R, l
<1>12. Is(l, R, f)
  BY <1>1, <1>10, <1>11 DEF Is
<1>13. LayoutIs(l) /\ AllTabs(l) = (AllTabs(layout) \ TabsOf(E[f])) \cup TabsOf(d)
  BY <1>1, <1>11, <1>12, ThatIsLayout
<1>14. Rewrites(l, s, E[f])
  BY <1>7, <1>13 DEF Rewrites
<1> QED
  BY <1>14 DEF l, d, e

LEMMA SeqPut ==
    ASSUME NEW X, NEW s \in Seq(X), NEW k \in DOMAIN s, NEW x \in X
    PROVE  LET r == [s EXCEPT ![k] = x]
           IN  r \in Seq(X) /\ DOMAIN r = DOMAIN s /\ \A i \in DOMAIN s : r[i] = IF i = k THEN x ELSE s[i]
<1> DEFINE r == [s EXCEPT ![k] = x]
           n == Len(s)
<1>1. n \in Nat /\ DOMAIN s = 1 .. n /\ s \in [1 .. n -> X]
  BY SeqFields, SeqDef
<1>2. r \in [1 .. n -> X]
  BY <1>1
<1>3. \A i \in DOMAIN s : r[i] = IF i = k THEN x ELSE s[i]
  BY <1>1
<1> HIDE DEF r
<1>4. r \in Seq(X) /\ DOMAIN r = 1 .. n
  <2> HIDE DEF n
  <2> QED
    BY <1>1, <1>2, FunctionIsSeq
<1> QED
  BY <1>1, <1>3, <1>4 DEF r

\* Without a session no rewritten tab is marked.
LEMMA RewritesUnmarked ==
    ASSUME IInv, NEW E, NEW f, At(E, f), NEW s, RewrittenAs(s, E[f]), NEW l, Rewrites(l, s, E[f]), lsp = 0
    PROVE  \A t \in AllTabs(l) : ~t.opened
<1> DEFINE e == E[f]
<1>1. \A t \in TabsOf(e) : t \in AllTabs(layout)
  BY DEF At
<1>2. \A i \in DOMAIN s : e.tabs[i] \in AllTabs(layout) /\ s[i].opened = e.tabs[i].opened
  BY <1>1 DEF RewrittenAs, TabsOf
<1>3. \A v \in AllTabs(l) : v \in AllTabs(layout) \/ \E i \in DOMAIN s : v = s[i]
  BY DEF Rewrites
<1> HIDE DEF e
<1> QED
  BY <1>2, <1>3 DEF IInv, Clangd

\* The documents of the rewritten tabs are theirs, and the others are kept.
LEMMA RewritesFollow ==
    ASSUME IInv, NEW E, NEW f, At(E, f), NEW s, RewrittenAs(s, E[f]), NEW l, Rewrites(l, s, E[f]),
           NEW docs, Follows(docs, AllTabs(layout)), NEW all, DOMAIN all = DOMAIN docs,
           \A i \in DOMAIN s : s[i].opened =>
              all[s[i].path] = [text |-> s[i].text, version |-> s[i].version],
           \A p \in DOMAIN docs : p \notin PathsOf(E[f]) => all[p] = docs[p]
    PROVE  Follows(all, AllTabs(l))
<1> DEFINE T == AllTabs(layout)
           e == E[f]
<1>1. TabsOf(e) \subseteq T /\ e \in Editor
  BY DEF At, EditorIs
<1>2. Unique(T)
  BY LayoutTabs DEF IInv, Buffers
<1>3. \A i \in DOMAIN s : /\ i \in DOMAIN e.tabs /\ e.tabs[i] \in T /\ s[i].path = e.tabs[i].path
                          /\ s[i].opened = e.tabs[i].opened /\ s[i] \in AllTabs(l)
  BY <1>1 DEF RewrittenAs, TabsOf, Rewrites
<1>4. \A t \in TabsOf(e) : \E i \in DOMAIN s : t = e.tabs[i]
  BY DEF TabsOf, RewrittenAs
<1>5. \A v \in AllTabs(l) : (v \in T /\ v \notin TabsOf(e)) \/ \E i \in DOMAIN s : v = s[i]
  BY DEF Rewrites
<1>6. \A t \in T : t \in TabsOf(e) \/ t \in AllTabs(l)
  BY DEF Rewrites
<1>7. \A v \in T : v \notin TabsOf(e) => v.path \notin PathsOf(e)
  BY <1>1, <1>2, PathsOfTabs DEF Unique
<1>8. /\ Follows(docs, T) /\ DOMAIN all = DOMAIN docs
      /\ \A i \in DOMAIN s : s[i].opened =>
            all[s[i].path] = [text |-> s[i].text, version |-> s[i].version]
      /\ \A p \in DOMAIN docs : p \notin PathsOf(e) => all[p] = docs[p]
  OBVIOUS
<1> HIDE DEF e, T
<1>9. \A v \in AllTabs(l) : v.opened =>
         v.path \in DOMAIN docs /\ all[v.path] = [text |-> v.text, version |-> v.version]
  <2> TAKE v \in AllTabs(l)
  <2> HAVE v.opened
  <2>1. CASE v \in T /\ v \notin TabsOf(e)
    BY <1>7, <1>8, <2>1 DEF Follows, PathsIn
  <2>2. CASE \E i \in DOMAIN s : v = s[i]
    <3>1. PICK i \in DOMAIN s : v = s[i]
      BY <2>2
    <3>2. e.tabs[i] \in T /\ e.tabs[i].opened /\ v.path = e.tabs[i].path
      BY <1>3, <3>1
    <3>3. v.path \in DOMAIN docs
      BY <1>8, <3>2 DEF Follows, PathsIn
    <3> QED
      BY <1>8, <3>1, <3>3
  <2> QED
    BY <1>5, <2>1, <2>2
<1>10. \A p \in DOMAIN docs : \E v \in AllTabs(l) : v.opened /\ v.path = p
  <2> TAKE p \in DOMAIN docs
  <2>1. PICK t \in T : t.opened /\ t.path = p
    BY <1>8 DEF Follows, PathsIn
  <2> QED
    BY <1>3, <1>4, <1>6, <2>1
<1>11. DOMAIN all = PathsIn({v \in AllTabs(l) : v.opened})
  <2>1. \A p \in DOMAIN all : \E v \in AllTabs(l) : v.opened /\ v.path = p
    BY <1>8, <1>10
  <2>2. \A v \in AllTabs(l) : v.opened => v.path \in DOMAIN all
    BY <1>8, <1>9
  <2>3. \A p : p \in PathsIn({v \in AllTabs(l) : v.opened}) <=> \E v \in AllTabs(l) : v.opened /\ p = v.path
    BY DEF PathsIn
  <2>4. \A p : p \in DOMAIN all <=> p \in PathsIn({v \in AllTabs(l) : v.opened})
    BY <2>1, <2>2, <2>3
  <2> HIDE DEF e
  <2> QED
    BY <2>4
<1>12. \A v \in AllTabs(l) : v.opened => all[v.path] = [text |-> v.text, version |-> v.version]
  BY <1>9
<1> QED
  BY <1>11, <1>12 DEF Follows

\* The unsaved texts that a step loses are of the files P.
Loses(P) == \A u \in Texts(AllTabs(layout)) : u \in Texts(AllTabs(layout')) \/ u.path \in P

\* A rewritten tab that is as dirty, with the same text, loses nothing.
LEMMA RewritesLose ==
    ASSUME NEW s, NEW e, Rewrites(layout', s, e), DOMAIN s = DOMAIN e.tabs, NEW P,
           \A i \in DOMAIN s : Dirty(e.tabs[i]) =>
              e.tabs[i].path \in P \/ (Dirty(s[i]) /\ s[i].path = e.tabs[i].path /\ s[i].text = e.tabs[i].text)
    PROVE  Loses(P)
<1> SUFFICES ASSUME NEW t \in AllTabs(layout), Dirty(t), t.path \notin P
             PROVE  \E v \in AllTabs(layout') : Dirty(v) /\ v.path = t.path /\ v.text = t.text
  BY DEF Loses, Texts
<1>1. CASE t \in AllTabs(layout')
  BY <1>1
<1>2. CASE t \in TabsOf(e)
  <2>1. PICK i \in DOMAIN s : t = e.tabs[i]
    BY <1>2 DEF TabsOf
  <2> QED
    BY <2>1 DEF Rewrites
<1> QED
  BY <1>1, <1>2 DEF Rewrites

LEMMA TabEdited ==
    ASSUME NEW t \in Tab, NEW new \in Nat, NEW version \in Nat
    PROVE  LET u == [t EXCEPT !.text = new, !.version = version, !.preview = FALSE]
           IN  /\ u \in Tab /\ u.path = t.path /\ u.opened = t.opened /\ u.text = new
               /\ u.version = version /\ ~u.preview
<1> DEFINE u == [t EXCEPT !.text = new, !.version = version, !.preview = FALSE]
<1>1. /\ u.path = t.path /\ u.opened = t.opened /\ u.text = new
      /\ u.version = version /\ u.preview = FALSE
  BY DEF Tab
<1>2. u \in Tab
  BY DEF Tab
<1> QED
  BY <1>1, <1>2

LEMMA EditKeeps ==
    ASSUME IInv, NEW k, NEW full \in BOOLEAN, Edit(k, full)
    PROVE  IInv' /\ Loses({layout.editor.tabs[k].path})
<1>1. PICK E, f : At(E, f)
  BY LayoutAt
<1> DEFINE e == layout.editor
           tab == e.tabs[k]
           new == texts + 1
           u == [tab EXCEPT !.text = new, !.version = tab.version + 1, !.preview = FALSE]
           s == [e.tabs EXCEPT ![k] = u]
           docs == Changed(sessions[lsp].docs, tab, new, full)
<1>2. e = E[f] /\ EditorIs(e) /\ e \in Editor /\ TabsOf(e) \subseteq AllTabs(layout)
  BY <1>1 DEF At, EditorIs
<1>3. k \in DOMAIN e.tabs /\ tab \in Tab /\ e.tabs \in Seq(Tab) /\ new \in Nat /\ texts' = new
  BY <1>2, EditorFields DEF Edit, IInv, Types
<1>4. /\ layout' = [layout EXCEPT !.editor = [e EXCEPT !.tabs = s]]
      /\ sessions' = IF lsp # 0 /\ tab.opened THEN Told(lsp, docs) ELSE sessions
      /\ UNCHANGED <<workspace, lsp, init_started, inbox, disk, drifted>>
  BY <1>3 DEF Edit
<1>5. tab.text \in Nat /\ tab.version \in Nat /\ tab.path \in Files
  BY <1>3 DEF Tab
<1>6. /\ u \in Tab /\ u.path = tab.path /\ u.opened = tab.opened /\ u.text = new
      /\ u.version = tab.version + 1 /\ ~u.preview
  <2> HIDE DEF tab, new
  <2> DEFINE version == tab.version + 1
  <2>1. version \in Nat /\ tab \in Tab /\ new \in Nat
    BY <1>3, <1>5
  <2> HIDE DEF version
  <2>2. /\ u \in Tab /\ u.path = tab.path /\ u.opened = tab.opened /\ u.text = new
        /\ u.version = version /\ ~u.preview
    BY <2>1, TabEdited DEF version
  <2> QED
    BY <2>2 DEF version
<1> HIDE DEF u
<1>7. s \in Seq(Tab) /\ DOMAIN s = DOMAIN e.tabs /\ \A i \in DOMAIN s : s[i] = IF i = k THEN u ELSE e.tabs[i]
  BY <1>3, <1>6, SeqPut
<1> HIDE DEF s
<1>8. RewrittenAs(s, e)
  BY <1>2, <1>6, <1>7 DEF RewrittenAs, EditorIs
<1>9. Rewrites(layout', s, e)
  BY <1>1, <1>2, <1>4, <1>8, RewritesIs
<1>10. Loses({tab.path})
  <2>1. \A i \in DOMAIN s : e.tabs[i].path = tab.path \/ s[i] = e.tabs[i]
    BY <1>7
  <2>2. \A i \in DOMAIN s : Dirty(e.tabs[i]) =>
              e.tabs[i].path \in {tab.path}
              \/ (Dirty(s[i]) /\ s[i].path = e.tabs[i].path /\ s[i].text = e.tabs[i].text)
    BY <2>1
  <2> QED
    BY <1>7, <1>9, <2>2, RewritesLose
<1>11. lsp = 0 => \A t \in AllTabs(layout') : ~t.opened
  BY <1>1, <1>2, <1>8, <1>9, RewritesUnmarked
<1>12. sessions \in Seq(Session) /\ (lsp # 0 => lsp \in DOMAIN sessions) /\ drifted \in BOOLEAN
       /\ disk \in [Files -> Nat]
  <2> DEFINE n == Len(sessions)
  <2>1. sessions \in Seq(Session) /\ n \in Nat /\ lsp \in 0 .. n /\ DOMAIN sessions = 1 .. n
    BY SeqFields DEF IInv, Types
  <2> HIDE DEF n
  <2>2. lsp # 0 => lsp \in 1 .. n
    BY <2>1
  <2> QED
    BY <2>1, <2>2 DEF IInv, Types
<1>13. lsp # 0 => sessions[lsp].docs \in Docs
  BY <1>12, SeqFields, SessionFields
<1>14. lsp # 0 => docs \in Docs
  <2> SUFFICES ASSUME lsp # 0 PROVE docs \in Docs
    OBVIOUS
  <2> DEFINE old == sessions[lsp].docs
             P == DOMAIN old
  <2>1. old \in Docs /\ P \subseteq Files /\ (\A p \in P : old[p] \in Document)
    BY <1>13, DocsAre
  <2>2. [text |-> new, version |-> tab.version + 1] \in Document /\ Torn \in Document
    BY <1>3, <1>5 DEF Document, Torn
  <2>3. old \in [P -> Document]
    <3>1. old = [p \in P |-> old[p]]
      BY <2>1 DEF Docs
    <3> QED
      BY <2>1, <3>1
  <2> HIDE DEF tab, new, old
  <2>4. docs = [old EXCEPT ![tab.path] = [text |-> new, version |-> tab.version + 1]]
        \/ docs = [p \in P \cup {tab.path} |-> IF p = tab.path THEN Torn ELSE old[p]]
    BY DEF Changed, old
  <2> HIDE DEF docs, P
  <2>5. docs \in [P -> Document] \/ docs \in [P \cup {tab.path} -> Document]
    BY <2>1, <2>2, <2>3, <2>4
  <2> QED
    BY <1>5, <2>1, <2>5, DocsAre
<1>15. sessions' = sessions \/ (lsp # 0 /\ Retold(sessions', lsp, docs))
  BY <1>4, <1>12, <1>14, ToldIs
<1>16. lsp # 0 /\ ~drifted' /\ sessions[lsp].state = "up" => Follows(sessions'[lsp].docs, AllTabs(layout'))
  <2> SUFFICES ASSUME lsp # 0, ~drifted', sessions[lsp].state = "up"
               PROVE  Follows(sessions'[lsp].docs, AllTabs(layout'))
    OBVIOUS
  <2> DEFINE old == sessions[lsp].docs
  <2>1. Follows(old, AllTabs(layout))
    BY <1>4, FollowsIs DEF IInv, Clangd
  <2>2. \A i \in DOMAIN e.tabs : e.tabs[i].opened =>
          /\ e.tabs[i].path \in DOMAIN old
          /\ old[e.tabs[i].path] = [text |-> e.tabs[i].text, version |-> e.tabs[i].version]
    BY <1>2, <2>1 DEF TabsOf, Follows, PathsIn
  <2>3. \A i \in DOMAIN e.tabs : e.tabs[i].path = tab.path => i = k
    BY <1>2, <1>3 DEF EditorIs
  <2>4. CASE tab.opened
    <3>1. tab.path \in DOMAIN old /\ old[tab.path] = [text |-> tab.text, version |-> tab.version]
      BY <1>3, <2>2, <2>4
    <3>2. docs = [old EXCEPT ![tab.path] = [text |-> new, version |-> tab.version + 1]]
      <4>1. tab.version < tab.version + 1 /\ old[tab.path].version = tab.version /\ old[tab.path].text = tab.text
        BY <1>5, <3>1
      <4> HIDE DEF tab
      <4> QED
        BY <3>1, <4>1 DEF Changed
    <3>3. sessions'[lsp].docs = docs
      <4>1. sessions' = Told(lsp, docs)
        BY <1>4, <2>4
      <4>2. Retold(sessions', lsp, docs)
        BY <1>12, <1>14, <4>1, ToldIs
      <4> QED
        BY <1>12, <4>2 DEF Retold
    <3> HIDE DEF tab
    <3>4. DOMAIN docs = DOMAIN old /\ docs[tab.path] = [text |-> new, version |-> tab.version + 1]
          /\ \A p \in DOMAIN old : p # tab.path => docs[p] = old[p]
      BY <3>1, <3>2
    <3> HIDE DEF docs, old, new
    <3>5. ASSUME NEW i \in DOMAIN s, s[i].opened
          PROVE  docs[s[i].path] = [text |-> s[i].text, version |-> s[i].version]
      <4>1. CASE i = k
        BY <1>6, <1>7, <3>4, <4>1
      <4>2. CASE i # k
        <5>1. s[i] = e.tabs[i] /\ i \in DOMAIN e.tabs
          BY <1>7, <4>2
        <5>2. s[i].path # tab.path
          BY <2>3, <4>2, <5>1
        <5> QED
          BY <2>2, <3>4, <3>5, <5>1, <5>2
      <4> QED
        BY <4>1, <4>2
    <3>6. tab.path \in PathsOf(e)
      BY <1>3 DEF PathsOf, tab
    <3>7. \A p \in DOMAIN old : p \notin PathsOf(e) => docs[p] = old[p]
      BY <3>4, <3>6
    <3> HIDE DEF e
    <3>8. Follows(docs, AllTabs(layout'))
      BY <1>1, <1>2, <1>8, <1>9, <2>1, <3>4, <3>5, <3>7, RewritesFollow
    <3> QED
      BY <3>3, <3>8
  <2>5. CASE ~tab.opened
    <3>1. sessions' = sessions
      BY <1>4, <2>5
    <3>2. ASSUME NEW i \in DOMAIN s, s[i].opened
          PROVE  old[s[i].path] = [text |-> s[i].text, version |-> s[i].version]
      <4>1. i # k
        BY <1>6, <1>7, <2>5, <3>2
      <4> QED
        BY <1>7, <2>2, <3>2, <4>1
    <3> HIDE DEF old, e
    <3>3. Follows(old, AllTabs(layout'))
      BY <1>1, <1>2, <1>8, <1>9, <2>1, <3>2, RewritesFollow
    <3> QED
      BY <3>1, <3>3 DEF old
  <2> QED
    BY <2>4, <2>5
<1>17. LayoutIs(layout')
  BY <1>9 DEF Rewrites
<1>18. /\ UNCHANGED <<workspace, lsp, init_started, inbox>> /\ disk' \in [Files -> Nat]
       /\ texts' \in Nat /\ drifted' \in BOOLEAN
  BY <1>3, <1>4, <1>12
<1> HIDE DEF docs
<1>19. IInv'
  BY <1>11, <1>15, <1>16, <1>17, <1>18, TextStep
<1> QED
  BY <1>10, <1>19

\* A step that rewrites tabs, and tells clangd nothing.
LEMMA SilentStep ==
    ASSUME IInv, NEW E, NEW f, At(E, f), NEW s, RewrittenAs(s, E[f]), Rewrites(layout', s, E[f]),
           UNCHANGED <<workspace, clangd>>, disk' \in [Files -> Nat], texts' = texts,
           drifted' \in BOOLEAN,
           drifted' \/ (~drifted /\ \A i \in DOMAIN s : lsp # 0 /\ s[i].opened =>
                          s[i].text = E[f].tabs[i].text /\ s[i].version = E[f].tabs[i].version)
    PROVE  IInv'
<1> DEFINE e == E[f]
           docs == sessions[lsp].docs
<1>1. LayoutIs(layout')
  BY DEF Rewrites
<1>2. /\ UNCHANGED <<workspace, lsp, init_started, inbox>> /\ sessions' = sessions /\ texts' \in Nat
      /\ drifted \in BOOLEAN
  BY DEF clangd, IInv, Types
<1>3. lsp = 0 => \A t \in AllTabs(layout') : ~t.opened
  BY RewritesUnmarked
<1>4. lsp # 0 /\ ~drifted' /\ sessions[lsp].state = "up" => Follows(docs, AllTabs(layout'))
  <2> SUFFICES ASSUME lsp # 0, ~drifted', sessions[lsp].state = "up"
               PROVE  Follows(docs, AllTabs(layout'))
    OBVIOUS
  <2>1. Follows(docs, AllTabs(layout))
    BY FollowsIs DEF IInv, Clangd
  <2>2. ASSUME NEW i \in DOMAIN s, s[i].opened
        PROVE  docs[s[i].path] = [text |-> s[i].text, version |-> s[i].version]
    <3>1. /\ e.tabs[i] \in AllTabs(layout) /\ e.tabs[i].opened /\ s[i].path = e.tabs[i].path
          /\ s[i].text = e.tabs[i].text /\ s[i].version = e.tabs[i].version
      BY <2>2 DEF At, RewrittenAs, TabsOf
    <3> HIDE DEF docs, e
    <3> DEFINE t == e.tabs[i]
    <3>2. t \in AllTabs(layout) /\ t.opened
      BY <3>1
    <3> HIDE DEF t
    <3>3. docs[t.path] = [text |-> t.text, version |-> t.version]
      BY <2>1, <3>2 DEF Follows
    <3> QED
      BY <3>1, <3>3 DEF t
  <2> HIDE DEF docs, e
  <2> QED
    BY <2>1, <2>2, RewritesFollow
<1>5. sessions'[lsp].docs = docs
  BY <1>2
<1>6. /\ lsp # 0 /\ ~drifted' /\ sessions[lsp].state = "up" => Follows(sessions'[lsp].docs, AllTabs(layout'))
      /\ sessions' = sessions \/ (lsp # 0 /\ Retold(sessions', lsp, docs))
  BY <1>2, <1>4, <1>5
<1> HIDE DEF docs
<1> QED
  BY <1>1, <1>2, <1>3, <1>6, TextStep

LEMMA SaveKeeps ==
    ASSUME IInv, Save
    PROVE  IInv' /\ Loses(ActivePaths(layout.editor))
<1>1. PICK E, f : At(E, f)
  BY LayoutAt
<1> DEFINE e == layout.editor
           k == e.active
           tab == e.tabs[k]
           u == [tab EXCEPT !.saved = tab.text]
           s == [e.tabs EXCEPT ![k] = u]
<1>2. e = E[f] /\ EditorIs(e) /\ e \in Editor
  BY <1>1 DEF At, EditorIs
<1>3. k # 0 /\ k \in DOMAIN e.tabs
  BY <1>2 DEF Save, EditorIs
<1>4. tab \in Tab /\ e.tabs \in Seq(Tab)
  BY <1>2, <1>3, EditorFields
<1>5. /\ layout' = [layout EXCEPT !.editor = [e EXCEPT !.tabs = s]]
      /\ disk' = [disk EXCEPT ![tab.path] = tab.text] /\ texts' = texts /\ drifted' = drifted
      /\ UNCHANGED <<workspace, clangd>>
  BY <1>3 DEF Save
<1>6. /\ u \in Tab /\ u.path = tab.path /\ u.opened = tab.opened /\ u.text = tab.text
      /\ u.version = tab.version /\ ~Dirty(u)
  <2>1. /\ u.path = tab.path /\ u.opened = tab.opened /\ u.text = tab.text
        /\ u.version = tab.version /\ u.saved = tab.text
    BY <1>4 DEF Tab
  <2>2. u \in Tab
    BY <1>4 DEF Tab
  <2> QED
    BY <2>1, <2>2 DEF Dirty
<1> HIDE DEF u
<1>7. s \in Seq(Tab) /\ DOMAIN s = DOMAIN e.tabs /\ \A i \in DOMAIN s : s[i] = IF i = k THEN u ELSE e.tabs[i]
  BY <1>3, <1>4, <1>6, SeqPut
<1> HIDE DEF s
<1>8. RewrittenAs(s, e)
  BY <1>2, <1>6, <1>7 DEF RewrittenAs, EditorIs
<1>9. Rewrites(layout', s, e)
  BY <1>1, <1>2, <1>5, <1>8, RewritesIs
<1>10. \A i \in DOMAIN s : s[i].text = e.tabs[i].text /\ s[i].version = e.tabs[i].version
  BY <1>6, <1>7
<1>11. disk' \in [Files -> Nat] /\ drifted \in BOOLEAN
  <2>1. tab.text \in Nat
    BY <1>4 DEF Tab
  <2>2. disk \in [Files -> Nat] /\ drifted \in BOOLEAN
    BY DEF IInv, Types
  <2> HIDE DEF tab
  <2> QED
    BY <1>5, <2>1, <2>2
<1>12. Loses(ActivePaths(e))
  <2>1. ActivePaths(e) = {tab.path}
    BY <1>3 DEF ActivePaths
  <2>2. \A i \in DOMAIN s : e.tabs[i].path = tab.path \/ s[i] = e.tabs[i]
    BY <1>7
  <2>3. \A i \in DOMAIN s : Dirty(e.tabs[i]) =>
              e.tabs[i].path \in ActivePaths(e)
              \/ (Dirty(s[i]) /\ s[i].path = e.tabs[i].path /\ s[i].text = e.tabs[i].text)
    BY <2>1, <2>2
  <2> QED
    BY <1>7, <1>9, <2>3, RewritesLose
<1>13. IInv'
  <2> HIDE DEF e, tab, k
  <2>1. RewrittenAs(s, E[f]) /\ Rewrites(layout', s, E[f])
    BY <1>2, <1>8, <1>9
  <2>2. drifted' \/ (~drifted /\ \A i \in DOMAIN s : lsp # 0 /\ s[i].opened =>
                          s[i].text = E[f].tabs[i].text /\ s[i].version = E[f].tabs[i].version)
    BY <1>2, <1>5, <1>10
  <2>3. UNCHANGED <<workspace, clangd>> /\ texts' = texts /\ drifted' \in BOOLEAN
    BY <1>5, <1>11
  <2> QED
    BY <1>1, <1>11, <2>1, <2>2, <2>3, SilentStep
<1> QED
  BY <1>12, <1>13

LEMMA ReloadKeeps ==
    ASSUME IInv, Reload
    PROVE  IInv' /\ Loses({})
<1>1. PICK E, f : At(E, f)
  BY LayoutAt
<1> DEFINE e == layout.editor
           stale(t) == ~Dirty(t) /\ disk[t.path] # t.text
           fresh(t) == [FreshTab(t.path, t.preview) EXCEPT !.opened = t.opened]
           s == [i \in DOMAIN e.tabs |-> IF stale(e.tabs[i]) THEN fresh(e.tabs[i]) ELSE e.tabs[i]]
           n == Len(e.tabs)
<1>2. e = E[f] /\ EditorIs(e) /\ e \in Editor
  BY <1>1 DEF At, EditorIs
<1>3. n \in Nat /\ DOMAIN e.tabs = 1 .. n /\ \A i \in 1 .. n : e.tabs[i] \in Tab
  BY <1>2, EditorFields
<1>4. /\ layout' = [layout EXCEPT !.editor = [e EXCEPT !.tabs = s]]
      /\ drifted' = (drifted \/ (lsp # 0 /\ \E t \in TabsOf(e) : stale(t) /\ t.opened))
      /\ UNCHANGED <<workspace, clangd, disk, texts>>
  BY DEF Reload
<1>5. disk \in [Files -> Nat] /\ drifted \in BOOLEAN
  BY DEF IInv, Types
<1>6. ASSUME NEW t \in Tab
      PROVE  fresh(t) \in Tab /\ fresh(t).path = t.path /\ fresh(t).opened = t.opened /\ ~Dirty(fresh(t))
  <2> DEFINE v == FreshTab(t.path, t.preview)
  <2>1. v \in Tab /\ v.path = t.path /\ ~Dirty(v)
    BY <1>5, FreshTabIs DEF Tab
  <2> HIDE DEF v
  <2>2. t.opened \in BOOLEAN
    BY DEF Tab
  <2>3. [v EXCEPT !.opened = t.opened] \in Tab
    BY <2>1, <2>2 DEF Tab
  <2>4. /\ [v EXCEPT !.opened = t.opened].path = v.path /\ [v EXCEPT !.opened = t.opened].opened = t.opened
        /\ [v EXCEPT !.opened = t.opened].text = v.text /\ [v EXCEPT !.opened = t.opened].saved = v.saved
    BY <2>1 DEF Tab
  <2> QED
    BY <2>1, <2>3, <2>4 DEF Dirty, v
<1>7. \A i \in DOMAIN e.tabs : s[i] = IF stale(e.tabs[i]) THEN fresh(e.tabs[i]) ELSE e.tabs[i]
  OBVIOUS
<1> HIDE DEF fresh
<1>8. s \in Seq(Tab) /\ DOMAIN s = DOMAIN e.tabs
  <2>1. s \in [1 .. n -> Tab]
    BY <1>3, <1>6
  <2> HIDE DEF s, n
  <2> QED
    BY <1>3, <2>1, FunctionIsSeq
<1> HIDE DEF s
<1>9. \A i \in DOMAIN e.tabs : stale(e.tabs[i]) => ~Dirty(e.tabs[i]) /\ e.tabs[i] \in TabsOf(e)
  BY DEF TabsOf
<1> HIDE DEF stale
<1>10. RewrittenAs(s, e)
  BY <1>2, <1>3, <1>6, <1>7, <1>8 DEF RewrittenAs, EditorIs
<1>11. Rewrites(layout', s, e)
  BY <1>1, <1>2, <1>4, <1>10, RewritesIs
<1>12. Loses({})
  <2>1. \A i \in DOMAIN s : Dirty(e.tabs[i]) => s[i] = e.tabs[i]
    BY <1>7, <1>8, <1>9
  <2>2. \A i \in DOMAIN s : Dirty(e.tabs[i]) =>
              e.tabs[i].path \in {}
              \/ (Dirty(s[i]) /\ s[i].path = e.tabs[i].path /\ s[i].text = e.tabs[i].text)
    BY <2>1
  <2> QED
    BY <1>8, <1>11, <2>2, RewritesLose
<1>13. drifted' \/ (~drifted /\ \A i \in DOMAIN s : lsp # 0 /\ s[i].opened =>
                          s[i].text = e.tabs[i].text /\ s[i].version = e.tabs[i].version)
  <2> SUFFICES ASSUME ~drifted', NEW i \in DOMAIN s, lsp # 0, s[i].opened
               PROVE  ~drifted /\ s[i] = e.tabs[i]
    BY <1>4, <1>5
  <2>1. e.tabs[i].opened
    BY <1>10 DEF RewrittenAs
  <2>2. ~stale(e.tabs[i])
    BY <1>4, <1>8, <1>9, <2>1
  <2> QED
    BY <1>4, <1>7, <1>8, <2>2
<1>14. drifted' \in BOOLEAN /\ disk' \in [Files -> Nat] /\ texts' = texts /\ UNCHANGED <<workspace, clangd>>
  BY <1>4, <1>5
<1>15. IInv'
  <2> HIDE DEF e
  <2>1. RewrittenAs(s, E[f]) /\ Rewrites(layout', s, E[f])
    BY <1>2, <1>10, <1>11
  <2> QED
    BY <1>1, <1>2, <1>13, <1>14, <2>1, SilentStep
<1> QED
  BY <1>12, <1>15

LEMMA DiskChangesKeeps ==
    ASSUME IInv, NEW path \in Files, DiskChanges(path)
    PROVE  IInv' /\ Loses({})
<1>1. /\ UNCHANGED <<workspace, lsp, init_started, inbox>> /\ sessions' = sessions
      /\ layout' = layout /\ drifted' = drifted /\ texts' = texts + 1
      /\ disk' = [disk EXCEPT ![path] = texts']
  BY DEF DiskChanges, clangd
<1>2. Types /\ Buffers /\ Clangd
  BY DEF IInv
<1>3. LayoutIs(layout') /\ disk' \in [Files -> Nat] /\ texts' \in Nat /\ drifted' \in BOOLEAN
  BY <1>1, <1>2 DEF Types, Buffers
<1>4. lsp = 0 => \A t \in AllTabs(layout') : ~t.opened
  BY <1>1, <1>2 DEF Clangd
<1>5. lsp # 0 /\ ~drifted' /\ sessions[lsp].state = "up" => Follows(sessions'[lsp].docs, AllTabs(layout'))
  BY <1>1, <1>2, FollowsIs DEF Clangd
<1>6. IInv'
  BY <1>1, <1>3, <1>4, <1>5, TextStep
<1> QED
  BY <1>1, <1>6 DEF Loses
-----------------------------------------------------------------------------
(* clangd.                                                                 *)

\* What may stand in the inbox: an event of a session that is no longer starting.
Heard == {v \in Event : v.of \in DOMAIN sessions /\ sessions[v.of].state # "starting"}

LEMMA SeqAmong ==
    ASSUME NEW X, NEW s \in Seq(X), NEW Y, \A i \in DOMAIN s : s[i] \in Y
    PROVE  s \in Seq(Y)
<1> DEFINE n == Len(s)
<1>1. n \in Nat /\ DOMAIN s = 1 .. n /\ s \in [1 .. n -> X]
  BY SeqFields, SeqDef
<1>2. s \in [1 .. n -> Y]
  BY <1>1
<1> HIDE DEF n
<1> QED
  BY <1>1, <1>2, FunctionIsSeq

LEMMA InboxIs ==
    ASSUME IInv
    PROVE  inbox \in Seq(Heard)
<1>1. inbox \in Seq(Event)
  BY DEF IInv, Types
<1>2. \A i \in DOMAIN inbox : inbox[i] \in Heard
  BY <1>1, SeqFields DEF IInv, Clangd, Heard
<1> QED
  BY <1>1, <1>2, SeqAmong

\* A step of clangd, or of a handler of its events.
LEMMA ClangdStep ==
    ASSUME IInv, UNCHANGED <<workspace, init_started, disk, texts>>, drifted' \in BOOLEAN,
           LayoutIs(layout'), sessions' \in Seq(Session), DOMAIN sessions' = DOMAIN sessions,
           \A q \in DOMAIN sessions : sessions'[q].state = "starting" => sessions[q].state = "starting",
           lsp' = 0 \/ (lsp' \in DOMAIN sessions /\ sessions'[lsp'].state # "starting"),
           \A q \in DOMAIN sessions : q # lsp' => sessions'[q].docs = <<>>,
           inbox' \in Seq(Event),
           \A i \in DOMAIN inbox' : inbox'[i] \in Heard
                \/ (inbox'[i].of \in DOMAIN sessions /\ sessions'[inbox'[i].of].state # "starting"),
           lsp' = 0 => \A t \in AllTabs(layout') : ~t.opened,
           lsp' # 0 /\ ~drifted' /\ sessions'[lsp'].state = "up"
             => Follows(sessions'[lsp'].docs, AllTabs(layout'))
    PROVE  IInv'
<1>1. Types /\ Buffers /\ Clangd
  BY DEF IInv
<1>2. lsp' \in 0 .. Len(sessions')
  <2> DEFINE n == Len(sessions')
  <2>1. n \in Nat /\ DOMAIN sessions = 1 .. n
    BY SeqFields
  <2> HIDE DEF n
  <2>2. lsp' = 0 \/ lsp' \in 1 .. n
    BY <2>1
  <2>3. lsp' \in 0 .. n
    BY <2>1, <2>2
  <2> QED
    BY <2>3 DEF n
<1>3. Types'
  BY <1>1, <1>2 DEF Types, workspace
<1>4. Buffers'
  BY <1>1 DEF Buffers, LayoutIs, BlobIs, workspace
<1>5. \A i \in DOMAIN inbox' :
        inbox'[i].of \in DOMAIN sessions' /\ sessions'[inbox'[i].of].state # "starting"
  BY DEF Heard
<1>6. ClangdFollows'
  BY DEF ClangdFollows, Follows, PathsIn
<1>7. Clangd'
  BY <1>5, <1>6 DEF Clangd
<1> QED
  BY <1>3, <1>4, <1>7 DEF IInv

\* One session is up, or has ended.
LEMMA SessionStep ==
    ASSUME IInv, NEW s \in DOMAIN sessions, NEW x \in Session, x.docs = <<>>, x.state # "starting",
           s = lsp => x.state # "up", sessions' = [sessions EXCEPT ![s] = x],
           NEW q \in Seq(Event), \A i \in DOMAIN q : q[i].of = s, inbox' = inbox \o q,
           UNCHANGED <<workspace, layout, lsp, init_started, disk, texts, drifted>>
    PROVE  IInv'
<1>1. sessions \in Seq(Session) /\ Types /\ Buffers /\ Clangd
  BY DEF IInv, Types
<1>2. /\ sessions' \in Seq(Session) /\ DOMAIN sessions' = DOMAIN sessions
      /\ \A i \in DOMAIN sessions : sessions'[i] = IF i = s THEN x ELSE sessions[i]
  BY <1>1, SeqPut
<1>3. inbox \in Seq(Heard) /\ inbox \in Seq(Event)
  BY <1>1, InboxIs DEF Types
<1>4. lsp = 0 \/ lsp \in DOMAIN sessions
  <2> DEFINE n == Len(sessions)
  <2>1. n \in Nat /\ lsp \in 0 .. n /\ DOMAIN sessions = 1 .. n
    BY <1>1, SeqFields DEF Types
  <2> HIDE DEF n
  <2>2. lsp = 0 \/ lsp \in 1 .. n
    BY <2>1
  <2> QED
    BY <2>1, <2>2
<1>5. inbox' \in Seq(Event)
  BY <1>3, ConcatProperties
<1>6. \A i \in DOMAIN inbox' : inbox'[i] \in Heard \/ inbox'[i].of = s
  <2> DEFINE Y == Heard \cup {v \in Event : v.of = s}
  <2>1. inbox \in Seq(Y)
    BY <1>3, SeqFields, SeqAmong
  <2>2. q \in Seq(Y)
    BY SeqFields, SeqAmong
  <2> HIDE DEF Y
  <2>3. inbox' \in Seq(Y)
    BY <2>1, <2>2, ConcatProperties
  <2>4. \A i \in DOMAIN inbox' : inbox'[i] \in Y
    BY <2>3, SeqFields
  <2> QED
    BY <2>4 DEF Y
<1>7. \A i \in DOMAIN inbox' : inbox'[i] \in Heard
                \/ (inbox'[i].of \in DOMAIN sessions /\ sessions'[inbox'[i].of].state # "starting")
  BY <1>2, <1>6
<1>8. LayoutIs(layout') /\ drifted' \in BOOLEAN
  BY <1>1 DEF Buffers, Types
<1>9. \A i \in DOMAIN sessions : sessions'[i].state = "starting" => sessions[i].state = "starting"
  BY <1>2
<1>10. lsp' = 0 \/ (lsp' \in DOMAIN sessions /\ sessions'[lsp'].state # "starting")
  BY <1>1, <1>2, <1>4 DEF Clangd
<1>11. \A i \in DOMAIN sessions : i # lsp' => sessions'[i].docs = <<>>
  BY <1>1, <1>2 DEF Clangd
<1>12. lsp' = 0 => \A t \in AllTabs(layout') : ~t.opened
  BY <1>1 DEF Clangd
<1>13. lsp' # 0 /\ ~drifted' /\ sessions'[lsp'].state = "up"
             => Follows(sessions'[lsp'].docs, AllTabs(layout'))
  <2> SUFFICES ASSUME lsp # 0, ~drifted, sessions'[lsp].state = "up"
               PROVE  Follows(sessions'[lsp].docs, AllTabs(layout))
    OBVIOUS
  <2>1. sessions'[lsp] = sessions[lsp]
    BY <1>2, <1>4
  <2> QED
    BY <1>1, <2>1, FollowsIs DEF Clangd
<1> QED
  BY <1>2, <1>5, <1>7, <1>8, <1>9, <1>10, <1>11, <1>12, <1>13, ClangdStep

LEMMA InitializedKeeps ==
    ASSUME IInv, NEW s \in DOMAIN sessions, NEW end \in {"up", "failed", "crashed"}, Initialized(s, end)
    PROVE  IInv' /\ layout' = layout
<1>1. sessions \in Seq(Session) /\ Clangd
  BY DEF IInv, Types
<1>2. /\ sessions[s].state = "starting"
      /\ UNCHANGED <<workspace, layout, lsp, init_started, disk, texts, drifted>>
  BY DEF Initialized
<1>3. s # lsp /\ sessions[s].docs = <<>>
  <2>1. s # lsp
    <3>1. s # 0
      BY <1>1, SeqFields
    <3> QED
      BY <1>1, <1>2, <3>1 DEF Clangd
  <2> QED
    BY <1>1, <2>1 DEF Clangd
<1> DEFINE x == IF end = "up" THEN [sessions[s] EXCEPT !.state = "up"] ELSE Ended
           ready == [name |-> "ready", of |-> s]
           exited == [name |-> "exited", of |-> s]
           q == [up |-> <<ready>>, failed |-> <<>>, crashed |-> <<exited, ready>>][end]
<1>4. sessions' = [sessions EXCEPT ![s] = x] /\ inbox' = inbox \o q
  BY DEF Initialized
<1>5. x \in Session /\ x.docs = <<>> /\ x.state # "starting"
  <2>1. sessions[s] \in Session
    BY <1>1, SeqFields
  <2> DEFINE y == [sessions[s] EXCEPT !.state = "up"]
  <2>2. y \in Session /\ y.docs = sessions[s].docs /\ y.state = "up"
    BY <2>1 DEF Session
  <2> HIDE DEF y
  <2>3. x = y \/ x = Ended
    BY DEF y
  <2> HIDE DEF x
  <2> QED
    BY <1>3, <2>2, <2>3, SessionsAre
<1>6. q \in Seq(Event) /\ \A i \in DOMAIN q : q[i].of = s
  <2> DEFINE X == {ready, exited}
  <2>1. s \in Nat
    BY <1>1, SeqFields
  <2>2. ready \in Event /\ exited \in Event /\ ready.of = s /\ exited.of = s
    BY <2>1 DEF Event
  <2>3. q = <<ready>> \/ q = <<>> \/ q = <<exited, ready>>
    BY DEF q
  <2> HIDE DEF q, ready, exited
  <2>4. q \in Seq(X)
    <3>1. ready \in X /\ exited \in X
      OBVIOUS
    <3> HIDE DEF X
    <3>2. <<ready>> \in Seq(X) /\ <<>> \in Seq(X) /\ <<exited, ready>> \in Seq(X)
      BY <3>1
    <3> QED
      BY <2>3, <3>2
  <2>5. \A i \in DOMAIN q : q[i] \in X
    BY <2>4, SeqFields
  <2>6. q \in Seq(Event)
    BY <2>2, <2>4, <2>5, SeqAmong
  <2> QED
    BY <2>2, <2>5, <2>6
<1> HIDE DEF x, q
<1>7. IInv'
  BY <1>2, <1>3, <1>4, <1>5, <1>6, SessionStep
<1> QED
  BY <1>2, <1>7

LEMMA CrashesKeeps ==
    ASSUME IInv, NEW s \in DOMAIN sessions, Crashes(s)
    PROVE  IInv' /\ layout' = layout
<1> DEFINE exited == [name |-> "exited", of |-> s]
           q == <<exited>>
<1>1. /\ sessions' = [sessions EXCEPT ![s] = Ended] /\ inbox' = Append(inbox, exited)
      /\ UNCHANGED <<workspace, layout, lsp, init_started, disk, texts, drifted>>
  BY DEF Crashes
<1>2. sessions \in Seq(Session) /\ inbox \in Seq(Event)
  BY DEF IInv, Types
<1>3. s \in Nat
  BY <1>2, SeqFields
<1>4. exited \in Event /\ exited.of = s
  BY <1>3 DEF Event
<1> HIDE DEF exited
<1>5. inbox' = inbox \o q
  BY <1>1, <1>2, <1>4, AppendIsConcat
<1>6. q \in Seq(Event) /\ \A i \in DOMAIN q : q[i].of = s
  BY <1>4
<1> HIDE DEF q
<1>7. IInv'
  BY <1>1, <1>5, <1>6, SessionsAre, SessionStep
<1> QED
  BY <1>1, <1>7

\* The inbox without its first event.
LEMMA ArrivesIs ==
    ASSUME IInv, NEW name, Arrives(name)
    PROVE  /\ Head(inbox) \in Heard /\ inbox' \in Seq(Event)
           /\ \A i \in DOMAIN inbox' : inbox'[i] \in Heard
<1>1. inbox \in Seq(Heard) /\ inbox # <<>> /\ inbox' = Tail(inbox)
  BY InboxIs DEF Arrives
<1>2. Head(inbox) \in Heard /\ inbox' \in Seq(Heard)
  BY <1>1, HeadTailProperties
<1>3. \A i \in DOMAIN inbox' : inbox'[i] \in Heard
  BY <1>2, SeqFields
<1>4. \A i \in DOMAIN inbox' : inbox'[i] \in Event
  BY <1>3 DEF Heard
<1>5. inbox' \in Seq(Event)
  BY <1>2, <1>4, SeqAmong
<1> QED
  BY <1>2, <1>3, <1>5

LEMMA HandleIs ==
    ASSUME IInv
    PROVE  /\ sessions \in Seq(Session) /\ (lsp = 0 \/ lsp \in DOMAIN sessions) /\ 0 \notin DOMAIN sessions
           /\ \A q \in DOMAIN sessions : sessions[q] \in Session /\ sessions[q].docs \in Docs
<1> DEFINE n == Len(sessions)
<1>1. sessions \in Seq(Session) /\ n \in Nat /\ lsp \in 0 .. n /\ DOMAIN sessions = 1 .. n
      /\ \A q \in DOMAIN sessions : sessions[q] \in Session
  BY SeqFields DEF IInv, Types
<1> HIDE DEF n
<1>2. (lsp = 0 \/ lsp \in 1 .. n) /\ 0 \notin 1 .. n
  BY <1>1
<1> QED
  BY <1>1, <1>2, SessionFields

LEMMA LspExitedKeeps ==
    ASSUME IInv, LspExited
    PROVE  IInv' /\ Texts(AllTabs(layout')) = Texts(AllTabs(layout))
<1>1. /\ Arrives("exited") /\ lsp' = 0 /\ layout' = Closed(layout) /\ sessions' = Dropped(sessions)
      /\ UNCHANGED <<workspace, init_started, disk, texts, drifted>>
  BY DEF LspExited
<1>2. /\ inbox' \in Seq(Event) /\ \A i \in DOMAIN inbox' : inbox'[i] \in Heard
  BY <1>1, ArrivesIs
<1>3. /\ sessions' \in Seq(Session) /\ DOMAIN sessions' = DOMAIN sessions
      /\ \A q \in DOMAIN sessions : sessions'[q] = IF q = lsp THEN Ended ELSE sessions[q]
  BY <1>1, HandleIs, DroppedIs
<1>4. LayoutIs(layout) /\ Unique(AllTabs(layout))
  BY LayoutTabs DEF IInv, Buffers
<1>5. LayoutIs(layout') /\ AllTabs(layout') = {Flag(t, {}) : t \in AllTabs(layout)}
  BY <1>1, <1>4, MarkedLayout
<1>6. \A t \in AllTabs(layout) : LET u == Flag(t, {})
                                 IN  ~u.opened /\ u.path = t.path /\ u.text = t.text /\ (Dirty(u) <=> Dirty(t))
  <2> TAKE t \in AllTabs(layout)
  <2> DEFINE u == Flag(t, {})
  <2>1. t \in Tab
    BY <1>4 DEF Unique
  <2>2. u.opened = (t \in {}) /\ u.path = t.path /\ u.text = t.text /\ (Dirty(u) <=> Dirty(t))
    BY <2>1, FlagIs
  <2> HIDE DEF u
  <2>3. ~u.opened
    BY <2>2
  <2> QED
    BY <2>2, <2>3 DEF u
<1>7. \A t \in AllTabs(layout') : ~t.opened
  BY <1>5, <1>6
<1>8. Texts(AllTabs(layout')) = Texts(AllTabs(layout))
  BY <1>5, <1>6 DEF Texts
<1>9. \A q \in DOMAIN sessions : q # lsp => sessions[q].docs = <<>>
  BY DEF IInv, Clangd
<1>10. \A q \in DOMAIN sessions : sessions'[q].docs = <<>>
  BY <1>3, <1>9, SessionsAre
<1>11. \A q \in DOMAIN sessions : sessions'[q].state = "starting" => sessions[q].state = "starting"
  BY <1>3, SessionsAre
<1>12. drifted' \in BOOLEAN
  BY <1>1 DEF IInv, Types
<1>13. IInv'
  BY <1>1, <1>2, <1>3, <1>5, <1>7, <1>10, <1>11, <1>12, ClangdStep
<1> QED
  BY <1>8, <1>13

LEMMA LspReadyKeeps ==
    ASSUME IInv, LspReady
    PROVE  IInv' /\ Texts(AllTabs(layout')) = Texts(AllTabs(layout))
<1> DEFINE s == Head(inbox).of
           T == AllTabs(layout)
           new == {t \in TabsOf(layout.editor) : t.path \in Eligible /\ ~t.opened}
           old == {t \in T : t.opened}
           docs == Synced(sessions[s].docs, {}, new)
           told == Told(s, docs)
<1>1. /\ Arrives("ready") /\ lsp' = s /\ layout' = Mark(layout, PathsIn(new))
      /\ sessions' = Dropped(told) /\ drifted' = (drifted \/ (lsp # 0 /\ old # {}))
      /\ UNCHANGED <<workspace, init_started, disk, texts>>
  BY DEF LspReady, PathsIn
<1>2. /\ Head(inbox) \in Heard /\ inbox' \in Seq(Event)
      /\ \A i \in DOMAIN inbox' : inbox'[i] \in Heard
  BY <1>1, ArrivesIs
<1>3. s \in DOMAIN sessions /\ sessions[s].state # "starting"
  BY <1>2 DEF Heard
<1>4. LayoutIs(layout) /\ Unique(T)
  BY LayoutTabs DEF IInv, Buffers
<1>5. new \subseteq T /\ \A t \in new : ~t.opened
  <2>1. PICK E, f : At(E, f)
    BY LayoutAt
  <2> QED
    BY <2>1 DEF At
<1>6. Unique(new)
  BY <1>4, <1>5 DEF Unique
<1> HIDE DEF s, new
<1>7. LayoutIs(layout') /\ AllTabs(layout') = Marked(T, new)
  BY <1>1, <1>4, MarkedLayout
<1>8. IsSynced(docs, sessions[s].docs, {}, new)
  BY <1>3, <1>6, HandleIs, SyncedIs
<1> DEFINE gone == {t \in {} : t.opened}
<1>9. docs = Synced(sessions[s].docs, gone, new) /\ docs \in Docs
  <2>1. gone = {}
    OBVIOUS
  <2> QED
    BY <1>8, <2>1 DEF IsSynced
<1>10. s # lsp /\ (lsp = 0 \/ old = {}) => Follows(docs, Marked(T, new))
  <2> SUFFICES ASSUME s # lsp, lsp = 0 \/ old = {} PROVE Follows(docs, Marked(T, new))
    OBVIOUS
  <2>1. sessions[s].docs = <<>> /\ <<>> \in Docs
    BY <1>3, DocsAre DEF IInv, Clangd
  <2>2. \A t \in T : ~t.opened
    BY DEF IInv, Clangd
  <2>3. Follows(<<>>, T)
    BY <2>2, DocsAre DEF Follows, PathsIn
  <2> HIDE DEF docs, T
  <2> DEFINE none == {}
  <2>4. none \subseteq T /\ T \ none \subseteq T /\ \A t \in T : (t \in T /\ t \notin none) \/ ~t.opened
    OBVIOUS
  <2> HIDE DEF none
  <2>5. Follows(Synced(<<>>, {t \in none : t.opened}, new), Marked(T, new))
    BY <1>4, <1>5, <2>1, <2>3, <2>4, SyncedFollows DEF T
  <2> QED
    BY <1>9, <2>1, <2>5 DEF none
<1> HIDE DEF docs
<1>11. Retold(told, s, docs)
  BY <1>3, <1>9, HandleIs, ToldIs
<1> HIDE DEF told
<1>12. /\ told \in Seq(Session) /\ DOMAIN told = DOMAIN sessions
       /\ \A q \in DOMAIN sessions :
            /\ told[q].state = sessions[q].state
            /\ q # s => told[q] = sessions[q]
            /\ q = s /\ sessions[s].state = "up" => told[q].docs = docs
  BY <1>11 DEF Retold
<1>13. /\ sessions' \in Seq(Session) /\ DOMAIN sessions' = DOMAIN sessions
       /\ \A q \in DOMAIN sessions : sessions'[q] = IF q = lsp THEN Ended ELSE told[q]
  BY <1>1, <1>12, HandleIs, DroppedIs
<1>14. \A q \in DOMAIN sessions : q # s => sessions'[q].docs = <<>>
  BY <1>12, <1>13, SessionsAre DEF IInv, Clangd
<1>15. /\ sessions'[s].state # "starting"
       /\ \A q \in DOMAIN sessions : sessions'[q].state = "starting" => sessions[q].state = "starting"
  BY <1>3, <1>12, <1>13, SessionsAre
<1>16. ~drifted' /\ sessions'[s].state = "up" => Follows(sessions'[s].docs, AllTabs(layout'))
  <2> SUFFICES ASSUME ~drifted', sessions'[s].state = "up"
               PROVE  Follows(sessions'[s].docs, AllTabs(layout'))
    OBVIOUS
  <2>1. s # lsp /\ sessions'[s] = told[s]
    BY <1>3, <1>13, SessionsAre
  <2>2. told[s].docs = docs
    BY <1>3, <1>12, <2>1
  <2>3. lsp = 0 \/ old = {}
    BY <1>1
  <2> QED
    BY <1>7, <1>10, <2>1, <2>2, <2>3
<1>17. drifted' \in BOOLEAN
  BY <1>1
<1>18. s # 0
  BY <1>3, HandleIs
<1>19. IInv'
  BY <1>1, <1>2, <1>3, <1>7, <1>13, <1>14, <1>15, <1>16, <1>17, <1>18, ClangdStep
<1>20. Texts(AllTabs(layout')) = Texts(T)
  <2>1. \A v \in AllTabs(layout') : \E t \in T : v.path = t.path /\ v.text = t.text /\ (Dirty(v) <=> Dirty(t))
    BY <1>4, <1>5, <1>7, MarkedTabs
  <2>2. \A t \in T : \E v \in AllTabs(layout') : v.path = t.path /\ v.text = t.text /\ (Dirty(v) <=> Dirty(t))
    BY <1>4, <1>5, <1>7, MarkedTabs
  <2> QED
    BY <2>1, <2>2 DEF Texts
<1> QED
  BY <1>19, <1>20
-----------------------------------------------------------------------------
(* The projects.                                                           *)

Listed(e) == [paths |-> [i \in DOMAIN e.tabs |-> e.tabs[i].path], active |-> e.active]

LEMMA ListedIs ==
    ASSUME NEW e, EditorIs(e)
    PROVE  ListIs(Listed(e)) /\ Range(Listed(e).paths) = PathsOf(e)
<1> DEFINE n == Len(e.tabs)
           p == [i \in DOMAIN e.tabs |-> e.tabs[i].path]
           b == Listed(e)
<1>1. /\ n \in Nat /\ DOMAIN e.tabs = 1 .. n /\ e.active \in Nat
      /\ \A i \in 1 .. n : e.tabs[i].path \in Files
  BY EditorFields DEF EditorIs
<1>2. b = [paths |-> p, active |-> e.active]
  BY DEF Listed
<1>3. p \in [1 .. n -> Files] /\ \A i \in 1 .. n : p[i] = e.tabs[i].path
  BY <1>1
<1> HIDE DEF b
<1>4. p \in Seq(Files) /\ Len(p) = n /\ DOMAIN p = 1 .. n
  <2> HIDE DEF n, p
  <2> QED
    BY <1>1, <1>3, FunctionIsSeq
<1> HIDE DEF p
<1>5. b \in List /\ b.paths = p /\ b.active = e.active
  BY <1>1, <1>2, <1>4 DEF List
<1>6. b.active \in DOMAIN b.paths \/ (b.active = 0 /\ b.paths = <<>>)
  <2>1. CASE e.active \in DOMAIN e.tabs
    BY <1>1, <1>4, <1>5, <2>1
  <2>2. CASE e.active = 0 /\ e.tabs = <<>>
    <3>1. n = 0
      BY <2>2
    <3> HIDE DEF n
    <3>2. p = <<>>
      BY <1>4, <3>1, EmptySeq
    <3> QED
      BY <1>5, <2>2, <3>2
  <2> QED
    BY <2>1, <2>2 DEF EditorIs
<1>7. \A i, j \in DOMAIN b.paths : b.paths[i] = b.paths[j] => i = j
  BY <1>1, <1>3, <1>4, <1>5 DEF EditorIs
<1>8. Range(b.paths) = PathsOf(e)
  BY <1>1, <1>3, <1>4, <1>5 DEF Range, PathsOf
<1>9. ListIs(b)
  BY <1>5, <1>6, <1>7 DEF ListIs
<1> QED
  BY <1>8, <1>9 DEF b

\* What is saved of a layout is a sound list of its editors.
LEMMA BlobOfIs ==
    ASSUME NEW l, LayoutIs(l), world.panes \in Nat
    PROVE  BlobIs(Blob(l))
<1> DEFINE E == EditorsOf(l)
           f == Focused(l)
           n == Len(E)
           all == [i \in DOMAIN E |-> Listed(E[i])]
           split == IF SplitMode(l) THEN all ELSE <<>>
           b == [editor |-> Listed(E[f]), focused |-> f, panes |-> split]
<1>1. Is(l, E, f)
  BY LayoutIsThat
<1> HIDE DEF E, f
<1>2. /\ E \in Seq(Editor) /\ n \in Nat /\ DOMAIN E = 1 .. n /\ f \in 1 .. n /\ n <= world.panes
      /\ \A i \in 1 .. n : EditorIs(E[i])
      /\ \A i, j \in 1 .. n : i # j => PathsOf(E[i]) \cap PathsOf(E[j]) = {}
  BY <1>1, SeqFields DEF Is, EditorsAre
<1>3. /\ Panes(l) = DOMAIN E /\ l.editor = E[f] /\ Focused(l) = f
      /\ \A i \in DOMAIN E : PaneEditor(l, i) = E[i]
  BY <1>1, ThatIsLayout
<1>4. Blob(l) = b
  <2>1. [i \in Panes(l) |-> Listed(PaneEditor(l, i))] = all
    BY <1>3
  <2> QED
    BY <1>3, <2>1 DEF Blob, Listed
<1>5. \A i \in 1 .. n : all[i] = Listed(E[i]) /\ ListIs(all[i]) /\ Range(all[i].paths) = PathsOf(E[i])
  BY <1>2, ListedIs
<1>6. all \in [1 .. n -> List]
  BY <1>2, <1>5 DEF ListIs
<1> HIDE DEF all, b
<1>7. all \in Seq(List) /\ Len(all) = n /\ DOMAIN all = 1 .. n
  <2> HIDE DEF n
  <2> QED
    BY <1>2, <1>6, FunctionIsSeq
<1>8. ListsAre(all) /\ Len(all) <= world.panes
  BY <1>2, <1>5, <1>7 DEF ListsAre
<1>9. ListsAre(split) /\ Len(split) <= world.panes /\ split \in Seq(List)
  <2>1. CASE split = all
    BY <1>7, <1>8, <2>1
  <2>2. CASE split = <<>>
    <3>1. <<>> \in Seq(List) /\ Len(<<>>) = 0 /\ DOMAIN <<>> = {}
      BY EmptySeq
    <3>2. 0 <= world.panes
      <4> HIDE DEF n
      <4>1. n \in Nat /\ n <= world.panes /\ world.panes \in Nat
        BY <1>2
      <4> QED
        BY <4>1
    <3> HIDE DEF split
    <3> QED
      BY <2>2, <3>1, <3>2 DEF ListsAre
  <2> QED
    BY <2>1, <2>2
<1> HIDE DEF split
<1>10. ListIs(Listed(E[f]))
  BY <1>2, ListedIs
<1>11. f \in Nat \ {0}
  <2> HIDE DEF n
  <2> QED
    BY <1>2
<1>12. /\ b.editor = Listed(E[f]) /\ b.focused = f /\ b.panes = split
       /\ b \in [editor : List, focused : Nat \ {0}, panes : Seq(List)]
  BY <1>9, <1>10, <1>11 DEF b, ListIs
<1>13. BlobIs(b)
  BY <1>9, <1>10, <1>12 DEF BlobIs
<1> QED
  BY <1>4, <1>13

\* The editor of a saved list: clean tabs, none of them opened at clangd.
LEMMA EditorOfIs ==
    ASSUME disk \in [Files -> Nat], NEW b, ListIs(b)
    PROVE  LET e == EditorOf(b)
           IN  EditorIs(e) /\ PathsOf(e) = Range(b.paths) /\ \A t \in TabsOf(e) : ~t.opened
<1> DEFINE n == Len(b.paths)
           s == [i \in DOMAIN b.paths |-> FreshTab(b.paths[i], FALSE)]
           e == EditorOf(b)
<1>1. b.paths \in Seq(Files) /\ b.active \in Nat
  BY DEF ListIs, List
<1>2. n \in Nat /\ DOMAIN b.paths = 1 .. n /\ \A i \in 1 .. n : b.paths[i] \in Files
  BY <1>1, SeqFields
<1>3. e = [tabs |-> s, active |-> b.active]
  BY DEF EditorOf
<1>4. \A i \in 1 .. n : /\ s[i] = FreshTab(b.paths[i], FALSE) /\ s[i] \in Tab
                        /\ s[i].path = b.paths[i] /\ ~Dirty(s[i]) /\ ~s[i].opened
  BY <1>2, FreshTabIs
<1>5. s \in [1 .. n -> Tab]
  BY <1>2, <1>4
<1> HIDE DEF s, e
<1>6. s \in Seq(Tab) /\ Len(s) = n /\ DOMAIN s = 1 .. n
  <2> HIDE DEF n
  <2> QED
    BY <1>2, <1>5, FunctionIsSeq
<1>7. e \in Editor /\ e.tabs = s /\ e.active = b.active
  BY <1>1, <1>3, <1>6 DEF Editor
<1>8. e.active \in DOMAIN e.tabs \/ (e.active = 0 /\ e.tabs = <<>>)
  <2>1. CASE b.active \in DOMAIN b.paths
    BY <1>2, <1>6, <1>7, <2>1
  <2>2. CASE b.active = 0 /\ b.paths = <<>>
    <3>1. n = 0
      BY <2>2
    <3> HIDE DEF n
    <3>2. s = <<>>
      BY <1>6, <3>1, EmptySeq
    <3> QED
      BY <1>7, <2>2, <3>2
  <2> QED
    BY <2>1, <2>2 DEF ListIs
<1>9. EditorIs(e)
  <2>1. \A i, j \in 1 .. n : s[i].path = s[j].path => i = j
    BY <1>2, <1>4 DEF ListIs
  <2>2. \A i \in 1 .. n : s[i].preview => ~Dirty(s[i])
    BY <1>4
  <2> HIDE DEF n
  <2> QED
    BY <1>6, <1>7, <1>8, <2>1, <2>2 DEF EditorIs
<1>10. PathsOf(e) = Range(b.paths) /\ \A t \in TabsOf(e) : ~t.opened
  BY <1>2, <1>4, <1>6, <1>7 DEF PathsOf, TabsOf, Range
<1> QED
  BY <1>9, <1>10 DEF e

\* A layout whose tabs clangd has not.
Unmarked(l) == LayoutIs(l) /\ \A t \in AllTabs(l) : ~t.opened

LEMMA OnePaneIs ==
    ASSUME NEW e, EditorIs(e), \A t \in TabsOf(e) : ~t.opened, world.panes \in Nat \ {0}
    PROVE  Unmarked(OnePane(e))
<1> DEFINE E == <<e>>
           l == OnePane(e)
<1>1. e \in Editor
  BY DEF EditorIs
<1>2. E \in Seq(Editor) /\ Len(E) = 1 /\ DOMAIN E = {1} /\ E[1] = e
  BY <1>1
<1>3. l = LayoutOf(E, 1)
  BY DEF OnePane, LayoutOf
<1> HIDE DEF E, l
<1>4. EditorsAre(E)
  BY <1>2 DEF EditorsAre
<1>5. 1 <= world.panes
  OBVIOUS
<1>6. Is(l, E, 1)
  BY <1>2, <1>3, <1>4, <1>5 DEF Is
<1>7. LayoutIs(l) /\ AllTabs(l) = Tabs(E)
  BY <1>6, ThatIsLayout
<1>8. Tabs(E) = TabsOf(e)
  BY <1>2 DEF Tabs
<1> QED
  BY <1>7, <1>8 DEF Unmarked, l

LEMMA OfInterval ==
    ASSUME NEW n \in Nat, NEW S, S \subseteq 1 .. n
    PROVE  Cardinality(S) \in Nat /\ Cardinality(S) <= n
<1>1. IsFiniteSet(1 .. n) /\ Cardinality(1 .. n) = n
  <2>1. IsFiniteSet(1 .. n) /\ Cardinality(1 .. n) = IF 1 > n THEN 0 ELSE n - 1 + 1
    BY FS_Interval
  <2> QED
    BY <2>1
<1>2. IsFiniteSet(S) /\ Cardinality(S) <= Cardinality(1 .. n)
  BY <1>1, FS_Subset
<1>3. Cardinality(S) \in Nat
  BY <1>2, FS_CardinalityType
<1> QED
  BY <1>1, <1>2, <1>3

\* The panes that are not empty are lists that share no file.
LEMMA KeptAre ==
    ASSUME NEW B, ListsAre(B), NEW K, K \subseteq DOMAIN B
    PROVE  LET full == [n \in 1 .. Cardinality(K) |-> B[Nth(K, n)]]
           IN  ListsAre(full) /\ Len(full) <= Len(B) /\ Len(full) \in Nat /\ DOMAIN full = 1 .. Len(full)
<1> DEFINE m == Len(B)
           c == Cardinality(K)
           full == [n \in 1 .. c |-> B[Nth(K, n)]]
<1>1. /\ B \in Seq(List) /\ m \in Nat /\ DOMAIN B = 1 .. m /\ \A i \in 1 .. m : ListIs(B[i]) /\ B[i] \in List
      /\ \A i, j \in 1 .. m : i # j => Range(B[i].paths) \cap Range(B[j].paths) = {}
  <2>1. B \in Seq(List)
    BY DEF ListsAre
  <2>2. m \in Nat /\ DOMAIN B = 1 .. m /\ \A i \in 1 .. m : B[i] \in List
    BY <2>1, SeqFields
  <2> QED
    BY <2>1, <2>2 DEF ListsAre
<1>2. c \in Nat /\ c <= m
  BY <1>1, OfInterval
<1>3. ASSUME NEW n \in 1 .. c PROVE Nth(K, n) \in 1 .. m
  <2>1. K \in SUBSET (1 .. m)
    BY <1>1
  <2> HIDE DEF m
  <2>2. Nth(K, n) \in K
    BY <1>1, <2>1, NthIs
  <2> QED
    BY <2>1, <2>2
<1>4. ASSUME NEW n \in 1 .. c, NEW o \in 1 .. c, n # o PROVE Nth(K, n) # Nth(K, o)
  <2>1. K \in SUBSET (1 .. m)
    BY <1>1
  <2> HIDE DEF m
  <2> QED
    BY <1>1, <1>4, <2>1, NthDiffers
<1> HIDE DEF c, m
<1>5. full \in [1 .. c -> List] /\ \A n \in 1 .. c : full[n] = B[Nth(K, n)]
  BY <1>1, <1>3
<1> HIDE DEF full
<1>6. full \in Seq(List) /\ Len(full) = c /\ DOMAIN full = 1 .. c
  BY <1>2, <1>5, FunctionIsSeq
<1>7. \A n \in 1 .. c : ListIs(full[n])
  BY <1>1, <1>3, <1>5
<1>8. \A n, o \in 1 .. c : n # o => Range(full[n].paths) \cap Range(full[o].paths) = {}
  <2> TAKE n, o \in 1 .. c
  <2> HAVE n # o
  <2>1. Nth(K, n) \in 1 .. m /\ Nth(K, o) \in 1 .. m /\ Nth(K, n) # Nth(K, o)
    BY <1>3, <1>4
  <2>2. full[n] = B[Nth(K, n)] /\ full[o] = B[Nth(K, o)]
    BY <1>5
  <2> QED
    BY <1>1, <2>1, <2>2
<1>9. ListsAre(full)
  BY <1>6, <1>7, <1>8 DEF ListsAre
<1> QED
  BY <1>2, <1>6, <1>9 DEF full, c, m

\* What is restored from what is saved.
RestoredFrom(blob, dir) ==
    LET single == IF blob.editor.paths # <<>> THEN EditorOf(blob.editor)
                  ELSE Pushed(NoTabs, FreshTab(FirstFile[dir], FALSE))
        kept == {i \in DOMAIN blob.panes : blob.panes[i].paths # <<>>}
        full == [n \in 1 .. Cardinality(kept) |-> blob.panes[Nth(kept, n)]]
        focused == Min({blob.focused, Len(full)})
    IN IF Len(full) < 2 THEN OnePane(single)
       ELSE [panes |-> [i \in DOMAIN full |-> IF i = focused THEN Live ELSE EditorOf(full[i])],
             editor |-> EditorOf(full[focused])]

LEMMA RestoredIs ==
    ASSUME disk \in [Files -> Nat], world.panes \in Nat \ {0}, NEW dir \in Roots, NEW b, BlobIs(b)
    PROVE  Unmarked(RestoredFrom(b, dir))
<1> DEFINE single == IF b.editor.paths # <<>> THEN EditorOf(b.editor)
                     ELSE Pushed(NoTabs, FreshTab(FirstFile[dir], FALSE))
           kept == {i \in DOMAIN b.panes : b.panes[i].paths # <<>>}
           full == [n \in 1 .. Cardinality(kept) |-> b.panes[Nth(kept, n)]]
           c == Len(full)
           g == Min({b.focused, c})
           l == [panes |-> [i \in DOMAIN full |-> IF i = g THEN Live ELSE EditorOf(full[i])],
                 editor |-> EditorOf(full[g])]
<1>1. /\ ListIs(b.editor) /\ ListsAre(b.panes) /\ Len(b.panes) <= world.panes
      /\ b.focused \in Nat \ {0} /\ Len(b.panes) \in Nat
  BY SeqFields DEF BlobIs, ListsAre
<1>2. RestoredFrom(b, dir) = IF c < 2 THEN OnePane(single) ELSE l
  BY DEF RestoredFrom
<1>3. EditorIs(single) /\ \A t \in TabsOf(single) : ~t.opened
  <2>1. CASE b.editor.paths # <<>>
    BY <1>1, <2>1, EditorOfIs
  <2>2. CASE b.editor.paths = <<>>
    <3> DEFINE tab == FreshTab(FirstFile[dir], FALSE)
    <3>1. FirstFile[dir] \in Files
      BY FirstFilesAreFiles
    <3>2. tab \in Tab /\ ~Dirty(tab) /\ ~tab.opened
      BY <3>1, FreshTabIs
    <3> HIDE DEF tab
    <3>3. EditorIs(Pushed(NoTabs, tab)) /\ TabsOf(Pushed(NoTabs, tab)) \subseteq TabsOf(NoTabs) \cup {tab}
      <4>1. /\ EditorIs(Pushed(NoTabs, tab))
            /\ TabsOf(Pushed(NoTabs, tab)) = IF tab.path \in PathsOf(NoTabs) THEN TabsOf(NoTabs)
                                             ELSE TabsOf(NoTabs) \cup {tab}
        BY <3>2, NoTabsIs, PushedIs
      <4> QED
        BY <4>1
    <3>4. single = Pushed(NoTabs, tab)
      BY <2>2 DEF tab
    <3> HIDE DEF single
    <3>5. \A t \in TabsOf(Pushed(NoTabs, tab)) : t = tab
      BY <3>3, NoTabsIs
    <3> QED
      BY <3>2, <3>3, <3>4, <3>5
  <2> QED
    BY <2>1, <2>2
<1>4. ListsAre(full) /\ c <= Len(b.panes) /\ c \in Nat /\ DOMAIN full = 1 .. c
  <2>1. kept \subseteq DOMAIN b.panes
    OBVIOUS
  <2> HIDE DEF kept
  <2> QED
    BY <1>1, <2>1, KeptAre
<1> HIDE DEF single, full
<1>5. CASE c < 2
  BY <1>2, <1>3, <1>5, OnePaneIs
<1>6. CASE ~(c < 2)
  <2> DEFINE E == [i \in DOMAIN full |-> EditorOf(full[i])]
  <2>1. g \in 1 .. c
    <3> HIDE DEF c
    <3>1. g = IF b.focused <= c THEN b.focused ELSE c
      BY <1>1, <1>4, MinOfTwo
    <3> HIDE DEF g
    <3> QED
      BY <1>1, <1>4, <1>6, <3>1
  <2>2. c <= world.panes
    <3> DEFINE m == Len(b.panes)
    <3>1. m \in Nat /\ m <= world.panes /\ c <= m /\ c \in Nat
      BY <1>1, <1>4
    <3> HIDE DEF m, c
    <3> QED
      BY <3>1
  <2>3. \A i \in 1 .. c : /\ E[i] = EditorOf(full[i]) /\ EditorIs(E[i]) /\ PathsOf(E[i]) = Range(full[i].paths)
                          /\ \A t \in TabsOf(E[i]) : ~t.opened
    BY <1>4, EditorOfIs DEF ListsAre
  <2>4. E \in [1 .. c -> Editor]
    BY <1>4, <2>3 DEF EditorIs
  <2> HIDE DEF g
  <2>5. l = [panes |-> [i \in DOMAIN E |-> IF i = g THEN Live ELSE E[i]], editor |-> E[g]]
    BY <1>4, <2>1
  <2> HIDE DEF E, l
  <2>6. E \in Seq(Editor) /\ Len(E) = c /\ DOMAIN E = 1 .. c
    <3> HIDE DEF c
    <3> QED
      BY <1>4, <2>4, FunctionIsSeq
  <2>7. EditorsAre(E)
    BY <1>4, <2>3, <2>6 DEF EditorsAre, ListsAre
  <2>8. l = LayoutOf(E, g)
    BY <2>5 DEF LayoutOf
  <2>9. Is(l, E, g)
    BY <2>1, <2>2, <2>6, <2>7, <2>8 DEF Is
  <2>10. LayoutIs(l) /\ AllTabs(l) = Tabs(E)
    BY <2>9, ThatIsLayout
  <2>11. \A t \in Tabs(E) : ~t.opened
    BY <2>3, <2>6 DEF Tabs
  <2> QED
    BY <1>2, <1>6, <2>10, <2>11 DEF Unmarked
<1> QED
  BY <1>5, <1>6
\* What is restored, or taken from the stash, when a project comes to the front.
LEMMA ClosedIs ==
    ASSUME NEW l, LayoutIs(l)
    PROVE  Unmarked(Closed(l)) /\ Texts(AllTabs(Closed(l))) = Texts(AllTabs(l))
<1> DEFINE T == AllTabs(l)
           U == AllTabs(Closed(l))
<1>1. LayoutIs(Closed(l)) /\ U = {Flag(t, {}) : t \in T} /\ Unique(T)
  BY MarkedLayout, LayoutTabs
<1>2. \A t \in T : LET u == Flag(t, {})
                   IN  ~u.opened /\ u.path = t.path /\ u.text = t.text /\ (Dirty(u) <=> Dirty(t))
  <2> TAKE t \in T
  <2> DEFINE u == Flag(t, {})
  <2>1. t \in Tab
    BY <1>1 DEF Unique
  <2>2. u.opened = (t \in {}) /\ u.path = t.path /\ u.text = t.text /\ (Dirty(u) <=> Dirty(t))
    BY <2>1, FlagIs
  <2> HIDE DEF u
  <2>3. ~u.opened
    BY <2>2
  <2> QED
    BY <2>2, <2>3 DEF u
<1> HIDE DEF T, U
<1>3. Texts(U) = Texts(T)
  BY <1>1, <1>2 DEF Texts
<1>4. \A t \in U : ~t.opened
  BY <1>1, <1>2
<1> QED
  BY <1>1, <1>3, <1>4 DEF Unmarked, T, U

LEMMA UnsavedIs ==
    ASSUME NEW d, NEW r, NEW l, NEW st
    PROVE  /\ d = r => Unsaved(d, r, l, st) = Texts(AllTabs(l))
           /\ d # r /\ d \in DOMAIN st => Unsaved(d, r, l, st) = Texts(AllTabs(st[d]))
           /\ d # r /\ d \notin DOMAIN st => Unsaved(d, r, l, st) = {}
BY DEF Unsaved, Texts

\* The unsaved texts of a project stay.
Stays(d) == Unsaved(d, root, layout, stash) \subseteq Unsaved(d, root', layout', stash')

LEMMA StashedIs ==
    ASSUME IInv
    PROVE  /\ DOMAIN Stashed \subseteq Roots /\ DOMAIN Stashed = DOMAIN stash \cup ({root} \ {Nowhere})
           /\ root \notin DOMAIN stash
           /\ \A d \in DOMAIN Stashed : /\ LayoutIs(Stashed[d])
                                        /\ Stashed[d] = IF d = root THEN layout ELSE stash[d]
BY DEF Stashed, IInv, Types, Buffers

\* A session more or not, once the handle is dropped.
Fresh(all) ==
    /\ all \in Seq(Session) /\ Len(all) \in Nat
    /\ \A q \in DOMAIN all : all[q].docs = <<>>
    /\ \A q \in DOMAIN sessions :
         q \in DOMAIN all /\ (all[q].state = "starting" => sessions[q].state = "starting")

LEMMA FreshIs ==
    ASSUME IInv
    PROVE  Fresh(Dropped(sessions)) /\ Fresh(Append(Dropped(sessions), Starting))
<1> DEFINE all == Dropped(sessions)
           more == Append(all, Starting)
           n == Len(all)
<1>1. /\ all \in Seq(Session) /\ DOMAIN all = DOMAIN sessions
      /\ \A q \in DOMAIN sessions : all[q] = IF q = lsp THEN Ended ELSE sessions[q]
  BY HandleIs, DroppedIs
<1>2. \A q \in DOMAIN sessions : q # lsp => sessions[q].docs = <<>>
  BY DEF IInv, Clangd
<1>3. \A q \in DOMAIN sessions : all[q].docs = <<>> /\ (all[q].state = "starting" => sessions[q].state = "starting")
  BY <1>1, <1>2, SessionsAre
<1> HIDE DEF all
<1>4. Fresh(all)
  BY <1>1, <1>3, SeqFields DEF Fresh
<1>5. /\ more \in Seq(Session) /\ Len(more) = n + 1 /\ n \in Nat
      /\ DOMAIN all = 1 .. n /\ DOMAIN more = 1 .. (n + 1)
      /\ \A q \in DOMAIN all : more[q] = all[q]
      /\ more[n + 1] = Starting
  BY <1>1, SessionAdded
<1> HIDE DEF more, n
<1>6. /\ \A q \in DOMAIN more : q \in DOMAIN all \/ q = n + 1
      /\ \A q \in DOMAIN all : q \in DOMAIN more
      /\ n + 1 \in Nat
  BY <1>5
<1>7. Fresh(more)
  BY <1>1, <1>3, <1>5, <1>6, SessionsAre DEF Fresh
<1> QED
  BY <1>4, <1>7 DEF more, all

LEMMA EnterKeeps ==
    ASSUME IInv, NEW dir \in Roots, Enter(dir), projects' \in Seq(Roots), opens' \in Nat,
           drifted' = FALSE, UNCHANGED <<world, inbox, disk, texts>>
    PROVE  IInv' /\ \A d \in Roots : Stays(d)
<1> DEFINE K == Stashed
           l == IF dir \in DOMAIN K THEN Closed(K[dir]) ELSE Restored(dir)
<1>1. Types /\ Buffers /\ Clangd
  BY DEF IInv
<1>2. /\ root' = dir /\ layout' = l /\ lsp' = 0
      /\ saved_ui' = IF InProject THEN [saved_ui EXCEPT ![root] = Blob(layout)] ELSE saved_ui
      /\ stash' = Restrict(K, DOMAIN K \ {dir})
      /\ init_started' \in BOOLEAN
      /\ sessions' = Dropped(sessions) \/ sessions' = Append(Dropped(sessions), Starting)
  BY DEF Enter
<1>3. /\ DOMAIN K \subseteq Roots /\ DOMAIN K = DOMAIN stash \cup ({root} \ {Nowhere})
      /\ root \notin DOMAIN stash
      /\ \A d \in DOMAIN K : LayoutIs(K[d]) /\ K[d] = IF d = root THEN layout ELSE stash[d]
  BY StashedIs
<1> HIDE DEF K
<1>4. world.panes \in Nat \ {0} /\ world.panes \in Nat
  BY <1>1, WorldsAreBounds DEF Types
<1>5. DOMAIN stash' = DOMAIN K \ {dir} /\ \A d \in DOMAIN stash' : stash'[d] = K[d]
  BY <1>2 DEF Restrict
<1>6. BlobIs(Blob(layout))
  BY <1>1, <1>4, BlobOfIs DEF Buffers
<1>7. /\ saved_ui' \in [Roots -> [editor : List, focused : Nat \ {0}, panes : Seq(List)]]
      /\ \A d \in Roots : BlobIs(saved_ui'[d])
  <2>1. /\ saved_ui \in [Roots -> [editor : List, focused : Nat \ {0}, panes : Seq(List)]]
        /\ \A d \in Roots : BlobIs(saved_ui[d])
    BY <1>1 DEF Types, Buffers
  <2>2. Blob(layout) \in [editor : List, focused : Nat \ {0}, panes : Seq(List)]
    BY <1>6 DEF BlobIs
  <2>3. CASE InProject
    <3>1. root \in Roots /\ saved_ui' = [saved_ui EXCEPT ![root] = Blob(layout)]
      BY <1>1, <1>2, <2>3 DEF Types, InProject
    <3>2. \A d \in Roots : saved_ui'[d] = IF d = root THEN Blob(layout) ELSE saved_ui[d]
      BY <2>1, <3>1
    <3>3. saved_ui' \in [Roots -> [editor : List, focused : Nat \ {0}, panes : Seq(List)]]
      BY <2>1, <2>2, <3>1
    <3> QED
      BY <1>6, <2>1, <3>2, <3>3
  <2>4. CASE ~InProject
    BY <1>2, <2>1, <2>4
  <2> QED
    BY <2>3, <2>4
<1>8. Unmarked(l) /\ (dir \in DOMAIN K => Texts(AllTabs(l)) = Texts(AllTabs(K[dir])))
  <2>1. CASE dir \in DOMAIN K
    <3>1. l = Closed(K[dir]) /\ LayoutIs(K[dir])
      BY <1>3, <2>1
    <3> HIDE DEF l
    <3> QED
      BY <3>1, ClosedIs
  <2>2. CASE dir \notin DOMAIN K
    <3>1. l = RestoredFrom(saved_ui'[dir], dir)
      BY <2>2 DEF Restored, RestoredFrom
    <3>2. disk \in [Files -> Nat] /\ BlobIs(saved_ui'[dir])
      BY <1>1, <1>7 DEF Types
    <3> HIDE DEF l
    <3> QED
      BY <1>4, <2>2, <3>1, <3>2, RestoredIs
  <2> QED
    BY <2>1, <2>2
<1> HIDE DEF l
<1>9. Fresh(sessions')
  BY <1>2, FreshIs
<1>10. Types'
  <2>1. lsp' \in 0 .. Len(sessions')
    <3> DEFINE n == Len(sessions')
    <3>1. n \in Nat
      BY <1>9 DEF Fresh
    <3> HIDE DEF n
    <3>2. 0 \in 0 .. n
      BY <3>1
    <3> QED
      BY <1>2, <3>2 DEF n
  <2> QED
    BY <1>1, <1>2, <1>7, <1>9, <2>1 DEF Types, Fresh
<1>11. Buffers'
  <2>1. LayoutIs(layout)'
    BY <1>2, <1>8 DEF Unmarked, LayoutIs
  <2>2. \A d \in DOMAIN stash' : LayoutIs(stash'[d])
    BY <1>3, <1>5
  <2>3. \A d \in DOMAIN stash' : LayoutIs(stash[d])'
    BY <2>2 DEF LayoutIs
  <2>4. \A d \in Roots : BlobIs(saved_ui[d])'
    BY <1>7 DEF BlobIs
  <2>5. (DOMAIN stash)' \subseteq Roots \ {root'}
    BY <1>2, <1>3, <1>5
  <2> QED
    BY <2>1, <2>3, <2>4, <2>5 DEF Buffers
<1>12. Clangd'
  <2>1. \A i \in DOMAIN inbox : inbox[i].of \in DOMAIN sessions /\ sessions[inbox[i].of].state # "starting"
    BY <1>1 DEF Clangd
  <2>2. \A i \in DOMAIN inbox : inbox[i].of \in DOMAIN sessions' /\ sessions'[inbox[i].of].state # "starting"
    BY <1>9, <2>1 DEF Fresh
  <2>3. \A q \in DOMAIN sessions' : sessions'[q].docs = <<>>
    BY <1>9 DEF Fresh
  <2>4. \A t \in AllTabs(layout') : ~t.opened
    BY <1>2, <1>8 DEF Unmarked
  <2>5. ClangdFollows'
    BY <1>2 DEF ClangdFollows
  <2> QED
    BY <1>2, <2>2, <2>3, <2>4, <2>5 DEF Clangd
<1>13. ASSUME NEW d \in Roots PROVE Stays(d)
  <2> DEFINE before == Unsaved(d, root, layout, stash)
             after == Unsaved(d, root', layout', stash')
  <2>1. CASE d \in DOMAIN K
    <3>1. before = Texts(AllTabs(K[d]))
      <4>1. CASE d = root
        BY <1>3, <2>1, <4>1, UnsavedIs
      <4>2. CASE d # root
        BY <1>3, <2>1, <4>2, UnsavedIs
      <4> QED
        BY <4>1, <4>2
    <3>2. CASE d = dir
      <4>1. after = Texts(AllTabs(l))
        BY <1>2, <3>2, UnsavedIs
      <4> QED
        BY <1>8, <2>1, <3>1, <3>2, <4>1 DEF Stays
    <3>3. CASE d # dir
      <4>1. d \in DOMAIN stash' /\ stash'[d] = K[d] /\ d # root'
        BY <1>2, <1>5, <2>1, <3>3
      <4>2. after = Texts(AllTabs(K[d]))
        BY <4>1, UnsavedIs
      <4> QED
        BY <3>1, <4>2 DEF Stays
    <3> QED
      BY <3>2, <3>3
  <2>2. CASE d \notin DOMAIN K
    <3>1. d # root /\ d \notin DOMAIN stash
      BY <1>3, <2>2, NowhereIsNoRoot
    <3>2. before = {}
      BY <3>1, UnsavedIs
    <3> QED
      BY <3>2 DEF Stays
  <2> QED
    BY <2>1, <2>2
<1> QED
  BY <1>10, <1>11, <1>12, <1>13 DEF IInv
LEMMA OpenProjectKeeps ==
    ASSUME IInv, NEW dir \in Roots, OpenProject(dir)
    PROVE  IInv' /\ \A d \in Roots : Stays(d)
<1>1. /\ opens' = opens + 1 /\ Enter(dir) /\ drifted' = FALSE /\ UNCHANGED <<world, inbox, disk, texts>>
      /\ projects' = projects \/ projects' = Append(projects, dir)
  BY DEF OpenProject
<1>2. projects \in Seq(Roots) /\ opens \in Nat
  BY DEF IInv, Types
<1>3. projects' \in Seq(Roots)
  BY <1>1, <1>2, AppendProperties
<1>4. opens' \in Nat
  BY <1>1, <1>2
<1> QED
  BY <1>1, <1>3, <1>4, EnterKeeps

LEMMA CloseProjectKeeps ==
    ASSUME IInv, NEW dir \in Roots, CloseProject(dir)
    PROVE  IInv' /\ \A d \in Roots \ {dir} : Stays(d)
<1> DEFINE i == CHOOSE k \in DOMAIN projects : projects[k] = dir
           rest == RemoveAt(projects, i)
           n == Len(projects)
           m == Len(rest)
<1>1. /\ Contains(projects, dir) /\ n > 1 /\ projects' = rest
      /\ IF dir # root
         THEN /\ stash' = Restrict(stash, DOMAIN stash \ {dir})
              /\ UNCHANGED <<root, saved_ui, opens, layout, lsp, init_started, sessions, drifted>>
         ELSE /\ opens' = opens + 1
              /\ Enter(rest[Min({i, m})]) /\ drifted' = FALSE
      /\ UNCHANGED <<world, inbox, disk, texts>>
  BY DEF CloseProject
<1>2. projects \in Seq(Roots) /\ opens \in Nat /\ n \in Nat /\ DOMAIN projects = 1 .. n
  BY SeqFields DEF IInv, Types
<1>3. i \in DOMAIN projects
  BY <1>1, <1>2 DEF Contains
<1> HIDE DEF i
<1>4. rest \in Seq(Roots) /\ m = n - 1
  BY <1>2, <1>3, RemovedAt DEF IsWithout
<1> HIDE DEF rest, n
<1>5. CASE dir # root
  <2>1. /\ stash' = Restrict(stash, DOMAIN stash \ {dir})
        /\ UNCHANGED <<world, inbox, disk, texts, root, saved_ui, opens, layout, lsp, init_started, sessions, drifted>>
    BY <1>1, <1>5
  <2>2. DOMAIN stash' = DOMAIN stash \ {dir} /\ \A d \in DOMAIN stash' : stash'[d] = stash[d]
    BY <2>1 DEF Restrict
  <2>3. Types'
    BY <1>1, <1>4, <2>1 DEF IInv, Types
  <2>4. Buffers'
    <3>1. DOMAIN stash \subseteq Roots \ {root} /\ LayoutIs(layout)
          /\ (\A d \in DOMAIN stash : LayoutIs(stash[d])) /\ (\A d \in Roots : BlobIs(saved_ui[d]))
      BY DEF IInv, Buffers
    <3>2. \A d \in DOMAIN stash' : LayoutIs(stash'[d])
      BY <2>2, <3>1
    <3>3. \A d \in DOMAIN stash' : LayoutIs(stash[d])'
      BY <2>1, <3>2 DEF LayoutIs
    <3>4. LayoutIs(layout)' /\ \A d \in Roots : BlobIs(saved_ui[d])'
      BY <2>1, <3>1 DEF LayoutIs, BlobIs
    <3>5. (DOMAIN stash)' \subseteq Roots \ {root'}
      BY <2>1, <2>2, <3>1
    <3> QED
      BY <3>3, <3>4, <3>5 DEF Buffers
  <2>5. Clangd'
    BY <2>1 DEF IInv, Clangd, ClangdFollows
  <2>6. \A d \in Roots \ {dir} : Stays(d)
    <3> TAKE d \in Roots \ {dir}
    <3>1. Unsaved(d, root, layout, stash) = Unsaved(d, root', layout', stash')
      <4>1. CASE d = root
        BY <2>1, <4>1, UnsavedIs
      <4>2. CASE d # root /\ d \in DOMAIN stash
        <5>1. d \in DOMAIN stash' /\ stash'[d] = stash[d] /\ d # root'
          BY <2>1, <2>2, <4>2
        <5> QED
          BY <4>2, <5>1, UnsavedIs
      <4>3. CASE d # root /\ d \notin DOMAIN stash
        <5>1. d \notin DOMAIN stash' /\ d # root'
          BY <2>1, <2>2, <4>3
        <5> QED
          BY <4>3, <5>1, UnsavedIs
      <4> QED
        BY <4>1, <4>2, <4>3
    <3> QED
      BY <3>1 DEF Stays
  <2> QED
    BY <2>3, <2>4, <2>5, <2>6 DEF IInv
<1>6. CASE dir = root
  <2> DEFINE j == Min({i, m})
  <2>1. i \in Nat \ {0} /\ m \in Nat \ {0}
    <3> HIDE DEF m
    <3> QED
      BY <1>1, <1>2, <1>3, <1>4
  <2>2. j = IF i <= m THEN i ELSE m
    BY <2>1, MinOfTwo
  <2> HIDE DEF j
  <2>3. j \in 1 .. m
    <3> HIDE DEF m
    <3> QED
      BY <2>1, <2>2
  <2>4. rest[j] \in Roots
    BY <1>4, <2>3, SeqFields
  <2>5. opens' = opens + 1 /\ Enter(rest[j]) /\ drifted' = FALSE /\ UNCHANGED <<world, inbox, disk, texts>>
    BY <1>1, <1>6 DEF j
  <2>6. projects' \in Seq(Roots) /\ opens' \in Nat
    BY <1>1, <1>2, <1>4, <2>5
  <2>7. IInv' /\ \A d \in Roots : Stays(d)
    BY <2>4, <2>5, <2>6, EnterKeeps
  <2> QED
    BY <2>7
<1> QED
  BY <1>5, <1>6
-----------------------------------------------------------------------------
(* The steps.                                                              *)

\* An unsaved text that goes is given up by the user.
Guarded ==
    \A d \in Roots :
        \A u \in Unsaved(d, root, layout, stash) \ Unsaved(d, root', layout', stash') : GivesUp(d, u)

LEMMA LosesGuarded ==
    ASSUME UNCHANGED workspace, NEW P, Loses(P),
           \A u \in Texts(AllTabs(layout)) : u.path \in P => GivesUp(root, u)
    PROVE  Guarded
<1> SUFFICES ASSUME NEW d \in Roots, NEW u \in Unsaved(d, root, layout, stash),
                    u \notin Unsaved(d, root', layout', stash')
             PROVE  GivesUp(d, u)
  BY DEF Guarded
<1>1. root' = root /\ stash' = stash
  BY DEF workspace
<1>2. CASE d = root
  <2>1. u \in Texts(AllTabs(layout)) /\ u \notin Texts(AllTabs(layout'))
    BY <1>1, <1>2, UnsavedIs
  <2>2. u.path \in P
    BY <2>1 DEF Loses
  <2> QED
    BY <1>2, <2>1, <2>2
<1>3. CASE d # root /\ d \in DOMAIN stash
  BY <1>1, <1>3, UnsavedIs
<1>4. CASE d # root /\ d \notin DOMAIN stash
  BY <1>3, <1>4, UnsavedIs
<1> QED
  BY <1>2, <1>3, <1>4

LEMMA StepLoses ==
    ASSUME NEW gone, Step(gone)
    PROVE  IInv' /\ Loses(PathsIn(gone))
<1>1. ASSUME NEW u \in Texts(AllTabs(layout)) PROVE u \in Texts(AllTabs(layout')) \/ u.path \in PathsIn(gone)
  <2>1. PICK t \in AllTabs(layout) : Dirty(t) /\ u = [path |-> t.path, text |-> t.text]
    BY <1>1 DEF Texts
  <2>2. CASE t \in gone
    BY <2>1, <2>2 DEF PathsIn
  <2>3. CASE t \notin gone
    <3>1. u \in Texts(AllTabs(layout) \ gone)
      BY <2>1, <2>3 DEF Texts
    <3> QED
      BY <3>1 DEF Step
  <2> QED
    BY <2>2, <2>3
<1> QED
  BY <1>1 DEF Step, Loses

LEMMA QuietStep ==
    ASSUME UNCHANGED workspace, Loses({})
    PROVE  Guarded
<1>1. \A u \in Texts(AllTabs(layout)) : u.path \in {} => GivesUp(root, u)
  OBVIOUS
<1> QED
  BY <1>1, LosesGuarded

LEMMA NoTabGoes ==
    ASSUME Step({}), UNCHANGED workspace
    PROVE  IInv' /\ Guarded
<1>1. IInv' /\ Loses(PathsIn({}))
  BY StepLoses
<1>2. PathsIn({}) = {}
  BY DEF PathsIn
<1> QED
  BY <1>1, <1>2, QuietStep

LEMMA ChipsAre ==
    ASSUME NEW c \in Chips
    PROVE  c[1] \in Panes(layout) /\ c[2] \in DOMAIN PaneEditor(layout, c[1]).tabs
BY DEF Chips

LEMMA TabActionKeeps ==
    ASSUME IInv, TabAction
    PROVE  IInv' /\ Guarded
<1>1. ASSUME NEW path \in world.files, OpenElsewhere(path) \/ OpenFile(path) \/ OpenFails(path)
      PROVE  IInv' /\ Guarded
  <2>1. path \in Files
    BY WorldsAreBounds DEF IInv, Types
  <2>2. CASE OpenElsewhere(path)
    <3>1. UNCHANGED workspace
      BY <2>2 DEF OpenElsewhere, OnlyTabs
    <3> QED
      BY <2>1, <2>2, <3>1, OpenElsewhereKeeps, NoTabGoes
  <2>3. CASE OpenFile(path)
    <3>1. UNCHANGED workspace
      BY <2>3 DEF OpenFile, OnlyTabs
    <3> QED
      BY <2>1, <2>3, <3>1, OpenFileKeeps, NoTabGoes
  <2>4. CASE OpenFails(path)
    <3>1. UNCHANGED workspace
      BY <2>4 DEF OpenFails
    <3> QED
      BY <2>1, <2>4, <3>1, OpenFailsKeeps, NoTabGoes
  <2> QED
    BY <1>1, <2>2, <2>3, <2>4
<1>2. ASSUME NEW c \in Chips, SwitchTab(c[1], c[2])
      PROVE  IInv' /\ Guarded
  <2>1. UNCHANGED workspace
    BY <1>2 DEF SwitchTab, OnlyTabs
  <2> QED
    BY <1>2, <2>1, ChipsAre, SwitchTabKeeps, NoTabGoes
<1>3. ASSUME NEW c \in Chips, CloseTab(c[1], c[2])
      PROVE  IInv' /\ Guarded
  <2> DEFINE tab == PaneEditor(layout, c[1]).tabs[c[2]]
  <2>1. UNCHANGED workspace
    BY <1>3 DEF CloseTab, OnlyTabs
  <2>2. c[1] \in Panes(layout) /\ c[2] \in DOMAIN PaneEditor(layout, c[1]).tabs
    BY ChipsAre
  <2>3. Step({tab})
    BY <1>3, <2>2, CloseTabKeeps
  <2>4. IInv' /\ Loses(PathsIn({tab}))
    BY <2>3, StepLoses
  <2>5. ASSUME NEW u \in Texts(AllTabs(layout)), u.path \in PathsIn({tab}) PROVE GivesUp(root, u)
    <3>1. tab.path = u.path
      BY <2>5 DEF PathsIn
    <3> QED
      BY <1>3, <3>1 DEF GivesUp
  <2> QED
    BY <2>1, <2>4, <2>5, LosesGuarded
<1>4. ASSUME SplitPane
      PROVE  IInv' /\ Guarded
  <2>1. UNCHANGED workspace
    BY <1>4 DEF SplitPane, OnlyTabs
  <2> QED
    BY <1>4, <2>1, SplitPaneKeeps, NoTabGoes
<1>5. ASSUME NEW i \in Panes(layout), FocusPane(i)
      PROVE  IInv' /\ Guarded
  <2>1. UNCHANGED workspace
    BY <1>5 DEF FocusPane, OnlyTabs
  <2> QED
    BY <1>5, <2>1, FocusPaneKeeps, NoTabGoes
<1>6. ASSUME NEW i \in Panes(layout), ClosePane(i)
      PROVE  IInv' /\ Guarded
  <2> DEFINE e == PaneEditor(layout, i)
  <2>1. UNCHANGED workspace
    BY <1>6 DEF ClosePane, OnlyTabs
  <2>2. Step(TabsOf(e))
    BY <1>6, ClosePaneKeeps
  <2>3. IInv' /\ Loses(PathsIn(TabsOf(e)))
    BY <2>2, StepLoses
  <2>4. ASSUME NEW u \in Texts(AllTabs(layout)), u.path \in PathsIn(TabsOf(e)) PROVE GivesUp(root, u)
    <3>1. u.path \in PathsOf(e)
      BY <2>4, PathsOfTabs DEF PathsIn
    <3> QED
      BY <1>6, <3>1 DEF GivesUp
  <2> QED
    BY <2>1, <2>3, <2>4, LosesGuarded
<1>7. ASSUME NEW c \in Chips, NEW i \in Panes(layout), DropBeside(c[1], c[2], i)
      PROVE  IInv' /\ Guarded
  <2>1. UNCHANGED workspace
    BY <1>7 DEF DropBeside, OnlyTabs
  <2> QED
    BY <1>7, <2>1, ChipsAre, DropBesideKeeps, NoTabGoes
<1>8. ASSUME NEW c \in Chips, NEW i \in Panes(layout),
             NEW before \in 0 .. Len(PaneEditor(layout, i).tabs), DropTab(c[1], c[2], i, before)
      PROVE  IInv' /\ Guarded
  <2>1. UNCHANGED workspace
    BY <1>8 DEF DropTab, OnlyTabs
  <2>2. before \in Nat
    BY <1>8
  <2> QED
    BY <1>8, <2>1, <2>2, ChipsAre, DropTabKeeps, NoTabGoes
<1> QED
  BY <1>1, <1>2, <1>3, <1>4, <1>5, <1>6, <1>7, <1>8 DEF TabAction

LEMMA TextActionKeeps ==
    ASSUME IInv, TextAction
    PROVE  IInv' /\ Guarded
<1>1. ASSUME NEW k, NEW full \in BOOLEAN, Edit(k, full)
      PROVE  IInv' /\ Guarded
  <2>1. UNCHANGED workspace /\ k \in DOMAIN layout.editor.tabs
    BY <1>1 DEF Edit
  <2>2. IInv' /\ Loses({layout.editor.tabs[k].path})
    BY <1>1, EditKeeps
  <2>3. \A u \in Texts(AllTabs(layout)) : u.path \in {layout.editor.tabs[k].path} => GivesUp(root, u)
    BY <1>1, <2>1 DEF GivesUp
  <2> QED
    BY <2>1, <2>2, <2>3, LosesGuarded
<1>2. ASSUME Save
      PROVE  IInv' /\ Guarded
  <2>1. UNCHANGED workspace
    BY <1>2 DEF Save
  <2>2. IInv' /\ Loses(ActivePaths(layout.editor))
    BY <1>2, SaveKeeps
  <2>3. \A u \in Texts(AllTabs(layout)) : u.path \in ActivePaths(layout.editor) => GivesUp(root, u)
    BY <1>2 DEF GivesUp
  <2> QED
    BY <2>1, <2>2, <2>3, LosesGuarded
<1>3. ASSUME Reload
      PROVE  IInv' /\ Guarded
  <2>1. UNCHANGED workspace
    BY <1>3 DEF Reload
  <2> QED
    BY <1>3, <2>1, ReloadKeeps, QuietStep
<1>4. ASSUME NEW path \in Files, DiskChanges(path)
      PROVE  IInv' /\ Guarded
  <2>1. UNCHANGED workspace
    BY <1>4 DEF DiskChanges
  <2> QED
    BY <1>4, <2>1, DiskChangesKeeps, QuietStep
<1> QED
  BY <1>1, <1>2, <1>3, <1>4 DEF TextAction

LEMMA ProjectActionKeeps ==
    ASSUME IInv, ProjectAction
    PROVE  IInv' /\ Guarded
<1>1. ASSUME NEW dir \in Roots, OpenProject(dir)
      PROVE  IInv' /\ Guarded
  <2>1. IInv' /\ \A d \in Roots : Stays(d)
    BY <1>1, OpenProjectKeeps
  <2> QED
    BY <2>1 DEF Guarded, Stays
<1>2. ASSUME NEW dir \in Roots, CloseProject(dir)
      PROVE  IInv' /\ Guarded
  <2>1. IInv' /\ \A d \in Roots \ {dir} : Stays(d)
    BY <1>2, CloseProjectKeeps
  <2>2. \A u : GivesUp(dir, u)
    BY <1>2 DEF GivesUp
  <2> QED
    BY <2>1, <2>2 DEF Guarded, Stays
<1> QED
  BY <1>1, <1>2 DEF ProjectAction

LEMMA ClangdActionKeeps ==
    ASSUME IInv, ClangdAction
    PROVE  IInv' /\ Guarded
<1>1. ASSUME NEW s \in DOMAIN sessions, Crashes(s)
      PROVE  IInv' /\ Guarded
  <2>1. UNCHANGED workspace /\ IInv' /\ layout' = layout
    BY <1>1, CrashesKeeps DEF Crashes
  <2>2. Loses({})
    BY <2>1 DEF Loses
  <2> QED
    BY <2>1, <2>2, QuietStep
<1>2. ASSUME NEW s \in DOMAIN sessions, NEW end \in {"up", "failed", "crashed"}, Initialized(s, end)
      PROVE  IInv' /\ Guarded
  <2>1. UNCHANGED workspace /\ IInv' /\ layout' = layout
    BY <1>2, InitializedKeeps DEF Initialized
  <2>2. Loses({})
    BY <2>1 DEF Loses
  <2> QED
    BY <2>1, <2>2, QuietStep
<1>3. ASSUME LspReady
      PROVE  IInv' /\ Guarded
  <2>1. UNCHANGED workspace /\ IInv' /\ Texts(AllTabs(layout')) = Texts(AllTabs(layout))
    BY <1>3, LspReadyKeeps DEF LspReady
  <2>2. Loses({})
    BY <2>1 DEF Loses
  <2> QED
    BY <2>1, <2>2, QuietStep
<1>4. ASSUME LspExited
      PROVE  IInv' /\ Guarded
  <2>1. UNCHANGED workspace /\ IInv' /\ Texts(AllTabs(layout')) = Texts(AllTabs(layout))
    BY <1>4, LspExitedKeeps DEF LspExited
  <2>2. Loses({})
    BY <2>1 DEF Loses
  <2> QED
    BY <2>1, <2>2, QuietStep
<1> QED
  BY <1>1, <1>2, <1>3, <1>4 DEF ClangdAction

LEMMA NextKeeps ==
    ASSUME IInv, Next
    PROVE  IInv' /\ Guarded
BY TabActionKeeps, TextActionKeeps, ProjectActionKeeps, ClangdActionKeeps DEF Next
-----------------------------------------------------------------------------
(* The theorems.                                                           *)

LEMMA InitKeeps ==
    ASSUME Init
    PROVE  IInv
<1>1. /\ world \in Worlds /\ root = Nowhere /\ projects = <<>> /\ layout = OnePane(NoTabs)
      /\ stash = <<>> /\ saved_ui = [dir \in Roots |-> NoBlob]
      /\ lsp = 0 /\ init_started = FALSE /\ sessions = <<>> /\ inbox = <<>>
      /\ disk = [p \in Files |-> 1] /\ texts = 1 /\ opens = 0 /\ drifted = FALSE
  BY DEF Init
<1>2. world.panes \in Nat \ {0} /\ world.panes \in Nat /\ 0 <= world.panes
  BY <1>1, WorldsAreBounds
<1>3. Unmarked(OnePane(NoTabs))
  BY <1>2, NoTabsIs, OnePaneIs
<1>4. BlobIs(NoBlob)
  <2> DEFINE b == [paths |-> <<>>, active |-> 0]
  <2>1. <<>> \in Seq(Files) /\ DOMAIN <<>> = {} /\ Len(<<>>) = 0
    BY EmptySeq
  <2>2. b \in List /\ b.paths = <<>> /\ b.active = 0
    BY <2>1 DEF List
  <2> HIDE DEF b
  <2>3. ListIs(b)
    BY <2>1, <2>2 DEF ListIs
  <2>4. <<>> \in Seq(List)
    BY EmptySeq
  <2>5. ListsAre(<<>>)
    BY <2>1, <2>4 DEF ListsAre
  <2>6. NoBlob = [editor |-> b, focused |-> 1, panes |-> <<>>]
    BY DEF NoBlob, b
  <2>7. /\ NoBlob \in [editor : List, focused : Nat \ {0}, panes : Seq(List)]
        /\ NoBlob.editor = b /\ NoBlob.panes = <<>>
    BY <2>2, <2>4, <2>6
  <2> QED
    BY <1>2, <2>1, <2>3, <2>5, <2>7 DEF BlobIs
<1>5. Types
  <2>1. <<>> \in Seq(Roots) /\ <<>> \in Seq(Session) /\ <<>> \in Seq(Event) /\ Len(<<>>) = 0
    BY EmptySeq
  <2>2. lsp \in 0 .. Len(sessions)
    BY <1>1, <2>1
  <2>3. disk \in [Files -> Nat]
    BY <1>1
  <2>4. saved_ui \in [Roots -> [editor : List, focused : Nat \ {0}, panes : Seq(List)]]
    BY <1>1, <1>4 DEF BlobIs
  <2> QED
    BY <1>1, <2>1, <2>2, <2>3, <2>4 DEF Types
<1>6. Buffers
  <2>1. DOMAIN stash = {}
    BY <1>1, EmptySeq
  <2> QED
    BY <1>1, <1>3, <1>4, <2>1 DEF Buffers, Unmarked
<1>7. Clangd
  <2>1. DOMAIN sessions = {} /\ DOMAIN inbox = {}
    BY <1>1, EmptySeq
  <2> QED
    BY <1>1, <1>3, <2>1 DEF Clangd, ClangdFollows, Unmarked
<1> QED
  BY <1>5, <1>6, <1>7 DEF IInv

LEMMA StutterKeeps ==
    ASSUME IInv, UNCHANGED vars
    PROVE  IInv'
<1>1. /\ UNCHANGED <<world, root, projects, stash, saved_ui, opens, layout>>
      /\ UNCHANGED <<lsp, init_started, sessions, inbox, disk, texts, drifted>>
  BY DEF vars, workspace, clangd
<1>2. Types'
  BY <1>1 DEF IInv, Types
<1>3. Buffers'
  BY <1>1 DEF IInv, Buffers, LayoutIs, BlobIs
<1>4. Clangd'
  BY <1>1 DEF IInv, Clangd, ClangdFollows
<1> QED
  BY <1>2, <1>3, <1>4 DEF IInv

\* In every state the layouts, the saved lists, the sessions and the flags of the
\* tabs fit together: the inductive invariant.
THEOREM Invariance == Spec => []IInv
<1>1. Init => IInv
  BY InitKeeps
<1>2. IInv /\ [Next]_vars => IInv'
  BY NextKeeps, StutterKeeps
<1> QED
  BY <1>1, <1>2, PTL DEF Spec

LEMMA LayoutIsOK ==
    ASSUME NEW l, LayoutIs(l), world.panes \in Nat
    PROVE  LayoutOK(l)
<1> DEFINE E == EditorsOf(l)
           f == Focused(l)
           n == Len(E)
<1>1. Is(l, E, f)
  BY LayoutIsThat
<1> HIDE DEF E, f
<1>2. /\ Editors(l) = {E[i] : i \in DOMAIN E} /\ Panes(l) = DOMAIN E /\ Len(l.panes) = n
      /\ \A i \in DOMAIN E : (l.panes[i] = Live <=> i = f)
  BY <1>1, ThatIsLayout
<1>3. n \in Nat /\ DOMAIN E = 1 .. n /\ f \in DOMAIN E /\ n <= world.panes /\ \A i \in DOMAIN E : EditorIs(E[i])
  BY <1>1, SeqFields DEF Is, EditorsAre
<1> HIDE DEF n
<1>4. n \in 1 .. world.panes
  BY <1>3
<1>5. Cardinality({i \in Panes(l) : l.panes[i] = Live}) = 1
  <2>1. {i \in Panes(l) : l.panes[i] = Live} = {f}
    BY <1>2, <1>3
  <2> QED
    BY <2>1, FS_Singleton
<1>6. ASSUME NEW e \in Editors(l) PROVE EditorOK(e)
  <2>1. EditorIs(e)
    BY <1>2, <1>3
  <2>2. TabsOf(e) \subseteq Tab
    BY <2>1, EditorFields DEF EditorIs, TabsOf
  <2> QED
    BY <2>1, <2>2 DEF EditorOK, EditorIs
<1> QED
  BY <1>2, <1>4, <1>5, <1>6 DEF LayoutOK

\* Every tab, editor, pane and project has its type, and one pane of each layout
\* is the live editor's.
THEOREM TypeCorrect == Spec => []TypeOK
<1>1. IInv => TypeOK
  <2> SUFFICES ASSUME IInv PROVE TypeOK
    OBVIOUS
  <2>1. world.panes \in Nat
    BY WorldsAreBounds DEF IInv, Types
  <2>2. LayoutOK(layout) /\ \A dir \in DOMAIN stash : LayoutOK(stash[dir])
    BY <2>1, LayoutIsOK DEF IInv, Buffers
  <2> QED
    BY <2>2 DEF IInv, Types, Buffers, TypeOK
<1> QED
  BY <1>1, Invariance, PTL

LEMMA FileOfOnePane ==
    ASSUME NEW l, LayoutIs(l), NEW i \in Panes(l), NEW j \in Panes(l),
           NEW k \in DOMAIN PaneEditor(l, i).tabs, NEW m \in DOMAIN PaneEditor(l, j).tabs,
           PaneEditor(l, i).tabs[k].path = PaneEditor(l, j).tabs[m].path
    PROVE  i = j /\ k = m
<1> DEFINE E == EditorsOf(l)
<1>1. Is(l, E, Focused(l))
  BY LayoutIsThat
<1> HIDE DEF E
<1>2. EditorsAre(E) /\ Panes(l) = DOMAIN E /\ \A q \in DOMAIN E : PaneEditor(l, q) = E[q]
  BY <1>1, ThatIsLayout DEF Is
<1>3. /\ i \in DOMAIN E /\ j \in DOMAIN E /\ k \in DOMAIN E[i].tabs /\ m \in DOMAIN E[j].tabs
      /\ E[i].tabs[k].path = E[j].tabs[m].path
  BY <1>2
<1>4. i = j
  <2>1. E[i].tabs[k].path \in PathsOf(E[i]) /\ E[j].tabs[m].path \in PathsOf(E[j])
    BY <1>3 DEF PathsOf
  <2> QED
    BY <1>2, <1>3, <2>1 DEF EditorsAre
<1>5. k = m
  BY <1>2, <1>3, <1>4 DEF EditorsAre, EditorIs
<1> QED
  BY <1>4, <1>5

\* Whatever is opened, moved, split, restored or put away, no two tabs of a
\* project hold the same file.
THEOREM FilesHaveOneBuffer == Spec => []OneBufferPerFile
<1>1. IInv => OneBufferPerFile
  <2> SUFFICES ASSUME IInv, NEW l \in {layout} \cup Range(stash) PROVE
                 \A i, j \in Panes(l) : \A k \in DOMAIN PaneEditor(l, i).tabs :
                    \A m \in DOMAIN PaneEditor(l, j).tabs :
                        PaneEditor(l, i).tabs[k].path = PaneEditor(l, j).tabs[m].path
                            => i = j /\ k = m
    BY DEF OneBufferPerFile
  <2>1. LayoutIs(l)
    BY DEF IInv, Buffers, Range
  <2> QED
    BY <2>1, FileOfOnePane
<1> QED
  BY <1>1, Invariance, PTL

\* A clangd that runs holds the text of each tab that is marked as opened, and no
\* other document, unless a document has drifted.
THEOREM ClangdHoldsTheTexts == Spec => []ClangdFollows
<1>1. IInv => ClangdFollows
  BY DEF IInv, Clangd
<1> QED
  BY <1>1, Invariance, PTL

\* No step loses an unsaved text that the user did not give up.
THEOREM TextsSurvive == Spec => EditsSurvive
<1> DEFINE A == \A dir \in Roots :
                  \A u \in Unsaved(dir, root, layout, stash) \ Unsaved(dir, root', layout', stash') :
                     GivesUp(dir, u)
<1>1. IInv /\ [Next]_vars => [A]_vars
  <2>1. ASSUME IInv, Next PROVE A
    BY <2>1, NextKeeps DEF Guarded
  <2> QED
    BY <2>1
<1>2. Spec => [][A]_vars
  <2> HIDE DEF A
  <2> QED
    BY <1>1, Invariance, PTL DEF Spec
<1> QED
  BY <1>2 DEF EditsSurvive
=============================================================================
