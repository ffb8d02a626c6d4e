----------------------- MODULE TransformationStateProofs -----------------------
(***************************************************************************)
(* What a Patch does to a document, for all texts, any number of blocks,    *)
(* protections, operations and revisions.  The first part is about texts    *)
(* and edits alone: what one more edit makes of a text that was edited.     *)
(***************************************************************************)
EXTENDS TransformationState, SequenceTheorems, FiniteSetTheorems, WellFoundedInduction, TLAPS

(* Sets of numbers that hold 0 and with a number the next one.              *)
LEMMA Counting ==
  ASSUME NEW N \in Nat, NEW S, 0 \in S, \A n \in 1..N : n - 1 \in S => n \in S
  PROVE  \A n \in 0..N : n \in S
<1> DEFINE R == OpToRel(<, Nat)
           T == {n \in 0..N : n \notin S}
<1>1. IsWellFoundedOn(R, Nat)
  BY NatLessThanWellFounded, Zenon
<1>2. \A i, j \in Nat : i < j => <<i, j>> \in R
  BY DEF OpToRel
<1> HIDE DEF R
<1> SUFFICES ASSUME T # {}
             PROVE  FALSE
  OBVIOUS
<1>3. PICK n \in T : \A m \in T : ~(<<m, n>> \in R)
  <2>1. T \in SUBSET Nat
    OBVIOUS
  <2> HIDE DEF T
  <2> QED  BY <1>1, <2>1, WFMin
<1>4. n \in 1..N /\ n - 1 \in 0..N /\ n - 1 < n /\ n \in Nat /\ n - 1 \in Nat
  <2>1. n \in 0..N /\ n # 0
    BY <1>3
  <2> QED  BY <2>1
<1>5. n - 1 \in S
  BY <1>2, <1>3, <1>4
<1> QED  BY <1>3, <1>4, <1>5

(* What is defined step by step is defined.                                 *)
Steps(N, V) == [1..N -> [V -> V]]
Follows(f, N, first, step) == f[0] = first /\ \A n \in 1..N : f[n] = step[n][f[n - 1]]

LEMMA Recursion ==
  ASSUME NEW V, NEW N \in Nat, NEW first \in V, NEW step \in Steps(N, V)
  PROVE  \E f \in [0..N -> V] : Follows(f, N, first, step)
<1> USE DEF Steps
<1> DEFINE S == {n \in 0..N : \E f \in [0..n -> V] :
                   \A i \in 0..n : f[i] = IF i = 0 THEN first ELSE step[i][f[i - 1]]}
<1>1. 0 \in S
  <2> DEFINE f == [i \in {0} |-> first]
  <2>1. f \in [{0} -> V] /\ f[0] = first
    OBVIOUS
  <2> HIDE DEF f
  <2>2. 0..0 = {0}
    OBVIOUS
  <2> QED  BY <2>1, <2>2
<1>2. ASSUME NEW n \in 1..N, n - 1 \in S
      PROVE  n \in S
  <2>1. PICK g \in [0..n - 1 -> V] :
          \A i \in 0..n - 1 : g[i] = IF i = 0 THEN first ELSE step[i][g[i - 1]]
    BY <1>2
  <2> DEFINE f == [i \in 0..n |-> IF i = n THEN step[n][g[n - 1]] ELSE g[i]]
  <2>2. f \in [0..n -> V]
    BY <2>1
  <2>3. \A i \in 0..n : f[i] = IF i = 0 THEN first ELSE step[i][f[i - 1]]
    BY <2>1
  <2> HIDE DEF f
  <2> QED  BY <2>2, <2>3
<1> HIDE DEF S
<1>3. N \in S
  <2>1. \A n \in 0..N : n \in S
    BY <1>1, <1>2, Counting
  <2> QED  BY <2>1
<1> QED  BY <1>3 DEF S, Follows

-----------------------------------------------------------------------------
(* The recursive functions of the specification                             *)

LEMMA TextsJoin ==
  ASSUME NEW s \in Text, NEW t \in Text
  PROVE  s \o t \in Text /\ Len(s \o t) = Len(s) + Len(t)
BY ConcatProperties DEF Text

LEMMA TextsAssociate ==
  ASSUME NEW s \in Text, NEW t \in Text, NEW u \in Text
  PROVE  (s \o t) \o u = s \o (t \o u)
BY ConcatAssociative DEF Text

Edit == [selector : TextSelector, text : Text]

InsertedUpto(edits, p) ==
  CHOOSE f : f = [n \in 0..Len(edits) |->
    IF n = 0 THEN <<>>
    ELSE f[n - 1] \o IF edits[n].selector.start = p /\ edits[n].selector.end = p
                     THEN edits[n].text ELSE <<>>]

Insertion(edit, p) ==
  IF edit.selector.start = p /\ edit.selector.end = p THEN edit.text ELSE <<>>

LEMMA InsertionIsText ==
  ASSUME NEW edit \in Edit, NEW p
  PROVE  Insertion(edit, p) \in Text
<1>1. edit.text \in Text /\ <<>> \in Text
  BY DEF Edit, Text
<1> QED  BY <1>1 DEF Insertion

LEMMA InsertedUnfolds ==
  ASSUME NEW edits \in Seq(Edit), NEW p
  PROVE  LET f == InsertedUpto(edits, p) IN
         /\ f \in [0..Len(edits) -> Text] /\ f[0] = <<>>
         /\ \A n \in 1..Len(edits) : f[n] = f[n - 1] \o Insertion(edits[n], p)
         /\ Inserted(edits, p) = f[Len(edits)]
<1> DEFINE step == [n \in 1..Len(edits) |-> [t \in Text |-> t \o Insertion(edits[n], p)]]
<1>1. Len(edits) \in Nat /\ \A n \in 1..Len(edits) : Insertion(edits[n], p) \in Text
  BY InsertionIsText, ElementOfSeq
<1>2. step \in Steps(Len(edits), Text) /\ <<>> \in Text
  BY <1>1 DEF Text, Steps
<1>3. \A n \in 1..Len(edits) : \A t \in Text : step[n][t] = t \o Insertion(edits[n], p)
  OBVIOUS
<1> HIDE DEF step
<1>4. PICK f \in [0..Len(edits) -> Text] : Follows(f, Len(edits), <<>>, step)
  BY <1>1, <1>2, Recursion
<1>5. \A n \in 0..Len(edits) : f[n] = IF n = 0 THEN <<>> ELSE f[n - 1] \o Insertion(edits[n], p)
  <2> SUFFICES ASSUME NEW n \in 0..Len(edits), n # 0
               PROVE  f[n] = f[n - 1] \o Insertion(edits[n], p)
    BY <1>4 DEF Follows
  <2>1. f[n] = step[n][f[n - 1]] /\ n \in 1..Len(edits) /\ n - 1 \in 0..Len(edits)
    BY <1>1, <1>4 DEF Follows
  <2>2. f[n - 1] \in Text
    BY <1>4, <2>1
  <2> QED  BY <1>3, <2>1, <2>2
<1>6. f = [n \in 0..Len(edits) |->
            IF n = 0 THEN <<>>
            ELSE f[n - 1] \o IF edits[n].selector.start = p /\ edits[n].selector.end = p
                             THEN edits[n].text ELSE <<>>]
  BY <1>4, <1>5 DEF Insertion
<1>7. LET g == InsertedUpto(edits, p) IN
      g = [n \in 0..Len(edits) |->
            IF n = 0 THEN <<>>
            ELSE g[n - 1] \o IF edits[n].selector.start = p /\ edits[n].selector.end = p
                             THEN edits[n].text ELSE <<>>]
  BY <1>6, Zenon DEF InsertedUpto
<1>8. Inserted(edits, p) = InsertedUpto(edits, p)[Len(edits)]
  BY DEF Inserted, InsertedUpto
<1> DEFINE g == InsertedUpto(edits, p)
<1>9. DOMAIN g = 0..Len(edits) /\ g = [n \in 0..Len(edits) |-> g[n]]
  BY <1>7
<1>10. g[0] = <<>> /\ \A n \in 1..Len(edits) : g[n] = g[n - 1] \o Insertion(edits[n], p)
  <2>1. \A n \in 0..Len(edits) : g[n] = IF n = 0 THEN <<>> ELSE g[n - 1] \o Insertion(edits[n], p)
    BY <1>7 DEF Insertion
  <2>2. 0 \in 0..Len(edits) /\ \A n \in 1..Len(edits) : n \in 0..Len(edits) /\ n # 0
    BY <1>1
  <2> HIDE DEF g
  <2> QED  BY <2>1, <2>2
<1> HIDE DEF g
<1>11. \A n \in 0..Len(edits) : g[n] \in Text
  <2> DEFINE S == {n \in 0..Len(edits) : g[n] \in Text}
  <2>1. 0 \in S
    BY <1>1, <1>2, <1>10
  <2>2. ASSUME NEW n \in 1..Len(edits), n - 1 \in S
        PROVE  n \in S
    <3>1. g[n] = g[n - 1] \o Insertion(edits[n], p) /\ g[n - 1] \in Text /\ n \in 0..Len(edits)
      BY <1>1, <1>10, <2>2
    <3> QED  BY <1>1, <3>1, TextsJoin
  <2> HIDE DEF S
  <2>3. \A n \in 0..Len(edits) : n \in S
    BY <1>1, <2>1, <2>2, Counting
  <2> QED  BY <2>3 DEF S
<1> QED  BY <1>8, <1>9, <1>10, <1>11 DEF g

(* One more edit, inserted or not, comes behind those that were there.       *)
LEMMA InsertedAppend ==
  ASSUME NEW edits \in Seq(Edit), NEW edit \in Edit, NEW p
  PROVE  Inserted(Append(edits, edit), p) = Inserted(edits, p) \o Insertion(edit, p)
<1> DEFINE more == Append(edits, edit)
           N == Len(edits)
           f == InsertedUpto(edits, p)
           g == InsertedUpto(more, p)
           S == {n \in 0..N : f[n] = g[n]}
<1>1. /\ more \in Seq(Edit) /\ N \in Nat /\ Len(more) = N + 1 /\ more[N + 1] = edit
      /\ \A n \in 1..N : more[n] = edits[n]
  OBVIOUS
<1>2. /\ f[0] = <<>> /\ \A n \in 1..N : f[n] = f[n - 1] \o Insertion(edits[n], p)
      /\ Inserted(edits, p) = f[N]
  BY InsertedUnfolds
<1> HIDE DEF more
<1>3. /\ g[0] = <<>> /\ \A n \in 1..N + 1 : g[n] = g[n - 1] \o Insertion(more[n], p)
      /\ Inserted(more, p) = g[N + 1]
  BY <1>1, InsertedUnfolds
<1> HIDE DEF f, g, N
<1>4. \A n \in 1..N : n \in 1..N + 1 /\ N + 1 \in 1..N + 1 /\ (N + 1) - 1 = N
  BY <1>1
<1>5. 0 \in S
  BY <1>1, <1>2, <1>3
<1>6. ASSUME NEW n \in 1..N, n - 1 \in S
      PROVE  n \in S
  <2>1. n \in 0..N /\ n \in 1..N + 1 /\ f[n - 1] = g[n - 1]
    BY <1>1, <1>6
  <2>2. f[n] = f[n - 1] \o Insertion(edits[n], p) /\ g[n] = g[n - 1] \o Insertion(more[n], p)
    BY <1>2, <1>3, <2>1
  <2> QED  BY <1>1, <2>1, <2>2
<1> HIDE DEF S
<1>7. \A n \in 0..N : n \in S
  BY <1>1, <1>5, <1>6, Counting
<1>8. f[N] = g[N]
  BY <1>1, <1>7 DEF S
<1>9. g[N + 1] = g[N] \o Insertion(edit, p)
  <2>1. N + 1 \in 1..N + 1 /\ (N + 1) - 1 = N
    BY <1>1
  <2> QED  BY <1>1, <1>3, <2>1
<1> QED  BY <1>2, <1>3, <1>8, <1>9 DEF more

LEMMA InsertedNone ==
  ASSUME NEW edits \in Seq(Edit), NEW p, \A n \in 1..Len(edits) : Insertion(edits[n], p) = <<>>
  PROVE  Inserted(edits, p) = <<>>
<1> DEFINE N == Len(edits)
           f == InsertedUpto(edits, p)
           S == {n \in 0..N : f[n] = <<>>}
<1>1. /\ f[0] = <<>> /\ \A n \in 1..N : f[n] = f[n - 1] \o Insertion(edits[n], p)
      /\ Inserted(edits, p) = f[N]
  BY InsertedUnfolds
<1>2. <<>> \o <<>> = <<>> /\ N \in Nat /\ \A n \in 1..N : Insertion(edits[n], p) = <<>>
  OBVIOUS
<1> HIDE DEF f, N
<1>3. 0 \in S
  BY <1>1, <1>2
<1>5. ASSUME NEW n \in 1..N, n - 1 \in S
      PROVE  n \in S
  <2>1. n \in 0..N /\ f[n - 1] = <<>>
    BY <1>2, <1>5
  <2> QED  BY <1>1, <1>2, <2>1
<1> HIDE DEF S
<1>4. \A n \in 0..N : n \in S
  BY <1>2, <1>3, <1>5, Counting
<1> QED  BY <1>1, <1>2, <1>4 DEF S

(* Where edits before a place have moved it.                                *)
Offset(edit, k) == IF edit.selector.end <= k THEN Delta(edit) ELSE 0
MovedUpto(edits, k) ==
  CHOOSE f : f = [n \in 0..Len(edits) |->
    IF n = 0 THEN 0
    ELSE f[n - 1] + IF edits[n].selector.end <= k THEN Delta(edits[n]) ELSE 0]
Moved(edits, k) == MovedUpto(edits, k)[Len(edits)]

LEMMA RebasedIsMoved ==
  ASSUME NEW sel, NEW edits
  PROVE  RebaseRange(sel, edits) = Shift(sel, Moved(edits, sel.start))
BY DEF RebaseRange, Moved, MovedUpto

LEMMA OffsetIsInt ==
  ASSUME NEW edit \in Edit, NEW k \in Nat
  PROVE  Offset(edit, k) \in Int
<1>1. Len(edit.text) \in Nat /\ edit.selector.start \in Nat /\ edit.selector.end \in Nat
  BY LenProperties DEF Edit, Text, TextSelector
<1> QED  BY <1>1, SMTT(30) DEF Offset, Delta

LEMMA MovedUnfolds ==
  ASSUME NEW edits \in Seq(Edit), NEW k \in Nat
  PROVE  LET f == MovedUpto(edits, k) IN
         /\ f \in [0..Len(edits) -> Int] /\ f[0] = 0
         /\ \A n \in 1..Len(edits) : f[n] = f[n - 1] + Offset(edits[n], k)
<1> DEFINE step == [n \in 1..Len(edits) |-> [i \in Int |-> i + Offset(edits[n], k)]]
<1>1. Len(edits) \in Nat /\ \A n \in 1..Len(edits) : Offset(edits[n], k) \in Int
  BY OffsetIsInt, ElementOfSeq, SMTT(30)
<1>2. step \in Steps(Len(edits), Int)
  BY <1>1 DEF Steps
<1>3. \A n \in 1..Len(edits) : \A i \in Int : step[n][i] = i + Offset(edits[n], k)
  OBVIOUS
<1> HIDE DEF step
<1>4. PICK f \in [0..Len(edits) -> Int] : Follows(f, Len(edits), 0, step)
  <2>1. 0 \in Int
    OBVIOUS
  <2> QED  BY <1>1, <1>2, <2>1, Recursion
<1>5. \A n \in 0..Len(edits) : f[n] = IF n = 0 THEN 0 ELSE f[n - 1] + Offset(edits[n], k)
  <2> SUFFICES ASSUME NEW n \in 0..Len(edits), n # 0
               PROVE  f[n] = f[n - 1] + Offset(edits[n], k)
    BY <1>4 DEF Follows
  <2>1. f[n] = step[n][f[n - 1]] /\ n \in 1..Len(edits) /\ n - 1 \in 0..Len(edits)
    BY <1>1, <1>4 DEF Follows
  <2>2. f[n - 1] \in Int
    BY <1>4, <2>1
  <2> QED  BY <1>3, <2>1, <2>2
<1>6. f = [n \in 0..Len(edits) |->
            IF n = 0 THEN 0
            ELSE f[n - 1] + IF edits[n].selector.end <= k THEN Delta(edits[n]) ELSE 0]
  BY <1>4, <1>5 DEF Offset
<1> DEFINE g == MovedUpto(edits, k)
<1>7. g = [n \in 0..Len(edits) |->
            IF n = 0 THEN 0
            ELSE g[n - 1] + IF edits[n].selector.end <= k THEN Delta(edits[n]) ELSE 0]
  BY <1>6 DEF MovedUpto
<1> HIDE DEF g
<1>8. DOMAIN g = 0..Len(edits) /\ g = [n \in 0..Len(edits) |-> g[n]]
  BY <1>7
<1>9. g[0] = 0 /\ \A n \in 1..Len(edits) : g[n] = g[n - 1] + Offset(edits[n], k)
  <2>1. \A n \in 0..Len(edits) : g[n] = IF n = 0 THEN 0 ELSE g[n - 1] + Offset(edits[n], k)
    BY <1>7 DEF Offset
  <2>2. 0 \in 0..Len(edits) /\ \A n \in 1..Len(edits) : n \in 0..Len(edits) /\ n # 0
    BY <1>1
  <2> QED  BY <2>1, <2>2
<1>10. \A n \in 0..Len(edits) : g[n] \in Int
  <2> DEFINE S == {n \in 0..Len(edits) : g[n] \in Int}
  <2>1. 0 \in S
    BY <1>1, <1>9
  <2>2. ASSUME NEW n \in 1..Len(edits), n - 1 \in S
        PROVE  n \in S
    BY <1>1, <1>9, <2>2
  <2> HIDE DEF S
  <2>3. \A n \in 0..Len(edits) : n \in S
    BY <1>1, <2>1, <2>2, Counting
  <2> QED  BY <2>3 DEF S
<1> QED  BY <1>8, <1>9, <1>10 DEF g

LEMMA MovedAppend ==
  ASSUME NEW edits \in Seq(Edit), NEW edit \in Edit, NEW k \in Nat
  PROVE  /\ Moved(edits, k) \in Int
         /\ Moved(Append(edits, edit), k) = Moved(edits, k) + Offset(edit, k)
<1> DEFINE more == Append(edits, edit)
           N == Len(edits)
           f == MovedUpto(edits, k)
           g == MovedUpto(more, k)
           S == {n \in 0..N : f[n] = g[n]}
<1>1. /\ more \in Seq(Edit) /\ N \in Nat /\ Len(more) = N + 1 /\ more[N + 1] = edit
      /\ \A n \in 1..N : more[n] = edits[n]
  OBVIOUS
<1>2. /\ f[0] = 0 /\ \A n \in 1..N : f[n] = f[n - 1] + Offset(edits[n], k)
      /\ f \in [0..N -> Int] /\ Moved(edits, k) = f[N]
  BY MovedUnfolds DEF Moved
<1> HIDE DEF more
<1>3. /\ g[0] = 0 /\ \A n \in 1..N + 1 : g[n] = g[n - 1] + Offset(more[n], k)
      /\ Moved(more, k) = g[N + 1]
  BY <1>1, MovedUnfolds DEF Moved
<1> HIDE DEF f, g, N
<1>4. \A n \in 1..N : n \in 1..N + 1
  BY <1>1
<1>5. 0 \in S
  BY <1>1, <1>2, <1>3
<1>6. \A n \in 1..N : n - 1 \in S => n \in S
  BY <1>1, <1>2, <1>3, <1>4, SMTT(30)
<1> HIDE DEF S
<1>7. \A n \in 0..N : n \in S
  BY <1>1, <1>5, <1>6, Counting
<1>8. f[N] = g[N] /\ f[N] \in Int
  BY <1>1, <1>2, <1>7 DEF S
<1>9. g[N + 1] = g[N] + Offset(edit, k)
  <2>1. N + 1 \in 1..N + 1 /\ (N + 1) - 1 = N
    BY <1>1
  <2> QED  BY <1>1, <1>3, <2>1
<1> QED  BY <1>2, <1>3, <1>8, <1>9 DEF more

-----------------------------------------------------------------------------
(* Slices of a text                                                         *)

LEMMA MinOfTwo ==
  ASSUME NEW a \in Int, NEW b \in Int
  PROVE  Min({a, b}) = IF a <= b THEN a ELSE b
<1> DEFINE m == IF a <= b THEN a ELSE b
<1>1. m \in {a, b} /\ \A y \in {a, b} : m <= y
  OBVIOUS
<1>2. \A x \in {a, b} : (\A y \in {a, b} : x <= y) => x = m
  OBVIOUS
<1> HIDE DEF m
<1> QED  BY <1>1, <1>2 DEF Min, m

LEMMA SliceIs ==
  ASSUME NEW text \in Text, NEW a \in Nat, NEW b \in Nat, a <= b, b <= Len(text)
  PROVE  /\ Slice(text, a, b) = SubSeq(text, a + 1, b)
         /\ Slice(text, a, b) \in Text /\ Len(Slice(text, a, b)) = b - a
         /\ \A i \in 1..b - a : Slice(text, a, b)[i] = text[a + i]
<1>1. Len(text) \in Nat /\ \A i \in 1..Len(text) : text[i] \in Scalars
  BY LenProperties, ElementOfSeq DEF Text
<1>2. Min({b, Len(text)}) = b
  BY <1>1, MinOfTwo
<1>3. Slice(text, a, b) = SubSeq(text, a + 1, b)
  BY <1>2 DEF Slice
<1>4. \A i \in a + 1..b : text[i] \in Scalars
  BY <1>1
<1>5. /\ SubSeq(text, a + 1, b) \in Seq(Scalars)
      /\ Len(SubSeq(text, a + 1, b)) = IF a + 1 <= b THEN b - (a + 1) + 1 ELSE 0
      /\ \A i \in 1..b - (a + 1) + 1 : SubSeq(text, a + 1, b)[i] = text[a + 1 + i - 1]
  BY <1>4, SubSeqProperties
<1>6. b - (a + 1) + 1 = b - a /\ \A i \in 1..b - a : a + 1 + i - 1 = a + i
  OBVIOUS
<1> QED  BY <1>3, <1>5, <1>6 DEF Text

LEMMA SlicesJoin ==
  ASSUME NEW text \in Text, NEW a \in Nat, NEW b \in Nat, NEW c \in Nat,
         a <= b, b <= c, c <= Len(text)
  PROVE  Slice(text, a, b) \o Slice(text, b, c) = Slice(text, a, c)
<1>1. Len(text) \in Nat
  BY LenProperties DEF Text
<1>2. a + 1 \in 1..Len(text) + 1 /\ b \in (a + 1) - 1..Len(text) /\ c \in b..Len(text)
  BY <1>1
<1>3. SubSeq(text, a + 1, b) \o SubSeq(text, b + 1, c) = SubSeq(text, a + 1, c)
  BY <1>2, ConcatAdjacentSubSeq DEF Text
<1>4. /\ Slice(text, a, b) = SubSeq(text, a + 1, b)
      /\ Slice(text, a, c) = SubSeq(text, a + 1, c)
      /\ Slice(text, b, c) = SubSeq(text, b + 1, c)
  <2>1. b <= Len(text) /\ a <= c
    BY <1>1
  <2> QED  BY <2>1, SliceIs
<1> QED  BY <1>3, <1>4

LEMMA SliceAll ==
  ASSUME NEW text \in Text
  PROVE  Slice(text, 0, Len(text)) = text
<1>1. Len(text) \in Nat
  BY LenProperties DEF Text
<1>2. Slice(text, 0, Len(text)) = SubSeq(text, 0 + 1, Len(text))
  <2>1. 0 \in Nat /\ 0 <= Len(text) /\ Len(text) <= Len(text)
    BY <1>1
  <2> QED  BY <1>1, <2>1, SliceIs
<1> QED  BY <1>2, SubSeqFull DEF Text

LEMMA SliceNone ==
  ASSUME NEW text \in Text, NEW a \in Nat, a <= Len(text)
  PROVE  Slice(text, a, a) = <<>>
<1>1. a <= a /\ a - a = 0
  OBVIOUS
<1>2. Slice(text, a, a) \in Text /\ Len(Slice(text, a, a)) = 0
  BY <1>1, SliceIs
<1> QED  BY <1>2, EmptySeq DEF Text

LEMMA SlicesOfJoined ==
  ASSUME NEW u \in Text, NEW v \in Text, NEW w \in Text
  PROVE  LET text == (u \o v) \o w IN
         /\ text \in Text /\ Len(text) = Len(u) + Len(v) + Len(w)
         /\ Slice(text, 0, Len(u)) = u
         /\ Slice(text, Len(u), Len(u) + Len(v)) = v
         /\ Slice(text, Len(u) + Len(v), Len(text)) = w
         /\ \A i \in 1..Len(v) : text[Len(u) + i] = v[i]
         /\ \A i \in 1..Len(w) : text[Len(u) + Len(v) + i] = w[i]
<1> DEFINE uv == u \o v
           text == uv \o w
           a == Len(u)
           b == Len(v)
           c == Len(w)
<1>1. a \in Nat /\ b \in Nat /\ c \in Nat
  BY LenProperties DEF Text
<1>2. /\ uv \in Text /\ Len(uv) = a + b
      /\ \A i \in 1..a + b : uv[i] = IF i <= a THEN u[i] ELSE v[i - a]
  BY ConcatProperties DEF Text
<1> HIDE DEF uv
<1>0. uv \in Seq(Scalars) /\ w \in Seq(Scalars)
  BY <1>2 DEF Text
<1>3. /\ text \in Text /\ Len(text) = a + b + c
      /\ \A i \in 1..Len(uv) + c : text[i] = IF i <= Len(uv) THEN uv[i] ELSE w[i - Len(uv)]
  <2>1. /\ uv \o w \in Seq(Scalars) /\ Len(uv \o w) = Len(uv) + Len(w)
        /\ \A i \in 1..Len(uv) + Len(w) :
             (uv \o w)[i] = IF i <= Len(uv) THEN uv[i] ELSE w[i - Len(uv)]
    BY <1>0, ConcatProperties
  <2> QED  BY <1>2, <2>1 DEF Text
<1> HIDE DEF text, a, b, c
<1>4. \A i \in 1..a : text[i] = u[i]
  BY <1>1, <1>2, <1>3
<1>5. \A i \in 1..b : text[a + i] = v[i]
  <2> SUFFICES ASSUME NEW i \in 1..b
               PROVE  text[a + i] = v[i]
    OBVIOUS
  <2>1. a + i \in 1..a + b + c /\ a + i \in 1..a + b /\ ~(a + i <= a) /\ (a + i) - a = i
    BY <1>1
  <2> QED  BY <1>1, <1>2, <1>3, <2>1
<1>6. \A i \in 1..c : text[a + b + i] = w[i]
  <2> SUFFICES ASSUME NEW i \in 1..c
               PROVE  text[a + b + i] = w[i]
    OBVIOUS
  <2>1. a + b + i \in 1..a + b + c /\ ~(a + b + i <= a + b) /\ (a + b + i) - (a + b) = i
    BY <1>1
  <2> QED  BY <1>1, <1>2, <1>3, <2>1
<1>7. 0 \in Nat /\ a + b \in Nat /\ a + b + c \in Nat /\ 0 <= a /\ a <= a + b /\ a + b <= a + b + c
      /\ a - 0 = a /\ (a + b) - a = b /\ (a + b + c) - (a + b) = c
  BY <1>1
<1>8. Slice(text, 0, a) = u
  <2>0. 0 <= a /\ a <= Len(text)
    BY <1>1, <1>3
  <2>1. /\ Slice(text, 0, a) \in Text /\ Len(Slice(text, 0, a)) = a - 0
        /\ \A i \in 1..a - 0 : Slice(text, 0, a)[i] = text[0 + i]
    <3>1. text \in Text /\ 0 \in Nat /\ a \in Nat /\ 0 <= a /\ a <= Len(text)
      BY <1>3, <1>7, <2>0, <1>1
    <3> QED  BY <3>1, SliceIs, Zenon
  <2>2. \A i \in 1..a : Slice(text, 0, a)[i] = u[i]
    BY <1>1, <1>4, <2>1
  <2> QED  BY <2>1, <2>2, SeqEqual DEF Text, a
<1>9. Slice(text, a, a + b) = v
  <2>0. a <= a + b /\ a + b <= Len(text)
    BY <1>1, <1>3
  <2>4. PICK m \in Nat : m = a + b
    BY <1>7
  <2>3. /\ Slice(text, a, m) \in Text /\ Len(Slice(text, a, m)) = m - a
        /\ \A i \in 1..m - a : Slice(text, a, m)[i] = text[a + i]
    <3>1. text \in Text /\ a \in Nat /\ m \in Nat /\ a <= m /\ m <= Len(text)
      BY <1>1, <1>3, <2>0, <2>4
    <3> QED  BY <3>1, SliceIs, Zenon
  <2>1. /\ Slice(text, a, a + b) \in Text /\ Len(Slice(text, a, a + b)) = b
        /\ \A i \in 1..b : Slice(text, a, a + b)[i] = text[a + i]
    BY <1>7, <2>3, <2>4
  <2>2. \A i \in 1..b : Slice(text, a, a + b)[i] = v[i]
    BY <1>1, <1>5, <2>1
  <2> QED  BY <2>1, <2>2, SeqEqual DEF Text, b
<1>10. Slice(text, a + b, a + b + c) = w
  <2>0. a + b <= a + b + c /\ a + b + c <= Len(text)
    BY <1>1, <1>3
  <2>4. PICK m \in Nat : m = a + b
    BY <1>7
  <2>5. PICK n \in Nat : n = a + b + c
    BY <1>7
  <2>3. /\ Slice(text, m, n) \in Text /\ Len(Slice(text, m, n)) = n - m
        /\ \A i \in 1..n - m : Slice(text, m, n)[i] = text[m + i]
    <3>1. text \in Text /\ m <= n /\ n <= Len(text)
      BY <1>3, <2>0, <2>4, <2>5
    <3> QED  BY <3>1, SliceIs
  <2>1. /\ Slice(text, a + b, a + b + c) \in Text /\ Len(Slice(text, a + b, a + b + c)) = c
        /\ \A i \in 1..c : Slice(text, a + b, a + b + c)[i] = text[a + b + i]
    BY <1>7, <2>3, <2>4, <2>5
  <2>2. \A i \in 1..c : Slice(text, a + b, a + b + c)[i] = w[i]
    BY <1>1, <1>6, <2>1
  <2> QED  BY <2>1, <2>2, SeqEqual DEF Text, c
<1> QED  BY <1>3, <1>5, <1>6, <1>8, <1>9, <1>10 DEF text, uv, a, b, c

-----------------------------------------------------------------------------
(* What all the edits at once make of a text                                *)

LEMMA InsertedIsText ==
  ASSUME NEW edits \in Seq(Edit), NEW p
  PROVE  Inserted(edits, p) \in Text
<1> DEFINE f == InsertedUpto(edits, p)
<1>1. f \in [0..Len(edits) -> Text] /\ Inserted(edits, p) = f[Len(edits)]
  BY InsertedUnfolds
<1>2. Len(edits) \in 0..Len(edits)
  BY LenProperties
<1> HIDE DEF f
<1> QED  BY <1>1, <1>2

LEMMA KeptIsText ==
  ASSUME NEW text \in Text, NEW edits \in Seq(Edit), NEW p \in Nat, p < Len(text)
  PROVE  Kept(text, edits, p) \in Text
<1> DEFINE over == {i \in DOMAIN edits : edits[i].selector.start <= p /\ p < edits[i].selector.end}
<1>1. CASE over = {}
  <2>1. Len(text) \in Nat
    BY LenProperties DEF Text
  <2>2. p + 1 \in Nat /\ p <= p + 1 /\ p + 1 <= Len(text)
    BY <1>1, <2>1
  <2>3. Slice(text, p, p + 1) \in Text
    BY <2>2, SliceIs
  <2> QED  BY <1>1, <2>3 DEF Kept
<1>2. CASE over # {}
  <2>1. ASSUME NEW i \in DOMAIN edits
        PROVE  edits[i].text \in Text
    <3>1. i \in 1..Len(edits)
      BY LenProperties
    <3>2. edits[i] \in Edit
      BY <3>1, ElementOfSeq
    <3> QED  BY <3>2 DEF Edit
  <2>2. (CHOOSE j \in over : TRUE) \in DOMAIN edits /\ <<>> \in Text
    BY <1>2 DEF Text
  <2> QED  BY <1>2, <2>1, <2>2 DEF Kept
<1> QED  BY <1>1, <1>2

EditedUpto(text, edits, N) ==
  CHOOSE f : f = [p \in 0..N |->
    IF p = 0 THEN Inserted(edits, 0)
    ELSE (f[p - 1] \o Kept(text, edits, p - 1)) \o Inserted(edits, p)]

LEMMA EditedUptoUnfolds ==
  ASSUME NEW text \in Text, NEW edits \in Seq(Edit), NEW N \in 0..Len(text)
  PROVE  LET f == EditedUpto(text, edits, N) IN
         /\ f[0] = Inserted(edits, 0) /\ f[0] \in Text
         /\ \A p \in 1..N : f[p] = (f[p - 1] \o Kept(text, edits, p - 1)) \o Inserted(edits, p)
         /\ \A p \in 1..N : f[p - 1] \in Text => f[p] \in Text
         /\ Edited(text, edits, N) = f[N]
<1> DEFINE Next1(t, p) == (t \o Kept(text, edits, p - 1)) \o Inserted(edits, p)
           step == [p \in 1..N |-> [t \in Text |-> Next1(t, p)]]
<1>1. Len(text) \in Nat /\ N \in Nat
  BY LenProperties DEF Text
<1>2. ASSUME NEW p \in 1..N, NEW t \in Text
      PROVE  Next1(t, p) \in Text
  <2>1. p - 1 \in Nat /\ p - 1 < Len(text)
    BY <1>1
  <2>2. t \o Kept(text, edits, p - 1) \in Text
    BY <2>1, KeptIsText, TextsJoin
  <2> QED  BY <2>2, InsertedIsText, TextsJoin
<1> HIDE DEF Next1
<1>3. step \in Steps(N, Text) /\ \A p \in 1..N : \A t \in Text : step[p][t] = Next1(t, p)
  BY <1>2 DEF Steps
<1> HIDE DEF step
<1>4. PICK f \in [0..N -> Text] : Follows(f, N, Inserted(edits, 0), step)
  BY <1>1, <1>3, InsertedIsText, Recursion
<1>5. \A p \in 0..N : f[p] = IF p = 0 THEN Inserted(edits, 0) ELSE Next1(f[p - 1], p)
  <2> SUFFICES ASSUME NEW p \in 0..N, p # 0
               PROVE  f[p] = Next1(f[p - 1], p)
    BY <1>4 DEF Follows
  <2>1. f[p] = step[p][f[p - 1]] /\ p \in 1..N /\ p - 1 \in 0..N
    BY <1>1, <1>4 DEF Follows
  <2>2. f[p - 1] \in Text
    BY <1>4, <2>1
  <2> QED  BY <1>3, <2>1, <2>2
<1>6. f = [p \in 0..N |->
            IF p = 0 THEN Inserted(edits, 0)
            ELSE (f[p - 1] \o Kept(text, edits, p - 1)) \o Inserted(edits, p)]
  BY <1>4, <1>5, Zenon DEF Next1
<1> DEFINE g == EditedUpto(text, edits, N)
<1>7. g = [p \in 0..N |->
            IF p = 0 THEN Inserted(edits, 0)
            ELSE (g[p - 1] \o Kept(text, edits, p - 1)) \o Inserted(edits, p)]
  BY <1>6, Zenon DEF EditedUpto
<1>8. Edited(text, edits, N) = g[N]
  BY DEF Edited, EditedUpto
<1> HIDE DEF g
<1>9. g[0] = Inserted(edits, 0) /\ \A p \in 1..N : g[p] = Next1(g[p - 1], p)
  <2>1. \A p \in 0..N : g[p] = IF p = 0 THEN Inserted(edits, 0) ELSE Next1(g[p - 1], p)
    BY <1>7 DEF Next1
  <2>2. 0 \in 0..N /\ \A p \in 1..N : p \in 0..N /\ p # 0
    BY <1>1
  <2> QED  BY <2>1, <2>2
<1>10. \A p \in 1..N : g[p - 1] \in Text => g[p] \in Text
  BY <1>2, <1>9
<1>11. \A p \in 1..N : g[p] = (g[p - 1] \o Kept(text, edits, p - 1)) \o Inserted(edits, p)
  BY <1>9 DEF Next1
<1>12. g[0] \in Text
  BY <1>9, InsertedIsText
<1> QED  BY <1>8, <1>9, <1>10, <1>11, <1>12 DEF g

LEMMA EditedUnfolds ==
  ASSUME NEW text \in Text, NEW edits \in Seq(Edit), NEW k \in 1..Len(text)
  PROVE  /\ Edited(text, edits, k)
              = (Edited(text, edits, k - 1) \o Kept(text, edits, k - 1)) \o Inserted(edits, k)
         /\ Edited(text, edits, k - 1) \in Text => Edited(text, edits, k) \in Text
<1> DEFINE f == EditedUpto(text, edits, k)
           g == EditedUpto(text, edits, k - 1)
           S == {n \in 0..k - 1 : f[n] = g[n]}
<1>1. Len(text) \in Nat /\ k \in 0..Len(text) /\ k - 1 \in 0..Len(text) /\ k - 1 \in Nat
  BY LenProperties DEF Text
<1>2. /\ f[0] = Inserted(edits, 0)
      /\ \A p \in 1..k : f[p] = (f[p - 1] \o Kept(text, edits, p - 1)) \o Inserted(edits, p)
      /\ \A p \in 1..k : f[p - 1] \in Text => f[p] \in Text
      /\ Edited(text, edits, k) = f[k]
  BY <1>1, EditedUptoUnfolds
<1>3. /\ g[0] = Inserted(edits, 0)
      /\ \A p \in 1..k - 1 : g[p] = (g[p - 1] \o Kept(text, edits, p - 1)) \o Inserted(edits, p)
      /\ Edited(text, edits, k - 1) = g[k - 1]
  BY <1>1, EditedUptoUnfolds
<1> HIDE DEF f, g
<1>4. 0 \in S
  BY <1>1, <1>2, <1>3
<1>5. ASSUME NEW n \in 1..k - 1, n - 1 \in S
      PROVE  n \in S
  <2>1. n \in 0..k - 1 /\ n \in 1..k /\ f[n - 1] = g[n - 1]
    BY <1>1, <1>5
  <2> QED  BY <1>2, <1>3, <2>1
<1> HIDE DEF S
<1>6. \A n \in 0..k - 1 : n \in S
  BY <1>1, <1>4, <1>5, Counting
<1>7. f[k - 1] = g[k - 1] /\ k \in 1..k
  BY <1>1, <1>6 DEF S
<1> QED  BY <1>2, <1>3, <1>7

LEMMA EditedBegins ==
  ASSUME NEW text \in Text, NEW edits \in Seq(Edit)
  PROVE  Edited(text, edits, 0) = Inserted(edits, 0)
<1>1. 0 \in 0..Len(text)
  BY LenProperties DEF Text
<1> QED  BY <1>1, EditedUptoUnfolds

LEMMA EditedIsText ==
  ASSUME NEW text \in Text, NEW edits \in Seq(Edit)
  PROVE  \A k \in 0..Len(text) : Edited(text, edits, k) \in Text
<1> DEFINE S == {k \in 0..Len(text) : Edited(text, edits, k) \in Text}
<1>1. Len(text) \in Nat
  BY LenProperties DEF Text
<1>2. 0 \in S
  BY <1>1, EditedBegins, InsertedIsText
<1>3. ASSUME NEW k \in 1..Len(text), k - 1 \in S
      PROVE  k \in S
  <2>1. k \in 0..Len(text) /\ Edited(text, edits, k - 1) \in Text
    BY <1>1, <1>3
  <2> QED  BY <2>1, EditedUnfolds
<1> HIDE DEF S
<1>4. \A k \in 0..Len(text) : k \in S
  BY <1>1, <1>2, <1>3, Counting
<1> QED  BY <1>4 DEF S

-----------------------------------------------------------------------------
(* One more edit                                                            *)

Free(edits, a, b) ==
  \A i \in 1..Len(edits) : ~(edits[i].selector.start < b /\ a < edits[i].selector.end)

LEMMA EditsAre ==
  ASSUME NEW edits \in Seq(Edit), NEW i \in 1..Len(edits)
  PROVE  /\ edits[i] \in Edit /\ edits[i].text \in Text
         /\ edits[i].selector \in TextSelector
         /\ edits[i].selector.start \in Nat /\ edits[i].selector.end \in Nat
<1>1. edits[i] \in Edit
  BY ElementOfSeq
<1> QED  BY <1>1 DEF Edit, TextSelector

(* Between two cuts no edit reaches across, the text is as it was.          *)
LEMMA FreeIsKept ==
  ASSUME NEW text \in Text, NEW edits \in Seq(Edit), NEW a \in Nat, NEW b \in Nat,
         Free(edits, a, b), NEW p \in Nat, a <= p, p < b
  PROVE  /\ Kept(text, edits, p) = Slice(text, p, p + 1)
         /\ a < p => Inserted(edits, p) = <<>>
<1>1. DOMAIN edits = 1..Len(edits)
  BY LenProperties
<1>2. \A i \in 1..Len(edits) : edits[i].selector.start \in Nat /\ edits[i].selector.end \in Nat
  BY EditsAre
<1>3. {i \in DOMAIN edits : edits[i].selector.start <= p /\ p < edits[i].selector.end} = {}
  BY <1>1, <1>2, SMTT(30) DEF Free
<1>4. ASSUME a < p
      PROVE  Inserted(edits, p) = <<>>
  <2>1. \A i \in 1..Len(edits) : Insertion(edits[i], p) = <<>>
    BY <1>2, <1>4 DEF Free, Insertion
  <2> QED  BY <2>1, InsertedNone
<1> QED  BY <1>3, <1>4 DEF Kept

LEMMA KeptAppend ==
  ASSUME NEW text \in Text, NEW edits \in Seq(Edit), NEW edit \in Edit, NEW p \in Nat
  PROVE  LET more == Append(edits, edit)
             start == edit.selector.start
             end == edit.selector.end
         IN /\ ~(start <= p /\ p < end) => Kept(text, more, p) = Kept(text, edits, p)
            /\ (start <= p /\ p < end /\ Free(edits, start, end))
                 => Kept(text, more, p) = IF p = start THEN edit.text ELSE <<>>
<1> DEFINE more == Append(edits, edit)
           N == Len(edits)
           start == edit.selector.start
           end == edit.selector.end
           Over(es) == {i \in DOMAIN es : es[i].selector.start <= p /\ p < es[i].selector.end}
<1>1. /\ more \in Seq(Edit) /\ N \in Nat /\ Len(more) = N + 1 /\ more[N + 1] = edit
      /\ \A i \in 1..N : more[i] = edits[i]
      /\ DOMAIN edits = 1..N /\ DOMAIN more = 1..N + 1
  OBVIOUS
<1>2. /\ \A i \in 1..N : edits[i].selector.start \in Nat /\ edits[i].selector.end \in Nat
      /\ start \in Nat /\ end \in Nat
  BY EditsAre DEF Edit, TextSelector
<1> HIDE DEF more, N
<1>3. ASSUME ~(start <= p /\ p < end)
      PROVE  Kept(text, more, p) = Kept(text, edits, p)
  <2>1. Over(more) = Over(edits)
    <3>1. ASSUME NEW i \in 1..N + 1
          PROVE  i \in Over(more) <=> i \in Over(edits)
      <4>1. CASE i = N + 1
        <5>1. ~(i \in 1..N)
          BY <1>1, <4>1
        <5> QED  BY <1>1, <1>3, <4>1, <5>1
      <4>2. CASE i # N + 1
        <5>1. i \in 1..N
          BY <1>1, <4>2
        <5> QED  BY <1>1, <5>1
      <4> QED  BY <4>1, <4>2
    <3>2. 1..N \subseteq 1..N + 1
      BY <1>1
    <3> QED  BY <1>1, <3>1, <3>2
  <2>2. CASE Over(edits) = {}
    BY <2>1, <2>2 DEF Kept
  <2>3. CASE Over(edits) # {}
    <3> DEFINE i == CHOOSE j \in Over(edits) : TRUE
    <3>1. i \in 1..N /\ i = CHOOSE j \in Over(more) : TRUE
      BY <1>1, <2>1, <2>3
    <3>2. more[i] = edits[i]
      BY <1>1, <3>1
    <3>3. Kept(text, edits, p) = IF edits[i].selector.start = p THEN edits[i].text ELSE <<>>
      BY <2>3 DEF Kept
    <3>4. Kept(text, more, p) = IF more[i].selector.start = p THEN more[i].text ELSE <<>>
      <4> DEFINE k == CHOOSE j \in Over(more) : TRUE
      <4>1. Over(more) # {} /\ k = i
        BY <2>1, <2>3
      <4>2. Kept(text, more, p) = IF more[k].selector.start = p THEN more[k].text ELSE <<>>
        BY <4>1 DEF Kept
      <4> HIDE DEF k, i
      <4> QED  BY <4>1, <4>2
    <3> HIDE DEF i
    <3> QED  BY <3>2, <3>3, <3>4
  <2> QED  BY <2>2, <2>3
<1>4. ASSUME start <= p, p < end, Free(edits, start, end)
      PROVE  Kept(text, more, p) = IF p = start THEN edit.text ELSE <<>>
  <2>1. \A i \in 1..N : ~(edits[i].selector.start <= p /\ p < edits[i].selector.end)
    BY <1>2, <1>4, SMTT(30) DEF Free, N
  <2>2. Over(more) = {N + 1}
    <3>1. ASSUME NEW i \in 1..N + 1
          PROVE  i \in Over(more) <=> i = N + 1
      <4>1. CASE i = N + 1
        BY <1>1, <1>4, <4>1
      <4>2. CASE i # N + 1
        <5>1. i \in 1..N
          BY <1>1, <4>2
        <5> QED  BY <1>1, <2>1, <4>2, <5>1
      <4> QED  BY <4>1, <4>2
    <3>2. N + 1 \in 1..N + 1
      BY <1>1
    <3> QED  BY <1>1, <3>1, <3>2
  <2>3. (CHOOSE j \in Over(more) : TRUE) = N + 1
    BY <2>2
  <2>4. Kept(text, more, p) = IF more[N + 1].selector.start = p THEN more[N + 1].text ELSE <<>>
    BY <2>2, <2>3 DEF Kept
  <2> QED  BY <1>1, <2>4
<1> QED  BY <1>3, <1>4 DEF more

(* An edit leaves what is before it, replaces what it spans, and carries    *)
(* along what is behind it.                                                 *)
Split(text, edits, edit, k) ==
  LET E(i) == Edited(text, edits, i)
      D(i) == Edited(text, Append(edits, edit), i)
      start == edit.selector.start
      end == edit.selector.end
  IN /\ k < start \/ (k = start /\ start < end) => D(k) = E(k)
     /\ start <= k /\ k < end =>
          /\ E(k) = E(start) \o Slice(text, start, k)
          /\ start < k => D(k) = E(start) \o edit.text
     /\ end <= k => \E X \in Text :
          /\ E(k) = (E(start) \o Slice(text, start, end)) \o X
          /\ D(k) = (E(start) \o edit.text) \o X

LEMMA OneMoreEdit ==
  ASSUME NEW text \in Text, NEW edits \in Seq(Edit), NEW edit \in Edit,
         edit.selector.start <= edit.selector.end, edit.selector.end <= Len(text),
         Free(edits, edit.selector.start, edit.selector.end)
  PROVE  \A k \in 0..Len(text) : Split(text, edits, edit, k)
<1> DEFINE more == Append(edits, edit)
           s == edit.selector.start
           e == edit.selector.end
           t == edit.text
           E(i) == Edited(text, edits, i)
           D(i) == Edited(text, more, i)
           K(i) == Kept(text, edits, i)
           I(i) == Inserted(edits, i)
           S == {k \in 0..Len(text) : Split(text, edits, edit, k)}
<1>1. /\ Len(text) \in Nat /\ s \in Nat /\ e \in Nat /\ t \in Text /\ <<>> \in Text
      /\ s <= e /\ e <= Len(text) /\ more \in Seq(Edit)
  <2>1. more \in Seq(Edit)
    BY AppendProperties
  <2> QED  BY <2>1, LenProperties DEF Edit, TextSelector, Text
<1>2. \A i \in 0..Len(text) : E(i) \in Text /\ D(i) \in Text /\ I(i) \in Text
  BY <1>1, EditedIsText, InsertedIsText
<1>3. \A i \in Nat : i < Len(text) => K(i) \in Text
  BY KeptIsText
<1>4. \A k \in 1..Len(text) : E(k) = (E(k - 1) \o K(k - 1)) \o I(k)
  BY EditedUnfolds
<1>5. \A k \in 1..Len(text) : D(k) = (D(k - 1) \o Kept(text, more, k - 1)) \o Inserted(more, k)
  BY <1>1, EditedUnfolds
<1>6. \A k \in Nat : Inserted(more, k) = I(k) \o Insertion(edit, k)
  BY InsertedAppend
<1>7. \A k \in Nat : ~(s = k /\ e = k) => Inserted(more, k) = I(k)
  <2> SUFFICES ASSUME NEW k \in Nat, ~(s = k /\ e = k)
               PROVE  Inserted(more, k) = I(k)
    OBVIOUS
  <2>1. Insertion(edit, k) = <<>> /\ I(k) \in Seq(Scalars)
    BY InsertedIsText DEF Insertion, Text
  <2> QED  BY <1>6, <2>1, ConcatEmptySeq
<1>8. \A k \in Nat : ~(s <= k /\ k < e) => Kept(text, more, k) = K(k)
  BY KeptAppend
<1>9. \A k \in Nat : s <= k /\ k < e =>
        /\ Kept(text, more, k) = IF k = s THEN t ELSE <<>>
        /\ K(k) = Slice(text, k, k + 1)
        /\ s < k => I(k) = <<>>
  BY <1>1, KeptAppend, FreeIsKept
<1>10. E(0) = I(0) /\ D(0) = Inserted(more, 0)
  BY <1>1, EditedBegins
<1>11. \A x \in Text : x \o <<>> = x
  BY ConcatEmptySeq DEF Text
<1>12. \A x, y \in Text : x \o y \in Text
  BY TextsJoin
<1>13. \A x, y, z \in Text : (x \o y) \o z = x \o (y \o z)
  BY ConcatAssociative DEF Text
<1>14. \A a, b, c \in Nat : a <= b /\ b <= c /\ c <= Len(text) =>
         /\ Slice(text, a, b) \o Slice(text, b, c) = Slice(text, a, c)
         /\ Slice(text, a, b) \in Text /\ Slice(text, b, c) \in Text
  <2> SUFFICES ASSUME NEW a \in Nat, NEW b \in Nat, NEW c \in Nat, a <= b, b <= c, c <= Len(text)
               PROVE  /\ Slice(text, a, b) \o Slice(text, b, c) = Slice(text, a, c)
                      /\ Slice(text, a, b) \in Text /\ Slice(text, b, c) \in Text
    OBVIOUS
  <2>1. b <= Len(text)
    BY <1>1
  <2> QED  BY <2>1, SlicesJoin, SliceIs
<1>15. \A a \in Nat : a <= Len(text) => Slice(text, a, a) = <<>>
  BY SliceNone
<1>16. t = Insertion(edit, s) \/ s < e
  BY <1>1 DEF Insertion
<1> HIDE DEF more, s, e, t, E, D, K, I
<1>20. \A k \in 0..Len(text) : k \in S <=>
         /\ k < s \/ (k = s /\ s < e) => D(k) = E(k)
         /\ s <= k /\ k < e =>
              /\ E(k) = E(s) \o Slice(text, s, k)
              /\ s < k => D(k) = E(s) \o t
         /\ e <= k => \E X \in Text :
              /\ E(k) = (E(s) \o Slice(text, s, e)) \o X
              /\ D(k) = (E(s) \o t) \o X
  BY DEF Split, more, s, e, t, E, D
<1>21. ASSUME NEW k \in 0..Len(text), k = s, s = e, D(k) = E(k) \o t
       PROVE  k \in S
  <2>1. E(k) = (E(s) \o Slice(text, s, e)) \o <<>> /\ D(k) = (E(s) \o t) \o <<>>
    <3>1. Slice(text, s, e) = <<>>
      BY <1>1, <1>15, <1>21
    <3>2. E(s) \in Text /\ E(s) \o t \in Text
      BY <1>1, <1>2, <1>12, <1>21
    <3> QED  BY <1>11, <1>21, <3>1, <3>2
  <2>2. ~(k < s) /\ ~(s < e) /\ ~(k < e)
    BY <1>1, <1>21
  <2> QED  BY <1>1, <1>20, <2>1, <2>2
<1>22. 0 \in S
  <2>1. 0 \in 0..Len(text)
    BY <1>1
  <2>2. CASE s = 0 /\ e = 0
    <3>1. D(0) = E(0) \o t
      <4>1. Insertion(edit, 0) = t
        BY <1>1, <1>16, <2>2
      <4>2. Inserted(more, 0) = I(0) \o Insertion(edit, 0)
        BY <1>6
      <4> QED  BY <1>10, <4>1, <4>2
    <3> QED  BY <1>21, <2>1, <2>2, <3>1
  <2>3. CASE ~(s = 0 /\ e = 0)
    <3>1. D(0) = E(0)
      BY <1>7, <1>10, <2>3
    <3>2. ~(e <= 0)
      BY <1>1, <2>3
    <3>3. E(0) = E(0) \o Slice(text, 0, 0)
      <4>1. Slice(text, 0, 0) = <<>>
        BY <1>1, <1>15
      <4>2. E(0) \in Text
        BY <1>2, <2>1
      <4> QED  BY <1>11, <4>1, <4>2
    <3>4. /\ 0 < s \/ (0 = s /\ s < e) => D(0) = E(0)
          /\ s <= 0 /\ 0 < e =>
               /\ E(0) = E(s) \o Slice(text, s, 0)
               /\ s < 0 => D(0) = E(s) \o t
          /\ ~(e <= 0)
      <4>1. s <= 0 => s = 0
        BY <1>1
      <4>2. ~(s < 0)
        BY <1>1
      <4> QED  BY <3>1, <3>2, <3>3, <4>1, <4>2
    <3> QED  BY <1>20, <2>1, <3>4
  <2> QED  BY <2>2, <2>3
<1>23. ASSUME NEW k \in 1..Len(text), k - 1 \in S
       PROVE  k \in S
  <2>1. k \in 0..Len(text) /\ k - 1 \in 0..Len(text) /\ k - 1 \in Nat /\ k - 1 < Len(text) /\ k \in Nat
    BY <1>1
  <2>2. /\ E(k) \in Text /\ E(k - 1) \in Text /\ E(s) \in Text /\ I(k) \in Text /\ K(k - 1) \in Text
    BY <1>1, <1>2, <1>3, <2>1
  <2>3. E(k) = (E(k - 1) \o K(k - 1)) \o I(k)
    BY <1>4
  <2>4. D(k) = (D(k - 1) \o Kept(text, more, k - 1)) \o Inserted(more, k)
    BY <1>5
  <2>5. CASE k < s \/ (k = s /\ s < e)
    <3>1. k - 1 < s /\ ~(s = k /\ e = k) /\ ~(s <= k - 1)
      BY <1>1, <2>1, <2>5
    <3>2. D(k - 1) = E(k - 1)
      BY <1>20, <1>23, <3>1
    <3>3. D(k) = E(k)
      BY <1>7, <1>8, <2>1, <2>3, <2>4, <3>1, <3>2
    <3>4. s <= k => E(k) = E(s) \o Slice(text, s, k)
      <4>1. s <= k => s = k
        BY <1>1, <2>1, <2>5
      <4>2. Slice(text, s, s) = <<>> /\ E(s) \o <<>> = E(s)
        BY <1>1, <1>11, <1>15, <2>2
      <4> QED  BY <4>1, <4>2
    <3>5. ~(e <= k) /\ ~(s < k)
      BY <1>1, <2>1, <2>5
    <3> QED  BY <1>20, <2>1, <3>3, <3>4, <3>5
  <2>6. CASE k = s /\ s = e
    <3>1. k - 1 < s /\ ~(s <= k - 1)
      BY <1>1, <2>1, <2>6
    <3>2. D(k - 1) = E(k - 1)
      BY <1>20, <1>23, <3>1
    <3>3. Inserted(more, k) = I(k) \o t
      <4>1. Insertion(edit, k) = t
        BY <1>1, <1>16, <2>6
      <4> QED  BY <1>6, <2>1, <4>1
    <3>4. D(k) = (E(k - 1) \o K(k - 1)) \o (I(k) \o t)
      BY <1>8, <2>1, <2>4, <3>1, <3>2, <3>3
    <3>5. E(k - 1) \o K(k - 1) \in Text
      BY <1>12, <2>2
    <3>6. D(k) = E(k) \o t
      <4>1. PICK x \in Text : x = E(k - 1) \o K(k - 1)
        BY <3>5
      <4>2. (x \o I(k)) \o t = x \o (I(k) \o t)
        <5>1. x \in Text /\ I(k) \in Text /\ t \in Text
          BY <1>1, <2>2, <4>1
        <5> HIDE DEF I, t
        <5> QED  BY <5>1, <1>13, Zenon
      <4> QED  BY <2>3, <3>4, <4>1, <4>2
    <3> QED  BY <1>21, <2>1, <2>6, <3>6
  <2>7. CASE s < k /\ k <= e
    <3>1. s <= k - 1 /\ k - 1 < e /\ ~(s = k /\ e = k) /\ (k - 1) + 1 = k
      BY <1>1, <2>1, <2>7
    <3>2. E(k - 1) = E(s) \o Slice(text, s, k - 1)
      BY <1>20, <1>23, <3>1
    <3>3. K(k - 1) = Slice(text, k - 1, k)
      BY <1>9, <2>1, <3>1
    <3>4. /\ Slice(text, s, k - 1) \o Slice(text, k - 1, k) = Slice(text, s, k)
          /\ Slice(text, s, k - 1) \in Text /\ Slice(text, k - 1, k) \in Text
      <4>1. PICK m \in Nat : m = k - 1
        BY <2>1
      <4>2. s <= m /\ m <= k /\ k <= Len(text)
        BY <1>1, <2>1, <3>1, <4>1
      <4> QED  BY <1>1, <1>14, <2>1, <4>1, <4>2
    <3>5. E(k) = (E(s) \o Slice(text, s, k)) \o I(k)
      <4>1. PICK x \in Text : x = Slice(text, s, k - 1)
        BY <3>4
      <4>2. PICK y \in Text : y = Slice(text, k - 1, k)
        BY <3>4
      <4>3. (E(s) \o x) \o y = E(s) \o (x \o y)
        <5>1. E(s) \in Text
          BY <2>2
        <5> QED  BY <1>13, <5>1, Zenon
      <4> QED  BY <2>3, <3>2, <3>3, <3>4, <4>1, <4>2, <4>3
    <3>6. D(k - 1) \o Kept(text, more, k - 1) = E(s) \o t
      <4>1. CASE k - 1 = s
        <5>1. D(k - 1) = E(s) /\ Kept(text, more, k - 1) = t
          BY <1>9, <1>20, <1>23, <2>1, <3>1, <4>1
        <5> QED  BY <5>1
      <4>2. CASE k - 1 # s
        <5>1. s < k - 1
          BY <1>1, <2>1, <3>1, <4>2
        <5>2. D(k - 1) = E(s) \o t /\ Kept(text, more, k - 1) = <<>>
          BY <1>9, <1>20, <1>23, <2>1, <3>1, <4>2, <5>1
        <5> QED  BY <1>1, <1>11, <1>12, <2>2, <5>2
      <4> QED  BY <4>1, <4>2
    <3>7. D(k) = (E(s) \o t) \o I(k)
      BY <1>7, <2>1, <2>4, <3>1, <3>6
    <3>8. CASE k < e
      <4>1. I(k) = <<>> /\ s <= k
        BY <1>1, <1>9, <2>1, <2>7, <3>8
      <4>2. E(s) \o Slice(text, s, k) \in Text /\ E(s) \o t \in Text
        <5>1. Slice(text, s, k) \in Text
          BY <1>12, <3>4
        <5> QED  BY <1>1, <1>12, <2>2, <5>1
      <4>3. E(k) = E(s) \o Slice(text, s, k) /\ D(k) = E(s) \o t
        BY <1>11, <3>5, <3>7, <4>1, <4>2
      <4>4. ~(e <= k) /\ ~(k < s) /\ k # s
        BY <1>1, <2>1, <2>7, <3>8
      <4> QED  BY <1>20, <2>1, <4>3, <4>4
    <3>9. CASE k = e
      <4>1. ~(k < e) /\ ~(k < s) /\ k # s
        BY <1>1, <2>1, <2>7, <3>9
      <4> QED  BY <1>20, <2>1, <2>2, <3>5, <3>7, <3>9, <4>1
    <3> QED  BY <1>1, <2>1, <2>7, <3>8, <3>9
  <2>8. CASE e < k
    <3>1. e <= k - 1 /\ ~(k - 1 < e) /\ ~(s = k /\ e = k)
      BY <1>1, <2>1, <2>8
    <3>2. PICK X \in Text :
            /\ E(k - 1) = (E(s) \o Slice(text, s, e)) \o X
            /\ D(k - 1) = (E(s) \o t) \o X
      BY <1>20, <1>23, <3>1
    <3>3. D(k) = (D(k - 1) \o K(k - 1)) \o I(k)
      BY <1>7, <1>8, <2>1, <2>4, <3>1
    <3>4. (X \o K(k - 1)) \o I(k) \in Text /\ X \o K(k - 1) \in Text
      BY <1>12, <2>2
    <3>5. \A y \in Text : ((y \o X) \o K(k - 1)) \o I(k) = y \o ((X \o K(k - 1)) \o I(k))
      <4> SUFFICES ASSUME NEW y \in Text
                   PROVE  ((y \o X) \o K(k - 1)) \o I(k) = y \o ((X \o K(k - 1)) \o I(k))
        OBVIOUS
      <4>1. (y \o X) \o K(k - 1) = y \o (X \o K(k - 1))
        <5>1. PICK w \in Text : w = K(k - 1)
          BY <2>2
        <5>2. (y \o X) \o w = y \o (X \o w)
          BY TextsAssociate
        <5> QED  BY <5>1, <5>2
      <4>2. PICK z \in Text : z = X \o K(k - 1)
        BY <3>4
      <4>3. (y \o z) \o I(k) = y \o (z \o I(k))
        <5>1. I(k) \in Text
          BY <2>2
        <5> QED  BY <1>13, <5>1, ZenonT(30)
      <4> QED  BY <4>1, <4>2, <4>3
    <3>6. E(s) \o Slice(text, s, e) \in Text /\ E(s) \o t \in Text
      BY <1>1, <1>12, <1>14, <2>2
    <3>7. /\ E(k) = (E(s) \o Slice(text, s, e)) \o ((X \o K(k - 1)) \o I(k))
          /\ D(k) = (E(s) \o t) \o ((X \o K(k - 1)) \o I(k))
      BY <2>3, <3>2, <3>3, <3>5, <3>6
    <3>8. ~(k < e) /\ ~(k < s) /\ ~(k = s /\ s < e)
      BY <1>1, <2>1, <2>8
    <3> QED  BY <1>20, <2>1, <3>4, <3>7, <3>8
  <2> QED  BY <1>1, <2>1, <2>5, <2>6, <2>7, <2>8
<1> HIDE DEF S
<1>24. \A k \in 0..Len(text) : k \in S
  BY <1>1, <1>22, <1>23, Counting
<1> QED  BY <1>24 DEF S

(* Without an edit nothing changes, and nothing moves.                      *)
LEMMA Unedited ==
  ASSUME NEW text \in Text
  PROVE  \A k \in 0..Len(text) : Edited(text, <<>>, k) = Slice(text, 0, k)
<1> DEFINE E(k) == Edited(text, <<>>, k)
           S == {k \in 0..Len(text) : E(k) = Slice(text, 0, k)}
<1>1. Len(text) \in Nat /\ <<>> \in Seq(Edit) /\ Len(<<>>) = 0
  BY LenProperties, EmptySeq DEF Text
<1>0. PICK edits \in Seq(Edit) : edits = <<>> /\ Len(edits) = 0
  BY <1>1
<1>2. \A p : Inserted(<<>>, p) = <<>>
  <2>1. \A n \in 1..Len(edits) : FALSE
    BY <1>0
  <2>2. \A p : Inserted(edits, p) = <<>>
    BY <2>1, InsertedNone
  <2> QED  BY <1>0, <2>2
<1>3. Free(edits, 0, Len(text))
  BY <1>0 DEF Free
<1>4. \A p \in Nat : p < Len(text) => Kept(text, <<>>, p) = Slice(text, p, p + 1)
  <2> SUFFICES ASSUME NEW p \in Nat, p < Len(text)
               PROVE  Kept(text, edits, p) = Slice(text, p, p + 1)
    BY <1>0
  <2>1. 0 \in Nat /\ 0 <= p
    OBVIOUS
  <2> QED  BY <1>1, <1>3, <2>1, FreeIsKept
<1>5. 0 \in S
  <2>1. Edited(text, edits, 0) = Inserted(edits, 0)
    BY EditedBegins
  <2>2. Slice(text, 0, 0) = <<>> /\ 0 \in 0..Len(text)
    BY <1>1, SliceNone
  <2> QED  BY <1>0, <1>2, <2>1, <2>2
<1>6. ASSUME NEW k \in 1..Len(text), k - 1 \in S
      PROVE  k \in S
  <2>1. k \in 0..Len(text) /\ E(k - 1) = Slice(text, 0, k - 1)
    BY <1>1, <1>6
  <2>2. PICK m \in Nat : m = k - 1
    BY <1>1
  <2>3. m < Len(text) /\ m + 1 = k /\ 0 <= m /\ m <= k /\ k <= Len(text) /\ k \in Nat
    BY <1>1, <2>2
  <2>4. Kept(text, <<>>, m) = Slice(text, m, k)
    BY <1>4, <2>3
  <2>5. Slice(text, 0, m) \o Slice(text, m, k) = Slice(text, 0, k)
    BY <2>3, SlicesJoin
  <2>6. Slice(text, 0, k) \in Seq(Scalars)
    BY <2>3, SliceIs DEF Text
  <2>7. E(k) = (E(m) \o Kept(text, <<>>, m)) \o <<>>
    BY <1>1, <1>2, <2>2, EditedUnfolds, ZenonT(30)
  <2> QED  BY <2>1, <2>2, <2>4, <2>5, <2>6, <2>7, ConcatEmptySeq
<1> HIDE DEF S, E
<1>7. \A k \in 0..Len(text) : k \in S
  BY <1>1, <1>5, <1>6, Counting
<1> QED  BY <1>7 DEF S, E

Measured(text, edits) ==
  \A k \in 0..Len(text) : Free(edits, k, k) => Len(Edited(text, edits, k)) = k + Moved(edits, k)

LEMMA MeasuredUnedited ==
  ASSUME NEW text \in Text
  PROVE  Measured(text, <<>>)
<1>1. Len(text) \in Nat /\ <<>> \in Seq(Edit) /\ Len(<<>>) = 0
  BY LenProperties, EmptySeq DEF Text
<1>2. ASSUME NEW k \in 0..Len(text)
      PROVE  Len(Edited(text, <<>>, k)) = k + Moved(<<>>, k)
  <2>1. k \in Nat /\ 0 <= k /\ k <= Len(text)
    BY <1>1
  <2>2. Moved(<<>>, k) = 0
    BY <1>1, <2>1, MovedUnfolds DEF Moved
  <2>3. Len(Slice(text, 0, k)) = k - 0
    BY <2>1, SliceIs
  <2> QED  BY <2>1, <2>2, <2>3, Unedited
<1> QED  BY <1>2 DEF Measured

LEMMA FreeAppend ==
  ASSUME NEW edits \in Seq(Edit), NEW edit \in Edit, NEW a, NEW b
  PROVE  Free(Append(edits, edit), a, b) <=>
           Free(edits, a, b) /\ ~(edit.selector.start < b /\ a < edit.selector.end)
<1> DEFINE more == Append(edits, edit)
           N == Len(edits)
<1>1. /\ N \in Nat /\ Len(more) = N + 1 /\ more[N + 1] = edit
      /\ \A i \in 1..N : more[i] = edits[i]
  OBVIOUS
<1> HIDE DEF more, N
<1>2. \A i \in 1..N + 1 : i = N + 1 \/ i \in 1..N
  BY <1>1
<1>3. N + 1 \in 1..N + 1 /\ 1..N \subseteq 1..N + 1
  BY <1>1
<1>4. Free(edits, a, b) <=>
        \A i \in 1..N : ~(edits[i].selector.start < b /\ a < edits[i].selector.end)
  BY DEF Free, N
<1>5. Free(more, a, b) <=>
        \A i \in 1..N + 1 : ~(more[i].selector.start < b /\ a < more[i].selector.end)
  BY <1>1 DEF Free
<1>6. ASSUME Free(more, a, b)
      PROVE  Free(edits, a, b) /\ ~(edit.selector.start < b /\ a < edit.selector.end)
  BY <1>1, <1>3, <1>4, <1>5, <1>6
<1>7. ASSUME Free(edits, a, b), ~(edit.selector.start < b /\ a < edit.selector.end)
      PROVE  Free(more, a, b)
  BY <1>1, <1>2, <1>4, <1>5, <1>7
<1> QED  BY <1>6, <1>7 DEF more

LEMMA MeasuredAppend ==
  ASSUME NEW text \in Text, NEW edits \in Seq(Edit), NEW edit \in Edit,
         edit.selector.start <= edit.selector.end, edit.selector.end <= Len(text),
         Free(edits, edit.selector.start, edit.selector.end), Measured(text, edits)
  PROVE  Measured(text, Append(edits, edit))
<1> DEFINE more == Append(edits, edit)
           s == edit.selector.start
           e == edit.selector.end
           t == edit.text
<1>1. /\ Len(text) \in Nat /\ s \in Nat /\ e \in Nat /\ t \in Text /\ s <= e /\ e <= Len(text)
      /\ Len(t) \in Nat
  BY LenProperties DEF Edit, TextSelector, Text
<1>2. ASSUME NEW k \in 0..Len(text), Free(more, k, k)
      PROVE  Len(Edited(text, more, k)) = k + Moved(more, k)
  <2>1. Free(edits, k, k) /\ ~(s < k /\ k < e) /\ k \in Nat
    BY <1>1, <1>2, FreeAppend
  <2>2. /\ Len(Edited(text, edits, k)) = k + Moved(edits, k)
        /\ Moved(edits, k) \in Int /\ Moved(more, k) = Moved(edits, k) + Offset(edit, k)
    BY <2>1, MovedAppend DEF Measured
  <2>3. Split(text, edits, edit, k)
    BY OneMoreEdit
  <2>4. CASE k < s \/ (k = s /\ s < e)
    <3>1. Edited(text, more, k) = Edited(text, edits, k)
      BY <2>3, <2>4 DEF Split
    <3>2. Offset(edit, k) = 0
      BY <1>1, <2>1, <2>4 DEF Offset
    <3> QED  BY <2>2, <2>1, <3>1, <3>2
  <2>5. CASE e <= k
    <3>1. PICK X \in Text :
            /\ Edited(text, edits, k) = (Edited(text, edits, s) \o Slice(text, s, e)) \o X
            /\ Edited(text, more, k) = (Edited(text, edits, s) \o t) \o X
      BY <2>3, <2>5 DEF Split
    <3>2. PICK u \in Text : u = Edited(text, edits, s)
      <4>1. s \in 0..Len(text)
        BY <1>1
      <4> QED  BY <4>1, EditedIsText
    <3>3. PICK v \in Text : v = Slice(text, s, e) /\ Len(v) = e - s
      BY <1>1, SliceIs
    <3>4. /\ Len(u \o v) = Len(u) + (e - s) /\ u \o v \in Text
          /\ Len(u \o t) = Len(u) + Len(t) /\ u \o t \in Text
      BY <1>1, <3>3, TextsJoin, SMTT(30)
    <3>5. /\ Len(Edited(text, edits, k)) = Len(u \o v) + Len(X)
          /\ Len(Edited(text, more, k)) = Len(u \o t) + Len(X)
      BY <3>1, <3>2, <3>3, <3>4, TextsJoin
    <3>6. Offset(edit, k) = Len(t) - (e - s)
      BY <2>5 DEF Offset, Delta
    <3>7. Len(u) \in Nat /\ Len(X) \in Nat
      BY LenProperties DEF Text
    <3> HIDE DEF s, e, t, more
    <3>8. /\ Len(Edited(text, edits, k)) = Len(u) + (e - s) + Len(X)
          /\ Len(Edited(text, more, k)) = Len(u) + Len(t) + Len(X)
      BY <3>4, <3>5
    <3>9. Len(u) + (e - s) + Len(X) = k + Moved(edits, k)
      BY <2>2, <3>8
    <3>10. PICK d \in Int : d = e - s
      BY <1>1
    <3>11. Moved(more, k) = Moved(edits, k) + (Len(t) - d)
      BY <2>2, <3>6, <3>10
    <3>12. Len(u) + d + Len(X) = k + Moved(edits, k)
      BY <3>9, <3>10
    <3>13. Len(Edited(text, more, k)) = Len(u) + Len(t) + Len(X)
      BY <3>8
    <3>14. k + Moved(more, k) = k + (Moved(edits, k) + (Len(t) - d))
      BY <3>11
    <3>15. k + Moved(more, k) = (k + Moved(edits, k)) + (Len(t) - d)
      BY <1>1, <2>1, <2>2, <3>14
    <3>16. k + Moved(more, k) = Len(u) + Len(t) + Len(X)
      BY <1>1, <2>1, <2>2, <3>7, <3>12, <3>15
    <3> QED  BY <3>13, <3>16
  <2> QED  BY <1>1, <2>1, <2>4, <2>5
<1> QED  BY <1>2 DEF Measured

(* What no edit reaches stays in one piece.                                 *)
LEMMA Between ==
  ASSUME NEW text \in Text, NEW edits \in Seq(Edit), NEW sel \in TextSelector,
         NEW a \in Nat, NEW b \in Nat, a <= b, b <= Len(text), Free(edits, a, b)
  PROVE  /\ \A k \in a..b : k < b => Edited(text, edits, k) = Edited(text, edits, a) \o Slice(text, a, k)
         /\ \A k \in b..Len(text) : \E X \in Text :
              Edited(text, edits, k) = (Edited(text, edits, a) \o Slice(text, a, b)) \o X
<1> DEFINE edit == [selector |-> [sel EXCEPT !.start = a, !.end = b], text |-> <<>>]
<1>1. edit \in Edit /\ edit.selector.start = a /\ edit.selector.end = b
  <2>1. <<>> \in Text
    BY DEF Text
  <2>2. [sel EXCEPT !.start = a, !.end = b] \in TextSelector
    BY DEF TextSelector
  <2>3. [sel EXCEPT !.start = a, !.end = b].start = a /\ [sel EXCEPT !.start = a, !.end = b].end = b
    BY DEF TextSelector
  <2> QED  BY <2>1, <2>2, <2>3 DEF Edit
<1> HIDE DEF edit
<1>2. \A k \in 0..Len(text) : Split(text, edits, edit, k)
  BY <1>1, OneMoreEdit
<1>3. Len(text) \in Nat
  BY LenProperties DEF Text
<1>4. ASSUME NEW k \in a..b, k < b
      PROVE  Edited(text, edits, k) = Edited(text, edits, a) \o Slice(text, a, k)
  <2>1. k \in 0..Len(text) /\ a <= k
    BY <1>3, <1>4
  <2> QED  BY <1>1, <1>2, <1>4, <2>1 DEF Split
<1>5. ASSUME NEW k \in b..Len(text)
      PROVE  \E X \in Text :
               Edited(text, edits, k) = (Edited(text, edits, a) \o Slice(text, a, b)) \o X
  <2>1. k \in 0..Len(text) /\ b <= k
    BY <1>3
  <2>2. \E X \in Text :
          /\ Edited(text, edits, k) = (Edited(text, edits, a) \o Slice(text, a, b)) \o X
          /\ Edited(text, Append(edits, edit), k) = (Edited(text, edits, a) \o edit.text) \o X
    BY <1>1, <1>2, <2>1 DEF Split
  <2> QED  BY <2>2
<1> QED  BY <1>4, <1>5

(* One step on the text that has already changed is one more edit of the    *)
(* base text.                                                              *)
Fits(text, edits, edit) ==
  /\ edit.selector.start <= edit.selector.end /\ edit.selector.end <= Len(text)
  /\ Free(edits, edit.selector.start, edit.selector.end)

From(edits, edit) == edit.selector.start + Moved(edits, edit.selector.start)
To(edits, edit) == edit.selector.end + Moved(edits, edit.selector.start)

LEMMA EditApplies ==
  ASSUME NEW text \in Text, NEW edits \in Seq(Edit), NEW edit \in Edit,
         Fits(text, edits, edit), Measured(text, edits)
  PROVE  LET now == Edited(text, edits, Len(text))
             from == From(edits, edit)
             to == To(edits, edit)
         IN /\ from = Len(Edited(text, edits, edit.selector.start)) /\ from \in Nat
            /\ to = from + (edit.selector.end - edit.selector.start) /\ to \in Nat
            /\ now \in Text
            /\ (Slice(now, 0, from) \o edit.text) \o Slice(now, to, Len(now))
                 = Edited(text, Append(edits, edit), Len(text))
<1> DEFINE s == edit.selector.start
           e == edit.selector.end
           now == Edited(text, edits, Len(text))
           from == From(edits, edit)
           to == To(edits, edit)
<1>1. /\ Len(text) \in Nat /\ s \in Nat /\ e \in Nat /\ edit.text \in Text
      /\ s <= e /\ e <= Len(text) /\ Free(edits, s, e)
  BY LenProperties DEF Edit, TextSelector, Text, Fits
<1>2. Free(edits, s, s)
  <2>1. \A i \in 1..Len(edits) : edits[i].selector.start \in Nat /\ edits[i].selector.end \in Nat
    BY EditsAre
  <2> HIDE DEF s, e
  <2> QED  BY <1>1, <2>1 DEF Free
<1>3. from = Len(Edited(text, edits, s))
  BY <1>1, <1>2 DEF Measured, From
<1>4. Moved(edits, s) \in Int
  BY <1>1, MovedAppend
<1>5. PICK u \in Text : u = Edited(text, edits, s)
  <2>1. s \in 0..Len(text)
    BY <1>1
  <2> QED  BY <2>1, EditedIsText
<1>6. from \in Nat /\ to = from + (e - s) /\ to \in Nat
  <2>1. from \in Nat
    BY <1>3, <1>5, LenProperties DEF Text
  <2>2. from = s + Moved(edits, s) /\ to = e + Moved(edits, s)
    BY DEF From, To
  <2> HIDE DEF s, e, from, to
  <2> QED  BY <1>1, <1>4, <2>1, <2>2
<1>7. Split(text, edits, edit, Len(text))
  <2>1. Len(text) \in 0..Len(text)
    BY <1>1
  <2> QED  BY <1>1, <2>1, OneMoreEdit
<1>8. PICK X \in Text :
        /\ now = (Edited(text, edits, s) \o Slice(text, s, e)) \o X
        /\ Edited(text, Append(edits, edit), Len(text)) = (Edited(text, edits, s) \o edit.text) \o X
  BY <1>1, <1>7 DEF Split
<1>9. PICK v \in Text : v = Slice(text, s, e) /\ Len(v) = e - s
  BY <1>1, SliceIs
<1>10. PICK w \in Text : w = (u \o v) \o X /\ w = now
  BY <1>5, <1>8, <1>9, SlicesOfJoined, ZenonT(30)
<1>11. Slice(w, 0, Len(u)) = u /\ Slice(w, Len(u) + Len(v), Len(w)) = X
  <2>1. /\ Slice((u \o v) \o X, 0, Len(u)) = u
        /\ Slice((u \o v) \o X, Len(u) + Len(v), Len((u \o v) \o X)) = X
    BY SlicesOfJoined
  <2> QED  BY <1>10, <2>1
<1>12. from = Len(u) /\ to = Len(u) + Len(v)
  BY <1>3, <1>5, <1>6, <1>9
<1> HIDE DEF from, to, now, s, e
<1>13. now \in Text /\ Slice(now, 0, from) = u /\ Slice(now, to, Len(now)) = X
  BY <1>10, <1>11, <1>12
<1> QED  BY <1>3, <1>5, <1>6, <1>8, <1>13 DEF from, to, now, s, e

-----------------------------------------------------------------------------
(* Protections                                                              *)

(* Where the text before a protection ends: at the same cut as in the base  *)
(* document, or, if it spans nothing, at one where something was inserted.  *)
Anchors(text, edits, base, start, k) ==
  /\ k + (base.end - base.start) <= Len(text)
  /\ Free(edits, k, k + (base.end - base.start))
  /\ start = Len(Edited(text, edits, k))
  /\ Boundary(text, k)
  /\ \/ k = base.start
     \/ /\ base.start = base.end
        /\ \E i \in 1..Len(edits) : edits[i].selector.start = k /\ edits[i].selector.end = k
Anchored(text, edits, base, start) == \E k \in 0..Len(text) : Anchors(text, edits, base, start, k)

LEMMA AnchorsStay ==
  ASSUME NEW text \in Text, NEW edits \in Seq(Edit), NEW edit \in Edit,
         NEW base \in TextSelector, NEW start \in Nat,
         base.start <= base.end,
         Fits(text, edits, edit), Measured(text, edits),
         Boundary(text, edit.selector.start),
         ~(edit.selector.start < base.end /\ base.start < edit.selector.end),
         Anchored(text, edits, base, start)
  PROVE  Anchored(text, Append(edits, edit), base,
                  IF To(edits, edit) <= start THEN start + Delta(edit) ELSE start)
<1> DEFINE more == Append(edits, edit)
           s == edit.selector.start
           e == edit.selector.end
           t == edit.text
           w == base.end - base.start
           to == To(edits, edit)
           E(i) == Edited(text, edits, i)
           D(i) == Edited(text, more, i)
<1>1. /\ Len(text) \in Nat /\ s \in Nat /\ e \in Nat /\ t \in Text /\ Len(t) \in Nat
      /\ s <= e /\ e <= Len(text) /\ Free(edits, s, e)
      /\ base.start \in Nat /\ base.end \in Nat
  BY LenProperties DEF Edit, TextSelector, Text, Fits
<1>2. w \in Nat
  BY <1>1
<1>3. PICK k \in 0..Len(text) : Anchors(text, edits, base, start, k)
  BY DEF Anchored
<1>4. /\ k \in Nat /\ k + w <= Len(text) /\ Free(edits, k, k + w) /\ start = Len(E(k))
      /\ Boundary(text, k) /\ (k = base.start \/ base.start = base.end)
  BY <1>1, <1>3 DEF Anchors
<1>5. ~(s < k + w /\ k < e)
  <2>1. CASE k = base.start
    BY <1>1, <2>1
  <2>2. CASE k # base.start
    <3>1. PICK i \in 1..Len(edits) : edits[i].selector.start = k /\ edits[i].selector.end = k
      BY <1>3, <2>2 DEF Anchors
    <3>2. w = 0
      BY <1>1, <1>4, <2>2
    <3>3. ~(k < e /\ s < k)
      BY <1>1, <3>1 DEF Free
    <3> QED  BY <1>1, <1>4, <3>2, <3>3
  <2> QED  BY <2>1, <2>2
<1>6. Free(more, k, k + w)
  BY <1>4, <1>5, FreeAppend
<1>7. /\ to = Len(E(s)) + (e - s)
      /\ \A i \in 0..Len(text) : E(i) \in Text /\ Len(E(i)) \in Nat
      /\ \A i \in 0..Len(text) : Split(text, edits, edit, i)
  <2>1. to = Len(E(s)) + (e - s)
    BY EditApplies
  <2>2. \A i \in 0..Len(text) : E(i) \in Text /\ Len(E(i)) \in Nat
    BY EditedIsText, LenProperties DEF Text
  <2>3. \A i \in 0..Len(text) : Split(text, edits, edit, i)
    BY <1>1, OneMoreEdit
  <2> QED  BY <2>1, <2>2, <2>3
<1>8. s \in 0..Len(text)
  BY <1>1
<1>9. \A u, v, x \in Text : Len((u \o v) \o x) = Len(u) + Len(v) + Len(x)
  BY SlicesOfJoined
<1>10. PICK v \in Text : v = Slice(text, s, e) /\ Len(v) = e - s
  <2>1. s \in Nat /\ e \in Nat /\ s <= e /\ e <= Len(text)
    BY <1>1
  <2> QED  BY <2>1, SliceIs
<1>11. \A x \in Text : Len(x) \in Nat
  BY LenProperties DEF Text
<1>12. ASSUME NEW n \in 0..Len(text), e <= n
       PROVE  \E x \in Text : /\ Len(E(n)) = Len(E(s)) + (e - s) + Len(x)
                              /\ Len(D(n)) = Len(E(s)) + Len(t) + Len(x)
  <2>1. PICK x \in Text : E(n) = (E(s) \o Slice(text, s, e)) \o x /\ D(n) = (E(s) \o t) \o x
    BY <1>7, <1>12 DEF Split
  <2>2. PICK u \in Text : u = E(s)
    BY <1>7, <1>8
  <2>3. E(n) = (u \o v) \o x /\ D(n) = (u \o t) \o x
    BY <1>10, <2>1, <2>2
  <2>4. /\ Len((u \o v) \o x) = Len(u) + Len(v) + Len(x)
        /\ Len((u \o t) \o x) = Len(u) + Len(t) + Len(x)
    BY <1>1, <1>9
  <2> QED  BY <1>10, <2>2, <2>3, <2>4
<1>13. Delta(edit) = Len(t) - (e - s)
  BY DEF Delta

<1>15. (\E i \in 1..Len(edits) : edits[i].selector.start = k /\ edits[i].selector.end = k)
         => \E i \in 1..Len(more) : more[i].selector.start = k /\ more[i].selector.end = k
  BY Len(edits) \in Nat, Len(more) = Len(edits) + 1, \A i \in 1..Len(edits) : more[i] = edits[i]
<1>16. (k = base.start \/ /\ base.start = base.end
                          /\ \E i \in 1..Len(more) : more[i].selector.start = k /\ more[i].selector.end = k)
  BY <1>3, <1>15 DEF Anchors
<1>17. more[Len(more)] = edit /\ Len(more) \in 1..Len(more)
  BY Len(edits) \in Nat
<1>18. Free(more, s, s)
  <2>1. \A i \in 1..Len(edits) : edits[i].selector.start \in Nat /\ edits[i].selector.end \in Nat
    BY EditsAre
  <2>2. Free(edits, s, s)
    BY <1>1, <2>1, SMTT(30) DEF Free
  <2> QED  BY <1>1, <2>2, FreeAppend
<1> HIDE DEF more, s, e, t, w, to, E, D
<1>20. ASSUME e <= k
       PROVE  Anchored(text, more, base, IF to <= start THEN start + Delta(edit) ELSE start)
  <2>1. PICK x \in Text : /\ Len(E(k)) = Len(E(s)) + (e - s) + Len(x)
                          /\ Len(D(k)) = Len(E(s)) + Len(t) + Len(x)
    BY <1>12, <1>20
  <2>2. Len(x) \in Nat /\ Len(E(s)) \in Nat
    BY <1>7, <1>8, <1>11
  <2>3. to <= start
    BY <1>1, <1>4, <1>7, <2>1, <2>2
  <2>4. Len(D(k)) = start + Delta(edit)
    BY <1>1, <1>4, <1>13, <2>1, <2>2
  <2>5. Anchors(text, more, base, start + Delta(edit), k)
    BY <1>4, <1>6, <1>16, <2>4 DEF Anchors, D, w
  <2>6. Anchored(text, more, base, start + Delta(edit))
    BY <2>5 DEF Anchored
  <2> QED  BY <2>3, <2>6
<1>21. ASSUME k < e
       PROVE  Anchored(text, more, base, IF to <= start THEN start + Delta(edit) ELSE start)
  <2>1. k + w <= s
    BY <1>1, <1>2, <1>4, <1>5, <1>21
  <2>2. D(k) = E(k)
    <3>1. k < s \/ (k = s /\ s < e)
      BY <1>1, <1>2, <1>4, <1>21, <2>1, SMTT(30)
    <3> QED  BY <1>7, <3>1 DEF Split, D, E, s, e, more
  <2>3. PICK x \in Text : E(s) = (E(k) \o Slice(text, k, k + w)) \o x
    <3>1. PICK m \in Nat : m = k + w
      BY <1>2, <1>4
    <3>2. k <= m /\ m <= Len(text) /\ Free(edits, k, m) /\ s \in m..Len(text)
      BY <1>1, <1>2, <1>4, <2>1, <3>1
    <3>3. \E X \in Text : E(s) = (E(k) \o Slice(text, k, m)) \o X
      BY <1>4, <3>2, Between, ZenonT(30) DEF E
    <3> QED  BY <3>1, <3>3
  <2>4. Len(E(s)) = start + w + Len(x) /\ Len(x) \in Nat /\ start \in Nat
    <3>1. PICK m \in Nat : m = k + w
      BY <1>2, <1>4
    <3>2. PICK y \in Text : y = Slice(text, k, m) /\ Len(y) = m - k
      BY <1>2, <1>4, <3>1, SliceIs
    <3>3. E(k) \in Text
      BY <1>7
    <3>4. Len(E(s)) = Len(E(k)) + Len(y) + Len(x)
      BY <1>9, <2>3, <3>1, <3>2, <3>3
    <3>5. Len(y) = w
      BY <1>2, <1>4, <3>1, <3>2
    <3> QED  BY <1>4, <1>11, <3>4, <3>5
  <2>5. CASE to <= start
    <3>1. w = 0 /\ e = s /\ Len(E(s)) = start
      BY <1>1, <1>2, <1>7, <2>4, <2>5, SMTT(30)
    <3>2. Len(D(s)) = start + Delta(edit)
      <4>1. PICK z \in Text : /\ Len(E(s)) = Len(E(s)) + (e - s) + Len(z)
                              /\ Len(D(s)) = Len(E(s)) + Len(t) + Len(z)
        BY <1>1, <1>8, <1>12, <3>1
      <4>2. Len(z) = 0
        BY <1>1, <1>11, <2>4, <3>1, <4>1, SMTT(30)
      <4> QED  BY <1>1, <1>13, <2>4, <3>1, <4>1, <4>2
    <3>3. base.end - base.start = 0 /\ base.start = base.end
      BY <1>1, <3>1 DEF w
    <3>4. more[Len(more)].selector.start = s /\ more[Len(more)].selector.end = s
      BY <1>17, <3>1 DEF s, e
    <3>5. s + (base.end - base.start) <= Len(text) /\ Free(more, s, s + (base.end - base.start))
      BY <1>1, <1>18, <3>1, <3>3
    <3>6. Anchors(text, more, base, start + Delta(edit), s)
      BY <1>17, <3>2, <3>3, <3>4, <3>5 DEF Anchors, D, s
    <3>7. Anchored(text, more, base, start + Delta(edit))
      BY <1>8, <3>6 DEF Anchored
    <3> QED  BY <2>5, <3>7
  <2>6. CASE ~(to <= start)
    <3>1. Anchors(text, more, base, start, k)
      BY <1>4, <1>6, <1>16, <2>2 DEF Anchors, D, w
    <3>2. Anchored(text, more, base, start)
      BY <3>1 DEF Anchored
    <3> QED  BY <2>6, <3>2
  <2> QED  BY <2>5, <2>6
<1>22. Anchored(text, more, base, IF to <= start THEN start + Delta(edit) ELSE start)
  <2>1. e <= k \/ k < e
    BY <1>1, <1>4
  <2> QED  BY <1>20, <1>21, <2>1
<1> QED  BY <1>22 DEF more, to

(* Without an edit a protection is anchored where it is.                    *)
LEMMA AnchoredAtFirst ==
  ASSUME NEW text \in Text, NEW base \in TextSelector,
         base.start <= base.end, base.end <= Len(text), Boundary(text, base.start)
  PROVE  Anchored(text, <<>>, base, base.start)
<1>1. Len(text) \in Nat /\ base.start \in Nat /\ base.end \in Nat /\ Len(<<>>) = 0
  BY LenProperties DEF Text, TextSelector
<1>2. PICK k \in 0..Len(text) : k = base.start
  BY <1>1
<1>3. k \in Nat /\ k + (base.end - base.start) <= Len(text) /\ 0 <= k /\ k <= Len(text)
  BY <1>1, <1>2
<1>4. Len(Edited(text, <<>>, k)) = k
  <2>1. Edited(text, <<>>, k) = Slice(text, 0, k)
    BY Unedited
  <2>2. Len(Slice(text, 0, k)) = k - 0
    BY <1>3, SliceIs
  <2> QED  BY <1>3, <2>1, <2>2
<1>5. Free(<<>>, k, k + (base.end - base.start))
  BY <1>1 DEF Free
<1> QED  BY <1>2, <1>3, <1>4, <1>5 DEF Anchored, Anchors

(* What an anchored protection spans is what it spanned, in the same place. *)
LEMMA AnchorsHold ==
  ASSUME NEW text \in Text, NEW edits \in Seq(Edit), NEW base \in TextSelector, NEW start \in Nat,
         base.start <= base.end, base.end <= Len(text), Anchored(text, edits, base, start)
  PROVE  LET now == Edited(text, edits, Len(text))
             end == start + (base.end - base.start)
         IN /\ end <= Len(now) /\ Slice(now, start, end) = Slice(text, base.start, base.end)
            /\ base.start < base.end => Slice(now, 0, start) = Edited(text, edits, base.start)
<1> DEFINE now == Edited(text, edits, Len(text))
           w == base.end - base.start
<1>1. /\ Len(text) \in Nat /\ base.start \in Nat /\ base.end \in Nat /\ w \in Nat
      /\ base.start + w = base.end
  BY LenProperties DEF Text, TextSelector
<1>2. PICK k \in 0..Len(text) : Anchors(text, edits, base, start, k)
  BY DEF Anchored
<1>3. PICK m \in Nat : m = k + w
  BY <1>1
<1>4. /\ k \in Nat /\ k <= m /\ m <= Len(text) /\ Free(edits, k, m)
      /\ start = Len(Edited(text, edits, k)) /\ m - k = w
      /\ (k = base.start \/ base.start = base.end)
  BY <1>1, <1>2, <1>3 DEF Anchors
<1>5. PICK u \in Text : u = Edited(text, edits, k)
  BY EditedIsText
<1>6. PICK v \in Text : v = Slice(text, k, m) /\ Len(v) = w
  <2>1. Slice(text, k, m) \in Text /\ Len(Slice(text, k, m)) = m - k
    BY <1>4, SliceIs
  <2> QED  BY <1>4, <2>1
<1>7. PICK x \in Text : now = (u \o v) \o x
  <2>1. Len(text) \in m..Len(text)
    BY <1>1, <1>4
  <2>2. \A j \in m..Len(text) : \E X \in Text :
          Edited(text, edits, j) = (Edited(text, edits, k) \o Slice(text, k, m)) \o X
    <3>1. base \in TextSelector /\ k \in Nat /\ m \in Nat /\ k <= m /\ m <= Len(text) /\ Free(edits, k, m)
      BY <1>3, <1>4
    <3> QED  BY <3>1, Between, ZenonT(30)
  <2>3. \E X \in Text : now = (Edited(text, edits, k) \o Slice(text, k, m)) \o X
    BY <2>1, <2>2
  <2> QED  BY <1>5, <1>6, <2>3
<1>8. v = Slice(text, base.start, base.end)
  <2>1. CASE k = base.start
    BY <1>1, <1>3, <1>6, <2>1
  <2>2. CASE base.start = base.end
    <3>1. w = 0 /\ m = k
      BY <1>1, <1>3, <1>4, <2>2, SMTT(30)
    <3>2. v = <<>>
      BY <1>4, <1>6, <3>1, SliceNone
    <3> QED  BY <1>1, <2>2, <3>2, SliceNone
  <2> QED  BY <1>4, <2>1, <2>2
<1>9. /\ Len((u \o v) \o x) = Len(u) + Len(v) + Len(x)
      /\ Slice((u \o v) \o x, 0, Len(u)) = u
      /\ Slice((u \o v) \o x, Len(u), Len(u) + Len(v)) = v
  BY SlicesOfJoined
<1>10. Len(x) \in Nat /\ start = Len(u)
  BY <1>4, <1>5, LenProperties DEF Text
<1> HIDE DEF now, w
<1>11. start + w <= Len(now) /\ Slice(now, start, start + w) = v /\ Slice(now, 0, start) = u
  BY <1>1, <1>6, <1>7, <1>9, <1>10
<1>12. base.start < base.end => u = Edited(text, edits, base.start)
  BY <1>1, <1>4, <1>5
<1> QED  BY <1>8, <1>11, <1>12 DEF now, w

-----------------------------------------------------------------------------
(* Documents and their blocks                                               *)

LEMMA LeastIn ==
  ASSUME NEW S \in SUBSET Nat, S # {}
  PROVE  Min(S) \in S
<1> DEFINE R == OpToRel(<, Nat)
<1>1. IsWellFoundedOn(R, Nat)
  BY NatLessThanWellFounded, Zenon
<1>2. \A i, j \in Nat : i < j => <<i, j>> \in R
  BY DEF OpToRel
<1> HIDE DEF R
<1>3. PICK n \in S : \A m \in S : ~(<<m, n>> \in R)
  BY <1>1, WFMin
<1>4. ASSUME NEW m \in S
      PROVE  n <= m
  <2>1. m \in Nat /\ n \in Nat /\ ~(m < n)
    BY <1>2, <1>3
  <2> QED  BY <2>1
<1> QED  BY <1>3, <1>4 DEF Min

DistinctIds(content) == \A i, j \in 1..Len(content) : content[i].id = content[j].id => i = j

LEMMA BlocksAre ==
  ASSUME NEW content \in Seq(TextBlock)
  PROVE  /\ Len(content) \in Nat /\ DOMAIN content = 1..Len(content)
         /\ \A i \in 1..Len(content) :
              /\ content[i] \in TextBlock /\ content[i].id \in Blocks /\ content[i].text \in Text
              /\ content[i] = [id |-> content[i].id, text |-> content[i].text]
<1>1. \A i \in 1..Len(content) : content[i] \in TextBlock
  BY ElementOfSeq
<1> QED  BY <1>1, LenProperties DEF TextBlock

LEMMA DistinctIsCounted ==
  ASSUME NEW content \in Seq(TextBlock)
  PROVE  LET ids == {content[i].id : i \in DOMAIN content}
         IN Cardinality(ids) = Len(content) <=> DistinctIds(content)
<1> DEFINE ids == {content[i].id : i \in DOMAIN content}
           S == 1..Len(content)
           f == [i \in S |-> content[i].id]
<1>1. DOMAIN content = S /\ Len(content) \in Nat
  BY LenProperties
<1>2. IsFiniteSet(S) /\ Cardinality(S) = Len(content)
  <2>1. 1 \in Int /\ Len(content) \in Int
    BY <1>1
  <2>2. IsFiniteSet(1..Len(content)) /\ Cardinality(1..Len(content)) = IF 1 > Len(content) THEN 0 ELSE Len(content) - 1 + 1
    BY <2>1, FS_Interval
  <2> QED  BY <1>1, <2>2
<1>3. ids = {content[i].id : i \in S}
  BY <1>1
<1> HIDE DEF S, ids
<1>4. f \in [S -> ids] /\ \A i \in S : f[i] = content[i].id
  BY <1>3
<1>5. f \in Surjection(S, ids)
  <2>1. \A t \in ids : \E i \in S : f[i] = t
    BY <1>3, <1>4
  <2> QED  BY <1>4, <2>1 DEF Surjection
<1> HIDE DEF f
<1>6. ASSUME Cardinality(ids) = Len(content)
      PROVE  DistinctIds(content)
  <2>1. f \in Injection(S, ids)
    BY <1>2, <1>5, <1>6, FS_SurjSameCardinalityImpliesInj
  <2> QED  BY <1>4, <2>1 DEF Injection, IsInjective, DistinctIds, S
<1>7. ASSUME DistinctIds(content)
      PROVE  Cardinality(ids) = Len(content)
  <2>1. f \in Injection(S, ids)
    BY <1>4, <1>7 DEF Injection, IsInjective, DistinctIds, S
  <2>2. ExistsBijection(S, ids)
    BY <1>5, <2>1 DEF ExistsBijection, Bijection
  <2> QED  BY <1>2, <2>2, FS_Bijection
<1> QED  BY <1>6, <1>7 DEF ids

LEMMA IndexIsIn ==
  ASSUME NEW doc, doc.content \in Seq(TextBlock), NEW id \in Ids(doc)
  PROVE  /\ IndexOf(doc, id) \in 1..Len(doc.content) /\ doc.content[IndexOf(doc, id)].id = id
         /\ TextOf(doc, id) \in Text /\ id \in Blocks
         /\ doc.content[IndexOf(doc, id)] = [id |-> id, text |-> TextOf(doc, id)]
<1>1. DOMAIN doc.content = 1..Len(doc.content)
  BY LenProperties
<1>2. \E i \in DOMAIN doc.content : doc.content[i].id = id
  BY DEF Ids
<1>3. IndexOf(doc, id) \in 1..Len(doc.content) /\ doc.content[IndexOf(doc, id)].id = id
  BY <1>1, <1>2 DEF IndexOf
<1> QED  BY <1>3, BlocksAre DEF TextOf

LEMMA TextOfBlock ==
  ASSUME NEW doc, doc.content \in Seq(TextBlock), DistinctIds(doc.content),
         NEW i \in 1..Len(doc.content)
  PROVE  /\ doc.content[i].id \in Ids(doc) /\ IndexOf(doc, doc.content[i].id) = i
         /\ Held(doc, doc.content[i].id) = {doc.content[i].text}
<1>1. DOMAIN doc.content = 1..Len(doc.content)
  BY LenProperties
<1>2. doc.content[i].id \in Ids(doc)
  BY <1>1 DEF Ids
<1>3. IndexOf(doc, doc.content[i].id) = i
  BY <1>2, IndexIsIn DEF DistinctIds
<1> QED  BY <1>2, <1>3 DEF Held, TextOf

(* Two documents hold the same under an id if the block is in both.         *)
LEMMA HeldIsTheBlock ==
  ASSUME NEW doc, doc.content \in Seq(TextBlock), DistinctIds(doc.content), NEW id
  PROVE  /\ id \notin Ids(doc) => Held(doc, id) = {}
         /\ \A t : (\E i \in 1..Len(doc.content) : doc.content[i] = [id |-> id, text |-> t]) => Held(doc, id) = {t}
         /\ id \in Ids(doc) => \E i \in 1..Len(doc.content), t \in Text :
              /\ doc.content[i] = [id |-> id, text |-> t] /\ Held(doc, id) = {t}
<1>1. id \notin Ids(doc) => Held(doc, id) = {}
  BY DEF Held
<1>2. ASSUME NEW t, NEW i \in 1..Len(doc.content), doc.content[i] = [id |-> id, text |-> t]
      PROVE  Held(doc, id) = {t}
  <2>1. doc.content[i].id = id /\ doc.content[i].text = t
    BY <1>2
  <2> QED  BY <2>1, TextOfBlock
<1>3. ASSUME id \in Ids(doc)
      PROVE  \E i \in 1..Len(doc.content), t \in Text :
               /\ doc.content[i] = [id |-> id, text |-> t] /\ Held(doc, id) = {t}
  BY <1>3, IndexIsIn DEF Held
<1> QED  BY <1>1, <1>2, <1>3

(* From one document to another a block comes along or does not.            *)
Comes(doc, later, id) ==
  \A t : (\E i \in 1..Len(doc.content) : doc.content[i] = [id |-> id, text |-> t])
           <=> (\E i \in 1..Len(later.content) : later.content[i] = [id |-> id, text |-> t])

LEMMA HeldComes ==
  ASSUME NEW doc, doc.content \in Seq(TextBlock), DistinctIds(doc.content),
         NEW later, later.content \in Seq(TextBlock), DistinctIds(later.content),
         NEW id, Comes(doc, later, id)
  PROVE  Held(later, id) = Held(doc, id)
<1>1. CASE id \in Ids(doc)
  <2>1. PICK t \in Text : /\ \E i \in 1..Len(doc.content) : doc.content[i] = [id |-> id, text |-> t]
                          /\ Held(doc, id) = {t}
    BY <1>1, HeldIsTheBlock
  <2>2. \E i \in 1..Len(later.content) : later.content[i] = [id |-> id, text |-> t]
    BY <2>1 DEF Comes
  <2> QED  BY <2>1, <2>2, HeldIsTheBlock
<1>2. CASE id \notin Ids(doc)
  <2>1. id \notin Ids(later)
    <3> SUFFICES ASSUME id \in Ids(later)
                 PROVE  FALSE
      OBVIOUS
    <3>1. PICK t \in Text : \E i \in 1..Len(later.content) : later.content[i] = [id |-> id, text |-> t]
      BY HeldIsTheBlock
    <3>2. PICK i \in 1..Len(doc.content) : doc.content[i] = [id |-> id, text |-> t]
      BY <3>1 DEF Comes
    <3>3. doc.content[i].id = id
      BY <3>2
    <3> QED  BY <1>2, <3>2, <3>3, TextOfBlock
  <2> QED  BY <1>2, <2>1, HeldIsTheBlock
<1> QED  BY <1>1, <1>2

(* What a block reads, and that there is none.                             *)
Reads(doc, id, text) == Held(doc, id) = {text}
Lacks(doc, id) == Held(doc, id) = {}

LEMMA BlockInserted ==
  ASSUME NEW doc, doc.content \in Seq(TextBlock), DistinctIds(doc.content),
         NEW later, NEW place \in 1..Len(doc.content) + 1, NEW block \in TextBlock,
         block.id \notin Ids(doc), later.content = InsertAt(doc.content, place, block)
  PROVE  /\ later.content \in Seq(TextBlock) /\ DistinctIds(later.content)
         /\ Len(later.content) = Len(doc.content) + 1
         /\ Lacks(doc, block.id) /\ Reads(later, block.id, block.text)
         /\ \A id : id # block.id => Held(later, id) = Held(doc, id)
<1> DEFINE c == doc.content
           d == later.content
           n == Len(c)
           front == SubSeq(c, 1, place - 1)
           back == SubSeq(c, place, n)
<1>1. /\ n \in Nat /\ \A i \in 1..n : c[i] \in TextBlock
      /\ place \in Nat /\ 1 <= place /\ place <= n + 1
  BY BlocksAre
<1>2. /\ front \in Seq(TextBlock) /\ Len(front) = place - 1
      /\ \A i \in 1..place - 1 : front[i] = c[i]
  <2>1. 1 \in Int /\ place - 1 \in Int /\ \A i \in 1..place - 1 : c[i] \in TextBlock
    BY <1>1
  <2>2. /\ front \in Seq(TextBlock) /\ Len(front) = IF 1 <= place - 1 THEN (place - 1) - 1 + 1 ELSE 0
        /\ \A i \in 1..(place - 1) - 1 + 1 : front[i] = c[1 + i - 1]
    BY <2>1, SubSeqProperties
  <2>3. (place - 1) - 1 + 1 = place - 1 /\ \A i \in 1..place - 1 : 1 + i - 1 = i
    BY <1>1
  <2> HIDE DEF front, c
  <2> QED  BY <1>1, <2>2, <2>3
<1>3. /\ back \in Seq(TextBlock) /\ Len(back) = n + 1 - place
      /\ \A i \in 1..n + 1 - place : back[i] = c[place + i - 1]
  <2>1. place \in Int /\ n \in Int /\ \A i \in place..n : c[i] \in TextBlock
    BY <1>1
  <2>2. /\ back \in Seq(TextBlock) /\ Len(back) = IF place <= n THEN n - place + 1 ELSE 0
        /\ \A i \in 1..n - place + 1 : back[i] = c[place + i - 1]
    BY <2>1, SubSeqProperties
  <2>3. n - place + 1 = n + 1 - place
    BY <1>1
  <2> HIDE DEF back, c
  <2> QED  BY <1>1, <2>2, <2>3, SMTT(30)
<1>4. d = (front \o <<block>>) \o back
  BY DEF InsertAt
<1> HIDE DEF front, back, c, d, n
<1>5. /\ <<block>> \in Seq(TextBlock) /\ Len(<<block>>) = 1 /\ <<block>>[1] = block
  OBVIOUS
<1>6. /\ front \o <<block>> \in Seq(TextBlock) /\ Len(front \o <<block>>) = place
      /\ \A i \in 1..place : (front \o <<block>>)[i] = IF i < place THEN c[i] ELSE block
  <2>1. /\ front \o <<block>> \in Seq(TextBlock) /\ Len(front \o <<block>>) = Len(front) + 1
        /\ \A i \in 1..Len(front) + 1 : (front \o <<block>>)[i] =
             IF i <= Len(front) THEN front[i] ELSE <<block>>[i - Len(front)]
    BY <1>2, <1>5, ConcatProperties
  <2>2. ASSUME NEW i \in 1..place
        PROVE  (front \o <<block>>)[i] = IF i < place THEN c[i] ELSE block
    <3>1. CASE i < place
      BY <1>1, <1>2, <2>1, <3>1
    <3>2. CASE ~(i < place)
      <4>1. i - Len(front) = 1 /\ ~(i <= Len(front)) /\ i \in 1..Len(front) + 1
        BY <1>1, <1>2, <3>2
      <4> QED  BY <1>5, <2>1, <3>2, <4>1
    <3> QED  BY <3>1, <3>2
  <2> QED  BY <1>1, <1>2, <2>1, <2>2
<1>7. /\ d \in Seq(TextBlock) /\ Len(d) = n + 1
      /\ \A i \in 1..n + 1 : d[i] = IF i < place THEN c[i] ELSE IF i = place THEN block ELSE c[i - 1]
  <2> DEFINE head == front \o <<block>>
  <2>0. head \in Seq(TextBlock) /\ Len(head) = place
    BY <1>6
  <2>1. /\ head \o back \in Seq(TextBlock) /\ Len(head \o back) = Len(head) + Len(back)
        /\ \A i \in 1..Len(head) + Len(back) : (head \o back)[i] =
             IF i <= Len(head) THEN head[i] ELSE back[i - Len(head)]
    <3> HIDE DEF head
    <3> QED  BY <1>3, <2>0, ConcatProperties
  <2>2. Len(head) + Len(back) = n + 1
    <3> HIDE DEF head
    <3> QED  BY <1>1, <1>3, <2>0
  <2>3. ASSUME NEW i \in 1..n + 1
        PROVE  d[i] = IF i < place THEN c[i] ELSE IF i = place THEN block ELSE c[i - 1]
    <3>1. CASE i <= place
      <4>1. i \in 1..place
        BY <1>1, <3>1
      <4>2. d[i] = head[i]
        BY <1>4, <2>0, <2>1, <2>2, <3>1
      <4> QED  BY <1>1, <1>6, <3>1, <4>1, <4>2
    <3>2. CASE ~(i <= place)
      <4>1. i - place \in 1..n + 1 - place /\ place + (i - place) - 1 = i - 1 /\ ~(i < place) /\ i # place
        BY <1>1, <3>2
      <4>2. d[i] = back[i - place]
        BY <1>4, <2>0, <2>1, <2>2, <3>2
      <4> QED  BY <1>3, <4>1, <4>2
    <3> QED  BY <3>1, <3>2
  <2> HIDE DEF head
  <2> QED  BY <1>4, <2>1, <2>2, <2>3 DEF head
<1>8. \A i \in 1..n : c[i].id # block.id
  BY TextOfBlock DEF c, n
<1>9. DistinctIds(d)
  <2> SUFFICES ASSUME NEW i \in 1..n + 1, NEW j \in 1..n + 1, d[i].id = d[j].id, i < j
               PROVE  FALSE
    BY <1>1, <1>7 DEF DistinctIds
  <2>1. CASE j < place
    <3>1. d[i] = c[i] /\ d[j] = c[j] /\ i \in 1..n /\ j \in 1..n
      BY <1>1, <1>7, <2>1
    <3> QED  BY <3>1 DEF DistinctIds, c, n
  <2>2. CASE j = place
    <3>1. d[i] = c[i] /\ d[j] = block /\ i \in 1..n
      BY <1>1, <1>7, <2>2
    <3> QED  BY <1>8, <3>1
  <2>3. CASE i = place
    <3>1. d[i] = block /\ d[j] = c[j - 1] /\ j - 1 \in 1..n
      BY <1>1, <1>7, <2>3
    <3> QED  BY <1>8, <3>1
  <2>4. CASE i < place /\ place < j
    <3>1. d[i] = c[i] /\ d[j] = c[j - 1] /\ i \in 1..n /\ j - 1 \in 1..n /\ i # j - 1
      BY <1>1, <1>7, <2>4
    <3> QED  BY <3>1 DEF DistinctIds, c, n
  <2>5. CASE place < i
    <3>1. d[i] = c[i - 1] /\ d[j] = c[j - 1] /\ i - 1 \in 1..n /\ j - 1 \in 1..n /\ i - 1 # j - 1
      BY <1>1, <1>7, <2>5
    <3> QED  BY <3>1 DEF DistinctIds, c, n
  <2> QED  BY <1>1, <2>1, <2>2, <2>3, <2>4, <2>5
<1>10. ASSUME NEW id, id # block.id
       PROVE  Comes(doc, later, id)
  <2>1. ASSUME NEW t, NEW i \in 1..n, c[i] = [id |-> id, text |-> t]
        PROVE  \E j \in 1..n + 1 : d[j] = [id |-> id, text |-> t]
    <3>1. CASE i < place
      <4>1. i \in 1..n + 1 /\ d[i] = c[i]
        BY <1>1, <1>7, <3>1
      <4> QED  BY <2>1, <4>1
    <3>2. CASE ~(i < place)
      <4>1. i + 1 \in 1..n + 1 /\ ~(i + 1 < place) /\ i + 1 # place /\ (i + 1) - 1 = i
        BY <1>1, <3>2
      <4>2. d[i + 1] = c[i]
        BY <1>7, <4>1
      <4> QED  BY <2>1, <4>1, <4>2
    <3> QED  BY <3>1, <3>2
  <2>2. ASSUME NEW t, NEW i \in 1..n + 1, d[i] = [id |-> id, text |-> t]
        PROVE  \E j \in 1..n : c[j] = [id |-> id, text |-> t]
    <3>1. CASE i < place
      <4>1. i \in 1..n /\ d[i] = c[i]
        BY <1>1, <1>7, <3>1
      <4> QED  BY <2>2, <4>1
    <3>2. CASE i = place
      <4>1. d[i] = block /\ d[i].id = id
        BY <1>1, <1>7, <2>2, <3>2
      <4> QED  BY <1>10, <4>1
    <3>3. CASE ~(i < place) /\ i # place
      <4>1. i - 1 \in 1..n /\ d[i] = c[i - 1]
        BY <1>1, <1>7, <3>3
      <4> QED  BY <2>2, <4>1
    <3> QED  BY <3>1, <3>2, <3>3
  <2> QED  BY <1>7, <2>1, <2>2 DEF Comes, c, d, n
<1>11. d[place] = block /\ place \in 1..n + 1
  BY <1>1, <1>7
<1>12. Held(later, block.id) = {block.text}
  <2>1. later.content[place].id = block.id /\ later.content[place].text = block.text /\ place \in 1..Len(later.content)
    BY <1>7, <1>11 DEF d
  <2>2. Held(later, later.content[place].id) = {later.content[place].text}
    BY <1>7, <1>9, <2>1, TextOfBlock DEF d
  <2> QED  BY <2>1, <2>2
<1>13. Held(doc, block.id) = {}
  BY HeldIsTheBlock
<1>14. \A id : id # block.id => Held(later, id) = Held(doc, id)
  BY <1>7, <1>9, <1>10, HeldComes DEF d
<1> QED  BY <1>7, <1>9, <1>12, <1>13, <1>14 DEF d, n, c, Lacks, Reads

LEMMA BlockRemoved ==
  ASSUME NEW doc, doc.content \in Seq(TextBlock), DistinctIds(doc.content),
         NEW later, NEW place \in 1..Len(doc.content),
         later.content = RemoveAt(doc.content, place)
  PROVE  /\ later.content \in Seq(TextBlock) /\ DistinctIds(later.content)
         /\ Len(later.content) = Len(doc.content) - 1
         /\ Lacks(later, doc.content[place].id)
         /\ \A id : id # doc.content[place].id => Held(later, id) = Held(doc, id)
<1> DEFINE c == doc.content
           d == later.content
           n == Len(c)
           front == SubSeq(c, 1, place - 1)
           back == SubSeq(c, place + 1, n)
<1>1. /\ n \in Nat /\ \A i \in 1..n : c[i] \in TextBlock
      /\ place \in Nat /\ 1 <= place /\ place <= n
  BY BlocksAre
<1>2. /\ front \in Seq(TextBlock) /\ Len(front) = place - 1
      /\ \A i \in 1..place - 1 : front[i] = c[i]
  <2>1. 1 \in Int /\ place - 1 \in Int /\ \A i \in 1..place - 1 : c[i] \in TextBlock
    BY <1>1
  <2>2. /\ front \in Seq(TextBlock) /\ Len(front) = IF 1 <= place - 1 THEN (place - 1) - 1 + 1 ELSE 0
        /\ \A i \in 1..(place - 1) - 1 + 1 : front[i] = c[1 + i - 1]
    BY <2>1, SubSeqProperties
  <2>3. (place - 1) - 1 + 1 = place - 1 /\ \A i \in 1..place - 1 : 1 + i - 1 = i
    BY <1>1
  <2> HIDE DEF front, c
  <2> QED  BY <1>1, <2>2, <2>3
<1>3. /\ back \in Seq(TextBlock) /\ Len(back) = n - place
      /\ \A i \in 1..n - place : back[i] = c[place + i]
  <2>1. place + 1 \in Int /\ n \in Int /\ \A i \in place + 1..n : c[i] \in TextBlock
    BY <1>1
  <2>2. /\ back \in Seq(TextBlock) /\ Len(back) = IF place + 1 <= n THEN n - (place + 1) + 1 ELSE 0
        /\ \A i \in 1..n - (place + 1) + 1 : back[i] = c[(place + 1) + i - 1]
    BY <2>1, SubSeqProperties
  <2>3. n - (place + 1) + 1 = n - place
    BY <1>1
  <2> HIDE DEF back, c
  <2>4. Len(back) = n - place
    BY <1>1, <2>2
  <2>5. ASSUME NEW i \in 1..n - place
        PROVE  back[i] = c[place + i]
    <3>1. i \in 1..n - (place + 1) + 1 /\ (place + 1) + i - 1 = place + i
      BY <1>1, <2>3
    <3> QED  BY <2>2, <3>1
  <2> QED  BY <2>2, <2>4, <2>5
<1>4. d = front \o back
  BY DEF RemoveAt
<1> HIDE DEF front, back, c, d, n
<1>5. /\ d \in Seq(TextBlock) /\ Len(d) = n - 1
      /\ \A i \in 1..n - 1 : d[i] = IF i < place THEN c[i] ELSE c[i + 1]
  <2>1. /\ front \o back \in Seq(TextBlock) /\ Len(front \o back) = Len(front) + Len(back)
        /\ \A i \in 1..Len(front) + Len(back) : (front \o back)[i] =
             IF i <= Len(front) THEN front[i] ELSE back[i - Len(front)]
    BY <1>2, <1>3, ConcatProperties
  <2>2. Len(front) + Len(back) = n - 1
    BY <1>1, <1>2, <1>3
  <2>3. ASSUME NEW i \in 1..n - 1
        PROVE  d[i] = IF i < place THEN c[i] ELSE c[i + 1]
    <3>1. CASE i < place
      BY <1>1, <1>2, <1>4, <2>1, <2>2, <3>1
    <3>2. CASE ~(i < place)
      <4>1. i - Len(front) \in 1..n - place /\ place + (i - Len(front)) = i + 1 /\ ~(i <= Len(front))
        BY <1>1, <1>2, <3>2
      <4>2. d[i] = back[i - Len(front)]
        BY <1>4, <2>1, <2>2, <4>1
      <4> QED  BY <1>3, <3>2, <4>1, <4>2
    <3> QED  BY <3>1, <3>2
  <2> QED  BY <1>4, <2>1, <2>2, <2>3
<1>6. \A i, j \in 1..n : c[i].id = c[j].id => i = j
  BY DEF DistinctIds, c, n
<1>7. DistinctIds(d)
  <2> SUFFICES ASSUME NEW i \in 1..n - 1, NEW j \in 1..n - 1, d[i].id = d[j].id, i < j
               PROVE  FALSE
    BY <1>1, <1>5 DEF DistinctIds
  <2>1. CASE j < place
    <3>1. d[i] = c[i] /\ d[j] = c[j] /\ i \in 1..n /\ j \in 1..n
      BY <1>1, <1>5, <2>1
    <3> QED  BY <1>6, <3>1
  <2>2. CASE i < place /\ place <= j
    <3>1. d[i] = c[i] /\ d[j] = c[j + 1] /\ i \in 1..n /\ j + 1 \in 1..n /\ i # j + 1
      BY <1>1, <1>5, <2>2
    <3> QED  BY <1>6, <3>1
  <2>3. CASE place <= i
    <3>1. d[i] = c[i + 1] /\ d[j] = c[j + 1] /\ i + 1 \in 1..n /\ j + 1 \in 1..n /\ i + 1 # j + 1
      BY <1>1, <1>5, <2>3
    <3> QED  BY <1>6, <3>1
  <2> QED  BY <1>1, <2>1, <2>2, <2>3
<1>8. ASSUME NEW id, id # c[place].id
      PROVE  Comes(doc, later, id)
  <2>1. ASSUME NEW t, NEW i \in 1..n, c[i] = [id |-> id, text |-> t]
        PROVE  \E j \in 1..n - 1 : d[j] = [id |-> id, text |-> t]
    <3>1. CASE i < place
      <4>1. i \in 1..n - 1 /\ d[i] = c[i]
        BY <1>1, <1>5, <3>1
      <4> QED  BY <2>1, <4>1
    <3>2. CASE place < i
      <4>1. i - 1 \in 1..n - 1 /\ ~(i - 1 < place) /\ (i - 1) + 1 = i
        BY <1>1, <3>2
      <4>2. d[i - 1] = c[i]
        BY <1>5, <4>1
      <4> QED  BY <2>1, <4>1, <4>2
    <3>3. CASE i = place
      <4>1. c[place].id = id
        BY <2>1, <3>3
      <4> QED  BY <1>8, <4>1
    <3> QED  BY <1>1, <3>1, <3>2, <3>3
  <2>2. ASSUME NEW t, NEW i \in 1..n - 1, d[i] = [id |-> id, text |-> t]
        PROVE  \E j \in 1..n : c[j] = [id |-> id, text |-> t]
    <3>1. i \in 1..n /\ i + 1 \in 1..n
      BY <1>1
    <3> QED  BY <1>5, <2>2, <3>1
  <2> QED  BY <1>5, <2>1, <2>2 DEF Comes, c, d, n
<1>9. Held(later, c[place].id) = {}
  <2>1. ASSUME NEW i \in 1..n - 1
        PROVE  d[i].id # c[place].id
    <3>1. CASE i < place
      <4>1. d[i] = c[i] /\ i \in 1..n /\ place \in 1..n /\ i # place
        BY <1>1, <1>5, <3>1
      <4> QED  BY <1>6, <4>1
    <3>2. CASE ~(i < place)
      <4>1. d[i] = c[i + 1] /\ i + 1 \in 1..n /\ place \in 1..n /\ i + 1 # place
        BY <1>1, <1>5, <3>2
      <4> QED  BY <1>6, <4>1
    <3> QED  BY <3>1, <3>2
  <2>2. DOMAIN d = 1..n - 1
    BY <1>5, LenProperties
  <2>3. c[place].id \notin Ids(later)
    BY <2>1, <2>2 DEF Ids, d
  <2> QED  BY <2>3 DEF Held
<1>10. \A id : id # c[place].id => Held(later, id) = Held(doc, id)
  BY <1>5, <1>7, <1>8, HeldComes DEF d
<1> QED  BY <1>5, <1>7, <1>9, <1>10 DEF d, n, c, Lacks

LEMMA BlockReplaced ==
  ASSUME NEW doc, doc.content \in Seq(TextBlock), DistinctIds(doc.content),
         NEW later, NEW place \in 1..Len(doc.content), NEW block \in TextBlock,
         block.id = doc.content[place].id,
         later.content = [doc.content EXCEPT ![place] = block]
  PROVE  /\ later.content \in Seq(TextBlock) /\ DistinctIds(later.content)
         /\ Len(later.content) = Len(doc.content)
         /\ Reads(later, block.id, block.text)
         /\ \A id : id # block.id => Held(later, id) = Held(doc, id)
<1> DEFINE c == doc.content
           d == later.content
           n == Len(c)
<1>1. /\ d \in Seq(TextBlock) /\ Len(d) = n
      /\ \A i \in 1..n : d[i] = IF i = place THEN block ELSE c[i]
  BY ExceptSeq
<1>2. place \in 1..n /\ \A i, j \in 1..n : c[i].id = c[j].id => i = j
  BY DEF DistinctIds
<1>3. block.id = c[place].id
  OBVIOUS
<1> HIDE DEF c, d, n
<1>4. \A i \in 1..n : d[i].id = c[i].id
  BY <1>1, <1>3
<1>5. DistinctIds(d)
  BY <1>1, <1>2, <1>4 DEF DistinctIds
<1>6. Held(later, block.id) = {block.text}
  <2>1. place \in 1..Len(later.content) /\ later.content[place] = block
    BY <1>1, <1>2 DEF d
  <2>2. Held(later, later.content[place].id) = {later.content[place].text}
    BY <1>1, <1>5, <2>1, TextOfBlock DEF d
  <2> QED  BY <2>1, <2>2
<1>7. ASSUME NEW id, id # block.id
      PROVE  Comes(doc, later, id)
  <2>1. ASSUME NEW t, NEW i \in 1..n
        PROVE  c[i] = [id |-> id, text |-> t] <=> d[i] = [id |-> id, text |-> t]
    <3>1. CASE i = place
      <4>1. c[i].id # id /\ d[i].id # id
        BY <1>3, <1>4, <1>7, <3>1
      <4> QED  BY <4>1
    <3>2. CASE i # place
      BY <1>1, <3>2
    <3> QED  BY <3>1, <3>2
  <2> QED  BY <1>1, <2>1 DEF Comes, c, d, n
<1>8. \A id : id # block.id => Held(later, id) = Held(doc, id)
  BY <1>1, <1>5, <1>7, HeldComes DEF d
<1> QED  BY <1>1, <1>5, <1>6, <1>8 DEF d, n, c, Reads

-----------------------------------------------------------------------------
(* What the checks that passed say                                          *)

LEMMA CheckedSelector ==
  ASSUME NEW sel, NEW text, NEW rev, SelectorFailure(sel, text, rev) = NoFailure
  PROVE  /\ sel.revision = rev /\ 0 <= sel.start /\ sel.start <= sel.end /\ sel.end <= Len(text)
         /\ Boundary(text, sel.start) /\ Boundary(text, sel.end)
         /\ Slice(text, sel.start, sel.end) = sel.exact
BY DEF SelectorFailure, NoFailure

LEMMA CheckedText ==
  ASSUME NEW operation, TextFailure(operation) = NoFailure
  PROVE  LET sel == operation.selector
         IN /\ sel.block \in Ids(document)
            /\ SelectorFailure(sel, TextOf(document, sel.block), revision) = NoFailure
            /\ \A i \in DOMAIN document.protections : ~Overlap(document.protections[i], sel)
BY DEF TextFailure, NoFailure

LEMMA CheckedPatch ==
  ASSUME NEW p, EarlyFailure(p) = NoFailure
  PROVE  /\ p \in Patch /\ ~Conflicting(p.operations)
         /\ \A i \in 1..Len(p.operations) :
              p.operations[i].type = "replace-text" => TextFailure(p.operations[i]) = NoFailure
<1> DEFINE failing == {i \in DOMAIN p.operations : /\ p.operations[i].type = "replace-text"
                                                   /\ TextFailure(p.operations[i]) # NoFailure}
<1>1. p \in Patch
  BY DEF EarlyFailure, NoFailure
<1>2. ~Conflicting(p.operations)
  BY DEF EarlyFailure, NoFailure
<1>3. failing # {} => TextFailure(p.operations[Min(failing)]) = NoFailure
  BY DEF EarlyFailure, NoFailure
<1>4. DOMAIN p.operations = 1..Len(p.operations) /\ Len(p.operations) \in Nat
  <2>1. p.operations \in Seq(PatchOperation)
    BY <1>1 DEF Patch
  <2> QED  BY <2>1, LenProperties
<1>5. failing = {}
  <2> SUFFICES ASSUME failing # {}
               PROVE  FALSE
    OBVIOUS
  <2>1. failing \in SUBSET Nat
    BY <1>4
  <2>2. Min(failing) \in failing
    BY <2>1, LeastIn
  <2> QED  BY <1>3, <2>2
<1> QED  BY <1>1, <1>2, <1>4, <1>5

LEMMA CheckedDocument ==
  ASSUME NEW doc \in PromptDocument, NEW rev, DocumentFailure(doc, rev) = NoFailure
  PROVE  /\ Len(doc.content) \in 1..MaxBlocks /\ DistinctIds(doc.content)
         /\ \A i \in 1..Len(doc.protections) :
              LET sel == doc.protections[i]
              IN /\ sel \in TextSelector /\ sel.block \in Ids(doc)
                 /\ SelectorFailure(sel, TextOf(doc, sel.block), rev) = NoFailure
<1>1. doc.content \in Seq(TextBlock) /\ doc.protections \in Seq(TextSelector)
  BY DEF PromptDocument
<1>2. Len(doc.content) \in 1..MaxBlocks /\ Cardinality(Ids(doc)) = Len(doc.content)
  BY DEF DocumentFailure, NoFailure
<1>3. DistinctIds(doc.content)
  BY <1>1, <1>2, DistinctIsCounted DEF Ids
<1>4. DOMAIN doc.protections = 1..Len(doc.protections) /\ Len(doc.protections) \in Nat
  BY <1>1, LenProperties
<1>5. Failing(doc, rev) # {} => ProtectionFailure(doc, rev, doc.protections[Min(Failing(doc, rev))]) = NoFailure
  BY DEF DocumentFailure, NoFailure
<1>6. Failing(doc, rev) = {}
  <2> SUFFICES ASSUME Failing(doc, rev) # {}
               PROVE  FALSE
    OBVIOUS
  <2>1. Failing(doc, rev) \in SUBSET Nat
    BY <1>4 DEF Failing
  <2>2. Min(Failing(doc, rev)) \in Failing(doc, rev)
    BY <2>1, LeastIn
  <2> QED  BY <1>5, <2>2 DEF Failing
<1>7. ASSUME NEW i \in 1..Len(doc.protections)
      PROVE  LET sel == doc.protections[i]
             IN /\ sel \in TextSelector /\ sel.block \in Ids(doc)
                /\ SelectorFailure(sel, TextOf(doc, sel.block), rev) = NoFailure
  <2>1. ProtectionFailure(doc, rev, doc.protections[i]) = NoFailure
    BY <1>4, <1>6 DEF Failing
  <2> QED  BY <1>1, <2>1, ElementOfSeq DEF ProtectionFailure, NoFailure
<1> QED  BY <1>2, <1>3, <1>7

-----------------------------------------------------------------------------
(* The inductive invariant                                                  *)

ChangeRecord ==
  [type : {"replace-text", "insert-content-block", "replace-content-block",
           "remove-content-block", "set-namespaced-extension"},
   block : Blocks \cup {NoBlock}, before : SUBSET Text, after : SUBSET Text]

Typed ==
  /\ revision \in Nat /\ pc \in {"idle", "apply"}
  /\ document \in PromptDocument /\ candidate \in PromptDocument
  /\ patch = NoPatch \/ patch \in Patch
  /\ next \in 1..Len(patch.operations) + 1
  /\ textEdits \in [Blocks -> Seq(Edit)]
  /\ changes \in Seq(ChangeRecord) /\ Len(changes) = next - 1
  /\ outcome \in FailureCodes \cup {NoFailure, "applied"}

(* The accepted document passed the checks a document has to pass.          *)
Valid == DocumentFailure(document, revision) = NoFailure
Whole == DistinctIds(candidate.content) /\ Len(candidate.content) # 0

(* Nothing of a Patch is left when it is over.                              *)
Fresh ==
  candidate = document /\ textEdits = [b \in Blocks |-> <<>>] /\ changes = <<>> /\ next = 1
Settled == pc = "idle" => patch = NoPatch /\ Fresh

(* While it is applied, the Patch is one that passed the first checks.      *)
Checked == pc = "apply" => EarlyFailure(patch) = NoFailure

(* What was replaced in a block are text operations of the Patch.           *)
Selects(j, id) ==
  patch.operations[j].type = "replace-text" /\ patch.operations[j].selector.block = id
Sourced ==
  \A id \in Blocks : \A i \in 1..Len(textEdits[id]) : \E j \in 1..Len(patch.operations) :
    /\ Selects(j, id)
    /\ textEdits[id][i] = [selector |-> patch.operations[j].selector,
                           text |-> patch.operations[j].text]

(* A block that is protected or that the Patch edits stays, and reads as    *)
(* what its edits so far make of its text at once; the sums that place the  *)
(* next edit are right.                                                    *)
Fixed(id) ==
  \/ \E i \in 1..Len(document.protections) : document.protections[i].block = id
  \/ \E j \in 1..Len(patch.operations) : Selects(j, id)
Tracked ==
  \A id \in Ids(document) :
    LET base == TextOf(document, id)
    IN /\ Measured(base, textEdits[id])
       /\ Fixed(id) => Held(candidate, id) = {Edited(base, textEdits[id], Len(base))}

(* A protection is where its text is.                                       *)
SameQuote(base, now) ==
  /\ now.block = base.block /\ now.revision = base.revision /\ now.exact = base.exact
  /\ now.prefix = base.prefix /\ now.suffix = base.suffix
  /\ now.end = now.start + (base.end - base.start)
Guarded ==
  /\ Len(candidate.protections) = Len(document.protections)
  /\ \A i \in 1..Len(document.protections) :
       LET base == document.protections[i]
           now == candidate.protections[i]
       IN /\ SameQuote(base, now)
          /\ Anchored(TextOf(document, base.block), textEdits[base.block], base, now.start)

IInv ==
  /\ Typed /\ Valid /\ Whole /\ Settled /\ Checked /\ Sourced /\ Tracked /\ Guarded
  /\ ChangesTellTheStory

LEMMA DocumentIs ==
  ASSUME NEW doc \in PromptDocument
  PROVE  /\ doc.content \in Seq(TextBlock) /\ doc.protections \in Seq(TextSelector)
         /\ doc.extensions \in [Keys -> Text \cup {NoValue}]
         /\ DOMAIN doc.content = 1..Len(doc.content) /\ Len(doc.content) \in Nat
         /\ DOMAIN doc.protections = 1..Len(doc.protections) /\ Len(doc.protections) \in Nat
         /\ \A i \in 1..Len(doc.protections) : doc.protections[i] \in TextSelector
<1>1. /\ doc.content \in Seq(TextBlock) /\ doc.protections \in Seq(TextSelector)
      /\ doc.extensions \in [Keys -> Text \cup {NoValue}]
  BY DEF PromptDocument
<1> QED  BY <1>1, LenProperties, ElementOfSeq

(* What is fresh has nothing to go wrong.                                   *)
LEMMA FreshHolds ==
  ASSUME Typed, Valid, Fresh
  PROVE  Whole /\ Sourced /\ Tracked /\ Guarded /\ ChangesTellTheStory
<1>1. /\ candidate = document /\ changes = <<>>
      /\ \A id \in Blocks : textEdits[id] = <<>>
  BY DEF Fresh
<1>2. document \in PromptDocument /\ revision \in Nat
  BY DEF Typed
<1>3. /\ Len(document.content) \in 1..MaxBlocks /\ DistinctIds(document.content)
      /\ \A i \in 1..Len(document.protections) :
           LET sel == document.protections[i]
           IN /\ sel \in TextSelector /\ sel.block \in Ids(document)
              /\ SelectorFailure(sel, TextOf(document, sel.block), revision) = NoFailure
  BY <1>2, CheckedDocument DEF Valid
<1>4. document.content \in Seq(TextBlock) /\ Len(<<>>) = 0
  BY <1>2, DocumentIs
<1>5. \A id \in Ids(document) : TextOf(document, id) \in Text /\ id \in Blocks
  BY <1>4, IndexIsIn
<1>6. Whole
  BY <1>1, <1>3 DEF Whole
<1>7. Sourced
  BY <1>1, <1>4 DEF Sourced
<1>8. Tracked
  <2>1. ASSUME NEW id \in Ids(document)
        PROVE  LET base == TextOf(document, id)
               IN /\ Measured(base, textEdits[id])
                  /\ Held(candidate, id) = {Edited(base, textEdits[id], Len(base))}
    <3>1. PICK base \in Text : base = TextOf(document, id)
      BY <1>5
    <3>2. textEdits[id] = <<>>
      BY <1>1, <1>5
    <3>3. Edited(base, <<>>, Len(base)) = base
      <4>1. Len(base) \in 0..Len(base)
        BY <3>1, LenProperties DEF Text
      <4> QED  BY <3>1, <4>1, Unedited, SliceAll
    <3>4. Measured(base, <<>>)
      BY <3>1, MeasuredUnedited
    <3> QED  BY <1>1, <3>1, <3>2, <3>3, <3>4 DEF Held
  <2> QED  BY <2>1 DEF Tracked
<1>9. Guarded
  <2>1. ASSUME NEW i \in 1..Len(document.protections)
        PROVE  LET base == document.protections[i]
               IN /\ SameQuote(base, base)
                  /\ Anchored(TextOf(document, base.block), textEdits[base.block], base, base.start)
    <3>1. PICK base \in TextSelector : base = document.protections[i]
      BY <1>3
    <3>2. base.block \in Ids(document)
      BY <1>3, <3>1
    <3>3. PICK text \in Text : text = TextOf(document, base.block)
      BY <1>5, <3>2
    <3>4. base.start <= base.end /\ base.end <= Len(text) /\ Boundary(text, base.start)
      BY <1>3, <3>1, <3>3, CheckedSelector
    <3>5. Anchored(text, <<>>, base, base.start)
      BY <3>1, <3>3, <3>4, AnchoredAtFirst
    <3>6. SameQuote(base, base)
      <4>1. base.start \in Nat /\ base.end \in Nat
        BY <3>1 DEF TextSelector
      <4> QED  BY <4>1 DEF SameQuote
    <3>7. textEdits[base.block] = <<>>
      BY <1>1, <1>5, <3>2
    <3> QED  BY <3>1, <3>3, <3>5, <3>6, <3>7
  <2> QED  BY <1>1, <2>1 DEF Guarded
<1>10. ChangesTellTheStory
  <2>1. \A id : Story(id) = {}
    BY <1>1 DEF Story
  <2> QED  BY <1>1, <2>1 DEF ChangesTellTheStory
<1> QED  BY <1>6, <1>7, <1>8, <1>9, <1>10

-----------------------------------------------------------------------------
(* One operation                                                            *)

LEMMA OperationIs ==
  ASSUME NEW operation \in PatchOperation
  PROVE  /\ operation.type = "replace-text" =>
              operation.selector \in TextSelector /\ operation.text \in Text
         /\ operation.type = "insert-content-block" =>
              operation.block \in TextBlock /\ operation.before \in Blocks \cup {NoBlock}
         /\ operation.type = "replace-content-block" =>
              operation.blockId \in Blocks /\ operation.block \in TextBlock
         /\ operation.type = "remove-content-block" => operation.blockId \in Blocks
         /\ operation.type = "set-namespaced-extension" =>
              operation.key \in Keys /\ operation.value \in Text
         /\ operation.type \in {"replace-text", "insert-content-block", "replace-content-block",
                                "remove-content-block", "set-namespaced-extension"}
BY DEF PatchOperation

LEMMA Operating ==
  ASSUME Typed, Checked, pc = "apply", next <= Len(patch.operations)
  PROVE  /\ patch \in Patch /\ op \in PatchOperation /\ next \in 1..Len(patch.operations)
         /\ Len(patch.operations) \in Nat /\ next \in Nat
         /\ DOMAIN patch.operations = 1..Len(patch.operations)
         /\ \A j \in 1..Len(patch.operations) : patch.operations[j] \in PatchOperation
<1>1. patch \in Patch
  BY CheckedPatch DEF Checked
<1>2. patch.operations \in Seq(PatchOperation)
  BY <1>1 DEF Patch
<1>3. Len(patch.operations) \in Nat /\ DOMAIN patch.operations = 1..Len(patch.operations)
  BY <1>2, LenProperties
<1>4. next \in 1..Len(patch.operations)
  BY <1>3 DEF Typed
<1> QED  BY <1>1, <1>2, <1>3, <1>4, ElementOfSeq DEF op

(* A change that starts where the one before it ended, and ends where the   *)
(* block is now, continues the story.                                       *)
LEMMA StoryGrows ==
  ASSUME Typed, ChangesTellTheStory, NEW c \in ChangeRecord,
         changes' = Append(changes, c), document' = document,
         \A id \in Blocks : id # c.block => Held(candidate', id) = Held(candidate, id),
         c.block \in Blocks =>
           c.before = Held(candidate, c.block) /\ c.after = Held(candidate', c.block)
  PROVE  ChangesTellTheStory'
<1> DEFINE n == Len(changes)
<1>1. /\ changes \in Seq(ChangeRecord) /\ n \in Nat /\ DOMAIN changes = 1..n
  BY LenProperties DEF Typed
<1>2. /\ DOMAIN changes' = 1..n + 1 /\ changes'[n + 1] = c
      /\ \A i \in 1..n : changes'[i] = changes[i]
  BY <1>1, AppendProperties, LenProperties
<1> HIDE DEF n
<1>3. \A id : /\ Story(id) \subseteq 1..n /\ Story(id)' \subseteq 1..n + 1
              /\ \A i \in 1..n : i \in Story(id)' <=> i \in Story(id)
              /\ n + 1 \in Story(id)' <=> c.block = id
  BY <1>1, <1>2 DEF Story
<1> DEFINE Told(id) ==
      /\ Story(id) = {} => Held(candidate, id) = Held(document, id)
      /\ \A i \in Story(id) :
           /\ (\A j \in Story(id) : i <= j) => changes[i].before = Held(document, id)
           /\ \A j \in Story(id) :
                (i < j /\ \A k \in Story(id) : k <= i \/ j <= k) => changes[i].after = changes[j].before
           /\ (\A j \in Story(id) : j <= i) => changes[i].after = Held(candidate, id)
<1>4. \A id \in Blocks : Told(id)
  BY DEF ChangesTellTheStory
<1>5. ASSUME NEW id \in Blocks, id # c.block
      PROVE  Told(id)'
  <2>1. Story(id)' = Story(id)
    <3>1. /\ Story(id) \subseteq 1..n /\ Story(id)' \subseteq 1..n + 1
          /\ \A i \in 1..n : i \in Story(id)' <=> i \in Story(id)
          /\ n + 1 \notin Story(id)'
      BY <1>3, <1>5
    <3>2. ASSUME NEW i \in 1..n + 1, i # n + 1
          PROVE  i \in 1..n
      BY <1>1, <3>2
    <3>3. ASSUME NEW i \in Story(id)'
          PROVE  i \in Story(id)
      BY <3>1, <3>2, <3>3
    <3>4. ASSUME NEW i \in Story(id)
          PROVE  i \in Story(id)'
      BY <3>1, <3>4
    <3> QED  BY <3>3, <3>4
  <2>2. Held(candidate', id) = Held(candidate, id)
    BY <1>5
  <2>3. \A i \in Story(id) : changes'[i] = changes[i]
    BY <1>2, <1>3
  <2>4. Told(id)
    BY <1>4
  <2>5. Story(id)' = {} => Held(candidate', id) = Held(document', id)
    BY <2>1, <2>2, <2>4
  <2>6. ASSUME NEW i \in Story(id)'
        PROVE  /\ (\A j \in Story(id)' : i <= j) => changes'[i].before = Held(document', id)
               /\ \A j \in Story(id)' :
                    (i < j /\ \A k \in Story(id)' : k <= i \/ j <= k)
                      => changes'[i].after = changes'[j].before
               /\ (\A j \in Story(id)' : j <= i) => changes'[i].after = Held(candidate', id)
    BY <2>1, <2>2, <2>3, <2>4, <2>6, ZenonT(30)
  <2> QED  BY <2>5, <2>6
<1>6. ASSUME NEW id \in Blocks, id = c.block
      PROVE  Told(id)'
  <2>1. c.before = Held(candidate, id) /\ c.after = Held(candidate', id)
    BY <1>6
  <2>2. Story(id)' = Story(id) \cup {n + 1}
    BY <1>1, <1>3, <1>6
  <2>3. \A i \in Story(id) : i \in Int /\ i < n + 1 /\ i \in 1..n
    BY <1>1, <1>3
  <2>4. n + 1 \in Int /\ n + 1 \notin Story(id)
    BY <1>1, <2>3
  <2>5. Story(id)' # {}
    BY <2>2
  <2>6. ASSUME NEW i \in Story(id)', \A j \in Story(id)' : i <= j
        PROVE  changes'[i].before = Held(document', id)
    <3>1. CASE i = n + 1
      <4>1. Story(id) = {}
        BY <2>2, <2>3, <2>6, <3>1, <1>1
      <4> QED  BY <1>2, <1>4, <2>1, <3>1, <4>1
    <3>2. CASE i \in Story(id)
      <4>1. \A j \in Story(id) : i <= j
        BY <2>2, <2>6
      <4> QED  BY <1>2, <1>4, <2>3, <3>2, <4>1
    <3> QED  BY <2>2, <3>1, <3>2
  <2>7. ASSUME NEW i \in Story(id)', NEW j \in Story(id)', i < j,
               \A k \in Story(id)' : k <= i \/ j <= k
        PROVE  changes'[i].after = changes'[j].before
    <3>1. i \in Story(id)
      BY <2>2, <2>3, <2>4, <2>7, <1>1
    <3>2. CASE j = n + 1
      <4>1. \A k \in Story(id) : k <= i
        BY <2>2, <2>3, <2>7, <3>2, <1>1
      <4>2. changes[i].after = Held(candidate, id)
        BY <1>4, <3>1, <4>1
      <4> QED  BY <1>2, <2>1, <2>3, <3>1, <3>2, <4>2
    <3>3. CASE j \in Story(id)
      <4>1. \A k \in Story(id) : k <= i \/ j <= k
        BY <2>2, <2>7
      <4>2. changes[i].after = changes[j].before
        BY <1>4, <2>7, <3>1, <3>3, <4>1
      <4>3. changes'[i] = changes[i] /\ changes'[j] = changes[j]
        BY <1>2, <2>3, <3>1, <3>3
      <4> QED  BY <4>2, <4>3
    <3> QED  BY <2>2, <3>2, <3>3
  <2>8. ASSUME NEW i \in Story(id)', \A j \in Story(id)' : j <= i
        PROVE  changes'[i].after = Held(candidate', id)
    <3>1. i = n + 1
      BY <2>2, <2>3, <2>8, <1>1
    <3> QED  BY <1>2, <2>1, <3>1
  <2> QED  BY <2>5, <2>6, <2>7, <2>8
<1>7. \A id \in Blocks : Told(id)'
  BY <1>5, <1>6
<1> QED  BY <1>7 DEF ChangesTellTheStory

(* An operation that leaves every text that is edited or protected alone.   *)
LEMMA BlockStep ==
  ASSUME IInv, pc = "apply", next <= Len(patch.operations),
         UNCHANGED <<document, revision, pc, patch, outcome, textEdits>>, next' = next + 1,
         NEW c \in ChangeRecord, changes' = Append(changes, c),
         candidate' \in PromptDocument, candidate'.protections = candidate.protections, Whole',
         \A id \in Blocks : id # c.block => Held(candidate', id) = Held(candidate, id),
         c.block \in Blocks =>
           c.before = Held(candidate, c.block) /\ c.after = Held(candidate', c.block),
         c.block \in Ids(document) => ~Fixed(c.block)
  PROVE  IInv'
<1>1. /\ Typed /\ Valid /\ Whole /\ Settled /\ Checked /\ Sourced /\ Tracked /\ Guarded
      /\ ChangesTellTheStory
  BY DEF IInv
<1>2. next \in 1..Len(patch.operations) /\ Len(patch.operations) \in Nat
  BY <1>1, Operating
<1>3. Typed'
  <2>1. next' \in 1..Len(patch'.operations) + 1
    BY <1>2
  <2>2. changes' \in Seq(ChangeRecord) /\ Len(changes') = next' - 1
    BY <1>1, <1>2, AppendProperties DEF Typed
  <2> QED  BY <1>1, <2>1, <2>2 DEF Typed
<1>4. Valid' /\ Settled' /\ Checked'
  <2>1. Valid'
    BY <1>1 DEF Valid
  <2>2. Settled'
    BY DEF Settled
  <2>3. Checked'
    BY <1>1, Zenon DEF Checked, EarlyFailure, TextFailure
  <2> QED  BY <2>1, <2>2, <2>3
<1>5. Sourced' /\ \A id : Fixed(id)' <=> Fixed(id)
  BY <1>1 DEF Sourced, Fixed, Selects
<1>6. Tracked'
  <2>1. ASSUME NEW id \in Ids(document), Fixed(id)
        PROVE  Held(candidate', id) = Held(candidate, id)
    <3>1. document.content \in Seq(TextBlock)
      BY <1>1 DEF Typed, PromptDocument
    <3>2. id \in Blocks
      BY <3>1, IndexIsIn
    <3> QED  BY <2>1, <3>2
  <2> QED  BY <1>1, <1>5, <2>1 DEF Tracked
<1>7. Guarded'
  BY <1>1 DEF Guarded
<1>8. ChangesTellTheStory'
  BY <1>1, StoryGrows
<1> QED  BY <1>3, <1>4, <1>5, <1>6, <1>7, <1>8 DEF IInv

(* A document with other blocks.                                            *)
LEMMA OtherContent ==
  ASSUME NEW doc \in PromptDocument, NEW content \in Seq(TextBlock)
  PROVE  LET later == [doc EXCEPT !.content = content]
         IN /\ later \in PromptDocument /\ later.content = content
            /\ later.protections = doc.protections
BY DEF PromptDocument

(* What is protected or edited is there, and no operation replaces or       *)
(* removes it.                                                             *)
LEMMA FixedIsThere ==
  ASSUME Tracked, NEW id \in Ids(document), Fixed(id)
  PROVE  id \in Ids(candidate)
<1>1. \E t : Held(candidate, id) = {t}
  BY DEF Tracked
<1> QED  BY <1>1 DEF Held

LEMMA FixedIsSpared ==
  ASSUME IInv, pc = "apply", next <= Len(patch.operations), OperationFailure = NoFailure,
         op.type \in {"replace-content-block", "remove-content-block"}
  PROVE  ~Fixed(op.blockId)
<1> DEFINE id == op.blockId
<1>1. Typed /\ Checked /\ Guarded
  BY DEF IInv
<1>2. ~Conflicting(patch.operations)
  BY <1>1, CheckedPatch DEF Checked
<1>3. /\ next \in 1..Len(patch.operations)
      /\ DOMAIN patch.operations = 1..Len(patch.operations)
  BY <1>1, Operating
<1>4. DOMAIN candidate.protections = 1..Len(candidate.protections)
  BY <1>1, DocumentIs DEF Typed
<1>5. ~Protected(id)
  BY DEF OperationFailure, NoFailure
<1>6. ASSUME NEW i \in 1..Len(document.protections), document.protections[i].block = id
      PROVE  FALSE
  <2>1. i \in DOMAIN candidate.protections /\ candidate.protections[i].block = id
    BY <1>1, <1>4, <1>6 DEF Guarded, SameQuote
  <2> QED  BY <1>5, <2>1 DEF Protected
<1>7. ASSUME NEW j \in 1..Len(patch.operations), Selects(j, id)
      PROVE  FALSE
  <2>1. j # next
    BY <1>7 DEF Selects, op
  <2>2. Mutates(patch.operations[j]) = {id}
    BY <1>7 DEF Mutates, Selects
  <2>3. Mutates(patch.operations[next]) = {id} /\ patch.operations[next].type # "replace-text"
    BY DEF Mutates, op
  <2> QED  BY <1>2, <1>3, <2>1, <2>2, <2>3 DEF Conflicting
<1> QED  BY <1>6, <1>7 DEF Fixed

LEMMA BlockIsInserted ==
  ASSUME IInv, ApplyInsertBlock
  PROVE  IInv'
<1> DEFINE block == op.block
           place == IF op.before = NoBlock THEN Len(candidate.content) + 1
                    ELSE IndexOf(candidate, op.before)
           content == InsertAt(candidate.content, place, block)
           c == Change(block.id, {}, {block.text})
<1>1. Typed /\ Whole /\ Checked /\ Tracked
  BY DEF IInv
<1>2. /\ pc = "apply" /\ next <= Len(patch.operations) /\ op.type = "insert-content-block"
      /\ OperationFailure = NoFailure
      /\ candidate' = [candidate EXCEPT !.content = content]
      /\ changes' = Append(changes, c) /\ next' = next + 1
      /\ UNCHANGED <<document, revision, pc, patch, outcome, textEdits>>
  BY DEF ApplyInsertBlock, Applying, Apply, accepted
<1>3. block \in TextBlock /\ block.id \in Blocks /\ block.text \in Text
  <2>1. op \in PatchOperation
    BY <1>1, <1>2, Operating
  <2>2. block \in TextBlock
    BY <1>2, <2>1, OperationIs
  <2> QED  BY <2>2 DEF TextBlock
<1>4. block.id \notin Ids(candidate) /\ op.before \in Ids(candidate) \cup {NoBlock}
  BY <1>2 DEF OperationFailure, NoFailure
<1>5. /\ candidate \in PromptDocument /\ candidate.content \in Seq(TextBlock)
      /\ Len(candidate.content) \in Nat /\ DistinctIds(candidate.content)
  BY <1>1, DocumentIs DEF Typed, Whole
<1>6. place \in 1..Len(candidate.content) + 1
  <2>1. CASE op.before = NoBlock
    BY <1>5, <2>1
  <2>2. CASE op.before # NoBlock
    <3>1. IndexOf(candidate, op.before) \in 1..Len(candidate.content)
      BY <1>4, <1>5, <2>2, IndexIsIn
    <3> QED  BY <1>5, <2>2, <3>1
  <2> QED  BY <2>1, <2>2
<1> HIDE DEF block, place, content
<1> DEFINE inserted == [candidate EXCEPT !.content = content]
<1>7. inserted.content = content
  BY <1>5 DEF PromptDocument
<1>8. /\ content \in Seq(TextBlock) /\ DistinctIds(content)
      /\ Len(content) = Len(candidate.content) + 1
      /\ Held(candidate, block.id) = {} /\ Held(inserted, block.id) = {block.text}
      /\ \A id : id # block.id => Held(inserted, id) = Held(candidate, id)
  <2>1. inserted.content = InsertAt(candidate.content, place, block)
    BY <1>7 DEF content
  <2> HIDE DEF inserted
  <2>2. /\ inserted.content \in Seq(TextBlock) /\ DistinctIds(inserted.content)
        /\ Len(inserted.content) = Len(candidate.content) + 1
        /\ Lacks(candidate, block.id) /\ Reads(inserted, block.id, block.text)
        /\ \A id : id # block.id => Held(inserted, id) = Held(candidate, id)
    <3>1. /\ candidate.content \in Seq(TextBlock) /\ DistinctIds(candidate.content)
          /\ place \in 1..Len(candidate.content) + 1 /\ block \in TextBlock
          /\ block.id \notin Ids(candidate)
          /\ inserted.content = InsertAt(candidate.content, place, block)
      BY <1>3, <1>4, <1>5, <1>6, <2>1
    <3> QED  BY <3>1, BlockInserted
  <2> QED  BY <1>7, <2>2 DEF Lacks, Reads
<1>9. /\ candidate' \in PromptDocument /\ candidate'.protections = candidate.protections
      /\ candidate'.content = content
  BY <1>2, <1>5, <1>8, OtherContent
<1>10. Whole'
  BY <1>5, <1>8, <1>9 DEF Whole
<1>11. /\ c \in ChangeRecord /\ c.block = block.id
       /\ c.before = Held(candidate, block.id) /\ c.after = Held(candidate', block.id)
  BY <1>2, <1>3, <1>8 DEF Change, ChangeRecord
<1>12. \A id \in Blocks : id # c.block => Held(candidate', id) = Held(candidate, id)
  BY <1>2, <1>8, <1>11
<1>13. c.block \in Ids(document) => ~Fixed(c.block)
  BY <1>1, <1>4, <1>11, FixedIsThere
<1> HIDE DEF c
<1> QED  BY <1>2, <1>9, <1>10, <1>11, <1>12, <1>13, BlockStep

LEMMA BlockIsReplaced ==
  ASSUME IInv, ApplyReplaceBlock
  PROVE  IInv'
<1> DEFINE block == op.block
           place == IndexOf(candidate, op.blockId)
           content == [candidate.content EXCEPT ![place] = block]
           c == Change(op.blockId, {TextOf(candidate, op.blockId)}, {block.text})
<1>1. Typed /\ Whole /\ Checked /\ Tracked
  BY DEF IInv
<1>2. /\ pc = "apply" /\ next <= Len(patch.operations) /\ op.type = "replace-content-block"
      /\ OperationFailure = NoFailure
      /\ candidate' = [candidate EXCEPT !.content = content]
      /\ changes' = Append(changes, c) /\ next' = next + 1
      /\ UNCHANGED <<document, revision, pc, patch, outcome, textEdits>>
  BY DEF ApplyReplaceBlock, Applying, Apply, accepted
<1>3. block \in TextBlock /\ block.id \in Blocks /\ block.text \in Text
  <2>1. op \in PatchOperation
    BY <1>1, <1>2, Operating
  <2>2. block \in TextBlock
    BY <1>2, <2>1, OperationIs
  <2> QED  BY <2>2 DEF TextBlock
<1>4. op.blockId \in Ids(candidate) /\ block.id = op.blockId
  BY <1>2 DEF OperationFailure, NoFailure
<1>5. /\ candidate \in PromptDocument /\ candidate.content \in Seq(TextBlock)
      /\ Len(candidate.content) \in Nat /\ DistinctIds(candidate.content)
      /\ Len(candidate.content) # 0
  BY <1>1, DocumentIs DEF Typed, Whole
<1>6. /\ place \in 1..Len(candidate.content) /\ candidate.content[place].id = block.id
      /\ TextOf(candidate, op.blockId) \in Text
  BY <1>4, <1>5, IndexIsIn
<1>7. Held(candidate, block.id) = {TextOf(candidate, op.blockId)}
  BY <1>4 DEF Held
<1> HIDE DEF block, place, content
<1> DEFINE replaced == [candidate EXCEPT !.content = content]
<1>8. replaced.content = content
  BY <1>5 DEF PromptDocument
<1>9. /\ content \in Seq(TextBlock) /\ DistinctIds(content)
      /\ Len(content) = Len(candidate.content)
      /\ Held(replaced, block.id) = {block.text}
      /\ \A id : id # block.id => Held(replaced, id) = Held(candidate, id)
  <2>1. replaced.content = [candidate.content EXCEPT ![place] = block]
    BY <1>8 DEF content
  <2> HIDE DEF replaced
  <2>2. /\ replaced.content \in Seq(TextBlock) /\ DistinctIds(replaced.content)
        /\ Len(replaced.content) = Len(candidate.content)
        /\ Reads(replaced, block.id, block.text)
        /\ \A id : id # block.id => Held(replaced, id) = Held(candidate, id)
    <3>1. /\ candidate.content \in Seq(TextBlock) /\ DistinctIds(candidate.content)
          /\ place \in 1..Len(candidate.content) /\ block \in TextBlock
          /\ block.id = candidate.content[place].id
          /\ replaced.content = [candidate.content EXCEPT ![place] = block]
      BY <1>3, <1>5, <1>6, <2>1
    <3> QED  BY <3>1, BlockReplaced
  <2> QED  BY <1>8, <2>2 DEF Reads
<1>10. /\ candidate' \in PromptDocument /\ candidate'.protections = candidate.protections
       /\ candidate'.content = content
  BY <1>2, <1>5, <1>9, OtherContent
<1>11. Whole'
  BY <1>5, <1>9, <1>10 DEF Whole
<1>12. /\ c \in ChangeRecord /\ c.block = block.id
       /\ c.before = Held(candidate, block.id) /\ c.after = Held(candidate', block.id)
  BY <1>2, <1>3, <1>4, <1>6, <1>7, <1>9 DEF Change, ChangeRecord
<1>13. \A id \in Blocks : id # c.block => Held(candidate', id) = Held(candidate, id)
  BY <1>2, <1>9, <1>12
<1>14. ~Fixed(c.block)
  BY <1>2, <1>4, <1>12, FixedIsSpared
<1> HIDE DEF c
<1> QED  BY <1>2, <1>10, <1>11, <1>12, <1>13, <1>14, BlockStep

LEMMA BlockIsRemoved ==
  ASSUME IInv, ApplyRemoveBlock
  PROVE  IInv'
<1> DEFINE id == op.blockId
           place == IndexOf(candidate, id)
           content == RemoveAt(candidate.content, place)
           c == Change(id, {TextOf(candidate, id)}, {})
<1>1. Typed /\ Whole /\ Checked /\ Tracked
  BY DEF IInv
<1>2. /\ pc = "apply" /\ next <= Len(patch.operations) /\ op.type = "remove-content-block"
      /\ OperationFailure = NoFailure
      /\ candidate' = [candidate EXCEPT !.content = content]
      /\ changes' = Append(changes, c) /\ next' = next + 1
      /\ UNCHANGED <<document, revision, pc, patch, outcome, textEdits>>
  BY DEF ApplyRemoveBlock, Applying, Apply, accepted
<1>3. id \in Ids(candidate) /\ Len(candidate.content) # 1
  BY <1>2 DEF OperationFailure, NoFailure
<1>4. /\ candidate \in PromptDocument /\ candidate.content \in Seq(TextBlock)
      /\ Len(candidate.content) \in Nat /\ DistinctIds(candidate.content)
      /\ Len(candidate.content) # 0
  BY <1>1, DocumentIs DEF Typed, Whole
<1>5. /\ place \in 1..Len(candidate.content) /\ candidate.content[place].id = id
      /\ TextOf(candidate, id) \in Text /\ id \in Blocks
  BY <1>3, <1>4, IndexIsIn
<1>6. Held(candidate, id) = {TextOf(candidate, id)}
  BY <1>3 DEF Held
<1>7. ~Fixed(id)
  BY <1>2, FixedIsSpared
<1> HIDE DEF id, place, content
<1> DEFINE removed == [candidate EXCEPT !.content = content]
<1>8. removed.content = content
  BY <1>4 DEF PromptDocument
<1>9. /\ content \in Seq(TextBlock) /\ DistinctIds(content)
      /\ Len(content) = Len(candidate.content) - 1
      /\ Held(removed, id) = {}
      /\ \A other : other # id => Held(removed, other) = Held(candidate, other)
  <2>1. removed.content = RemoveAt(candidate.content, place)
    BY <1>8 DEF content
  <2> HIDE DEF removed
  <2>2. /\ removed.content \in Seq(TextBlock) /\ DistinctIds(removed.content)
        /\ Len(removed.content) = Len(candidate.content) - 1
        /\ Lacks(removed, candidate.content[place].id)
        /\ \A other : other # candidate.content[place].id => Held(removed, other) = Held(candidate, other)
    BY <1>4, <1>5, <2>1, BlockRemoved
  <2> QED  BY <1>5, <1>8, <2>2 DEF Lacks
<1>10. /\ candidate' \in PromptDocument /\ candidate'.protections = candidate.protections
       /\ candidate'.content = content
  BY <1>2, <1>4, <1>9, OtherContent
<1>11. Whole'
  <2>1. Len(content) # 0
    BY <1>3, <1>4, <1>9
  <2> QED  BY <1>9, <1>10, <2>1 DEF Whole
<1>12. /\ c \in ChangeRecord /\ c.block = id
       /\ c.before = Held(candidate, id) /\ c.after = Held(candidate', id)
  BY <1>2, <1>5, <1>6, <1>9 DEF Change, ChangeRecord
<1>13. \A other \in Blocks : other # c.block => Held(candidate', other) = Held(candidate, other)
  BY <1>2, <1>9, <1>12
<1>14. ~Fixed(c.block)
  BY <1>7, <1>12
<1> HIDE DEF c
<1> QED  BY <1>2, <1>10, <1>11, <1>12, <1>13, <1>14, BlockStep

LEMMA ExtensionIsSet ==
  ASSUME IInv, ApplyExtension
  PROVE  IInv'
<1> DEFINE before == {candidate.extensions[op.key]} \ {NoValue}
           c == Change(NoBlock, before, {op.value})
<1>1. Typed /\ Whole /\ Checked
  BY DEF IInv
<1>2. /\ pc = "apply" /\ next <= Len(patch.operations) /\ op.type = "set-namespaced-extension"
      /\ candidate' = [candidate EXCEPT !.extensions[op.key] = op.value]
      /\ changes' = Append(changes, c) /\ next' = next + 1
      /\ UNCHANGED <<document, revision, pc, patch, outcome, textEdits>>
  BY DEF ApplyExtension, Applying, Apply, accepted
<1>3. op.key \in Keys /\ op.value \in Text
  <2>1. op \in PatchOperation
    BY <1>1, <1>2, Operating
  <2> QED  BY <1>2, <2>1, OperationIs
<1>4. candidate \in PromptDocument /\ candidate.extensions \in [Keys -> Text \cup {NoValue}]
  BY <1>1, DocumentIs DEF Typed
<1>5. /\ candidate' \in PromptDocument /\ candidate'.content = candidate.content
      /\ candidate'.protections = candidate.protections
  <2>1. [candidate.extensions EXCEPT ![op.key] = op.value] \in [Keys -> Text \cup {NoValue}]
    BY <1>3, <1>4
  <2> QED  BY <1>2, <1>4, <2>1 DEF PromptDocument
<1>6. before \subseteq Text
  BY <1>3, <1>4
<1> HIDE DEF before
<1>7. c \in ChangeRecord /\ c.block = NoBlock
  BY <1>2, <1>3, <1>6 DEF Change, ChangeRecord
<1>8. Whole'
  BY <1>1, <1>5 DEF Whole
<1>9. \A id : Held(candidate', id) = Held(candidate, id)
  BY <1>5 DEF Held, TextOf, IndexOf, Ids
<1>10. c.block \notin Blocks /\ c.block \notin Ids(document)
  <2>1. document.content \in Seq(TextBlock)
    BY <1>1, DocumentIs DEF Typed
  <2>2. Ids(document) \subseteq Blocks
    BY <2>1, IndexIsIn
  <2> QED  BY <1>7, <2>2, BlocksAssumption
<1> HIDE DEF c
<1> QED  BY <1>2, <1>5, <1>7, <1>8, <1>9, <1>10, BlockStep

-----------------------------------------------------------------------------
(* A text operation                                                         *)

Declared == [selector |-> op.selector, text |-> op.text]
Selected == op.selector.block
Base == TextOf(document, Selected)
Edits == textEdits[Selected]

LEMMA EditFits ==
  ASSUME IInv, pc = "apply", next <= Len(patch.operations), op.type = "replace-text",
         OperationFailure = NoFailure
  PROVE  /\ op.selector \in TextSelector /\ op.text \in Text /\ Declared \in Edit
         /\ Selected \in Ids(document) /\ Selected \in Blocks /\ Selected \in Ids(candidate)
         /\ Base \in Text /\ Edits \in Seq(Edit)
         /\ Fits(Base, Edits, Declared) /\ Measured(Base, Edits)
         /\ Boundary(Base, op.selector.start)
         /\ TextOf(candidate, Selected) = Edited(Base, Edits, Len(Base))
         /\ \A i \in DOMAIN document.protections : ~Overlap(document.protections[i], op.selector)
<1>1. Typed /\ Checked /\ Tracked /\ Sourced
  BY DEF IInv
<1>2. op \in PatchOperation /\ next \in 1..Len(patch.operations)
  BY <1>1, Operating
<1>3. op.selector \in TextSelector /\ op.text \in Text /\ Declared \in Edit
  <2>1. op.selector \in TextSelector /\ op.text \in Text
    BY <1>2, OperationIs
  <2> QED  BY <2>1 DEF Declared, Edit
<1>4. TextFailure(op) = NoFailure
  BY <1>1, <1>2, CheckedPatch DEF Checked, op
<1>5. /\ Selected \in Ids(document) /\ SelectorFailure(op.selector, Base, revision) = NoFailure
      /\ \A i \in DOMAIN document.protections : ~Overlap(document.protections[i], op.selector)
  BY <1>4, CheckedText DEF Selected, Base
<1>6. document.content \in Seq(TextBlock)
  BY <1>1, DocumentIs DEF Typed
<1>7. Base \in Text /\ Selected \in Blocks
  BY <1>5, <1>6, IndexIsIn DEF Base
<1>8. Edits \in Seq(Edit)
  BY <1>1, <1>7 DEF Typed, Edits
<1>9. /\ op.selector.start <= op.selector.end /\ op.selector.end <= Len(Base)
      /\ Boundary(Base, op.selector.start)
  BY <1>5, CheckedSelector
<1>10. Free(Edits, op.selector.start, op.selector.end)
  <2> SUFFICES ASSUME NEW i \in 1..Len(Edits),
                      Edits[i].selector.start < op.selector.end,
                      op.selector.start < Edits[i].selector.end
               PROVE  FALSE
    BY DEF Free
  <2>1. \A n \in DOMAIN textEdits[op.selector.block] :
          ~Overlap(op.selector, textEdits[op.selector.block][n].selector)
    BY DEF OperationFailure, NoFailure
  <2>2. DOMAIN Edits = 1..Len(Edits)
    BY <1>8, LenProperties
  <2>3. Edits[i].selector.block = Selected
    <3>1. \E j \in 1..Len(patch.operations) :
            /\ Selects(j, Selected)
            /\ Edits[i] = [selector |-> patch.operations[j].selector,
                           text |-> patch.operations[j].text]
      BY <1>1, <1>7 DEF Sourced, Edits
    <3> QED  BY <3>1 DEF Selects
  <2> QED  BY <2>1, <2>2, <2>3 DEF Overlap, Edits, Selected
<1>11. Fits(Base, Edits, Declared)
  BY <1>9, <1>10 DEF Fits, Declared
<1>12. Fixed(Selected)
  BY <1>2 DEF Fixed, Selects, Selected, op
<1>13. Measured(Base, Edits) /\ Held(candidate, Selected) = {Edited(Base, Edits, Len(Base))}
  BY <1>1, <1>5, <1>12 DEF Tracked, Base, Edits
<1>14. Selected \in Ids(candidate) /\ TextOf(candidate, Selected) = Edited(Base, Edits, Len(Base))
  BY <1>13 DEF Held
<1> QED  BY <1>3, <1>5, <1>7, <1>8, <1>9, <1>11, <1>13, <1>14

Rebased == RebaseRange(op.selector, Edits)
Replaced ==
  Slice(TextOf(candidate, Selected), 0, Rebased.start) \o op.text
    \o Slice(TextOf(candidate, Selected), Rebased.end, Len(TextOf(candidate, Selected)))
Applied == [selector |-> Rebased, text |-> op.text]

LEMMA TextIsReplaced ==
  ASSUME IInv, pc = "apply", next <= Len(patch.operations), op.type = "replace-text",
         OperationFailure = NoFailure
  PROVE  /\ Rebased.start = From(Edits, Declared) /\ Rebased.end = To(Edits, Declared)
         /\ Rebased.block = Selected
         /\ Replaced = Edited(Base, Append(Edits, Declared), Len(Base)) /\ Replaced \in Text
         /\ Delta(Applied) = Delta(Declared) /\ Delta(Declared) \in Int
         /\ To(Edits, Declared) \in Nat
<1>1. /\ op.selector \in TextSelector /\ op.text \in Text /\ Declared \in Edit
      /\ Base \in Text /\ Edits \in Seq(Edit)
      /\ Fits(Base, Edits, Declared) /\ Measured(Base, Edits)
      /\ TextOf(candidate, Selected) = Edited(Base, Edits, Len(Base))
  BY EditFits
<1>2. op.selector.start \in Nat /\ op.selector.end \in Nat
  BY <1>1 DEF TextSelector
<1>3. Moved(Edits, op.selector.start) \in Int
  BY <1>1, <1>2, MovedAppend
<1>4. Rebased = Shift(op.selector, Moved(Edits, op.selector.start))
  BY RebasedIsMoved DEF Rebased
<1>5. /\ Rebased.start = op.selector.start + Moved(Edits, op.selector.start)
      /\ Rebased.end = op.selector.end + Moved(Edits, op.selector.start)
      /\ Rebased.block = Selected
  BY <1>1, <1>4 DEF Shift, TextSelector, Selected
<1>6. Rebased.start = From(Edits, Declared) /\ Rebased.end = To(Edits, Declared)
  BY <1>5 DEF From, To, Declared
<1>7. /\ (Slice(Edited(Base, Edits, Len(Base)), 0, From(Edits, Declared)) \o Declared.text)
            \o Slice(Edited(Base, Edits, Len(Base)), To(Edits, Declared),
                     Len(Edited(Base, Edits, Len(Base))))
           = Edited(Base, Append(Edits, Declared), Len(Base))
      /\ To(Edits, Declared) \in Nat
  BY <1>1, EditApplies
<1>8. Replaced = Edited(Base, Append(Edits, Declared), Len(Base))
  BY <1>1, <1>6, <1>7 DEF Replaced, Declared
<1>9. Replaced \in Text
  <2>1. Append(Edits, Declared) \in Seq(Edit) /\ Len(Base) \in 0..Len(Base)
    BY <1>1, AppendProperties, LenProperties DEF Text
  <2> QED  BY <1>1, <1>8, <2>1, EditedIsText
<1>10. Len(op.text) \in Nat
  BY <1>1, LenProperties DEF Text
<1>11. Delta(Declared) = Len(op.text) - (op.selector.end - op.selector.start)
  BY DEF Delta, Declared
<1>12. Delta(Applied) = Len(op.text) - (Rebased.end - Rebased.start)
  BY DEF Delta, Applied
<1>13. Delta(Applied) = Delta(Declared) /\ Delta(Declared) \in Int
  BY <1>2, <1>3, <1>5, <1>10, <1>11, <1>12
<1> QED  BY <1>5, <1>6, <1>7, <1>8, <1>9, <1>13

(* A protection follows its text.                                           *)
LEMMA ProtectionIsRebased ==
  ASSUME IInv, pc = "apply", next <= Len(patch.operations), op.type = "replace-text",
         OperationFailure = NoFailure, NEW i \in 1..Len(document.protections)
  PROVE  LET base == document.protections[i]
             now == RebaseProtection(candidate.protections[i], Applied)
             edits == [textEdits EXCEPT ![Selected] = Append(Edits, Declared)]
         IN /\ now \in TextSelector /\ SameQuote(base, now)
            /\ Anchored(TextOf(document, base.block), edits[base.block], base, now.start)
<1>1. Typed /\ Valid /\ Guarded
  BY DEF IInv
<1>2. /\ op.selector \in TextSelector /\ Declared \in Edit
      /\ Selected \in Blocks
      /\ Base \in Text /\ Edits \in Seq(Edit)
      /\ Fits(Base, Edits, Declared) /\ Measured(Base, Edits)
      /\ Boundary(Base, op.selector.start)
      /\ \A n \in DOMAIN document.protections : ~Overlap(document.protections[n], op.selector)
  BY EditFits
<1>3. /\ Rebased.end = To(Edits, Declared) /\ Rebased.block = Selected
      /\ Delta(Applied) = Delta(Declared) /\ Delta(Declared) \in Int
      /\ To(Edits, Declared) \in Nat
  BY TextIsReplaced
<1>4. PICK base \in TextSelector : base = document.protections[i]
  BY <1>1, DocumentIs DEF Typed
<1>5. Len(candidate.protections) = Len(document.protections)
  BY <1>1 DEF Guarded
<1>6. PICK old \in TextSelector : old = candidate.protections[i]
  BY <1>1, <1>5, DocumentIs DEF Typed
<1>7. /\ base.block \in Ids(document) /\ base.start \in Nat /\ base.end \in Nat
      /\ base.start <= base.end /\ base.block \in Blocks
  <2>1. /\ base.block \in Ids(document)
        /\ SelectorFailure(base, TextOf(document, base.block), revision) = NoFailure
    BY <1>1, <1>4, CheckedDocument DEF Typed, Valid
  <2>2. base.start <= base.end
    BY <2>1, CheckedSelector
  <2> QED  BY <1>4, <2>1, <2>2 DEF TextSelector
<1>8. /\ SameQuote(base, old)
      /\ Anchored(TextOf(document, base.block), textEdits[base.block], base, old.start)
  BY <1>1, <1>4, <1>6 DEF Guarded
<1>9. old.start \in Nat /\ old.end \in Nat /\ old.block = base.block
  BY <1>6, <1>8 DEF TextSelector, SameQuote
<1> DEFINE now == RebaseProtection(old, Applied)
           edits == [textEdits EXCEPT ![Selected] = Append(Edits, Declared)]
<1>10. Applied.selector.block = Selected /\ Applied.selector.end = To(Edits, Declared)
  BY <1>3 DEF Applied
<1>11. CASE base.block # Selected
  <2>1. now = old
    BY <1>9, <1>10, <1>11 DEF RebaseProtection
  <2>2. edits[base.block] = textEdits[base.block]
    BY <1>1, <1>7, <1>11 DEF Typed
  <2> QED  BY <1>4, <1>6, <1>8, <2>1, <2>2
<1>12. CASE base.block = Selected
  <2>1. edits[base.block] = Append(Edits, Declared)
    BY <1>1, <1>7, <1>12 DEF Typed
  <2>2. TextOf(document, base.block) = Base /\ textEdits[base.block] = Edits
    BY <1>12 DEF Base, Edits
  <2>3. PICK start \in Int : start = IF To(Edits, Declared) <= old.start
                                     THEN old.start + Delta(Declared) ELSE old.start
    BY <1>3, <1>9
  <2>4. ~(op.selector.start < base.end /\ base.start < op.selector.end)
    <3>1. i \in DOMAIN document.protections
      BY <1>1, DocumentIs DEF Typed
    <3>2. ~Overlap(base, op.selector)
      BY <1>2, <1>4, <3>1
    <3> QED  BY <1>12, <3>2 DEF Overlap, Selected
  <2>5. Anchored(Base, Append(Edits, Declared), base, start)
    <3>1. Declared.selector = op.selector
      BY DEF Declared
    <3> QED  BY <1>2, <1>4, <1>7, <1>8, <1>9, <2>2, <2>3, <2>4, <3>1, AnchorsStay
  <2>6. start \in Nat
    <3>1. PICK k \in 0..Len(Base) : start = Len(Edited(Base, Append(Edits, Declared), k))
      BY <2>5 DEF Anchored, Anchors
    <3>2. Append(Edits, Declared) \in Seq(Edit)
      BY <1>2, AppendProperties
    <3>3. Edited(Base, Append(Edits, Declared), k) \in Text
      BY <1>2, <3>1, <3>2, EditedIsText
    <3> QED  BY <3>1, <3>3, LenProperties DEF Text
  <2>7. now = IF To(Edits, Declared) <= old.start THEN Shift(old, Delta(Declared)) ELSE old
    BY <1>3, <1>9, <1>10, <1>12 DEF RebaseProtection
  <2>8. /\ now.start = start /\ now.end = start + (base.end - base.start)
        /\ now.block = old.block /\ now.revision = old.revision /\ now.exact = old.exact
        /\ now.prefix = old.prefix /\ now.suffix = old.suffix
    <3>1. old.end = old.start + (base.end - base.start)
      BY <1>8 DEF SameQuote
    <3>2. CASE To(Edits, Declared) <= old.start
      <4>1. now = Shift(old, Delta(Declared)) /\ start = old.start + Delta(Declared)
        BY <2>3, <2>7, <3>2
      <4>2. /\ now.start = old.start + Delta(Declared) /\ now.end = old.end + Delta(Declared)
            /\ now.block = old.block /\ now.revision = old.revision /\ now.exact = old.exact
            /\ now.prefix = old.prefix /\ now.suffix = old.suffix
        BY <1>6, <4>1 DEF Shift, TextSelector
      <4> HIDE DEF now
      <4> QED  BY <1>3, <1>7, <1>9, <3>1, <4>1, <4>2, SMTT(30)
    <3>3. CASE ~(To(Edits, Declared) <= old.start)
      BY <2>3, <2>7, <3>1, <3>3
    <3> QED  BY <3>2, <3>3
  <2>9. now \in TextSelector
    <3>1. start + (base.end - base.start) \in Nat
      BY <1>7, <2>6
    <3>2. CASE To(Edits, Declared) <= old.start
      <4>1. now = [block |-> now.block, revision |-> now.revision, start |-> now.start,
                   end |-> now.end, exact |-> now.exact, prefix |-> now.prefix,
                   suffix |-> now.suffix]
        BY <1>6, <2>7, <3>2 DEF Shift, TextSelector
      <4>2. /\ old.block \in Blocks /\ old.revision \in Nat /\ old.exact \in Text
            /\ old.prefix \in Text /\ old.suffix \in Text
        BY <1>6 DEF TextSelector
      <4> HIDE DEF now
      <4> QED  BY <2>6, <2>8, <3>1, <4>1, <4>2 DEF TextSelector
    <3>3. CASE ~(To(Edits, Declared) <= old.start)
      BY <1>6, <2>7, <3>3
    <3> QED  BY <3>2, <3>3
  <2>10. SameQuote(base, now)
    <3> HIDE DEF now
    <3> QED  BY <1>8, <2>8 DEF SameQuote
  <2> HIDE DEF now, edits
  <2>11. Anchored(TextOf(document, base.block), edits[base.block], base, now.start)
    BY <2>1, <2>2, <2>5, <2>8
  <2> QED  BY <1>4, <1>6, <2>9, <2>10, <2>11 DEF now, edits
<1> QED  BY <1>11, <1>12

LEMMA FunctionsAreSequences ==
  ASSUME NEW S, NEW n \in Nat, NEW f \in [1..n -> S]
  PROVE  f \in Seq(S) /\ Len(f) = n
OBVIOUS

LEMMA TextIsApplied ==
  ASSUME IInv, ApplyReplaceText
  PROVE  IInv'
<1> DEFINE place == IndexOf(candidate, Selected)
           block == [id |-> Selected, text |-> Replaced]
           content == [candidate.content EXCEPT ![place] = block]
           protections == [i \in DOMAIN candidate.protections |->
                             RebaseProtection(candidate.protections[i], Applied)]
           more == Append(Edits, Declared)
           c == Change(Selected, {TextOf(candidate, Selected)}, {Replaced})
<1>1. /\ Typed /\ Valid /\ Whole /\ Settled /\ Checked /\ Sourced /\ Tracked /\ Guarded
      /\ ChangesTellTheStory
  BY DEF IInv
<1>2. /\ pc = "apply" /\ next <= Len(patch.operations) /\ op.type = "replace-text"
      /\ OperationFailure = NoFailure
      /\ changes' = Append(changes, c) /\ next' = next + 1
      /\ UNCHANGED <<document, revision, pc, patch, outcome>>
      /\ textEdits' = [textEdits EXCEPT ![Selected] = more]
      /\ candidate' = [candidate EXCEPT !.content[place].text = Replaced,
                                        !.protections = protections]
  BY DEF ApplyReplaceText, Applying, Apply, accepted, Selected, Edits, Declared, Rebased,
         Replaced, Applied
<1>3. /\ op.text \in Text /\ Declared \in Edit
      /\ Selected \in Ids(document) /\ Selected \in Blocks /\ Selected \in Ids(candidate)
      /\ Base \in Text /\ Edits \in Seq(Edit)
      /\ Fits(Base, Edits, Declared) /\ Measured(Base, Edits)
  BY <1>2, EditFits
<1>4. Replaced = Edited(Base, more, Len(Base)) /\ Replaced \in Text
  BY <1>2, TextIsReplaced
<1>5. /\ candidate \in PromptDocument /\ candidate.content \in Seq(TextBlock)
      /\ Len(candidate.content) \in Nat /\ DistinctIds(candidate.content)
      /\ Len(candidate.content) # 0
      /\ DOMAIN candidate.protections = 1..Len(candidate.protections)
      /\ Len(candidate.protections) \in Nat
  BY <1>1, DocumentIs DEF Typed, Whole
<1>6. /\ place \in 1..Len(candidate.content)
      /\ candidate.content[place] = [id |-> Selected, text |-> TextOf(candidate, Selected)]
      /\ TextOf(candidate, Selected) \in Text
  BY <1>3, <1>5, IndexIsIn
<1>7. block \in TextBlock /\ block.id = Selected /\ block.text = Replaced
  BY <1>3, <1>4 DEF TextBlock
<1>8. more \in Seq(Edit) /\ Len(more) = Len(Edits) + 1 /\ more[Len(Edits) + 1] = Declared
      /\ Len(Edits) \in Nat /\ \A i \in 1..Len(Edits) : more[i] = Edits[i]
  BY <1>3, AppendProperties, LenProperties
<1>9. protections \in Seq(TextSelector) /\ Len(protections) = Len(candidate.protections)
  <2>1. Len(candidate.protections) = Len(document.protections)
    BY <1>1 DEF Guarded
  <2>2. \A i \in 1..Len(candidate.protections) :
          RebaseProtection(candidate.protections[i], Applied) \in TextSelector
    BY <1>2, <2>1, ProtectionIsRebased
  <2>3. protections \in [1..Len(candidate.protections) -> TextSelector]
    BY <1>5, <2>2
  <2> HIDE DEF protections
  <2> QED  BY <1>5, <2>3, FunctionsAreSequences
<1>10. candidate' = [candidate EXCEPT !.content = content, !.protections = protections]
  <2>1. [candidate.content EXCEPT ![place].text = Replaced] = content
    BY <1>5, <1>6
  <2> HIDE DEF protections, content
  <2> QED  BY <1>2, <1>5, <2>1 DEF PromptDocument
<1>11. /\ content \in Seq(TextBlock) /\ DistinctIds(content)
       /\ Len(content) = Len(candidate.content)
       /\ \A later : later.content = content =>
            /\ Held(later, Selected) = {Replaced}
            /\ \A id : id # Selected => Held(later, id) = Held(candidate, id)
  <2>1. block.id = candidate.content[place].id
    BY <1>6
  <2>2. ASSUME NEW later, later.content = content
        PROVE  /\ content \in Seq(TextBlock) /\ DistinctIds(content)
               /\ Len(content) = Len(candidate.content)
               /\ Held(later, Selected) = {Replaced}
               /\ \A id : id # Selected => Held(later, id) = Held(candidate, id)
    <3>1. later.content = [candidate.content EXCEPT ![place] = block]
      BY <2>2
    <3> HIDE DEF block, place
    <3>2. /\ later.content \in Seq(TextBlock) /\ DistinctIds(later.content)
          /\ Len(later.content) = Len(candidate.content)
          /\ Reads(later, block.id, block.text)
          /\ \A id : id # block.id => Held(later, id) = Held(candidate, id)
      <4>1. /\ candidate.content \in Seq(TextBlock) /\ DistinctIds(candidate.content)
            /\ place \in 1..Len(candidate.content) /\ block \in TextBlock
            /\ block.id = candidate.content[place].id
            /\ later.content = [candidate.content EXCEPT ![place] = block]
        BY <1>5, <1>6, <1>7, <2>1, <3>1
      <4> QED  BY <4>1, BlockReplaced
    <3> HIDE DEF content
    <3> QED  BY <1>7, <2>2, <3>2 DEF Reads
  <2> HIDE DEF content
  <2>3. [content |-> content].content = content
    OBVIOUS
  <2> QED  BY <2>2, <2>3
<1> HIDE DEF content, protections, more, block, place
<1>12. /\ candidate' \in PromptDocument /\ candidate'.content = content
       /\ candidate'.protections = protections
  BY <1>5, <1>9, <1>10, <1>11 DEF PromptDocument
<1>13. /\ Held(candidate', Selected) = {Replaced}
       /\ \A id : id # Selected => Held(candidate', id) = Held(candidate, id)
  BY <1>11, <1>12
<1>14. /\ textEdits'[Selected] = more
       /\ \A id \in Blocks : id # Selected => textEdits'[id] = textEdits[id]
       /\ textEdits' \in [Blocks -> Seq(Edit)]
  BY <1>1, <1>2, <1>3, <1>8 DEF Typed
<1>15. next \in 1..Len(patch.operations) /\ Len(patch.operations) \in Nat
  BY <1>1, <1>2, Operating
<1>16. /\ c \in ChangeRecord /\ c.block = Selected
       /\ c.before = Held(candidate, Selected) /\ c.after = Held(candidate', Selected)
  <2>1. Held(candidate, Selected) = {TextOf(candidate, Selected)}
    BY <1>3 DEF Held
  <2> QED  BY <1>2, <1>3, <1>4, <1>6, <1>13, <2>1 DEF Change, ChangeRecord
<1> HIDE DEF c
<1>17. Typed'
  <2>1. next' \in 1..Len(patch'.operations) + 1
    BY <1>2, <1>15
  <2>2. changes' \in Seq(ChangeRecord) /\ Len(changes') = next' - 1
    BY <1>1, <1>2, <1>15, <1>16, AppendProperties DEF Typed
  <2> QED  BY <1>1, <1>2, <1>12, <1>14, <2>1, <2>2 DEF Typed
<1>18. Valid' /\ Settled' /\ Checked' /\ Whole'
  <2>1. Valid'
    BY <1>1, <1>2 DEF Valid
  <2>2. Settled'
    BY <1>2 DEF Settled
  <2>3. Checked'
    BY <1>1, <1>2, Zenon DEF Checked, EarlyFailure, TextFailure
  <2>4. Whole'
    BY <1>5, <1>11, <1>12 DEF Whole
  <2> QED  BY <2>1, <2>2, <2>3, <2>4
<1>19. Sourced'
  <2>1. \A j, id : Selects(j, id)' <=> Selects(j, id)
    BY <1>2 DEF Selects
  <2>2. ASSUME NEW id \in Blocks, NEW i \in 1..Len(textEdits'[id])
        PROVE  \E j \in 1..Len(patch.operations) :
                 /\ Selects(j, id)
                 /\ textEdits'[id][i] = [selector |-> patch.operations[j].selector,
                                         text |-> patch.operations[j].text]
    <3>1. CASE id # Selected
      <4>1. textEdits'[id] = textEdits[id]
        BY <1>14, <3>1
      <4> QED  BY <1>1, <2>2, <4>1 DEF Sourced
    <3>2. CASE id = Selected /\ i # Len(Edits) + 1
      <4>1. i \in 1..Len(Edits) /\ textEdits'[id] = more /\ more[i] = Edits[i]
        BY <1>8, <1>14, <2>2, <3>2
      <4>2. i \in 1..Len(textEdits[id]) /\ textEdits'[id][i] = textEdits[id][i]
        BY <3>2, <4>1 DEF Edits
      <4> QED  BY <1>1, <4>2 DEF Sourced
    <3>3. CASE id = Selected /\ i = Len(Edits) + 1
      <4>1. textEdits'[id][i] = [selector |-> patch.operations[next].selector,
                                 text |-> patch.operations[next].text]
        BY <1>8, <1>14, <3>3 DEF Declared, op
      <4>2. Selects(next, id)
        BY <1>2, <3>3 DEF Selects, Selected, op
      <4> QED  BY <1>15, <4>1, <4>2
    <3> QED  BY <3>1, <3>2, <3>3
  <2> QED  BY <1>2, <2>1, <2>2 DEF Sourced
<1>20. Tracked'
  <2>1. \A id : Fixed(id)' <=> Fixed(id)
    BY <1>2 DEF Fixed, Selects
  <2>2. ASSUME NEW id \in Ids(document)
        PROVE  LET base == TextOf(document, id)
               IN /\ Measured(base, textEdits'[id])
                  /\ Fixed(id) => Held(candidate', id) = {Edited(base, textEdits'[id], Len(base))}
    <3>1. CASE id = Selected
      <4>1. Declared.selector.start <= Declared.selector.end
            /\ Declared.selector.end <= Len(Base)
            /\ Free(Edits, Declared.selector.start, Declared.selector.end)
        BY <1>3 DEF Fits
      <4>2. Measured(Base, more)
        BY <1>3, <4>1, MeasuredAppend DEF more
      <4> QED  BY <1>4, <1>13, <1>14, <3>1, <4>2 DEF Base
    <3>2. CASE id # Selected
      <4>1. id \in Blocks
        <5>1. document.content \in Seq(TextBlock)
          BY <1>1, DocumentIs DEF Typed
        <5> QED  BY <5>1, IndexIsIn
      <4>2. textEdits'[id] = textEdits[id] /\ Held(candidate', id) = Held(candidate, id)
        BY <1>13, <1>14, <3>2, <4>1
      <4> QED  BY <1>1, <4>2 DEF Tracked
    <3> QED  BY <3>1, <3>2
  <2> QED  BY <1>2, <2>1, <2>2 DEF Tracked
<1>21. Guarded'
  <2>1. Len(candidate'.protections) = Len(document.protections)
    BY <1>1, <1>9, <1>12 DEF Guarded
  <2>2. ASSUME NEW i \in 1..Len(document.protections)
        PROVE  LET base == document.protections[i]
                   now == candidate'.protections[i]
               IN /\ SameQuote(base, now)
                  /\ Anchored(TextOf(document, base.block), textEdits'[base.block], base, now.start)
    <3>1. i \in DOMAIN candidate.protections
      BY <1>5, <1>9, <1>12, <2>1
    <3>2. candidate'.protections[i] = RebaseProtection(candidate.protections[i], Applied)
      BY <1>12, <3>1 DEF protections
    <3> QED  BY <1>2, <3>2, ProtectionIsRebased DEF more
  <2> QED  BY <1>2, <2>1, <2>2 DEF Guarded
<1>22. ChangesTellTheStory'
  <2>1. \A id \in Blocks : id # c.block => Held(candidate', id) = Held(candidate, id)
    BY <1>13, <1>16
  <2>2. c.block \in Blocks =>
          c.before = Held(candidate, c.block) /\ c.after = Held(candidate', c.block)
    BY <1>16
  <2>3. document' = document
    BY <1>2
  <2> QED  BY <1>1, <1>2, <1>16, <2>1, <2>2, <2>3, StoryGrows
<1> QED  BY <1>17, <1>18, <1>19, <1>20, <1>21, <1>22 DEF IInv

-----------------------------------------------------------------------------
(* The beginning and the end of a Patch                                     *)

Outcomes == FailureCodes \cup {NoFailure}

LEMMA FailuresAreCodes ==
  ASSUME Typed
  PROVE  /\ \A sel, text, rev : SelectorFailure(sel, text, rev) \in Outcomes
         /\ \A doc, rev, sel : ProtectionFailure(doc, rev, sel) \in Outcomes
         /\ \A doc, rev : DocumentFailure(doc, rev) \in Outcomes
         /\ \A operation : TextFailure(operation) \in Outcomes
         /\ \A p : EarlyFailure(p) \in Outcomes
         /\ op \in PatchOperation => OperationFailure \in Outcomes
<1>1. \A sel, text, rev : SelectorFailure(sel, text, rev) \in Outcomes
  BY DEF SelectorFailure, Outcomes, FailureCodes
<1>2. \A doc, rev, sel : ProtectionFailure(doc, rev, sel) \in Outcomes
  <2>1. "unknown-block" \in Outcomes
    BY DEF Outcomes, FailureCodes
  <2> QED  BY <1>1, <2>1 DEF ProtectionFailure
<1>3. \A doc, rev : DocumentFailure(doc, rev) \in Outcomes
  <2>1. {"invalid-document", "duplicate-block", NoFailure} \subseteq Outcomes
    BY DEF Outcomes, FailureCodes
  <2> QED  BY <1>2, <2>1 DEF DocumentFailure
<1>4. \A operation : TextFailure(operation) \in Outcomes
  <2>1. {"unknown-block", "protected-span", NoFailure} \subseteq Outcomes
    BY DEF Outcomes, FailureCodes
  <2> QED  BY <1>1, <2>1 DEF TextFailure
<1>5. \A p : EarlyFailure(p) \in Outcomes
  <2>1. {"invalid-patch", "stale-revision", "conflicting-operations", NoFailure} \subseteq Outcomes
    BY DEF Outcomes, FailureCodes
  <2> QED  BY <1>4, <2>1 DEF EarlyFailure
<1>6. op \in PatchOperation => OperationFailure \in Outcomes
  <2> SUFFICES ASSUME op \in PatchOperation
               PROVE  OperationFailure \in Outcomes
    OBVIOUS
  <2>1. op.type \in {"replace-text", "insert-content-block", "replace-content-block",
                     "remove-content-block", "set-namespaced-extension"}
    BY OperationIs
  <2>2. {"unknown-block", "conflicting-operations", "duplicate-block", "invalid-document",
         "precondition-failed", "protected-span", "invalid-namespace", NoFailure} \subseteq Outcomes
    BY DEF Outcomes, FailureCodes
  <2> HIDE DEF Outcomes
  <2>3. CASE op.type = "replace-text"
    BY <2>2, <2>3 DEF OperationFailure
  <2>4. CASE op.type = "insert-content-block"
    BY <2>2, <2>4 DEF OperationFailure
  <2>5. CASE op.type = "replace-content-block"
    BY <2>2, <2>5 DEF OperationFailure
  <2>6. CASE op.type = "remove-content-block"
    BY <2>2, <2>6 DEF OperationFailure
  <2>7. CASE op.type = "set-namespaced-extension"
    BY <2>2, <2>7 DEF OperationFailure
  <2> QED  BY <2>1, <2>3, <2>4, <2>5, <2>6, <2>7
<1> QED  BY <1>1, <1>2, <1>3, <1>4, <1>5, <1>6

LEMMA FreshSettles ==
  (Typed /\ Valid /\ Fresh) => (Whole /\ Sourced /\ Tracked /\ Guarded /\ ChangesTellTheStory)
BY FreshHolds

LEMMA FreshSettlesNext ==
  (Typed /\ Valid /\ Fresh)' => (Whole /\ Sourced /\ Tracked /\ Guarded /\ ChangesTellTheStory)'
BY FreshSettles, PTL

LEMMA NoPatchIs ==
  Len(NoPatch.operations) = 0
BY DEF NoPatch

LEMMA PatchIsRefused ==
  ASSUME IInv, NEW code \in Outcomes, Refuse(code)
  PROVE  IInv'
<1>1. Typed /\ Valid
  BY DEF IInv
<1>2. Fresh'
  BY DEF Refuse, Fresh, accepted
<1>3. Typed'
  <2>1. next' \in 1..Len(patch'.operations) + 1 /\ Len(changes') = next' - 1 /\ patch' = NoPatch
    BY NoPatchIs DEF Refuse
  <2>2. textEdits' \in [Blocks -> Seq(Edit)] /\ changes' \in Seq(ChangeRecord)
    BY DEF Refuse
  <2> QED  BY <1>1, <2>1, <2>2 DEF Typed, Refuse, accepted, Outcomes
<1>4. Valid'
  BY <1>1 DEF Valid, Refuse, accepted
<1>5. Settled' /\ Checked'
  BY <1>2 DEF Settled, Checked, Refuse
<1> QED  BY <1>2, <1>3, <1>4, <1>5, FreshSettlesNext DEF IInv

LEMMA PatchBegins ==
  ASSUME IInv, pc = "idle", NEW p, BeginPatch(p)
  PROVE  IInv'
<1>1. Typed /\ Valid /\ Fresh
  BY DEF IInv, Settled
<1>2. p \in Patch
  BY CheckedPatch DEF BeginPatch
<1>3. Fresh'
  BY <1>1 DEF Fresh, BeginPatch, accepted
<1>4. Typed'
  <2>1. p.operations \in Seq(PatchOperation)
    BY <1>2 DEF Patch
  <2>2. Len(p.operations) \in Nat
    BY <2>1, LenProperties
  <2>3. next' \in 1..Len(patch'.operations) + 1
    BY <1>1, <2>2 DEF Fresh, BeginPatch
  <2> QED  BY <1>1, <1>2, <2>3 DEF Typed, BeginPatch, accepted
<1>5. Valid'
  BY <1>1 DEF Valid, BeginPatch, accepted
<1>6. Settled' /\ Checked'
  BY Zenon DEF Settled, Checked, BeginPatch, accepted, EarlyFailure, TextFailure
<1> QED  BY <1>3, <1>4, <1>5, <1>6, FreshSettlesNext DEF IInv

LEMMA FinalIsADocument ==
  ASSUME Typed
  PROVE  /\ Final \in PromptDocument /\ Final.content = candidate.content
         /\ Len(Final.protections) = Len(candidate.protections)
         /\ DOMAIN Final.protections = 1..Len(candidate.protections)
         /\ \A i \in 1..Len(candidate.protections) :
              Final.protections[i] = [candidate.protections[i] EXCEPT !.revision = revision + 1]
<1> DEFINE protections == [i \in DOMAIN candidate.protections |->
                             [candidate.protections[i] EXCEPT !.revision = revision + 1]]
<1>1. /\ candidate \in PromptDocument /\ Len(candidate.protections) \in Nat
      /\ DOMAIN candidate.protections = 1..Len(candidate.protections)
      /\ \A i \in 1..Len(candidate.protections) : candidate.protections[i] \in TextSelector
      /\ revision + 1 \in Nat
  BY DocumentIs DEF Typed
<1>2. \A i \in 1..Len(candidate.protections) :
        [candidate.protections[i] EXCEPT !.revision = revision + 1] \in TextSelector
  BY <1>1 DEF TextSelector
<1>3. protections \in [1..Len(candidate.protections) -> TextSelector]
  BY <1>1, <1>2
<1>4. \A i \in 1..Len(candidate.protections) :
        protections[i] = [candidate.protections[i] EXCEPT !.revision = revision + 1]
  BY <1>1
<1>5. Final = [candidate EXCEPT !.protections = protections]
  BY <1>1 DEF Final, Renewed, PromptDocument
<1> HIDE DEF protections
<1>6. protections \in Seq(TextSelector) /\ Len(protections) = Len(candidate.protections)
  BY <1>1, <1>3, FunctionsAreSequences
<1>7. /\ Final \in PromptDocument /\ Final.content = candidate.content
      /\ Final.protections = protections
  BY <1>1, <1>5, <1>6 DEF PromptDocument
<1> QED  BY <1>3, <1>4, <1>6, <1>7

LEMMA PatchCommits ==
  ASSUME IInv, Commit
  PROVE  IInv'
<1>1. Typed
  BY DEF IInv
<1>2. Final \in PromptDocument
  BY <1>1, FinalIsADocument
<1>3. Fresh'
  BY DEF Fresh, Commit
<1>4. Typed'
  <2>1. next' \in 1..Len(patch'.operations) + 1 /\ Len(changes') = next' - 1 /\ patch' = NoPatch
    BY NoPatchIs DEF Commit
  <2>2. textEdits' \in [Blocks -> Seq(Edit)] /\ changes' \in Seq(ChangeRecord)
    BY DEF Commit
  <2>3. revision' \in Nat
    BY <1>1 DEF Typed, Commit
  <2> QED  BY <1>1, <1>2, <2>1, <2>2, <2>3 DEF Typed, Commit
<1>5. Valid'
  BY DEF Valid, Commit, FinalFailure
<1>6. Settled' /\ Checked'
  BY <1>3 DEF Settled, Checked, Commit
<1> QED  BY <1>3, <1>4, <1>5, <1>6, FreshSettlesNext DEF IInv

-----------------------------------------------------------------------------
(* The invariant holds                                                      *)

LEMMA InitHolds == Init => IInv
<1> SUFFICES ASSUME Init
             PROVE  IInv
  OBVIOUS
<1>1. document \in PromptDocument
  BY DocumentsAssumption DEF Init
<1>2. Fresh /\ Valid
  BY DEF Init, Fresh, Valid
<1>3. Typed
  <2>1. next \in 1..Len(patch.operations) + 1 /\ Len(changes) = next - 1 /\ patch = NoPatch
    BY NoPatchIs DEF Init
  <2>2. textEdits \in [Blocks -> Seq(Edit)] /\ changes \in Seq(ChangeRecord)
    BY DEF Init
  <2> QED  BY <1>1, <2>1, <2>2 DEF Typed, Init
<1>4. Settled /\ Checked
  BY <1>2 DEF Settled, Checked, Init
<1> QED  BY <1>2, <1>3, <1>4, FreshHolds DEF IInv

LEMMA StepHolds == IInv /\ [Next]_vars => IInv'
<1> SUFFICES ASSUME IInv, [Next]_vars
             PROVE  IInv'
  OBVIOUS
<1>1. Typed /\ Checked
  BY DEF IInv
<1>2. ASSUME pc = "idle", NEW p, RefusePatch(p)
      PROVE  IInv'
  <2>1. EarlyFailure(p) \in Outcomes
    BY <1>1, FailuresAreCodes
  <2> QED  BY <1>2, <2>1, PatchIsRefused DEF RefusePatch
<1>3. ASSUME pc = "idle", NEW p, BeginPatch(p)
      PROVE  IInv'
  BY <1>3, PatchBegins
<1>4. CASE ApplyReplaceText
  BY <1>4, TextIsApplied
<1>5. CASE ApplyInsertBlock
  BY <1>5, BlockIsInserted
<1>6. CASE ApplyReplaceBlock
  BY <1>6, BlockIsReplaced
<1>7. CASE ApplyRemoveBlock
  BY <1>7, BlockIsRemoved
<1>8. CASE ApplyExtension
  BY <1>8, ExtensionIsSet
<1>9. CASE RefuseOperation
  <2>1. op \in PatchOperation
    BY <1>1, <1>9, Operating DEF RefuseOperation
  <2>2. OperationFailure \in Outcomes
    BY <1>1, <2>1, FailuresAreCodes
  <2> QED  BY <1>9, <2>2, PatchIsRefused DEF RefuseOperation
<1>10. CASE Commit
  BY <1>10, PatchCommits
<1>11. CASE RefuseCandidate
  <2>1. FinalFailure \in Outcomes
    BY <1>1, FailuresAreCodes DEF FinalFailure
  <2> QED  BY <1>11, <2>1, PatchIsRefused DEF RefuseCandidate
<1>12. CASE UNCHANGED vars
  <2>1. Typed' /\ Valid' /\ Whole' /\ Settled'
    BY <1>12 DEF IInv, vars, accepted, Typed, Valid, Whole, Settled, Fresh
  <2>2. Checked'
    BY <1>12, Zenon DEF IInv, vars, accepted, Checked, EarlyFailure, TextFailure
  <2>5. Sourced'
    <3>1. Sourced /\ UNCHANGED <<patch, textEdits>>
      BY <1>12 DEF IInv, vars
    <3> QED  BY <3>1 DEF Sourced, Selects
  <2>3. Tracked' /\ Guarded'
    BY <1>12 DEF IInv, vars, accepted, Tracked, Fixed, Selects, Guarded
  <2>4. ChangesTellTheStory'
    BY <1>12 DEF IInv, vars, accepted, ChangesTellTheStory, Story
  <2> QED  BY <2>1, <2>2, <2>3, <2>4, <2>5 DEF IInv
<1> QED
  BY <1>2, <1>3, <1>4, <1>5, <1>6, <1>7, <1>8, <1>9, <1>10, <1>11, <1>12 DEF Next, ApplyOperation

LEMMA IInvHolds == Spec => []IInv
<1>1. Init => IInv
  BY InitHolds
<1>2. IInv /\ [Next]_vars => IInv'
  BY StepHolds
<1> QED  BY <1>1, <1>2, PTL DEF Spec

-----------------------------------------------------------------------------
(* The theorems                                                             *)

LEMMA OperationsAre ==
  ASSUME Typed
  PROVE  /\ DOMAIN patch.operations = 1..Len(patch.operations)
         /\ Len(patch.operations) \in Nat
<1>1. CASE patch = NoPatch
  BY <1>1 DEF NoPatch
<1>2. CASE patch \in Patch
  <2>1. patch.operations \in Seq(PatchOperation)
    BY <1>2 DEF Patch
  <2> QED  BY <2>1, LenProperties
<1> QED  BY <1>1, <1>2 DEF Typed

(* The accepted document is one a state may be created with, and the         *)
(* candidate a document of its shape, whatever was applied to it.           *)
THEOREM TypeCorrect == Spec => []TypeOK
<1>1. IInv => TypeOK
  <2> SUFFICES ASSUME IInv
               PROVE  TypeOK
    OBVIOUS
  <2>1. Typed /\ Valid /\ Whole /\ Sourced /\ Tracked /\ Guarded
    BY DEF IInv
  <2>2. document \in PromptDocument /\ candidate \in PromptDocument
    BY <2>1 DEF Typed
  <2>3. /\ DistinctIds(document.content) /\ Len(document.content) # 0
        /\ \A i \in 1..Len(document.protections) : document.protections[i].block \in Ids(document)
    BY <2>1, <2>2, CheckedDocument DEF Valid
  <2>4. \A i \in 1..Len(candidate.protections) : candidate.protections[i].block \in Ids(candidate)
    <3> SUFFICES ASSUME NEW i \in 1..Len(candidate.protections)
                 PROVE  candidate.protections[i].block \in Ids(candidate)
      OBVIOUS
    <3>1. /\ i \in 1..Len(document.protections)
          /\ candidate.protections[i].block = document.protections[i].block
      BY <2>1 DEF Guarded, SameQuote
    <3>2. document.protections[i].block \in Ids(document) /\ Fixed(document.protections[i].block)
      BY <2>3, <3>1 DEF Fixed
    <3> QED  BY <2>1, <3>1, <3>2, FixedIsThere
  <2>5. ASSUME NEW doc \in PromptDocument, DistinctIds(doc.content), Len(doc.content) # 0,
               \A i \in 1..Len(doc.protections) : doc.protections[i].block \in Ids(doc)
        PROVE  WellFormed(doc)
    <3>1. /\ doc.content \in Seq(TextBlock) /\ DOMAIN doc.content = 1..Len(doc.content)
          /\ Len(doc.content) \in Nat
          /\ DOMAIN doc.protections = 1..Len(doc.protections)
          /\ DOMAIN doc.extensions = Keys
      BY <2>5, DocumentIs
    <3>2. Cardinality(Ids(doc)) = Len(doc.content)
      BY <2>5, <3>1, DistinctIsCounted DEF Ids
    <3>3. Ids(doc) \subseteq Blocks
      BY <3>1, IndexIsIn
    <3>4. doc.content[1].id \in Ids(doc)
      BY <2>5, <3>1 DEF Ids
    <3> QED  BY <2>5, <3>1, <3>2, <3>3, <3>4 DEF WellFormed
  <2>6. WellFormed(document) /\ WellFormed(candidate)
    BY <2>1, <2>2, <2>3, <2>4, <2>5 DEF Whole
  <2>7. textEdits \in [Blocks -> Seq([selector : Selectors(patch), text : Texts(patch)])]
    <3>1. ASSUME NEW id \in Blocks
          PROVE  textEdits[id] \in Seq([selector : Selectors(patch), text : Texts(patch)])
      <4>1. /\ textEdits[id] \in [1..Len(textEdits[id]) -> Edit] /\ Len(textEdits[id]) \in Nat
        <5>1. textEdits[id] \in Seq(Edit)
          BY <2>1 DEF Typed
        <5> QED  BY <5>1, LenProperties
      <4>2. ASSUME NEW i \in 1..Len(textEdits[id])
            PROVE  textEdits[id][i] \in [selector : Selectors(patch), text : Texts(patch)]
        <5>1. PICK j \in 1..Len(patch.operations) :
                /\ Selects(j, id)
                /\ textEdits[id][i] = [selector |-> patch.operations[j].selector,
                                       text |-> patch.operations[j].text]
          BY <2>1 DEF Sourced
        <5>2. j \in DOMAIN patch.operations /\ patch.operations[j].type = "replace-text"
          BY <2>1, <5>1, OperationsAre DEF Selects
        <5>3. /\ patch.operations[j].selector \in Selectors(patch)
              /\ patch.operations[j].text \in Texts(patch)
          BY <5>2 DEF Selectors, Texts
        <5> QED  BY <5>1, <5>3
      <4>3. textEdits[id] \in
              [1..Len(textEdits[id]) -> [selector : Selectors(patch), text : Texts(patch)]]
        BY <4>1, <4>2
      <4> QED  BY <4>1, <4>3, FunctionsAreSequences
    <3>2. textEdits = [id \in Blocks |-> textEdits[id]]
      BY <2>1 DEF Typed
    <3> QED  BY <3>1, <3>2
  <2> QED  BY <2>1, <2>6, <2>7 DEF TypeOK, Typed, Valid
<1> QED  BY <1>1, IInvHolds, PTL

(* A Patch is accepted whole: the accepted document changes only when the    *)
(* last operation has been applied, and with its revision.                  *)
THEOREM PatchesAreAtomic == Spec => PatchIsAtomic
<1>1. [Next]_vars =>
        [document' # document =>
           /\ pc = "apply" /\ next > Len(patch.operations)
           /\ outcome' = "applied" /\ revision' = revision + 1]_vars
  <2> SUFFICES ASSUME [Next]_vars, document' # document
               PROVE  /\ pc = "apply" /\ next > Len(patch.operations)
                      /\ outcome' = "applied" /\ revision' = revision + 1
    OBVIOUS
  <2>1. ~ApplyOperation
    BY DEF ApplyOperation, ApplyReplaceText, ApplyInsertBlock, ApplyReplaceBlock,
           ApplyRemoveBlock, ApplyExtension, Apply, accepted
  <2>2. \A code : ~Refuse(code)
    BY DEF Refuse, accepted
  <2>3. \A p : ~RefusePatch(p) /\ ~BeginPatch(p)
    BY <2>2 DEF RefusePatch, BeginPatch, accepted
  <2>4. ~RefuseOperation /\ ~RefuseCandidate
    BY <2>2 DEF RefuseOperation, RefuseCandidate
  <2>5. Commit
    BY <2>1, <2>3, <2>4 DEF Next, vars, accepted
  <2> QED  BY <2>5 DEF Commit, Finalizing
<1> QED  BY <1>1, PTL DEF Spec, PatchIsAtomic

(* The changes a Patch reports lead from the document it found to the one it *)
(* leaves, block by block.                                                 *)
THEOREM ChangesTell == Spec => []ChangesTellTheStory
<1>1. IInv => ChangesTellTheStory
  BY DEF IInv
<1> QED  BY <1>1, IInvHolds, PTL

(* Applied one after the other to a text that changes under them, the edits  *)
(* of a Patch make of it what they would at once.                          *)
THEOREM EditsApplyAtOnce == Spec => []EditsAreSimultaneous
<1>1. IInv => EditsAreSimultaneous
  <2> SUFFICES ASSUME IInv, NEW id \in Blocks, textEdits[id] # <<>>
               PROVE  TextOf(candidate, id)
                        = Edited(TextOf(document, id), textEdits[id], Len(TextOf(document, id)))
    BY DEF EditsAreSimultaneous
  <2>1. Typed /\ Settled /\ Checked /\ Sourced /\ Tracked
    BY DEF IInv
  <2>2. pc = "apply"
    BY <2>1 DEF Typed, Settled, Fresh
  <2>3. textEdits[id] \in Seq(Edit)
    BY <2>1 DEF Typed
  <2>4. 1 \in 1..Len(textEdits[id])
    BY <2>3, EmptySeq, LenProperties
  <2>5. PICK j \in 1..Len(patch.operations) : Selects(j, id)
    BY <2>1, <2>4 DEF Sourced
  <2>6. TextFailure(patch.operations[j]) = NoFailure
    BY <2>1, <2>2, <2>5, CheckedPatch DEF Checked, Selects
  <2>7. id \in Ids(document) /\ Fixed(id)
    BY <2>5, <2>6, CheckedText DEF Selects, Fixed
  <2> QED  BY <2>1, <2>7 DEF Tracked, Held
<1> QED  BY <1>1, IInvHolds, PTL

(* Where a protection of the candidate is, and what it protects.            *)
LEMMA ProtectionStands ==
  ASSUME IInv, NEW i \in 1..Len(document.protections)
  PROVE  LET base == document.protections[i]
             now == candidate.protections[i]
             before == TextOf(document, base.block)
             text == TextOf(candidate, base.block)
         IN /\ base \in TextSelector /\ now \in TextSelector /\ SameQuote(base, now)
            /\ base.block \in Ids(candidate) /\ base.block \in Ids(document)
            /\ base.block \in Blocks /\ before \in Text /\ text \in Text
            /\ base.start <= base.end /\ base.end <= Len(before)
            /\ Boundary(before, base.start) /\ Boundary(before, base.end)
            /\ text = Edited(before, textEdits[base.block], Len(before))
            /\ Anchored(before, textEdits[base.block], base, now.start)
            /\ now.end <= Len(text) /\ Slice(text, now.start, now.end) = base.exact
            /\ base.start < base.end =>
                 Slice(text, 0, now.start) = Edited(before, textEdits[base.block], base.start)
<1>1. Typed /\ Valid /\ Tracked /\ Guarded
  BY DEF IInv
<1>2. PICK base \in TextSelector : base = document.protections[i]
  BY <1>1, DocumentIs DEF Typed
<1>3. PICK now \in TextSelector : now = candidate.protections[i]
  BY <1>1, DocumentIs DEF Typed, Guarded
<1>4. /\ base.block \in Ids(document)
      /\ SelectorFailure(base, TextOf(document, base.block), revision) = NoFailure
  BY <1>1, <1>2, CheckedDocument DEF Typed, Valid
<1>5. base.block \in Blocks /\ TextOf(document, base.block) \in Text
  <2>1. document.content \in Seq(TextBlock)
    BY <1>1, DocumentIs DEF Typed
  <2> QED  BY <1>4, <2>1, IndexIsIn
<1>6. PICK before \in Text : before = TextOf(document, base.block)
  BY <1>5
<1>7. /\ base.start <= base.end /\ base.end <= Len(before)
      /\ Boundary(before, base.start) /\ Boundary(before, base.end)
      /\ Slice(before, base.start, base.end) = base.exact
  BY <1>4, <1>6, CheckedSelector
<1>8. PICK edits \in Seq(Edit) : edits = textEdits[base.block]
  BY <1>1, <1>5 DEF Typed
<1>9. Held(candidate, base.block) = {Edited(before, edits, Len(before))}
  BY <1>1, <1>2, <1>4, <1>6, <1>8 DEF Tracked, Fixed
<1>10. /\ base.block \in Ids(candidate)
       /\ TextOf(candidate, base.block) = Edited(before, edits, Len(before))
  BY <1>9 DEF Held
<1>11. Edited(before, edits, Len(before)) \in Text
  <2>1. Len(before) \in 0..Len(before)
    BY <1>6, LenProperties DEF Text
  <2> QED  BY <1>6, <1>8, <2>1, EditedIsText
<1>12. SameQuote(base, now) /\ Anchored(before, edits, base, now.start)
  BY <1>1, <1>2, <1>3, <1>6, <1>8 DEF Guarded
<1>13. now.start \in Nat /\ now.end = now.start + (base.end - base.start)
  BY <1>3, <1>12 DEF TextSelector, SameQuote
<1>14. /\ now.end <= Len(Edited(before, edits, Len(before)))
       /\ Slice(Edited(before, edits, Len(before)), now.start, now.end)
            = Slice(before, base.start, base.end)
       /\ base.start < base.end =>
            Slice(Edited(before, edits, Len(before)), 0, now.start)
              = Edited(before, edits, base.start)
  BY <1>6, <1>7, <1>8, <1>2, <1>12, <1>13, AnchorsHold
<1> QED  BY <1>2, <1>3, <1>4, <1>5, <1>6, <1>7, <1>8, <1>10, <1>11, <1>12, <1>14

(* "accepted edits outside a protection rebase it without changing its exact *)
(* quote": it stays the same occurrence of the protected text.             *)
THEOREM ProtectionsHold == Spec => []ProtectionsFollow
<1>1. IInv => ProtectionsFollow
  <2> SUFFICES ASSUME IInv
               PROVE  ProtectionsFollow
    OBVIOUS
  <2>1. DOMAIN document.protections = 1..Len(document.protections)
    BY DocumentIs DEF IInv, Typed
  <2> QED  BY <2>1, ProtectionStands DEF ProtectionsFollow
<1> QED  BY <1>1, IInvHolds, PTL

(* Behind everything the edits make of the text in front of it is where the *)
(* candidate has a protection.                                              *)
LEMMA PlaceIsStart ==
  ASSUME IInv, NEW i \in 1..Len(document.protections)
  PROVE  Place(i) = candidate.protections[i].start
<1>1. PICK base \in TextSelector : base = document.protections[i]
  BY ProtectionStands
<1>2. PICK now \in TextSelector : now = candidate.protections[i]
  BY ProtectionStands
<1>3. PICK text \in Text : text = TextOf(candidate, base.block)
  BY <1>1, ProtectionStands
<1>4. /\ SameQuote(base, now) /\ base.start <= base.end /\ now.end <= Len(text)
      /\ base.start < base.end =>
           Slice(text, 0, now.start)
             = Edited(TextOf(document, base.block), textEdits[base.block], base.start)
  BY <1>1, <1>2, <1>3, ProtectionStands
<1>5. CASE base.start = base.end
  BY <1>1, <1>2, <1>5 DEF Place
<1>6. CASE base.start # base.end
  <2>1. /\ base.start \in Nat /\ base.end \in Nat /\ now.start \in Nat /\ now.end \in Nat
        /\ Len(text) \in Nat /\ now.end = now.start + (base.end - base.start)
    BY <1>3, <1>4, LenProperties DEF TextSelector, SameQuote, Text
  <2>2. base.start < base.end /\ 0 <= now.start /\ now.start <= Len(text)
    BY <1>4, <1>6, <2>1
  <2>3. Len(Slice(text, 0, now.start)) = now.start - 0
    BY <2>1, <2>2, SliceIs
  <2>4. Place(i) = Len(Edited(TextOf(document, base.block), textEdits[base.block], base.start))
    BY <1>1, <1>6 DEF Place
  <2> QED  BY <1>2, <1>4, <2>1, <2>2, <2>3, <2>4
<1> QED  BY <1>5, <1>6

(* In a block that no operation edits, a protection stays where it was.     *)
LEMMA UneditedStays ==
  ASSUME IInv, NEW i \in 1..Len(document.protections),
         textEdits[document.protections[i].block] = <<>>
  PROVE  LET base == document.protections[i]
         IN /\ TextOf(candidate, base.block) = TextOf(document, base.block)
            /\ candidate.protections[i].start = base.start
            /\ candidate.protections[i].end = base.end
<1>1. PICK base \in TextSelector : base = document.protections[i]
  BY ProtectionStands
<1>2. PICK now \in TextSelector : now = candidate.protections[i]
  BY ProtectionStands
<1>3. PICK before \in Text : before = TextOf(document, base.block)
  BY <1>1, ProtectionStands
<1>4. /\ TextOf(candidate, base.block) = Edited(before, <<>>, Len(before))
      /\ Anchored(before, <<>>, base, now.start) /\ SameQuote(base, now)
  BY <1>1, <1>2, <1>3, ProtectionStands
<1>5. Len(before) \in Nat /\ base.start \in Nat /\ base.end \in Nat /\ Len(<<>>) = 0
  BY <1>3, LenProperties DEF Text, TextSelector
<1>6. Edited(before, <<>>, Len(before)) = before
  <2>1. Len(before) \in 0..Len(before)
    BY <1>5
  <2> QED  BY <2>1, Unedited, SliceAll
<1>7. PICK k \in 0..Len(before) : Anchors(before, <<>>, base, now.start, k)
  BY <1>4 DEF Anchored
<1>8. k = base.start /\ now.start = Len(Edited(before, <<>>, k))
  BY <1>5, <1>7 DEF Anchors
<1>9. now.start = k
  <2>1. k \in Nat /\ 0 <= k /\ k <= Len(before)
    BY <1>5
  <2>2. Len(Slice(before, 0, k)) = k - 0
    BY <2>1, SliceIs
  <2> QED  BY <1>8, <2>1, <2>2, Unedited
<1>10. now.end = base.end
  BY <1>4, <1>5, <1>8, <1>9 DEF SameQuote
<1> QED  BY <1>1, <1>2, <1>3, <1>4, <1>6, <1>8, <1>9, <1>10

(* The final check of a protection fails exactly when it is disturbed.      *)
LEMMA UndisturbedIsSound ==
  ASSUME IInv, NEW i \in 1..Len(document.protections)
  PROVE  LET sel == [candidate.protections[i] EXCEPT !.revision = revision + 1]
         IN /\ sel.block = document.protections[i].block
            /\ SelectorFailure(sel, TextOf(candidate, sel.block), revision + 1) = NoFailure
                 <=> ~Disturbed(i)
<1>1. PICK base \in TextSelector : base = document.protections[i]
  BY ProtectionStands
<1>2. PICK now \in TextSelector : now = candidate.protections[i]
  BY ProtectionStands
<1>3. PICK text \in Text : text = TextOf(candidate, base.block)
  BY <1>1, ProtectionStands
<1>4. /\ SameQuote(base, now) /\ base.start <= base.end /\ now.end <= Len(text)
      /\ Slice(text, now.start, now.end) = base.exact
  BY <1>1, <1>2, <1>3, ProtectionStands
<1>5. /\ base.start \in Nat /\ base.end \in Nat /\ now.start \in Nat /\ now.end \in Nat
      /\ now.end = now.start + (base.end - base.start)
  BY <1>4 DEF TextSelector, SameQuote
<1>6. PICK sel : sel = [now EXCEPT !.revision = revision + 1]
  OBVIOUS
<1>7. /\ sel.revision = revision + 1 /\ sel.start = now.start /\ sel.end = now.end
      /\ sel.exact = base.exact /\ sel.prefix = base.prefix /\ sel.suffix = base.suffix
      /\ sel.block = base.block
  BY <1>4, <1>6 DEF TextSelector, SameQuote
<1> DEFINE Holds(at, t) ==
             /\ Boundary(t, at.start) /\ Boundary(t, at.end)
             /\ IsSuffix(base.prefix, Slice(t, 0, at.start))
             /\ IsPrefix(base.suffix, Slice(t, at.end, Len(t)))
<1>8. SelectorFailure(sel, text, revision + 1) = NoFailure <=> Holds(now, text)
  <2>1. 0 <= sel.start /\ sel.start <= sel.end /\ sel.end <= Len(text)
    BY <1>4, <1>5, <1>7
  <2>2. SelectorFailure(sel, text, revision + 1)
          = IF ~(Boundary(text, sel.start) /\ Boundary(text, sel.end)) THEN "invalid-selector"
            ELSE IF /\ IsSuffix(sel.prefix, Slice(text, 0, sel.start))
                    /\ IsPrefix(sel.suffix, Slice(text, sel.end, Len(text)))
            THEN NoFailure ELSE "quote-mismatch"
    BY <1>4, <1>7, <2>1 DEF SelectorFailure
  <2> QED  BY <1>7, <2>2 DEF NoFailure
<1>9. Disturbed(i) <=> textEdits[base.block] # <<>> /\ ~Holds(now, text)
  <2>1. Place(i) = now.start
    BY <1>2, PlaceIsStart
  <2> QED  BY <1>1, <1>3, <1>5, <2>1 DEF Disturbed
<1>10. ASSUME textEdits[base.block] = <<>>
       PROVE  Holds(now, text)
  <2>1. PICK before : before = TextOf(document, base.block)
    OBVIOUS
  <2>2. SelectorFailure(base, before, revision) = NoFailure
    BY <1>1, <2>1, CheckedDocument DEF IInv, Typed, Valid
  <2>3. /\ IsSuffix(base.prefix, Slice(before, 0, base.start))
        /\ IsPrefix(base.suffix, Slice(before, base.end, Len(before)))
    BY <2>2 DEF SelectorFailure, NoFailure
  <2>4. Boundary(before, base.start) /\ Boundary(before, base.end)
    BY <2>2, CheckedSelector
  <2>5. text = before /\ now.start = base.start /\ now.end = base.end
    BY <1>1, <1>2, <1>3, <1>10, <2>1, UneditedStays
  <2> QED  BY <2>3, <2>4, <2>5
<1> HIDE DEF Holds
<1> QED  BY <1>1, <1>2, <1>3, <1>6, <1>7, <1>8, <1>9, <1>10

(* finalizeCandidate: a Patch whose operations were all accepted is refused *)
(* exactly when its document has grown too long or a protection in a block  *)
(* it edited has lost a grapheme boundary or its quoted context, whatever   *)
(* Intl.Segmenter makes of any text.                                        *)
THEOREM PlainPatchesAreCommitted == Spec => []PlainPatchesCommit
<1>1. IInv => PlainPatchesCommit
  <2> SUFFICES ASSUME IInv, Finalizing
               PROVE  FinalFailure = NoFailure <=>
                        /\ Len(candidate.content) <= MaxBlocks
                        /\ \A i \in DOMAIN document.protections : ~Disturbed(i)
    BY DEF PlainPatchesCommit
  <2>1. Typed /\ Whole /\ Guarded
    BY DEF IInv
  <2>2. /\ candidate.content \in Seq(TextBlock) /\ Len(candidate.content) \in Nat
        /\ Len(candidate.content) # 0 /\ DistinctIds(candidate.content)
        /\ DOMAIN document.protections = 1..Len(document.protections)
        /\ Len(candidate.protections) = Len(document.protections)
    BY <2>1, DocumentIs DEF Typed, Whole, Guarded
  <2>3. /\ Final \in PromptDocument /\ Final.content = candidate.content
        /\ Len(Final.protections) = Len(document.protections)
        /\ DOMAIN Final.protections = 1..Len(document.protections)
        /\ \A i \in 1..Len(document.protections) :
             Final.protections[i] = [candidate.protections[i] EXCEPT !.revision = revision + 1]
    BY <2>1, <2>2, FinalIsADocument
  <2>4. \A id : TextOf(Final, id) = TextOf(candidate, id) /\ Ids(Final) = Ids(candidate)
    BY <2>3 DEF Ids, TextOf, IndexOf
  <2>5. Cardinality(Ids(Final)) = Len(Final.content)
    BY <2>2, <2>3, DistinctIsCounted DEF Ids
  <2>6. ASSUME NEW i \in 1..Len(document.protections)
        PROVE  LET sel == Final.protections[i]
               IN /\ sel.block \in Ids(Final)
                  /\ SelectorFailure(sel, TextOf(Final, sel.block), revision + 1) = NoFailure
                       <=> ~Disturbed(i)
    <3>1. document.protections[i].block \in Ids(candidate)
      BY ProtectionStands
    <3>2. PICK sel : sel = [candidate.protections[i] EXCEPT !.revision = revision + 1]
      OBVIOUS
    <3>3. /\ sel.block = document.protections[i].block
          /\ SelectorFailure(sel, TextOf(candidate, sel.block), revision + 1) = NoFailure
               <=> ~Disturbed(i)
      BY <3>2, UndisturbedIsSound
    <3>4. Final.protections[i] = sel
      BY <2>3, <3>2
    <3> QED  BY <2>4, <3>1, <3>3, <3>4
  <2>7. ASSUME Len(candidate.content) <= MaxBlocks,
               \A i \in DOMAIN document.protections : ~Disturbed(i)
        PROVE  FinalFailure = NoFailure
    <3>1. Len(Final.content) \in 1..MaxBlocks
      BY <2>2, <2>3, <2>7, MaxBlocksAssumption
    <3>2. Failing(Final, revision + 1) = {}
      BY <2>2, <2>3, <2>6, <2>7 DEF Failing, ProtectionFailure
    <3> QED  BY <2>5, <3>1, <3>2 DEF FinalFailure, DocumentFailure
  <2>8. ASSUME FinalFailure = NoFailure
        PROVE  /\ Len(candidate.content) <= MaxBlocks
               /\ \A i \in DOMAIN document.protections : ~Disturbed(i)
    <3>1. /\ Len(Final.content) \in 1..MaxBlocks
          /\ \A i \in 1..Len(Final.protections) :
               LET sel == Final.protections[i]
               IN SelectorFailure(sel, TextOf(Final, sel.block), revision + 1) = NoFailure
      BY <2>3, <2>8, CheckedDocument DEF FinalFailure
    <3>2. Len(candidate.content) <= MaxBlocks
      BY <2>2, <2>3, <3>1, MaxBlocksAssumption
    <3> QED  BY <2>2, <2>3, <2>6, <3>1, <3>2
  <2> QED  BY <2>7, <2>8
<1> QED  BY <1>1, IInvHolds, PTL

=============================================================================
